----------------------------- MODULE MCServoPath -----------------------------
(* ServoPath with two slots instead of eight and five commands: core 0 can *)
(* find the queue full, lose the race for its oldest slot to core 1, and   *)
(* fill the queue again after it was drained; two losses, of commands or of*)
(* replies.  Servo 253 with its voltage error (bit 0) replies with the     *)
(* checksum 255, which looks like the begin of a head; of the others one   *)
(* command is for another servo, one for none and one for all.             *)
EXTENDS ServoPath

MCId == << 253, 1, 255, 254, 253 >>

MCStates == {0, 1}

=============================================================================
