------------------------------ MODULE ServoPath ------------------------------
(***************************************************************************)
(* A servo command on its way from the subscription callback of core 0     *)
(* through q_servo to the servo bus of core 1: SampleQueue, whose consumer *)
(* goes on with st.WritePosEx, that is SCS::genWrite and SCS::Ack.         *)
(*                                                                         *)
(* The servos are the environment: one carries a command out, or never     *)
(* gets it, and its reply comes byte by byte at any time, late or with     *)
(* gaps that no timeout waits for, or not at all.  Ack reads single bytes  *)
(* and can time out between any two of them; the next write flushes what   *)
(* has come by then and may meet the rest.  core1_entry ignores what       *)
(* WritePosEx returns, so a command is never sent twice.                   *)
(***************************************************************************)
EXTENDS SampleQueue

CONSTANTS
  Id,           (* for each command, the id in the request                 *)
  States,       (* the state bytes a servo may reply with                  *)
  MaxFailures   (* commands and replies that are lost: bounds the model    *)

(* The callback refuses no identifier, not even 255, which no servo has.   *)
ASSUME IdAssumption == Id \in [1 .. MaxSamples -> 0 .. 255]
ASSUME StatesAssumption == States \subseteq 0 .. 255
ASSUME MaxFailuresAssumption == MaxFailures \in Nat

VARIABLES
  busPc,     (* where WritePosEx is                                        *)
  rx,        (* the receive FIFO of uart0                                  *)
  due,       (* what the servos have still to send                         *)
  got,       (* what checkHead has read, then bBuf of Ack                  *)
  target,    (* the last command a servo has carried out                   *)
  missed,    (* ghost: the last command no servo has got                   *)
  failures

busVars == << busPc, rx, due, got, target, missed, failures >>

Broadcast == 254

(* u8 ~(n).                                                                *)
CheckSum(n) == 255 - (n % 256)

(* The commands a servo replies to.                                        *)
Answered == {s \in 1 .. MaxSamples : Id[s] < Broadcast}

(* A byte, and as ghosts the command it replies to and its place there.    *)
Byte == [val : 0 .. 255, of : Answered, at : 1 .. 6]

(* The reply to command s.                                                 *)
Reply(s, state) ==
  LET At(i, v) == [val |-> v, of |-> s, at |-> i]
  IN  << At(1, 255), At(2, 255), At(3, Id[s]), At(4, 2), At(5, state),
         At(6, CheckSum(Id[s] + 2 + state)) >>

ServoInit ==
  /\ Init
  /\ busPc = "none"
  /\ rx = << >> /\ due = << >> /\ got = << >>
  /\ target = 0 /\ missed = 0
  /\ failures = 0

-----------------------------------------------------------------------------
(* subscription_callback_servo on core 0: an angle of up to 180 is queued  *)
(* and answered with true, any other answered with false.                  *)

Accept == Producer /\ UNCHANGED busVars

Refuse == prodPc = "idle" /\ UNCHANGED << vars, busVars >>

-----------------------------------------------------------------------------
(* The end of a turn of core1_entry.                                       *)

Fetch == busPc = "none" /\ (DrainBegin \/ DrainRemove) /\ UNCHANGED busVars

(* If there is a command, WritePosEx is called with it.                    *)
Fetched ==
  /\ DrainReturn
  /\ busPc' = IF has THEN "flush" ELSE "none"
  /\ UNCHANGED << rx, due, got, target, missed, failures >>

(* rFlushSCS: whatever has come is thrown away, a part of a reply as well. *)
Flush ==
  /\ busPc = "flush"
  /\ rx' = << >>
  /\ busPc' = "send"
  /\ UNCHANGED << vars, due, got, target, missed, failures >>

(* Ack reads a reply unless the command is for all servos.                 *)
AfterSend == IF Id[handled] = Broadcast THEN "none" ELSE "head"

(* writeBuf: the servo gets the command and has a reply to send; a command *)
(* for all servos is not replied to.                                       *)
Send ==
  /\ busPc = "send"
  /\ Id[handled] # 255
  /\ target' = handled
  /\ IF Id[handled] = Broadcast
     THEN due' = due
     ELSE \E state \in States : due' = due \o Reply(handled, state)
  /\ busPc' = AfterSend
  /\ UNCHANGED << vars, rx, got, missed, failures >>

(* The command is lost on its way, or there is no such servo, as there is  *)
(* none for 255.                                                           *)
SendLost ==
  /\ busPc = "send"
  /\ IF Id[handled] = 255
     THEN failures' = failures
     ELSE failures < MaxFailures /\ failures' = failures + 1
  /\ missed' = handled
  /\ busPc' = AfterSend
  /\ UNCHANGED << vars, rx, due, got, target >>

-----------------------------------------------------------------------------
(* Ack.                                                                    *)

(* The last two bytes read are a head.                                     *)
EndsInHead(bytes) ==
  /\ Len(bytes) > 1
  /\ bytes[Len(bytes) - 1].val = 255 /\ bytes[Len(bytes)].val = 255

(* One turn of checkHead: any two neighbours of value 0xff are a head, and *)
(* the eleventh byte without one is the last.                              *)
ReadHead ==
  /\ busPc = "head"
  /\ rx # << >>
  /\ rx' = Tail(rx)
  /\ LET read == Append(got, Head(rx))
     IN  IF EndsInHead(read)
         THEN busPc' = "body" /\ got' = << >>
         ELSE IF Len(read) > 10 THEN busPc' = "none" /\ got' = << >>
                                ELSE busPc' = "head" /\ got' = read
  /\ UNCHANGED << vars, due, target, missed, failures >>

(* One turn of readSCS(bBuf, 4).                                           *)
ReadBody ==
  /\ busPc = "body"
  /\ rx # << >>
  /\ rx' = Tail(rx)
  /\ got' = Append(got, Head(rx))
  /\ busPc' = IF Len(got) = 3 THEN "check" ELSE "body"
  /\ UNCHANGED << vars, due, target, missed, failures >>

(* Mutant: the identifier is not compared.                                 *)
AcknowledgedAnyId ==
  /\ got[2].val = 2
  /\ CheckSum(got[1].val + got[2].val + got[3].val) = got[4].val

(* What makes Ack return 1.                                                *)
Acknowledged ==
  /\ got[1].val = Id[handled]
  /\ got[2].val = 2
  /\ CheckSum(got[1].val + got[2].val + got[3].val) = got[4].val

(* Ack returns whether Acknowledged holds; core1_entry does not look.      *)
Check ==
  /\ busPc = "check"
  /\ busPc' = "none"
  /\ got' = << >>
  /\ UNCHANGED << vars, rx, due, target, missed, failures >>

(* Mutant: readSCS waits until a byte comes.                               *)
TimeOutNever ==
  /\ busPc \in {"head", "body"}
  /\ rx = << >>
  /\ UNCHANGED << vars, busVars >>

(* readSCS has waited IOTimeOut without a byte to read: Ack returns 0 and  *)
(* forgets what it has read.                                               *)
TimeOut ==
  /\ busPc \in {"head", "body"}
  /\ rx = << >>
  /\ busPc' = "none"
  /\ got' = << >>
  /\ UNCHANGED << vars, rx, due, target, missed, failures >>

-----------------------------------------------------------------------------
(* The servos (external).                                                  *)

Arrive ==
  /\ due # << >>
  /\ rx' = Append(rx, Head(due))
  /\ due' = Tail(due)
  /\ UNCHANGED << vars, busPc, got, target, missed, failures >>

(* A reply its servo has not begun to send is lost.                        *)
ReplyLost ==
  /\ failures < MaxFailures
  /\ failures' = failures + 1
  /\ due # << >> /\ Head(due).at = 1
  /\ due' = SubSeq(due, 7, Len(due))
  /\ UNCHANGED << vars, busPc, rx, got, target, missed >>

-----------------------------------------------------------------------------

Bus == Flush \/ Send \/ SendLost \/ ReadHead \/ ReadBody \/ Check \/ TimeOut

Servo == Arrive \/ ReplyLost

ServoNext == Accept \/ Refuse \/ Fetch \/ Fetched \/ Bus \/ Servo

ServoSpec == ServoInit /\ [][ServoNext]_<<vars, busVars>>

(* Both cores go on; neither commands nor replies need come.               *)
ServoFairSpec ==
  /\ ServoSpec
  /\ WF_<<vars, busVars>>(Fetch \/ Fetched \/ Bus)
  /\ WF_<<vars, busVars>>((Evict \/ Readd) /\ UNCHANGED busVars)

-----------------------------------------------------------------------------

(* Types of the queue and the bus; the consumer is idle while WritePosEx   *)
(* runs, and bBuf does not overflow.                                       *)
ServoTypeOK ==
  /\ TypeOK
  /\ busPc \in {"none", "flush", "send", "head", "body", "check"}
  /\ rx \in Seq(Byte) /\ due \in Seq(Byte) /\ got \in Seq(Byte)
  /\ target \in 0 .. MaxSamples /\ missed \in 0 .. MaxSamples
  /\ failures \in 0 .. MaxFailures
  /\ busPc # "none" => consPc = "idle" /\ handled > 0
  /\ busPc = "body" => Len(got) < 4
  /\ busPc = "check" => Len(got) = 4
  /\ busPc \in {"none", "flush", "send"} => got = << >>

(* The four bytes in bBuf are the body of one reply, and of the servo the  *)
(* running command is for.                                                 *)
Genuine ==
  \E s \in Answered :
    Id[s] = Id[handled] /\ \A i \in 1 .. 4 : got[i].of = s /\ got[i].at = i + 2

(* Ack is not misled by what earlier replies have left, although it may    *)
(* begin to read anywhere in one, and takes a last byte 255 with the first *)
(* byte of the next for a head: it returns 1 only for the body of one      *)
(* reply, unless the command was for 255; and checkHead finds a head       *)
(* within seven bytes, so that its limit of eleven cuts off no reply.      *)
AckGenuine ==
  /\ busPc = "check" /\ Acknowledged /\ Id[handled] # 255 => Genuine
  /\ busPc = "head" => Len(got) < 7

(* Once commands stop coming the last one has been carried out, unless it  *)
(* was itself lost on the bus: no lost, late or half reply of an earlier   *)
(* one keeps core 1 from sending it.                                       *)
ServoSettles ==
  sample = MaxSamples ~> target = MaxSamples \/ missed = MaxSamples

-----------------------------------------------------------------------------
(* The inductive invariant.                                                *)

(* The byte c comes after b: in the same reply, or at the begin of one     *)
(* after the end of another.                                               *)
Follows(b, c) ==
  /\ IF b.at = 6 THEN c.at = 1 ELSE c.at = b.at + 1 /\ c.of = b.of
  /\ b.at = 5 => c.val = CheckSum(Id[c.of] + 2 + b.val)

(* The bytes that are the same in every reply of a servo.                  *)
Plain(b) ==
  /\ b.at \in {1, 2} => b.val = 255
  /\ b.at = 3 => b.val = Id[b.of]
  /\ b.at = 4 => b.val = 2

(* What Ack has read and what it will read is a piece of the servos'       *)
(* replies, whole but for its begin.                                       *)
Stream == got \o (rx \o due)

Chained(bytes) ==
  /\ \A i \in 1 .. Len(bytes) : Plain(bytes[i])
  /\ \A i \in 1 .. Len(bytes) - 1 : Follows(bytes[i], bytes[i + 1])
  /\ bytes # << >> => bytes[Len(bytes)].at = 6

NoHeadYet ==
  busPc = "head" =>
    \A i \in 1 .. Len(got) - 1 : ~(got[i].val = 255 /\ got[i + 1].val = 255)

(* A command that is still to be sent is one the servo has not had.        *)
SentOnce ==
  /\ target <= handled
  /\ busPc \in {"flush", "send"} => target < handled

ServoIInv == ServoTypeOK /\ Chained(Stream) /\ NoHeadYet /\ SentOnce

=============================================================================
