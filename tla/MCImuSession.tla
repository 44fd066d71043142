---------------------------- MODULE MCImuSession ----------------------------
(* ImuSession with a sensor that may be late once, reset twice and lose    *)
(* the bus twice: the second can hit what core 1 does about the first.     *)
EXTENDS ImuSession

=============================================================================
