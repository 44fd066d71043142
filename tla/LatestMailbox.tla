--------------------------- MODULE LatestMailbox ---------------------------
(***************************************************************************)
(* What queue_push_latest and queue_try_get_latest of src/main.cpp promise *)
(* together: one core posts numbered samples, the other fetches the newest *)
(* it can see.  A fetch may skip samples, but it never returns one that is *)
(* not newer than the last it returned, nor one that was never posted.     *)
(***************************************************************************)
EXTENDS Naturals

VARIABLES
  newest,  (* the last sample posted, 0 before the first                   *)
  seen     (* the last sample fetched, 0 before the first                  *)

mailVars == << newest, seen >>

MailInit == newest = 0 /\ seen = 0

Post == newest' = newest + 1 /\ UNCHANGED seen

Fetch ==
  /\ seen' \in seen + 1 .. newest
  /\ UNCHANGED newest

MailNext == Post \/ Fetch

MailSpec == MailInit /\ [][MailNext]_mailVars

=============================================================================
