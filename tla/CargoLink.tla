------------------------------ MODULE CargoLink ------------------------------
(***************************************************************************)
(* What the SHTP link owes the handlers of sh2.c: the cargoes the sensor   *)
(* has queued reach them one after the other, each whole and once.  A      *)
(* cargo may be spoilt, by a transfer that failed or by a reset in the     *)
(* middle of one; only the reading of a spoilt cargo can hand over         *)
(* anything else, or nothing.                                              *)
(***************************************************************************)
EXTENDS Naturals, Sequences

CONSTANT Cargo   (* every cargo there can be                               *)

VARIABLES
  queued,    (* how many cargoes the sensor has made so far                *)
  pending,   (* those in its queue                                         *)
  spoilt,    (* the ids of the spoilt cargoes                              *)
  payload    (* what was handed over last: a sequence of <<id, unit>>      *)

linkVars == << queued, pending, spoilt, payload >>

Whole(c) == [n \in 1 .. c.size |-> << c.id, n >>]

Ids(q) == {q[i].id : i \in 1 .. Len(q)}

LinkInit ==
  /\ queued \in Nat /\ pending \in Seq(Cargo) /\ Ids(pending) \subseteq 1 .. queued
  /\ spoilt = {} /\ payload = << >>

Queue ==
  /\ queued' = queued + 1
  /\ \E c \in Cargo : c.id = queued' /\ pending' = Append(pending, c)
  /\ UNCHANGED << spoilt, payload >>

Deliver ==
  /\ pending # << >>
  /\ Head(pending).id \notin spoilt
  /\ pending' = Tail(pending)
  /\ payload' = Whole(Head(pending))
  /\ UNCHANGED << queued, spoilt >>

ReadSpoilt ==
  /\ pending # << >>
  /\ Head(pending).id \in spoilt
  /\ pending' \in {pending, Tail(pending)}
  /\ UNCHANGED << queued, spoilt >>

Fail ==
  /\ pending # << >>
  /\ pending' \in {pending, Tail(pending)}
  /\ spoilt' = spoilt \cup {Head(pending).id}
  /\ UNCHANGED << queued, payload >>

(* The sensor starts again with new cargoes.                               *)
Reset ==
  /\ queued' \in Nat /\ queued' > queued
  /\ pending' # << >> /\ Ids(pending') \subseteq queued + 1 .. queued'
  /\ spoilt' \in {spoilt, spoilt \cup {Head(pending').id}}
  /\ UNCHANGED payload

LinkNext == Queue \/ Deliver \/ ReadSpoilt \/ Fail \/ Reset

LinkSpec == LinkInit /\ [][LinkNext]_linkVars

=============================================================================
