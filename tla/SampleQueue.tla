----------------------------- MODULE SampleQueue -----------------------------
(***************************************************************************)
(* One of the queues between the cores: q_imu and q_gnss (core 1 produces, *)
(* core 0 consumes) or q_servo (core 0 produces, core 1 consumes).  The    *)
(* producer calls queue_push_latest, the consumer queue_try_get_latest.    *)
(*                                                                         *)
(* Both are built from queue_try_add and queue_try_remove of the Pico SDK, *)
(* each of which holds the queue's spin lock and so is one step; nothing   *)
(* holds the lock from one call to the next, so the steps of the two cores *)
(* interleave.  Samples are numbered in the order they are produced.       *)
(***************************************************************************)
EXTENDS Naturals, Sequences

CONSTANTS
  Capacity,    (* the element count given to queue_init                    *)
  MaxSamples   (* how many samples are produced: bounds the model          *)

ASSUME CapacityAssumption == Capacity \in Nat \ {0}
ASSUME MaxSamplesAssumption == MaxSamples \in Nat

VARIABLES
  queue,     (* the queue_t, oldest sample first                           *)
  prodPc,    (* where queue_push_latest is                                 *)
  sample,    (* elem: the last sample the producer has begun to push       *)
  consPc,    (* where queue_try_get_latest is                              *)
  msg,       (* *msg, the sample last removed                              *)
  has,       (* has: the drain has removed a sample                        *)
  handled,   (* the last sample the consumer has acted on                  *)
  posted,    (* ghost: the last sample put in the queue                    *)
  floor      (* ghost: posted when the running drain began                 *)

prodVars == << prodPc, sample, posted >>
consVars == << consPc, msg, has, handled, floor >>
vars == << queue, prodVars, consVars >>

Init ==
  /\ queue = << >>
  /\ prodPc = "idle"
  /\ sample = 0
  /\ consPc = "idle"
  /\ msg = 0
  /\ has = FALSE
  /\ handled = 0
  /\ posted = 0
  /\ floor = 0

-----------------------------------------------------------------------------
(* queue_try_add and queue_try_remove.                                     *)

(* Mutant: one sample too many.                                            *)
HasRoomOffByOne == Len(queue) <= Capacity

HasRoom == Len(queue) < Capacity

(* The producer's queue_try_add of sample s; the result of the call is     *)
(* whether HasRoom held.                                                   *)
TryAdd(s) ==
  IF HasRoom THEN queue' = Append(queue, s) /\ posted' = s
             ELSE UNCHANGED << queue, posted >>

(* Mutant: the newest sample is removed instead of the oldest.             *)
RemovedNewest == IF queue = << >> THEN queue
                 ELSE SubSeq(queue, 1, Len(queue) - 1)

(* Mutant: nothing is removed to make room.                                *)
RemovedNothing == queue

(* What queue_try_remove leaves in the queue.                              *)
Removed == IF queue = << >> THEN queue ELSE Tail(queue)

-----------------------------------------------------------------------------
(* queue_push_latest.                                                      *)

(* A new sample; the first queue_try_add.                                  *)
Push ==
  /\ prodPc = "idle"
  /\ sample < MaxSamples
  /\ sample' = sample + 1
  /\ TryAdd(sample + 1)
  /\ prodPc' = IF HasRoom THEN "idle" ELSE "evict"
  /\ UNCHANGED consVars

(* The queue was full: remove the oldest sample, whatever is there now.    *)
Evict ==
  /\ prodPc = "evict"
  /\ queue' = Removed
  /\ prodPc' = "readd"
  /\ UNCHANGED << sample, posted, consVars >>

(* Mutant: room is made, and the sample dropped all the same.              *)
ReaddForgotten ==
  /\ prodPc = "readd"
  /\ prodPc' = "idle"
  /\ UNCHANGED << queue, sample, posted, consVars >>

(* The second queue_try_add, whose result is ignored.                      *)
Readd ==
  /\ prodPc = "readd"
  /\ TryAdd(sample)
  /\ prodPc' = "idle"
  /\ UNCHANGED << sample, consVars >>

-----------------------------------------------------------------------------
(* queue_try_get_latest, and what the caller does with its result.         *)

(* Mutant: has keeps the value of the previous call.                       *)
DrainBeginStale ==
  /\ consPc = "idle"
  /\ floor' = posted
  /\ consPc' = "drain"
  /\ UNCHANGED << queue, prodVars, msg, has, handled >>

DrainBegin ==
  /\ consPc = "idle"
  /\ has' = FALSE
  /\ floor' = posted
  /\ consPc' = "drain"
  /\ UNCHANGED << queue, prodVars, msg, handled >>

(* One turn of the while loop.                                             *)
DrainRemove ==
  /\ consPc = "drain"
  /\ queue # << >>
  /\ msg' = Head(queue)
  /\ has' = TRUE
  /\ queue' = Removed
  /\ UNCHANGED << prodVars, consPc, handled, floor >>

(* Mutant: the loop is an if, and the first sample removed is returned.    *)
DrainReturnFirst ==
  /\ consPc = "drain"
  /\ queue = << >> \/ has
  /\ handled' = IF has THEN msg ELSE handled
  /\ consPc' = "idle"
  /\ UNCHANGED << queue, prodVars, msg, has, floor >>

(* The queue is empty: return has; the caller publishes the sample, or     *)
(* moves the servo.                                                        *)
DrainReturn ==
  /\ consPc = "drain"
  /\ queue = << >>
  /\ handled' = IF has THEN msg ELSE handled
  /\ consPc' = "idle"
  /\ UNCHANGED << queue, prodVars, msg, has, floor >>

-----------------------------------------------------------------------------

Producer == Push \/ Evict \/ Readd
Consumer == DrainBegin \/ DrainRemove \/ DrainReturn

Next == Producer \/ Consumer

Spec == Init /\ [][Next]_vars

-----------------------------------------------------------------------------

TypeOK ==
  /\ queue \in Seq(1 .. MaxSamples)
  /\ Len(queue) <= Capacity
  /\ prodPc \in {"idle", "evict", "readd"}
  /\ sample \in 0 .. MaxSamples
  /\ consPc \in {"idle", "drain"}
  /\ msg \in 0 .. MaxSamples
  /\ has \in BOOLEAN
  /\ handled \in 0 .. MaxSamples
  /\ posted \in 0 .. MaxSamples
  /\ floor \in 0 .. MaxSamples

(* The sample the consumer would act on if the queue were empty now.       *)
InHand == IF consPc = "drain" /\ has THEN msg ELSE handled

(* queue_push_latest ignores the result of its second queue_try_add, and   *)
(* rightly: when it returns, its sample has been queued.                   *)
PushNeverFails ==
  /\ prodPc = "idle" => posted = sample
  /\ prodPc # "idle" => posted = sample - 1

(* Samples reach the consumer in the order they were produced, each at     *)
(* most once: what it has acted on is older than what it holds, which is   *)
(* older than everything in the queue; the queue holds the newest samples. *)
InOrder ==
  /\ consPc = "drain" /\ has => handled < msg
  /\ InHand + Len(queue) <= posted
  /\ \A i \in 1 .. Len(queue) : queue[i] = posted - Len(queue) + i

(* The newest sample is never lost: it is queued, or the consumer has it,  *)
(* except while the producer is between removing a sample to make room and *)
(* queueing a newer one.                                                   *)
NewestKept == queue = << >> => InHand = posted \/ prodPc = "readd"

(* A call of queue_try_get_latest leaves the consumer with a sample at     *)
(* least as new as the newest queued when the call began, unless it ends   *)
(* inside that same window.                                                *)
FreshOnReturn ==
  [][consPc = "drain" /\ consPc' = "idle" =>
       handled' >= floor \/ prodPc = "readd"]_vars

(* The two calls together are a mailbox for the latest sample.             *)
Mailbox == INSTANCE LatestMailbox WITH newest <- posted, seen <- handled

ImplementsMailbox == Mailbox!MailSpec

-----------------------------------------------------------------------------
(* The inductive invariant.                                                *)

(* After a removal there is room, and only the consumer touches the queue  *)
(* in between.                                                             *)
RoomAfterEvict == prodPc = "readd" => HasRoom

IInv ==
  /\ TypeOK
  /\ PushNeverFails
  /\ prodPc # "idle" => sample > 0
  /\ RoomAfterEvict
  /\ InOrder
  /\ NewestKept
  /\ floor <= posted

=============================================================================
