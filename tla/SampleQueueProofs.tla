-------------------------- MODULE SampleQueueProofs --------------------------
(***************************************************************************)
(* Proofs about SampleQueue and ServoPath, for every capacity and every    *)
(* number of samples and of losses: the queue's type invariant, its safety *)
(* invariants, the action property FreshOnReturn, and that it implements   *)
(* LatestMailbox; that q_servo, with the servo bus behind it, is such a    *)
(* queue, and that SCS::Ack is not misled by what earlier replies leave.   *)
(***************************************************************************)
EXTENDS ServoPath, SequenceTheorems, TLAPS

(* The samples of the queue in order, as the queue gains one at its end.   *)
LEMMA AppendKeepsOrder ==
  ASSUME TypeOK, InOrder, HasRoom, NEW s \in 1 .. MaxSamples, s = posted + 1,
         NEW q, q = Append(queue, s)
  PROVE  /\ q \in Seq(1 .. MaxSamples)
         /\ q # << >>
         /\ Len(q) = Len(queue) + 1
         /\ \A i \in 1 .. Len(q) : q[i] = s - Len(q) + i
<1> Len(queue) \in Nat
  BY LenProperties DEF TypeOK
<1>1. /\ q \in Seq(1 .. MaxSamples)
      /\ q # << >>
      /\ Len(q) = Len(queue) + 1
      /\ \A i \in 1 .. Len(queue) : q[i] = queue[i]
      /\ q[Len(queue) + 1] = s
  BY AppendProperties DEF TypeOK
<1>2. ASSUME NEW i \in 1 .. Len(q) PROVE q[i] = s - Len(q) + i
  <2>1. CASE i = Len(queue) + 1
    BY <2>1, <1>1
  <2>2. CASE i \in 1 .. Len(queue)
    BY <2>2, <1>1 DEF InOrder, TypeOK
  <2>3. QED
    BY <1>1, <2>1, <2>2
<1>3. QED
  BY <1>1, <1>2

(* The same as the queue loses its oldest sample.                          *)
LEMMA TailKeepsOrder ==
  ASSUME TypeOK, InOrder, queue # << >>
  PROVE  /\ Removed \in Seq(1 .. MaxSamples)
         /\ Len(Removed) = Len(queue) - 1
         /\ Len(queue) \in Nat \ {0}
         /\ Head(queue) = posted - Len(queue) + 1
         /\ \A i \in 1 .. Len(Removed) : Removed[i] = posted - Len(Removed) + i
<1>1. Len(queue) \in Nat \ {0}
  BY EmptySeq DEF TypeOK
<1>2. /\ Tail(queue) \in Seq(1 .. MaxSamples)
      /\ Len(Tail(queue)) = Len(queue) - 1
      /\ \A i \in 1 .. Len(Tail(queue)) : Tail(queue)[i] = queue[i + 1]
  BY HeadTailProperties DEF TypeOK
<1>3. Head(queue) = queue[1]
  OBVIOUS
<1>4. \A i \in 1 .. Len(queue) : queue[i] = posted - Len(queue) + i
  BY DEF InOrder
<1>5. Head(queue) = posted - Len(queue) + 1
  BY <1>1, <1>3, <1>4
<1>6. ASSUME NEW i \in 1 .. Len(Tail(queue))
      PROVE  Tail(queue)[i] = posted - Len(Tail(queue)) + i
  BY <1>1, <1>2, <1>4 DEF TypeOK
<1>7. QED
  BY <1>1, <1>2, <1>5, <1>6 DEF Removed

-----------------------------------------------------------------------------

LEMMA InitIInv == Init => IInv
<1> SUFFICES ASSUME Init PROVE IInv
  OBVIOUS
<1>1. Len(queue) = 0 /\ queue \in Seq(1 .. MaxSamples)
  BY EmptySeq DEF Init
<1>2. TypeOK
  <2>1. 0 \in 0 .. MaxSamples /\ 0 <= Capacity
    BY CapacityAssumption, MaxSamplesAssumption
  <2>2. Len(queue) <= Capacity
    BY <1>1, <2>1
  <2>3. QED
    BY <1>1, <2>1, <2>2 DEF Init, TypeOK
<1>3. PushNeverFails /\ RoomAfterEvict /\ NewestKept /\ floor <= posted
  BY DEF Init, PushNeverFails, RoomAfterEvict, NewestKept, InHand
<1>4. InOrder
  BY <1>1 DEF Init, InOrder, InHand
<1>5. QED
  BY <1>2, <1>3, <1>4 DEF IInv, Init

(* One step of queue_push_latest that queues sample s.                     *)
LEMMA AddStep ==
  ASSUME IInv, HasRoom, NEW s \in 1 .. MaxSamples, s = posted + 1,
         queue' = Append(queue, s), posted' = s, sample' = s,
         prodPc' = "idle", UNCHANGED consVars
  PROVE  IInv'
<1> USE DEF IInv
<1>1. /\ queue' \in Seq(1 .. MaxSamples)
      /\ queue' # << >>
      /\ Len(queue') = Len(queue) + 1
      /\ \A i \in 1 .. Len(queue') : queue'[i] = s - Len(queue') + i
  BY AppendKeepsOrder
<1>2. Len(queue) \in Nat
  BY LenProperties DEF TypeOK
<1>3. TypeOK'
  BY <1>1, <1>2, CapacityAssumption DEF TypeOK, HasRoom, consVars
<1>4. InHand' = InHand
  BY DEF InHand, consVars
<1>5. InHand \in Nat
  BY DEF InHand, TypeOK
<1>6. InOrder'
  BY <1>1, <1>2, <1>4, <1>5 DEF InOrder, consVars, TypeOK
<1>7. (PushNeverFails /\ RoomAfterEvict /\ NewestKept /\ floor <= posted)'
  BY <1>1 DEF PushNeverFails, RoomAfterEvict, NewestKept, consVars, TypeOK
<1>8. QED
  BY <1>3, <1>6, <1>7

LEMMA NextIInv == IInv /\ [Next]_vars => IInv'
<1> SUFFICES ASSUME IInv, [Next]_vars PROVE IInv'
  OBVIOUS
<1> USE DEF IInv
<1>t. /\ Len(queue) \in Nat
      /\ sample \in Nat /\ posted \in Nat /\ handled \in Nat /\ msg \in Nat
      /\ InHand \in Nat
  BY LenProperties DEF TypeOK, InHand
<1>1. CASE Push
  <2>1. /\ prodPc = "idle" /\ sample < MaxSamples /\ posted = sample
        /\ sample' = sample + 1
        /\ sample + 1 \in 1 .. MaxSamples
    BY <1>1, <1>t, MaxSamplesAssumption DEF Push, PushNeverFails
  <2>2. CASE HasRoom
    BY <2>1, <2>2, <1>1, AddStep DEF Push, TryAdd
  <2>3. CASE ~HasRoom
    <3>1. prodPc' = "evict" /\ UNCHANGED << queue, posted, consVars >>
      BY <2>3, <1>1 DEF Push, TryAdd
    <3>2. TypeOK'
      BY <3>1, <2>1 DEF TypeOK, consVars
    <3>3. (PushNeverFails /\ RoomAfterEvict)' /\ sample' > 0
      BY <3>1, <2>1, <1>t DEF PushNeverFails, RoomAfterEvict
    <3>4. InHand' = InHand
      BY <3>1 DEF InHand, consVars
    <3>5. (InOrder /\ NewestKept /\ floor <= posted)'
      BY <3>1, <3>4, <2>1 DEF InOrder, NewestKept, consVars
    <3>6. QED
      BY <3>2, <3>3, <3>5
  <2>4. QED
    BY <2>2, <2>3
<1>2. CASE Evict
  <2>1. /\ prodPc = "evict" /\ prodPc' = "readd"
        /\ queue' = Removed
        /\ UNCHANGED << sample, posted, consVars >>
    BY <1>2 DEF Evict
  <2>2. /\ queue' \in Seq(1 .. MaxSamples)
        /\ Len(queue') \in Nat
        /\ Len(queue') < Capacity
        /\ Len(queue') <= Len(queue)
        /\ \A i \in 1 .. Len(queue') : queue'[i] = posted - Len(queue') + i
    <3>1. CASE queue = << >>
      BY <3>1, <2>1, EmptySeq, CapacityAssumption DEF Removed, TypeOK
    <3>2. CASE queue # << >>
      BY <3>2, <2>1, TailKeepsOrder, CapacityAssumption DEF TypeOK
    <3>3. QED
      BY <3>1, <3>2
  <2>3. TypeOK'
    BY <2>1, <2>2, CapacityAssumption DEF TypeOK, consVars
  <2>4. InHand' = InHand
    BY <2>1 DEF InHand, consVars
  <2>5. InOrder'
    BY <2>1, <2>2, <2>4, <1>t DEF InOrder, consVars
  <2>6. (PushNeverFails /\ RoomAfterEvict /\ NewestKept /\ floor <= posted)' /\ sample' > 0
    BY <2>1, <2>2 DEF PushNeverFails, RoomAfterEvict, HasRoom, NewestKept, consVars
  <2>7. QED
    BY <2>3, <2>5, <2>6
<1>3. CASE Readd
  <2>1. /\ prodPc = "readd" /\ prodPc' = "idle"
        /\ TryAdd(sample) /\ HasRoom
        /\ UNCHANGED << sample, consVars >>
    BY <1>3 DEF Readd, RoomAfterEvict
  <2>2. sample = posted + 1 /\ sample \in 1 .. MaxSamples
    BY <2>1, <1>t DEF PushNeverFails, TypeOK
  <2>3. queue' = Append(queue, sample) /\ posted' = sample
    BY <2>1 DEF TryAdd
  <2>4. QED
    BY <2>1, <2>2, <2>3, AddStep
<1>4. CASE DrainBegin
  <2>1. /\ consPc = "idle" /\ consPc' = "drain" /\ has' = FALSE /\ floor' = posted
        /\ UNCHANGED << queue, prodPc, sample, posted, msg, handled >>
    BY <1>4 DEF DrainBegin, prodVars
  <2>2. InHand' = InHand
    BY <2>1 DEF InHand
  <2>3. TypeOK'
    BY <2>1 DEF TypeOK
  <2>4. InOrder'
    BY <2>1, <2>2 DEF InOrder
  <2>5. (PushNeverFails /\ RoomAfterEvict /\ NewestKept /\ floor <= posted)'
        /\ (prodPc' # "idle" => sample' > 0)
    BY <2>1, <2>2, <1>t DEF PushNeverFails, RoomAfterEvict, HasRoom, NewestKept
  <2>6. QED
    BY <2>3, <2>4, <2>5
<1>5. CASE DrainRemove
  <2>1. /\ consPc = "drain" /\ queue # << >>
        /\ msg' = Head(queue) /\ has' = TRUE /\ queue' = Removed
        /\ UNCHANGED << prodPc, sample, posted, consPc, handled, floor >>
    BY <1>5 DEF DrainRemove, prodVars
  <2>2. /\ queue' \in Seq(1 .. MaxSamples)
        /\ Len(queue') = Len(queue) - 1
        /\ Len(queue) \in Nat \ {0}
        /\ msg' = posted - Len(queue) + 1
        /\ \A i \in 1 .. Len(queue') : queue'[i] = posted - Len(queue') + i
    BY <2>1, TailKeepsOrder
  <2>3. msg' > InHand /\ handled <= InHand /\ InHand' = msg'
    BY <2>1, <2>2, <1>t DEF InOrder, InHand
  <2>4. msg' \in 0 .. MaxSamples
    <3>1. posted \in 0 .. MaxSamples
      BY DEF TypeOK
    <3>2. QED
      BY <3>1, <2>2, <2>3, <1>t, MaxSamplesAssumption
  <2>5. TypeOK'
    <3>1. Len(queue') <= Capacity
      BY <2>2, CapacityAssumption DEF TypeOK
    <3>2. QED
      BY <3>1, <2>1, <2>2, <2>4 DEF TypeOK
  <2>6. InOrder'
    BY <2>1, <2>2, <2>3, <2>4, <1>t DEF InOrder
  <2>7. NewestKept'
    <3>1. ASSUME queue' = << >> PROVE InHand' = posted'
      <4>1. Len(queue) = 1
        BY <3>1, <2>2, EmptySeq
      <4>2. msg' = posted
        BY <4>1, <2>2, <1>t
      <4>3. QED
        BY <4>2, <2>1, <2>3
    <3>2. QED
      BY <3>1 DEF NewestKept
  <2>8. (PushNeverFails /\ RoomAfterEvict /\ floor <= posted)' /\ (prodPc' # "idle" => sample' > 0)
    <3>1. RoomAfterEvict'
      BY <2>1, <2>2, CapacityAssumption DEF RoomAfterEvict, HasRoom
    <3>2. QED
      BY <3>1, <2>1 DEF PushNeverFails
  <2>9. QED
    BY <2>5, <2>6, <2>7, <2>8
<1>6. CASE DrainReturn
  <2>1. /\ consPc = "drain" /\ consPc' = "idle"
        /\ handled' = InHand
        /\ UNCHANGED << queue, prodPc, sample, posted, msg, has, floor >>
    BY <1>6 DEF DrainReturn, prodVars, InHand
  <2>2. InHand' = InHand
    BY <2>1 DEF InHand
  <2>3. InHand \in 0 .. MaxSamples
    BY DEF InHand, TypeOK
  <2>4. TypeOK'
    BY <2>1, <2>3 DEF TypeOK
  <2>5. InOrder'
    BY <2>1, <2>2 DEF InOrder
  <2>6. (PushNeverFails /\ RoomAfterEvict /\ NewestKept /\ floor <= posted)'
        /\ (prodPc' # "idle" => sample' > 0)
    BY <2>1, <2>2 DEF PushNeverFails, RoomAfterEvict, HasRoom, NewestKept
  <2>7. QED
    BY <2>4, <2>5, <2>6
<1>7. CASE UNCHANGED vars
  <2>1. InHand' = InHand
    BY <1>7 DEF vars, consVars, InHand
  <2>2. QED
    BY <1>7, <2>1 DEF vars, prodVars, consVars, TypeOK, InOrder, PushNeverFails,
       RoomAfterEvict, HasRoom, NewestKept
<1>8. QED
  BY <1>1, <1>2, <1>3, <1>4, <1>5, <1>6, <1>7 DEF Next, Producer, Consumer

THEOREM Invariance == Spec => []IInv
BY InitIInv, NextIInv, PTL DEF Spec

(* Every variable keeps its type and the queue never exceeds its capacity. *)
THEOREM TypeCorrect == Spec => []TypeOK
BY Invariance, PTL DEF IInv

(* queue_push_latest may ignore the result of its second queue_try_add,    *)
(* whatever the consumer does in between.                                  *)
THEOREM PushSucceeds == Spec => []PushNeverFails
BY Invariance, PTL DEF IInv

(* Samples are acted on in order and at most once.                         *)
THEOREM Order == Spec => []InOrder
BY Invariance, PTL DEF IInv

(* The newest sample is queued or in the consumer's hands, except in the   *)
(* window between the removal and the second queue_try_add.                *)
THEOREM NewestNotLost == Spec => []NewestKept
BY Invariance, PTL DEF IInv

(* A drain returns a sample as new as any queued when it began, unless it  *)
(* ends inside that window.                                                *)
THEOREM Freshness == Spec => FreshOnReturn
<1>1. ASSUME IInv, [Next]_vars, consPc = "drain", consPc' = "idle"
      PROVE  handled' >= floor \/ prodPc = "readd"
  <2>1. DrainReturn
    <3>1. consPc' # consPc
      BY <1>1
    <3>2. QED
      BY <1>1, <3>1 DEF Next, Producer, Consumer, Push, Evict, Readd, DrainBegin,
         DrainRemove, consVars, vars
  <2>2. queue = << >> /\ handled' = InHand
    BY <2>1, <1>1 DEF DrainReturn, InHand
  <2>3. QED
    BY <2>2, <1>1 DEF IInv, NewestKept, TypeOK
<1>2. IInv /\ [Next]_vars =>
        [consPc = "drain" /\ consPc' = "idle" =>
           handled' >= floor \/ prodPc = "readd"]_vars
  BY <1>1
<1>3. QED
  BY <1>2, Invariance, PTL DEF Spec, FreshOnReturn

LEMMA MailboxStep == IInv /\ IInv' /\ [Next]_vars => [Mailbox!MailNext]_(Mailbox!mailVars)
<1> SUFFICES ASSUME IInv, IInv', [Next]_vars
             PROVE  Mailbox!MailNext \/ UNCHANGED << posted, handled >>
  BY DEF Mailbox!mailVars
<1>t. posted \in Nat /\ sample \in Nat /\ handled \in Nat /\ handled' \in Nat /\ msg \in Nat
  BY DEF IInv, TypeOK
<1>1. CASE Producer
  <2>1. UNCHANGED handled
    BY <1>1 DEF Producer, Push, Evict, Readd, consVars
  <2>2. posted' = posted \/ posted' = posted + 1
    BY <1>1, <1>t DEF Producer, Push, Evict, Readd, TryAdd, IInv, PushNeverFails
  <2>3. QED
    BY <2>1, <2>2 DEF Mailbox!MailNext, Mailbox!Post
<1>2. CASE DrainReturn
  <2>1. handled' = InHand /\ UNCHANGED posted
    BY <1>2 DEF DrainReturn, InHand, prodVars
  <2>2. Len(queue) \in Nat
    BY LenProperties DEF IInv, TypeOK
  <2>3. InHand = handled \/ InHand > handled
    BY <1>t DEF InHand, IInv, InOrder
  <2>4. InHand <= posted
    BY <2>2, <1>t, <2>1 DEF IInv, InOrder
  <2>5. QED
    BY <2>1, <2>3, <2>4, <1>t DEF Mailbox!MailNext, Mailbox!Fetch
<1>3. CASE DrainBegin \/ DrainRemove \/ UNCHANGED vars
  BY <1>3 DEF DrainBegin, DrainRemove, vars, prodVars, consVars
<1>4. QED
  BY <1>1, <1>2, <1>3 DEF Next, Consumer

(* For every capacity, the queue with its two calls is a mailbox for the   *)
(* latest sample: nothing is acted on twice, out of order, or before it is *)
(* posted.                                                                 *)
THEOREM Refinement == Spec => ImplementsMailbox
<1>1. Init => Mailbox!MailInit
  BY DEF Init, Mailbox!MailInit
<1>2. QED
  BY <1>1, Invariance, MailboxStep, PTL DEF Spec, ImplementsMailbox, Mailbox!MailSpec

-----------------------------------------------------------------------------
(* The servo path: lemmas about the bytes of the replies.                  *)

LEMMA ByteIs ==
  ASSUME NEW b \in Byte
  PROVE  b.val \in 0 .. 255 /\ b.of \in Answered /\ b.at \in 1 .. 6
  BY DEF Byte

LEMMA CheckSumIs ==
  ASSUME NEW n \in Nat
  PROVE  CheckSum(n) \in 0 .. 255
<1>1. n % 256 \in 0 .. 255
  OBVIOUS
<1> QED
  BY <1>1 DEF CheckSum

LEMMA IdIs ==
  /\ \A s \in 1 .. MaxSamples : Id[s] \in 0 .. 255
  /\ \A s \in Answered : s \in 1 .. MaxSamples /\ Id[s] \in 0 .. 253
<1>1. ASSUME NEW s \in 1 .. MaxSamples PROVE Id[s] \in 0 .. 255
  BY IdAssumption
<1>2. ASSUME NEW s \in Answered PROVE s \in 1 .. MaxSamples /\ Id[s] \in 0 .. 253
  <2>1. s \in 1 .. MaxSamples /\ Id[s] < 254
    BY DEF Answered, Broadcast
  <2>2. PICK n \in 0 .. 255 : n = Id[s]
    BY <1>1, <2>1
  <2> QED
    BY <2>1, <2>2
<1> QED
  BY <1>1, <1>2

LEMMA StreamAssociative ==
  ASSUME NEW r \in Seq(Byte), NEW d \in Seq(Byte), NEW p \in Seq(Byte)
  PROVE  (r \o d) \o p = r \o (d \o p)
  BY ConcatAssociative

(* Where the two halves of a stream are.                                   *)
LEMMA Halves ==
  ASSUME NEW r \in Seq(Byte), NEW d \in Seq(Byte)
  PROVE  /\ r \o d \in Seq(Byte) /\ Len(r \o d) = Len(r) + Len(d)
         /\ Len(r) \in Nat /\ Len(d) \in Nat
         /\ \A i \in 1 .. Len(r) : (r \o d)[i] = r[i]
         /\ \A i \in 1 .. Len(d) : (r \o d)[Len(r) + i] = d[i]
<1>1. /\ r \o d \in Seq(Byte) /\ Len(r \o d) = Len(r) + Len(d)
      /\ \A i \in 1 .. Len(r) + Len(d) :
           (r \o d)[i] = IF i <= Len(r) THEN r[i] ELSE d[i - Len(r)]
  BY ConcatProperties
<1>2. Len(r) \in Nat /\ Len(d) \in Nat
  BY LenProperties
<1>3. ASSUME NEW i \in 1 .. Len(r) PROVE (r \o d)[i] = r[i]
  <2>1. i \in 1 .. Len(r) + Len(d) /\ i <= Len(r)
    BY <1>2
  <2> QED
    BY <1>1, <2>1
<1>4. ASSUME NEW i \in 1 .. Len(d) PROVE (r \o d)[Len(r) + i] = d[i]
  <2>1. Len(r) + i \in 1 .. Len(r) + Len(d) /\ ~(Len(r) + i <= Len(r))
        /\ (Len(r) + i) - Len(r) = i
    BY <1>2
  <2> QED
    BY <1>1, <2>1
<1> QED
  BY <1>1, <1>2, <1>3, <1>4

(* The end of a chain is one.                                              *)
LEMMA ChainedEnd ==
  ASSUME NEW r \in Seq(Byte), NEW d \in Seq(Byte), Chained(r \o d)
  PROVE  Chained(d)
<1> DEFINE s == r \o d
           l == Len(r)
<1>1. /\ s \in Seq(Byte) /\ Len(s) = l + Len(d) /\ l \in Nat /\ Len(d) \in Nat
      /\ \A i \in 1 .. Len(d) : s[l + i] = d[i]
  BY Halves
<1>2. Chained(s)
  OBVIOUS
<1> HIDE DEF s, l
<1>3. ASSUME NEW i \in 1 .. Len(d) PROVE Plain(d[i])
  <2>1. l + i \in 1 .. Len(s)
    BY <1>1
  <2>2. Plain(s[l + i])
    BY <1>2, <2>1 DEF Chained
  <2> QED
    BY <1>1, <2>2
<1>4. ASSUME NEW i \in 1 .. Len(d) - 1 PROVE Follows(d[i], d[i + 1])
  <2>1. /\ l + i \in 1 .. Len(s) - 1 /\ (l + i) + 1 = l + (i + 1)
        /\ i \in 1 .. Len(d) /\ i + 1 \in 1 .. Len(d)
    BY <1>1
  <2>2. Follows(s[l + i], s[(l + i) + 1])
    BY <1>2, <2>1 DEF Chained
  <2> QED
    BY <1>1, <2>1, <2>2
<1>5. ASSUME d # << >> PROVE d[Len(d)].at = 6
  <2>1. Len(d) \in Nat \ {0}
    BY <1>5, EmptySeq
  <2>2. Len(d) \in 1 .. Len(d) /\ Len(s) # 0
    BY <1>1, <2>1
  <2>3. s # << >>
    BY <2>2, EmptySeq
  <2>4. s[Len(s)].at = 6
    BY <1>2, <2>3 DEF Chained
  <2> QED
    BY <1>1, <2>2, <2>4
<1> QED
  BY <1>3, <1>4, <1>5 DEF Chained

(* The begin of a chain is one but for its end.                            *)
LEMMA ChainedBegin ==
  ASSUME NEW r \in Seq(Byte), NEW d \in Seq(Byte), Chained(r \o d)
  PROVE  /\ \A i \in 1 .. Len(r) : Plain(r[i])
         /\ \A i \in 1 .. Len(r) - 1 : Follows(r[i], r[i + 1])
         /\ r # << >> /\ d # << >> => Follows(r[Len(r)], d[1])
         /\ d = << >> => Chained(r)
<1> DEFINE s == r \o d
           l == Len(r)
<1>1. /\ s \in Seq(Byte) /\ Len(s) = l + Len(d) /\ l \in Nat /\ Len(d) \in Nat
      /\ \A i \in 1 .. l : s[i] = r[i]
      /\ \A i \in 1 .. Len(d) : s[l + i] = d[i]
  BY Halves
<1>2. Chained(s)
  OBVIOUS
<1>3. d = << >> => Chained(r)
  BY ConcatEmptySeq
<1> HIDE DEF s
<1>4. ASSUME NEW i \in 1 .. l PROVE Plain(r[i])
  <2>1. i \in 1 .. Len(s)
    BY <1>1
  <2> QED
    BY <1>1, <1>2, <2>1 DEF Chained
<1>5. ASSUME NEW i \in 1 .. l - 1 PROVE Follows(r[i], r[i + 1])
  <2>1. i \in 1 .. Len(s) - 1 /\ i \in 1 .. l /\ i + 1 \in 1 .. l
    BY <1>1
  <2>2. Follows(s[i], s[i + 1])
    BY <1>2, <2>1 DEF Chained
  <2> QED
    BY <1>1, <2>1, <2>2
<1>6. ASSUME r # << >>, d # << >> PROVE Follows(r[l], d[1])
  <2>1. l \in Nat \ {0} /\ Len(d) \in Nat \ {0}
    BY <1>6, EmptySeq
  <2>2. l \in 1 .. Len(s) - 1 /\ l \in 1 .. l /\ 1 \in 1 .. Len(d)
    BY <1>1, <2>1
  <2>3. Follows(s[l], s[l + 1])
    BY <1>2, <2>2 DEF Chained
  <2> QED
    BY <1>1, <2>2, <2>3
<1> QED
  BY <1>3, <1>4, <1>5, <1>6

(* Behind a chain a reply may begin.                                       *)
LEMMA ChainedConcat ==
  ASSUME NEW r \in Seq(Byte), NEW d \in Seq(Byte), Chained(r), Chained(d),
         d # << >> => d[1].at = 1
  PROVE  Chained(r \o d)
<1> DEFINE s == r \o d
           l == Len(r)
<1>1. /\ s \in Seq(Byte) /\ Len(s) = l + Len(d) /\ l \in Nat /\ Len(d) \in Nat
      /\ \A i \in 1 .. l : s[i] = r[i]
      /\ \A i \in 1 .. Len(d) : s[l + i] = d[i]
  BY Halves
<1>2. CASE d = << >>
  <2>1. s = r
    BY <1>2, ConcatEmptySeq
  <2> QED
    BY <2>1
<1>3. CASE r = << >>
  <2>1. s = d
    BY <1>3, ConcatEmptySeq
  <2> QED
    BY <2>1
<1>4. CASE r # << >> /\ d # << >>
  <2> SUFFICES Chained(s)
    OBVIOUS
  <2> HIDE DEF s
  <2>1. l \in Nat \ {0} /\ Len(d) \in Nat \ {0}
    BY <1>4, EmptySeq
  <2> HIDE DEF l
  <2>2. ASSUME NEW i \in 1 .. Len(s) PROVE Plain(s[i])
    <3>1. CASE i <= l
      <4>1. i \in 1 .. l
        BY <1>1, <3>1
      <4> QED
        BY <1>1, <4>1 DEF Chained, l
    <3>2. CASE ~(i <= l)
      <4>1. i - l \in 1 .. Len(d) /\ l + (i - l) = i
        BY <1>1, <3>2
      <4>2. s[i] = d[i - l] /\ Plain(d[i - l])
        BY <1>1, <4>1 DEF Chained
      <4> QED
        BY <4>2
    <3> QED
      BY <3>1, <3>2
  <2>3. ASSUME NEW i \in 1 .. Len(s) - 1 PROVE Follows(s[i], s[i + 1])
    <3>1. CASE i < l
      <4>1. i \in 1 .. l - 1 /\ i \in 1 .. l /\ i + 1 \in 1 .. l
        BY <1>1, <3>1
      <4>2. Follows(r[i], r[i + 1])
        BY <4>1 DEF Chained, l
      <4> QED
        BY <1>1, <4>1, <4>2
    <3>2. CASE i = l
      <4>1. l \in 1 .. l /\ 1 \in 1 .. Len(d)
        BY <1>1, <2>1
      <4>2. s[i] = r[l] /\ s[i + 1] = d[1]
        BY <1>1, <3>2, <4>1
      <4>3. r[l].at = 6 /\ d[1].at = 1
        BY <1>4 DEF Chained, l
      <4> QED
        BY <4>2, <4>3 DEF Follows
    <3>3. CASE i > l
      <4>1. /\ i - l \in 1 .. Len(d) - 1 /\ i - l \in 1 .. Len(d)
            /\ (i - l) + 1 \in 1 .. Len(d)
            /\ l + (i - l) = i /\ l + ((i - l) + 1) = i + 1
        BY <1>1, <3>3
      <4>2. Follows(d[i - l], d[(i - l) + 1])
        BY <4>1 DEF Chained
      <4>3. s[l + (i - l)] = d[i - l] /\ s[l + ((i - l) + 1)] = d[(i - l) + 1]
        BY <1>1, <4>1
      <4> QED
        BY <4>1, <4>2, <4>3
    <3> QED
      BY <1>1, <3>1, <3>2, <3>3
  <2>4. s[Len(s)].at = 6
    <3>1. Len(d) \in 1 .. Len(d) /\ s[Len(s)] = d[Len(d)]
      BY <1>1, <2>1
    <3> QED
      BY <1>4, <3>1 DEF Chained
  <2> QED
    BY <2>2, <2>3, <2>4 DEF Chained
<1> QED
  BY <1>2, <1>3, <1>4

(* A byte on its way changes sides.                                        *)
LEMMA Arrived ==
  ASSUME NEW r \in Seq(Byte), NEW d \in Seq(Byte), d # << >>
  PROVE  /\ Append(r, Head(d)) \in Seq(Byte) /\ Tail(d) \in Seq(Byte)
         /\ Append(r, Head(d)) \o Tail(d) = r \o d
<1> DEFINE h == Head(d)
           e == Tail(d)
           s == Append(r, h)
<1>1. /\ h \in Byte /\ e \in Seq(Byte) /\ Len(e) = Len(d) - 1 /\ h = d[1]
      /\ \A i \in 1 .. Len(e) : e[i] = d[i + 1]
      /\ Len(r) \in Nat /\ Len(d) \in Nat \ {0}
  BY HeadTailProperties, EmptySeq, LenProperties
<1> HIDE DEF h, e
<1>2. /\ s \in Seq(Byte) /\ Len(s) = Len(r) + 1
      /\ \A i \in 1 .. Len(r) : s[i] = r[i]
      /\ s[Len(r) + 1] = h
  BY <1>1, AppendProperties
<1> HIDE DEF s
<1>3. /\ s \o e \in Seq(Byte) /\ Len(s \o e) = Len(s) + Len(e)
      /\ \A i \in 1 .. Len(s) + Len(e) :
           (s \o e)[i] = IF i <= Len(s) THEN s[i] ELSE e[i - Len(s)]
  BY <1>1, <1>2, ConcatProperties
<1>4. /\ r \o d \in Seq(Byte) /\ Len(r \o d) = Len(r) + Len(d)
      /\ \A i \in 1 .. Len(r) + Len(d) :
           (r \o d)[i] = IF i <= Len(r) THEN r[i] ELSE d[i - Len(r)]
  BY ConcatProperties
<1>5. Len(s \o e) = Len(r \o d)
  BY <1>1, <1>2, <1>3, <1>4
<1>6. ASSUME NEW i \in 1 .. Len(s \o e) PROVE (s \o e)[i] = (r \o d)[i]
  <2>1. CASE i <= Len(r)
    BY <1>1, <1>2, <1>3, <1>4, <1>5, <2>1
  <2>2. CASE i = Len(r) + 1
    BY <1>1, <1>2, <1>3, <1>4, <1>5, <2>2
  <2>3. CASE i > Len(r) + 1
    <3>1. i - Len(s) \in 1 .. Len(e) /\ (i - Len(s)) + 1 = i - Len(r)
      BY <1>1, <1>2, <1>3, <2>3
    <3>2. i \in 1 .. Len(s) + Len(e) /\ i \in 1 .. Len(r) + Len(d)
          /\ ~(i <= Len(s)) /\ ~(i <= Len(r))
      BY <1>1, <1>2, <1>3, <2>3
    <3>3. (s \o e)[i] = e[i - Len(s)] /\ (r \o d)[i] = d[i - Len(r)]
      BY <1>3, <1>4, <3>2
    <3> QED
      BY <1>1, <3>1, <3>3
  <2>4. i \in Nat /\ Len(r) \in Nat
    BY <1>1, <1>4, <1>5
  <2>5. i <= Len(r) \/ i = Len(r) + 1 \/ i > Len(r) + 1
    BY <2>4
  <2> QED
    BY <2>1, <2>2, <2>3, <2>5
<1>7. s \o e = r \o d
  BY <1>3, <1>4, <1>5, <1>6, SeqEqual
<1> QED
  BY <1>1, <1>2, <1>7 DEF s, e, h

(* A reply.                                                                *)
LEMMA ReplyIs ==
  ASSUME NEW s \in Answered, NEW state \in States
  PROVE  /\ Reply(s, state) \in Seq(Byte)
         /\ Chained(Reply(s, state)) /\ Reply(s, state)[1].at = 1
<1> DEFINE c == CheckSum(Id[s] + 2 + state)
           At(i, v) == [val |-> v, of |-> s, at |-> i]
           p == << At(1, 255), At(2, 255), At(3, Id[s]), At(4, 2), At(5, state), At(6, c) >>
<1>1. Id[s] \in 0 .. 253 /\ state \in 0 .. 255
  BY IdIs, StatesAssumption
<1>2. c \in 0 .. 255
  <2>1. Id[s] + 2 + state \in Nat
    BY <1>1
  <2> QED
    BY <2>1, CheckSumIs
<1>3. c = CheckSum(Id[s] + 2 + state) /\ p = Reply(s, state)
  BY DEF Reply
<1> HIDE DEF c
<1>5. /\ At(1, 255) \in Byte /\ At(2, 255) \in Byte /\ At(3, Id[s]) \in Byte
      /\ At(4, 2) \in Byte /\ At(5, state) \in Byte /\ At(6, c) \in Byte
  BY <1>1, <1>2 DEF Byte
<1>6. p \in Seq(Byte) /\ Len(p) = 6
  BY <1>5
<1>7. /\ p[1] = At(1, 255) /\ p[2] = At(2, 255) /\ p[3] = At(3, Id[s])
      /\ p[4] = At(4, 2) /\ p[5] = At(5, state) /\ p[6] = At(6, c)
  OBVIOUS
<1> HIDE DEF p
<1>8. ASSUME NEW i \in 1 .. 6 PROVE p[i].of = s /\ p[i].at = i
  BY <1>7
<1>9. /\ p[1].val = 255 /\ p[2].val = 255 /\ p[3].val = Id[s] /\ p[4].val = 2
      /\ p[5].val = state /\ p[6].val = c
  BY <1>7
<1>10. ASSUME NEW i \in 1 .. 6 PROVE Plain(p[i])
  BY <1>8, <1>9 DEF Plain
<1>11. ASSUME NEW i \in 1 .. 5 PROVE Follows(p[i], p[i + 1])
  <2>1. i \in 1 .. 6 /\ i + 1 \in 1 .. 6
    OBVIOUS
  <2>2. /\ p[i].at = i /\ p[i + 1].at = i + 1 /\ p[i].of = s /\ p[i + 1].of = s
    BY <1>8, <2>1
  <2>3. i = 5 => p[i + 1].val = CheckSum(Id[s] + 2 + p[i].val)
    BY <1>3, <1>9
  <2> QED
    BY <2>2, <2>3 DEF Follows
<1>12. p[Len(p)].at = 6
  BY <1>6, <1>8
<1>13. Chained(p)
  BY <1>6, <1>10, <1>11, <1>12 DEF Chained
<1> QED
  BY <1>3, <1>6, <1>8, <1>13

(* A reply that has begun is there to its end.                             *)
LEMMA ReplyWhole ==
  ASSUME NEW d \in Seq(Byte), Chained(d), d # << >>, d[1].at = 1
  PROVE  /\ Len(d) \in Nat /\ Len(d) > 5 /\ d[6].at = 6
         /\ Len(d) > 6 => d[7].at = 1
<1>1. Len(d) \in Nat \ {0}
  BY EmptySeq
<1>2. ASSUME NEW i \in 1 .. Len(d), d[i].at # 6
      PROVE  i + 1 \in 1 .. Len(d) /\ d[i + 1].at = d[i].at + 1
  <2>1. i # Len(d)
    BY <1>2 DEF Chained
  <2>2. i \in 1 .. Len(d) - 1 /\ i + 1 \in 1 .. Len(d)
    BY <1>1, <2>1
  <2>3. Follows(d[i], d[i + 1])
    BY <2>2 DEF Chained
  <2> QED
    BY <1>2, <2>2, <2>3 DEF Follows
<1>3. 1 \in 1 .. Len(d)
  BY <1>1
<1>4. 2 \in 1 .. Len(d) /\ d[2].at = 2
  BY <1>2, <1>3
<1>5. 3 \in 1 .. Len(d) /\ d[3].at = 3
  BY <1>2, <1>4
<1>6. 4 \in 1 .. Len(d) /\ d[4].at = 4
  BY <1>2, <1>5
<1>7. 5 \in 1 .. Len(d) /\ d[5].at = 5
  BY <1>2, <1>6
<1>8. 6 \in 1 .. Len(d) /\ d[6].at = 6
  BY <1>2, <1>7
<1>9. ASSUME Len(d) > 6 PROVE d[7].at = 1
  <2>1. 6 \in 1 .. Len(d) - 1
    BY <1>1, <1>9
  <2>2. Follows(d[6], d[6 + 1])
    BY <2>1 DEF Chained
  <2> QED
    BY <1>8, <2>2 DEF Follows
<1> QED
  BY <1>1, <1>8, <1>9

(* A reply of which nothing has been sent is lost: what stood around it    *)
(* stands side by side.                                                    *)
LEMMA ChainedLost ==
  ASSUME NEW r \in Seq(Byte), NEW d \in Seq(Byte), Chained(r \o d),
         d # << >>, Head(d).at = 1
  PROVE  /\ SubSeq(d, 7, Len(d)) \in Seq(Byte)
         /\ Chained(r \o SubSeq(d, 7, Len(d)))
<1> DEFINE e == SubSeq(d, 7, Len(d))
           b == SubSeq(d, 1, 6)
<1>1. Chained(d) /\ d[1].at = 1
  BY ChainedEnd
<1>2. /\ Len(d) \in Nat /\ Len(d) > 5
      /\ Len(d) > 6 => d[7].at = 1
  BY <1>1, ReplyWhole
<1>3. \A i \in 1 .. Len(d) : d[i] \in Byte
  BY ElementOfSeq
<1>4. /\ e \in Seq(Byte) /\ Len(e) = (IF 7 <= Len(d) THEN Len(d) - 7 + 1 ELSE 0)
      /\ \A i \in 1 .. Len(d) - 7 + 1 : e[i] = d[7 + i - 1]
  <2>1. \A i \in 7 .. Len(d) : d[i] \in Byte
    BY <1>2, <1>3
  <2> QED
    BY <1>2, <2>1, SubSeqProperties
<1>5. b \in Seq(Byte)
  <2>1. \A i \in 1 .. 6 : d[i] \in Byte
    BY <1>2, <1>3
  <2> QED
    BY <2>1, SubSeqProperties
<1>6. b \o e = d
  <2>1. /\ 1 \in 1 .. Len(d) + 1 /\ 6 \in 1 - 1 .. Len(d) /\ Len(d) \in 6 .. Len(d)
    BY <1>2
  <2>2. SubSeq(d, 1, 6) \o SubSeq(d, 6 + 1, Len(d)) = SubSeq(d, 1, Len(d))
    BY <2>1, ConcatAdjacentSubSeq
  <2>3. SubSeq(d, 1, Len(d)) = d
    BY SubSeqFull
  <2> QED
    BY <2>2, <2>3
<1>7. ASSUME e # << >> PROVE e[1].at = 1
  <2>1. Len(e) \in Nat \ {0}
    BY <1>4, <1>7, EmptySeq
  <2>2. Len(d) > 6
    BY <1>2, <1>4, <2>1
  <2>3. e[1] = d[7]
    BY <1>2, <1>4, <2>2
  <2> QED
    BY <1>2, <2>2, <2>3
<1> HIDE DEF e, b
<1>8. Chained(e)
  BY <1>1, <1>4, <1>5, <1>6, ChainedEnd
<1>9. Chained(r)
  <2>1. /\ \A i \in 1 .. Len(r) : Plain(r[i])
        /\ \A i \in 1 .. Len(r) - 1 : Follows(r[i], r[i + 1])
        /\ r # << >> => Follows(r[Len(r)], d[1])
    BY ChainedBegin
  <2>2. ASSUME r # << >> PROVE r[Len(r)].at = 6
    <3>1. r[Len(r)].at \in 1 .. 6
      <4>1. Len(r) \in Nat \ {0}
        BY <2>2, EmptySeq
      <4>2. Len(r) \in 1 .. Len(r)
        BY <4>1
      <4>3. r[Len(r)] \in Byte
        BY <4>2, ElementOfSeq
      <4> QED
        BY <4>3, ByteIs
    <3>2. Follows(r[Len(r)], d[1])
      BY <2>1, <2>2
    <3> QED
      BY <1>1, <3>1, <3>2 DEF Follows
  <2> QED
    BY <2>1, <2>2 DEF Chained
<1>10. Chained(r \o e)
  BY <1>4, <1>7, <1>8, <1>9, ChainedConcat
<1> QED
  BY <1>4, <1>10 DEF e

-----------------------------------------------------------------------------
(* The servo path: what Ack can read.                                      *)

(* No two check sums meet by chance in a body read one byte too late.      *)
LEMMA SmallSum ==
  \A k \in Nat : k < 256 => CheckSum(k) = 255 - k
<1> TAKE k \in Nat
<1> HAVE k < 256
<1>1. k % 256 = k
  OBVIOUS
<1> QED
  BY <1>1 DEF CheckSum

LEMMA LargeSum ==
  \A k \in Nat : 255 < k /\ k < 512 => CheckSum(k) = 511 - k
<1> TAKE k \in Nat
<1> HAVE 255 < k /\ k < 512
<1>1. k % 256 = k - 256
  OBVIOUS
<1> QED
  BY <1>1 DEF CheckSum

LEMMA Shifted ==
  \A n, v \in Nat :
    n < 255 /\ v < 256 /\ CheckSum(v + 4) = 255 => v # CheckSum(n + 4)
<1> TAKE n, v \in Nat
<1> HAVE n < 255 /\ v < 256 /\ CheckSum(v + 4) = 255
<1>1. v = 252
  <2>1. CASE v < 252
    <3>1. v + 4 \in Nat /\ v + 4 < 256
      BY <2>1
    <3>2. CheckSum(v + 4) = 255 - (v + 4)
      BY <3>1, SmallSum
    <3> QED
      BY <3>2
  <2>2. CASE v > 251
    <3>1. v + 4 \in Nat /\ 255 < v + 4 /\ v + 4 < 512
      BY <2>2
    <3>2. CheckSum(v + 4) = 511 - (v + 4)
      BY <3>1, LargeSum
    <3> QED
      BY <3>2
  <2> QED
    BY <2>1, <2>2
<1>2. CASE n < 252
  <2>1. n + 4 \in Nat /\ n + 4 < 256
    BY <1>2
  <2>2. CheckSum(n + 4) = 255 - (n + 4)
    BY <2>1, SmallSum
  <2> QED
    BY <1>1, <2>2
<1>3. CASE n > 251
  <2>1. n + 4 \in Nat /\ 255 < n + 4 /\ n + 4 < 512
    BY <1>3
  <2>2. CheckSum(n + 4) = 511 - (n + 4)
    BY <2>1, LargeSum
  <2> QED
    BY <1>1, <1>3, <2>2
<1> QED
  BY <1>2, <1>3

(* Four bytes in a row that Ack takes for a reply of the servo id are the  *)
(* body of one.                                                            *)
LEMMA FourAcked ==
  \A id \in Nat : \A b, c, d, e \in Byte :
    /\ id < 255 /\ Plain(b) /\ Plain(c) /\ Plain(d) /\ Plain(e)
    /\ Follows(b, c) /\ Follows(c, d) /\ Follows(d, e)
    /\ b.val = id /\ c.val = 2 /\ CheckSum(b.val + c.val + d.val) = e.val
    => /\ b.at = 3 /\ c.at = 4 /\ d.at = 5 /\ e.at = 6
       /\ c.of = b.of /\ d.of = b.of /\ e.of = b.of /\ Id[b.of] = id
<1> TAKE id \in Nat
<1> TAKE b, c, d, e \in Byte
<1> HAVE /\ id < 255 /\ Plain(b) /\ Plain(c) /\ Plain(d) /\ Plain(e)
         /\ Follows(b, c) /\ Follows(c, d) /\ Follows(d, e)
         /\ b.val = id /\ c.val = 2 /\ CheckSum(b.val + c.val + d.val) = e.val
<1>1. CASE b.at \in {1, 2}
  <2>1. b.val = 255
    BY <1>1 DEF Plain
  <2> QED
    BY <2>1
<1>2. CASE b.at = 3
  <2>1. c.at = 4 /\ c.of = b.of
    BY <1>2 DEF Follows
  <2>2. d.at = 5 /\ d.of = b.of
    BY <2>1 DEF Follows
  <2>3. e.at = 6 /\ e.of = b.of
    BY <2>2 DEF Follows
  <2>4. b.val = Id[b.of]
    BY <1>2, Zenon DEF Plain
  <2> QED
    BY <1>2, <2>1, <2>2, <2>3, <2>4
<1>3. CASE b.at = 4
  <2>1. c.at = 5
    BY <1>3 DEF Follows
  <2>2. d.at = 6 /\ d.val = CheckSum(Id[d.of] + 2 + 2)
    BY <2>1 DEF Follows
  <2>3. e.at = 1
    BY <2>2 DEF Follows
  <2>4. b.val = 2 /\ e.val = 255
    BY <1>3, <2>3 DEF Plain
  <2>5. d.of \in Answered /\ d.val \in 0 .. 255
    BY ByteIs
  <2>6. Id[d.of] \in 0 .. 253
    BY <2>5, IdIs
  <2>7. PICK n \in Nat : n < 255 /\ n = Id[d.of]
    BY <2>6
  <2>8. PICK v \in Nat : v < 256 /\ v = d.val
    BY <2>5
  <2>9. CheckSum(v + 4) = 255
    <3>1. b.val + c.val + d.val = v + 4
      BY <2>4, <2>8
    <3> QED
      BY <2>4, <3>1, Zenon
  <2>10. v = CheckSum(n + 4)
    <3>1. Id[d.of] + 2 + 2 = n + 4
      BY <2>7
    <3> QED
      BY <2>2, <2>8, <3>1, Zenon
  <2>11. v # CheckSum(n + 4)
    BY <2>7, <2>8, <2>9, Shifted
  <2> QED
    BY <2>10, <2>11, Zenon
<1>4. CASE b.at = 5
  <2>1. c.at = 6
    BY <1>4 DEF Follows
  <2>2. d.at = 1
    BY <2>1 DEF Follows
  <2>3. e.at = 2
    BY <2>2 DEF Follows
  <2>4. d.val = 255 /\ e.val = 255
    BY <2>2, <2>3 DEF Plain
  <2>5. CheckSum(id + 2 + 255) = 255
    BY <2>4
  <2>6. 255 - ((id + 2 + 255) % 256) = 255
    BY <2>5 DEF CheckSum
  <2> QED
    BY <2>6
<1>5. CASE b.at = 6
  <2>1. c.at = 1
    BY <1>5 DEF Follows
  <2>2. c.val = 255
    BY <2>1 DEF Plain
  <2> QED
    BY <2>2
<1> QED
  BY <1>1, <1>2, <1>3, <1>4, <1>5, ByteIs

LEMMA FourBytes ==
  ASSUME NEW g \in Seq(Byte), Len(g) = 4
  PROVE  g[1] \in Byte /\ g[2] \in Byte /\ g[3] \in Byte /\ g[4] \in Byte
<1>1. 1 \in 1 .. Len(g) /\ 2 \in 1 .. Len(g) /\ 3 \in 1 .. Len(g) /\ 4 \in 1 .. Len(g)
  OBVIOUS
<1>2. \A i \in 1 .. Len(g) : g[i] \in Byte
  BY ElementOfSeq
<1> QED
  BY <1>1, <1>2

LEMMA IdBelow ==
  ASSUME NEW s \in 1 .. MaxSamples, Id[s] # 255
  PROVE  Id[s] \in Nat /\ Id[s] < 255
<1>1. Id[s] \in 0 .. 255
  BY IdIs
<1> QED
  BY <1>1

LEMMA AckedIsGenuine ==
  /\ got \in Seq(Byte) /\ Len(got) = 4
  /\ \A i \in 1 .. 4 : Plain(got[i])
  /\ \A i \in 1 .. 3 : Follows(got[i], got[i + 1])
  /\ handled \in 1 .. MaxSamples /\ Id[handled] # 255 /\ Acknowledged
  => Genuine
<1>0. HAVE /\ got \in Seq(Byte) /\ Len(got) = 4
           /\ \A i \in 1 .. 4 : Plain(got[i])
           /\ \A i \in 1 .. 3 : Follows(got[i], got[i + 1])
           /\ handled \in 1 .. MaxSamples /\ Id[handled] # 255 /\ Acknowledged
<1>1. PICK b, c, d, e \in Byte : b = got[1] /\ c = got[2] /\ d = got[3] /\ e = got[4]
  BY <1>0, FourBytes
<1>2. PICK id \in Nat : id = Id[handled] /\ id < 255
  <2>1. Id[handled] \in Nat /\ Id[handled] < 255
    BY <1>0, IdBelow, Zenon
  <2> QED
    BY <2>1
<1>3. Plain(b) /\ Plain(c) /\ Plain(d) /\ Plain(e)
  <2>1. 1 \in 1 .. 4 /\ 2 \in 1 .. 4 /\ 3 \in 1 .. 4 /\ 4 \in 1 .. 4
    OBVIOUS
  <2>2. Plain(got[1]) /\ Plain(got[2]) /\ Plain(got[3]) /\ Plain(got[4])
    BY <1>0, <2>1
  <2> QED
    BY <1>1, <2>2, Zenon
<1>4. Follows(b, c) /\ Follows(c, d) /\ Follows(d, e)
  <2>1. 1 \in 1 .. 3 /\ 2 \in 1 .. 3 /\ 3 \in 1 .. 3 /\ 1 + 1 = 2 /\ 2 + 1 = 3 /\ 3 + 1 = 4
    OBVIOUS
  <2>2. Follows(got[1], got[2]) /\ Follows(got[2], got[3]) /\ Follows(got[3], got[4])
    BY <1>0, <2>1
  <2> QED
    BY <1>1, <2>2, Zenon
<1>5. b.val = id /\ c.val = 2 /\ CheckSum(b.val + c.val + d.val) = e.val
  BY <1>0, <1>1, <1>2, Zenon DEF Acknowledged
<1>6. /\ b.at = 3 /\ c.at = 4 /\ d.at = 5 /\ e.at = 6
      /\ c.of = b.of /\ d.of = b.of /\ e.of = b.of /\ Id[b.of] = id
  BY <1>2, <1>3, <1>4, <1>5, FourAcked
<1>7. \A i \in 1 .. 4 : got[i].of = b.of /\ got[i].at = i + 2
  BY <1>1, <1>6
<1>8. b.of \in Answered
  BY ByteIs
<1> QED
  BY <1>2, <1>6, <1>7, <1>8 DEF Genuine

(* Among seven bytes in a row are the first two of a reply, side by side.  *)
LEMMA HeadInTime ==
  ASSUME got \in Seq(Byte), Len(got) > 6,
         \A i \in 1 .. Len(got) : Plain(got[i]),
         \A i \in 1 .. Len(got) - 1 : Follows(got[i], got[i + 1])
  PROVE  \E i \in 1 .. Len(got) - 1 : got[i].val = 255 /\ got[i + 1].val = 255
<1>1. Len(got) \in Nat
  BY LenProperties
<1>2. \A i \in 1 .. 7 : got[i] \in Byte
  <2>1. \A i \in 1 .. 7 : i \in 1 .. Len(got)
    BY <1>1
  <2> QED
    BY <2>1, ElementOfSeq
<1>3. got[1].at \in 1 .. 6
  BY <1>2, ByteIs
<1>4. ASSUME NEW i \in 1 .. 6 PROVE Follows(got[i], got[i + 1])
  <2>1. i \in 1 .. Len(got) - 1
    BY <1>1
  <2> QED
    BY <2>1
<1>5. ASSUME NEW i \in 1 .. 6, got[i].at # 6 PROVE got[i + 1].at = got[i].at + 1
  BY <1>4, <1>5 DEF Follows
<1>6. ASSUME NEW i \in 1 .. 6, got[i].at = 6 PROVE got[i + 1].at = 1
  BY <1>4, <1>6 DEF Follows
<1>7. PICK i \in 1 .. 6 : got[i].at = 1
  <2>1. CASE got[1].at = 1
    BY <2>1
  <2>2. CASE got[1].at = 6
    BY <1>6, <2>2
  <2>3. CASE got[1].at = 5
    <3>1. got[2].at = 6
      BY <1>5, <2>3
    <3> QED
      BY <1>6, <3>1
  <2>4. CASE got[1].at = 4
    <3>1. got[2].at = 5
      BY <1>5, <2>4
    <3>2. got[3].at = 6
      BY <1>5, <3>1
    <3> QED
      BY <1>6, <3>2
  <2>5. CASE got[1].at = 3
    <3>1. got[2].at = 4
      BY <1>5, <2>5
    <3>2. got[3].at = 5
      BY <1>5, <3>1
    <3>3. got[4].at = 6
      BY <1>5, <3>2
    <3> QED
      BY <1>6, <3>3
  <2>6. CASE got[1].at = 2
    <3>1. got[2].at = 3
      BY <1>5, <2>6
    <3>2. got[3].at = 4
      BY <1>5, <3>1
    <3>3. got[4].at = 5
      BY <1>5, <3>2
    <3>4. got[5].at = 6
      BY <1>5, <3>3
    <3> QED
      BY <1>6, <3>4
  <2> QED
    BY <1>3, <2>1, <2>2, <2>3, <2>4, <2>5, <2>6
<1>8. got[i + 1].at = 2
  BY <1>5, <1>7
<1>9. i \in 1 .. Len(got) - 1 /\ i \in 1 .. Len(got) /\ i + 1 \in 1 .. Len(got)
  BY <1>1
<1>10. got[i].val = 255 /\ got[i + 1].val = 255
  BY <1>7, <1>8, <1>9 DEF Plain
<1> QED
  BY <1>9, <1>10

-----------------------------------------------------------------------------
(* The servo path: its steps.                                              *)

(* A step of the servo path is one of its queue or leaves it alone.        *)
LEMMA ServoStep == [ServoNext]_<<vars, busVars>> => [Next]_vars
<1> SUFFICES ASSUME [ServoNext]_<<vars, busVars>> PROVE [Next]_vars
  OBVIOUS
<1>1. CASE Accept \/ Fetch \/ Fetched
  BY <1>1 DEF Accept, Fetch, Fetched, Next, Consumer
<1>2. CASE Refuse \/ Bus \/ Servo
  BY <1>2 DEF Refuse, Bus, Flush, Send, SendLost, ReadHead, ReadBody, Check, TimeOut,
     Servo, Arrive, ReplyLost
<1> QED
  BY <1>1, <1>2 DEF ServoNext

(* What a step of the queue does to handled, as long as the consumer does  *)
(* not return with a sample.                                               *)
LEMMA HandledKept ==
  /\ Producer => UNCHANGED << consPc, handled >>
  /\ DrainBegin \/ DrainRemove => UNCHANGED handled
  BY DEF Producer, Push, Evict, Readd, DrainBegin, DrainRemove, consVars

(* The invariant after a step of the bus, while the consumer waits for it. *)
LEMMA BusInvFrom ==
  ASSUME TypeOK', rx' \in Seq(Byte), due' \in Seq(Byte), got' \in Seq(Byte),
         Chained(Stream'), NoHeadYet',
         busPc' \in {"none", "send", "head", "body", "check"},
         handled \in 0 .. MaxSamples, handled > 0, consPc = "idle",
         UNCHANGED << consPc, handled >>,
         target' \in 0 .. handled, missed' \in 0 .. MaxSamples,
         failures' \in 0 .. MaxFailures,
         busPc' = "body" => Len(got') < 4,
         busPc' = "check" => Len(got') = 4,
         busPc' \in {"none", "send"} => got' = << >>,
         busPc' = "send" => target' < handled
  PROVE  ServoIInv'
<1>1. SentOnce'
  BY DEF SentOnce
<1>2. target' \in 0 .. MaxSamples
  BY MaxSamplesAssumption
<1>3. busPc' \in {"none", "flush", "send"} => got' = << >>
  OBVIOUS
<1>4. ServoTypeOK'
  BY <1>2, <1>3 DEF ServoTypeOK
<1> QED
  BY <1>1, <1>4 DEF ServoIInv

LEMMA EmptyStream ==
  /\ << >> \in Seq(Byte) /\ Len(<< >>) = 0
  /\ \A d \in Seq(Byte) : << >> \o d = d
  BY EmptySeq, ConcatEmptySeq

LEMMA ServoInitInv == ServoInit /\ IInv => ServoIInv
<1> SUFFICES ASSUME ServoInit, IInv PROVE ServoIInv
  OBVIOUS
<1>1. /\ busPc = "none" /\ rx = << >> /\ due = << >> /\ got = << >>
      /\ target = 0 /\ missed = 0 /\ failures = 0 /\ handled = 0
  BY DEF ServoInit, Init
<1>2. Stream = << >> /\ Len(Stream) = 0
  BY <1>1, EmptyStream DEF Stream
<1>3. Chained(Stream)
  BY <1>2 DEF Chained
<1>4. ServoTypeOK
  <2>1. rx \in Seq(Byte) /\ due \in Seq(Byte) /\ got \in Seq(Byte)
    BY <1>1, EmptyStream
  <2> QED
    BY <1>1, <2>1, MaxSamplesAssumption, MaxFailuresAssumption DEF ServoTypeOK, IInv
<1> QED
  BY <1>1, <1>3, <1>4 DEF ServoIInv, SentOnce, NoHeadYet

(* A byte read from rx into got leaves the stream as it is.                *)
LEMMA ByteRead ==
  ASSUME got \in Seq(Byte), rx \in Seq(Byte), due \in Seq(Byte), rx # << >>
  PROVE  /\ Append(got, Head(rx)) \in Seq(Byte) /\ Tail(rx) \in Seq(Byte)
         /\ Append(got, Head(rx)) \o (Tail(rx) \o due) = Stream
<1> DEFINE g == Append(got, Head(rx))
           t == Tail(rx)
<1>1. g \in Seq(Byte) /\ t \in Seq(Byte)
  BY Arrived, SMTT(30)
<1>2. g \o t = got \o rx
  BY Arrived, SMTT(30)
<1> HIDE DEF g, t
<1>3. (g \o t) \o due = g \o (t \o due)
  BY <1>1, StreamAssociative, SMTT(30)
<1>4. (got \o rx) \o due = got \o (rx \o due)
  BY StreamAssociative, SMTT(30)
<1>5. g \o (t \o due) = got \o (rx \o due)
  BY <1>2, <1>3, <1>4
<1> QED
  BY <1>1, <1>5 DEF Stream, g, t

(* What Ack has read is forgotten.                                         *)
LEMMA GotEmptied ==
  ASSUME got \in Seq(Byte), rx \in Seq(Byte), due \in Seq(Byte), Chained(Stream),
         got' = << >>, UNCHANGED << rx, due >>
  PROVE  Chained(Stream')
<1>1. rx \o due \in Seq(Byte)
  BY ConcatProperties
<1>2. Chained(rx \o due)
  BY <1>1, ChainedEnd DEF Stream
<1>3. Stream' = rx \o due
  BY <1>1, EmptyStream DEF Stream
<1> QED
  BY <1>2, <1>3

LEMMA ReadHeadInv ==
  ASSUME got \in Seq(Byte), rx \in Seq(Byte), due \in Seq(Byte), Chained(Stream),
         NoHeadYet, ReadHead
  PROVE  /\ rx' \in Seq(Byte) /\ got' \in Seq(Byte) /\ Chained(Stream') /\ NoHeadYet'
         /\ busPc' \in {"none", "head", "body"}
         /\ busPc' # "head" => got' = << >>
<1> DEFINE read == Append(got, Head(rx))
<1>1. /\ busPc = "head" /\ rx # << >> /\ rx' = Tail(rx) /\ UNCHANGED due
      /\ IF EndsInHead(read)
         THEN busPc' = "body" /\ got' = << >>
         ELSE IF Len(read) > 10 THEN busPc' = "none" /\ got' = << >>
                                ELSE busPc' = "head" /\ got' = read
  BY DEF ReadHead
<1>2. read \in Seq(Byte) /\ rx' \in Seq(Byte) /\ read \o (rx' \o due) = Stream
  BY <1>1, ByteRead
<1>3. /\ Len(got) \in Nat /\ Len(read) = Len(got) + 1
      /\ \A i \in 1 .. Len(got) : read[i] = got[i]
  <2>1. Head(rx) \in Byte
    BY <1>1, HeadTailProperties
  <2> QED
    BY <2>1, AppendProperties, LenProperties
<1> HIDE DEF read
<1>4. CASE got' = << >> /\ busPc' \in {"none", "body"}
  <2>1. rx' \o due \in Seq(Byte)
    BY <1>2, ConcatProperties
  <2>2. Chained(rx' \o due)
    BY <1>2, <2>1, ChainedEnd
  <2>3. Stream' = rx' \o due
    BY <1>1, <1>4, <2>1, EmptyStream DEF Stream
  <2>4. NoHeadYet'
    BY <1>4 DEF NoHeadYet
  <2> QED
    BY <1>2, <1>4, <2>2, <2>3, <2>4, EmptyStream
<1>5. CASE got' = read /\ busPc' = "head" /\ ~EndsInHead(read)
  <2>1. Stream' = Stream
    BY <1>1, <1>2, <1>5 DEF Stream
  <2>2. ASSUME NEW i \in 1 .. Len(read) - 1
        PROVE  ~(read[i].val = 255 /\ read[i + 1].val = 255)
    <3>1. CASE i < Len(got)
      <4>1. i \in 1 .. Len(got) - 1 /\ i \in 1 .. Len(got) /\ i + 1 \in 1 .. Len(got)
        BY <1>3, <3>1
      <4>2. ~(got[i].val = 255 /\ got[i + 1].val = 255)
        BY <1>1, <4>1 DEF NoHeadYet
      <4> QED
        BY <1>3, <4>1, <4>2
    <3>2. CASE i = Len(got)
      <4>1. Len(read) > 1 /\ i = Len(read) - 1 /\ i + 1 = Len(read)
        BY <1>3, <3>2
      <4> QED
        BY <1>5, <4>1 DEF EndsInHead
    <3> QED
      BY <1>3, <3>1, <3>2
  <2>3. NoHeadYet'
    BY <1>5, <2>2 DEF NoHeadYet
  <2> QED
    BY <1>2, <1>5, <2>1, <2>3
<1> QED
  BY <1>1, <1>4, <1>5

LEMMA ServoNextInv ==
  IInv /\ IInv' /\ ServoIInv /\ [ServoNext]_<<vars, busVars>> => ServoIInv'
<1> SUFFICES ASSUME IInv, IInv', ServoIInv, [ServoNext]_<<vars, busVars>>
             PROVE  ServoIInv'
  OBVIOUS
<1>t. /\ rx \in Seq(Byte) /\ due \in Seq(Byte) /\ got \in Seq(Byte)
      /\ Chained(Stream) /\ NoHeadYet
      /\ busPc \in {"none", "flush", "send", "head", "body", "check"}
      /\ target \in 0 .. MaxSamples /\ missed \in 0 .. MaxSamples
      /\ failures \in 0 .. MaxFailures
      /\ busPc # "none" => consPc = "idle" /\ handled > 0
      /\ busPc = "body" => Len(got) < 4
      /\ busPc \in {"none", "flush", "send"} => got = << >>
      /\ target <= handled
      /\ busPc \in {"flush", "send"} => target < handled
  BY DEF ServoIInv, ServoTypeOK, SentOnce
<1>h. handled \in 0 .. MaxSamples /\ handled \in Nat /\ target \in Nat /\ msg \in Nat
  BY <1>t DEF IInv, TypeOK
<1>y. TypeOK'
  BY DEF IInv
<1>1. CASE Accept \/ Refuse \/ Fetch \/ UNCHANGED << vars, busVars >>
  <2>1. UNCHANGED << handled, busPc, rx, due, got, target, missed, failures >>
    BY <1>1, HandledKept DEF Accept, Refuse, Fetch, vars, consVars, busVars
  <2>2. busPc # "none" => UNCHANGED consPc
    BY <1>1, HandledKept DEF Accept, Refuse, Fetch, vars, consVars
  <2>3. UNCHANGED Stream
    BY <2>1 DEF Stream
  <2>4. NoHeadYet' /\ SentOnce' /\ Chained(Stream')
    BY <1>t, <2>1, <2>3 DEF NoHeadYet, SentOnce, ServoIInv
  <2>5. ServoTypeOK'
    BY <1>y, <2>1, <2>2 DEF ServoIInv, ServoTypeOK
  <2> QED
    BY <2>4, <2>5 DEF ServoIInv
<1>2. CASE Fetched
  <2>1. /\ consPc = "drain" /\ consPc' = "idle"
        /\ handled' = (IF has THEN msg ELSE handled)
        /\ busPc' = (IF has THEN "flush" ELSE "none")
        /\ UNCHANGED << rx, due, got, target, missed, failures >>
    BY <1>2 DEF Fetched, DrainReturn
  <2>2. has => handled < msg
    BY <2>1 DEF IInv, InOrder
  <2>3. /\ has => handled' > 0 /\ target < handled'
        /\ target <= handled'
    BY <1>t, <1>h, <2>1, <2>2
  <2>4. busPc' # "none" => has
    BY <2>1
  <2>5. SentOnce'
    BY <2>1, <2>3, <2>4 DEF SentOnce
  <2>6. busPc' \in {"none", "flush"} /\ busPc = "none" /\ got' = << >>
    BY <1>t, <2>1
  <2>7. busPc' # "none" => consPc' = "idle" /\ handled' > 0
    BY <2>1, <2>3, <2>4
  <2>8. Stream' = Stream /\ NoHeadYet'
    BY <2>1, <2>6 DEF Stream, NoHeadYet
  <2>9. ServoTypeOK'
    BY <1>t, <1>y, <2>1, <2>6, <2>7 DEF ServoTypeOK
  <2> QED
    BY <1>t, <2>5, <2>8, <2>9 DEF ServoIInv
<1>3. CASE Bus
  <2>1. /\ UNCHANGED << consPc, handled >>
        /\ busPc # "none"
    BY <1>3 DEF Bus, Flush, Send, SendLost, ReadHead, ReadBody, Check, TimeOut, vars, consVars
  <2>b. handled > 0 /\ consPc = "idle" /\ target \in 0 .. handled
    BY <1>t, <1>h, <2>1
  <2>e. ASSUME busPc' # "head" \/ got' = << >> PROVE NoHeadYet'
    BY <2>e, EmptyStream DEF NoHeadYet
  <2>2. CASE Flush
    <3>1. /\ busPc = "flush" /\ busPc' = "send" /\ rx' = << >> /\ got' = << >>
          /\ UNCHANGED << due, target, missed, failures >>
      BY <1>t, <2>2 DEF Flush
    <3>2. Stream' = due
      BY <1>t, <3>1, EmptyStream DEF Stream
    <3>3. rx \o due \in Seq(Byte)
      BY <1>t, ConcatProperties
    <3>4. Chained(rx \o due)
      BY <1>t, <3>3, ChainedEnd DEF Stream
    <3>5. Chained(due)
      BY <1>t, <3>4, ChainedEnd
    <3> QED
      BY <1>t, <1>h, <1>y, <2>1, <2>b, <2>e, <3>1, <3>2, <3>5, EmptyStream, BusInvFrom
  <2>3. CASE Send
    <3>1. /\ busPc = "send" /\ busPc' \in {"none", "head"} /\ target' = handled
          /\ got' = << >> /\ UNCHANGED << rx, missed, failures >>
      BY <1>t, <2>3 DEF Send, AfterSend
    <3>2. CASE UNCHANGED due
      <4>1. Stream' = Stream
        BY <1>t, <3>1, <3>2 DEF Stream
      <4> QED
        BY <1>t, <1>h, <1>y, <2>1, <2>b, <2>e, <3>1, <3>2, <4>1, EmptyStream, BusInvFrom
    <3>3. CASE /\ Id[handled] # Broadcast
               /\ \E state \in States : due' = due \o Reply(handled, state)
      <4>1. PICK state \in States : due' = due \o Reply(handled, state)
        BY <3>3
      <4>2. handled \in Answered
        <5>1. handled \in 1 .. MaxSamples
          BY <1>h, <2>b
        <5>2. Id[handled] \in 0 .. 255 /\ Id[handled] # 255 /\ Id[handled] # 254
          BY <2>3, <3>3, <5>1, IdIs DEF Send, Broadcast
        <5> QED
          BY <5>1, <5>2 DEF Answered, Broadcast
      <4> DEFINE p == Reply(handled, state)
      <4>3. p \in Seq(Byte) /\ Chained(p) /\ p[1].at = 1
        BY <4>2, ReplyIs
      <4> HIDE DEF p
      <4>4. /\ due \o p \in Seq(Byte) /\ rx \o due \in Seq(Byte) /\ Stream \in Seq(Byte)
        BY <1>t, <4>3, ConcatProperties DEF Stream
      <4>5. Chained(Stream \o p)
        BY <1>t, <4>3, <4>4, ChainedConcat
      <4>6. /\ rx \o (due \o p) = (rx \o due) \o p
            /\ got \o ((rx \o due) \o p) = (got \o (rx \o due)) \o p
        <5>1. (rx \o due) \o p = rx \o (due \o p)
          BY <1>t, <4>3, StreamAssociative
        <5>2. (got \o (rx \o due)) \o p = got \o ((rx \o due) \o p)
          <6> DEFINE d == rx \o due
          <6>1. d \in Seq(Byte) /\ got \in Seq(Byte)
            BY <1>t, <4>4
          <6> HIDE DEF d
          <6>2. (got \o d) \o p = got \o (d \o p)
            BY <4>3, <6>1, StreamAssociative
          <6> QED
            BY <6>2 DEF d
        <5> QED
          BY <5>1, <5>2
      <4>7. Stream' = Stream \o p
        <5>1. got' = got /\ rx' = rx /\ due' = due \o p
          BY <1>t, <3>1, <4>1 DEF p
        <5> QED
          BY <4>6, <5>1 DEF Stream
      <4>8. due' \in Seq(Byte)
        BY <4>1, <4>4 DEF p
      <4> QED
        BY <1>t, <1>h, <1>y, <2>1, <2>b, <2>e, <3>1, <4>5, <4>7, <4>8, EmptyStream, BusInvFrom
    <3> QED
      BY <2>3, <3>2, <3>3 DEF Send
  <2>4. CASE SendLost
    <3>1. /\ busPc = "send" /\ busPc' \in {"none", "head"} /\ missed' = handled
          /\ failures' \in 0 .. MaxFailures /\ got' = << >>
          /\ UNCHANGED << got, rx, due, target >>
      BY <1>t, <2>4, MaxFailuresAssumption DEF SendLost, AfterSend
    <3>2. Stream' = Stream
      BY <3>1 DEF Stream
    <3> QED
      BY <1>t, <1>h, <1>y, <2>1, <2>b, <2>e, <3>1, <3>2, EmptyStream, BusInvFrom
  <2>5. CASE ReadHead
    <3>1. UNCHANGED << due, target, missed, failures >>
      BY <2>5 DEF ReadHead
    <3>2. /\ rx' \in Seq(Byte) /\ got' \in Seq(Byte) /\ Chained(Stream') /\ NoHeadYet'
          /\ busPc' \in {"none", "head", "body"}
          /\ busPc' # "head" => got' = << >>
      BY <1>t, <2>5, ReadHeadInv
    <3>3. busPc' = "body" => Len(got') < 4
      BY <3>2, EmptyStream
    <3> QED
      BY <1>t, <1>h, <1>y, <2>1, <2>b, <3>1, <3>2, <3>3, BusInvFrom
  <2>6. CASE ReadBody
    <3>1. /\ busPc = "body" /\ rx # << >> /\ rx' = Tail(rx) /\ got' = Append(got, Head(rx))
          /\ busPc' = (IF Len(got) = 3 THEN "check" ELSE "body")
          /\ UNCHANGED << due, target, missed, failures >>
      BY <2>6 DEF ReadBody
    <3>2. rx' \in Seq(Byte) /\ got' \in Seq(Byte) /\ Stream' = Stream
      BY <1>t, <3>1, ByteRead DEF Stream
    <3>3. Len(got') = Len(got) + 1 /\ Len(got) \in Nat
      <4>1. Head(rx) \in Byte
        BY <1>t, <3>1, HeadTailProperties
      <4> QED
        BY <1>t, <3>1, <4>1, AppendProperties, LenProperties
    <3>4. /\ busPc' = "body" => Len(got') < 4
          /\ busPc' = "check" => Len(got') = 4
          /\ busPc' \in {"body", "check"}
      <4>1. Len(got) < 4
        BY <1>t, <3>1
      <4>2. CASE Len(got) = 3
        BY <3>1, <3>3, <4>2
      <4>3. CASE Len(got) # 3
        <5>1. busPc' = "body"
          BY <3>1, <4>3
        <5>2. PICK n \in Nat : n = Len(got)
          BY <3>3
        <5>3. n + 1 < 4
          BY <4>1, <4>3, <5>2
        <5> QED
          BY <3>3, <5>1, <5>2, <5>3
      <4> QED
        BY <4>2, <4>3
    <3> QED
      BY <1>t, <1>h, <1>y, <2>1, <2>b, <2>e, <3>1, <3>2, <3>4, BusInvFrom
  <2>7. CASE Check \/ TimeOut
    <3>1. /\ busPc' = "none" /\ got' = << >>
          /\ UNCHANGED << rx, due, target, missed, failures >>
      BY <2>7 DEF Check, TimeOut
    <3>2. Chained(Stream')
      BY <1>t, <3>1, GotEmptied
    <3> QED
      BY <1>t, <1>h, <1>y, <2>1, <2>b, <2>e, <3>1, <3>2, EmptyStream, BusInvFrom
  <2> QED
    BY <1>3, <2>2, <2>3, <2>4, <2>5, <2>6, <2>7 DEF Bus
<1>4. CASE Servo
  <2>1. UNCHANGED << consPc, handled, busPc, got, target, missed >>
    BY <1>4 DEF Servo, Arrive, ReplyLost, vars, consVars
  <2>2. NoHeadYet' /\ SentOnce'
    BY <1>t, <2>1 DEF NoHeadYet, SentOnce
  <2>3. /\ rx' \in Seq(Byte) /\ due' \in Seq(Byte) /\ Chained(Stream')
        /\ failures' \in 0 .. MaxFailures
    <3>1. CASE Arrive
      <4>1. /\ due # << >> /\ rx' = Append(rx, Head(due)) /\ due' = Tail(due)
            /\ UNCHANGED failures
        BY <3>1 DEF Arrive
      <4>2. rx' \in Seq(Byte) /\ due' \in Seq(Byte) /\ rx' \o due' = rx \o due
        BY <1>t, <4>1, Arrived
      <4>3. Stream' = Stream
        BY <2>1, <4>2 DEF Stream
      <4> QED
        BY <1>t, <4>1, <4>2, <4>3
    <3>2. CASE ReplyLost
      <4>1. /\ due # << >> /\ Head(due).at = 1 /\ due' = SubSeq(due, 7, Len(due))
            /\ failures' \in 0 .. MaxFailures /\ UNCHANGED rx
        BY <1>t, <3>2, MaxFailuresAssumption DEF ReplyLost
      <4>2. got \o rx \in Seq(Byte) /\ Chained((got \o rx) \o due)
        BY <1>t, ConcatProperties, StreamAssociative DEF Stream
      <4>3. due' \in Seq(Byte) /\ Chained((got \o rx) \o due')
        BY <1>t, <4>1, <4>2, ChainedLost
      <4>4. (got \o rx) \o due' = got \o (rx \o due')
        BY <1>t, <4>3, StreamAssociative
      <4>5. Stream' = got \o (rx \o due')
        BY <2>1, <4>1 DEF Stream
      <4> QED
        BY <1>t, <4>1, <4>3, <4>4, <4>5
    <3> QED
      BY <1>4, <3>1, <3>2 DEF Servo
  <2>4. ServoTypeOK'
    BY <1>y, <2>1, <2>3 DEF ServoIInv, ServoTypeOK
  <2> QED
    BY <2>2, <2>3, <2>4 DEF ServoIInv
<1> QED
  BY <1>1, <1>2, <1>3, <1>4 DEF ServoNext

-----------------------------------------------------------------------------
(* The servo path: theorems.                                               *)

(* q_servo is the queue the theorems above are about: whatever the bus     *)
(* does, no command is queued in vain, commands are taken in order and at  *)
(* most once, the newest is not lost, and a drain is fresh.                *)
THEOREM ServoQueueCorrect ==
  ServoSpec =>
    /\ [](TypeOK /\ PushNeverFails /\ InOrder /\ NewestKept)
    /\ FreshOnReturn
    /\ ImplementsMailbox
<1>1. ServoInit => Init
  BY DEF ServoInit
<1>2. ServoSpec => Spec
  BY <1>1, ServoStep, PTL DEF ServoSpec, Spec
<1> QED
  BY <1>2, TypeCorrect, PushSucceeds, Order, NewestNotLost, Freshness, Refinement, PTL

LEMMA ServoInvariance == ServoSpec => [](IInv /\ ServoIInv)
<1>1. ServoInit => IInv /\ ServoIInv
  BY InitIInv, ServoInitInv DEF ServoInit
<1>2. IInv /\ ServoIInv /\ [ServoNext]_<<vars, busVars>> => IInv' /\ ServoIInv'
  BY NextIInv, ServoStep, ServoNextInv
<1> QED
  BY <1>1, <1>2, PTL DEF ServoSpec

(* The types of queue and bus: bBuf of Ack is never overrun, WritePosEx    *)
(* begins with nothing read, and runs only between two drains.             *)
THEOREM ServoTypeCorrect == ServoSpec => []ServoTypeOK
<1>1. ServoIInv => ServoTypeOK
  BY DEF ServoIInv
<1> QED
  BY <1>1, ServoInvariance, PTL

(* SCS::Ack is not misled by late, lost or half replies: wherever it       *)
(* begins to read, it takes four bytes for an acknowledgement of its servo *)
(* only if they are the body of one reply of that servo, and it finds a    *)
(* head, true or false, within seven bytes, for all identifiers but 255.   *)
THEOREM AckCorrect == ServoSpec => []AckGenuine
<1>1. IInv /\ ServoIInv => AckGenuine
  <2> SUFFICES ASSUME IInv, ServoIInv PROVE AckGenuine
    OBVIOUS
  <2>1. /\ got \in Seq(Byte) /\ rx \in Seq(Byte) /\ due \in Seq(Byte)
        /\ Chained(got \o (rx \o due)) /\ NoHeadYet
        /\ busPc = "check" => Len(got) = 4 /\ handled > 0
    BY DEF ServoIInv, ServoTypeOK, Stream
  <2>2. rx \o due \in Seq(Byte)
    BY <2>1, ConcatProperties
  <2>3. /\ \A i \in 1 .. Len(got) : Plain(got[i])
        /\ \A i \in 1 .. Len(got) - 1 : Follows(got[i], got[i + 1])
    BY <2>1, <2>2, ChainedBegin
  <2>4. ASSUME busPc = "check", Acknowledged, Id[handled] # 255 PROVE Genuine
    <3>1. Len(got) = 4 /\ handled \in 1 .. MaxSamples
      BY <2>1, <2>4 DEF IInv, TypeOK
    <3>2. /\ \A i \in 1 .. 4 : Plain(got[i])
          /\ \A i \in 1 .. 3 : Follows(got[i], got[i + 1])
      BY <2>3, <3>1
    <3> QED
      BY <2>1, <2>4, <3>1, <3>2, AckedIsGenuine
  <2>5. ASSUME busPc = "head" PROVE Len(got) < 7
    <3>1. Len(got) \in Nat
      BY <2>1, LenProperties
    <3>2. ~(Len(got) > 6)
      BY <2>1, <2>3, <2>5, HeadInTime DEF NoHeadYet
    <3> QED
      BY <3>1, <3>2
  <2> QED
    BY <2>4, <2>5 DEF AckGenuine
<1> QED
  BY <1>1, ServoInvariance, PTL

(* The servo never goes back to an earlier command and is never sent one   *)
(* twice: when it moves, it moves to a later one.                          *)
THEOREM ServoMovesOn == ServoSpec => [][UNCHANGED target \/ target' > target]_<<vars, busVars>>
<1>1. ServoIInv /\ [ServoNext]_<<vars, busVars>> => UNCHANGED target \/ target' > target
  <2> SUFFICES ASSUME ServoIInv, [ServoNext]_<<vars, busVars>>, ~UNCHANGED target
               PROVE  target' > target
    OBVIOUS
  <2>1. Send
    BY DEF ServoNext, Accept, Refuse, Fetch, Fetched, Bus, Flush, SendLost, ReadHead,
       ReadBody, Check, TimeOut, Servo, Arrive, ReplyLost, busVars
  <2> QED
    BY <2>1 DEF Send, ServoIInv, SentOnce
<1> QED
  BY <1>1, ServoInvariance, PTL DEF ServoSpec

=============================================================================
