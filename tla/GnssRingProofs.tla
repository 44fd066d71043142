--------------------------- MODULE GnssRingProofs ---------------------------
(***************************************************************************)
(* Proofs about GnssRing, for every ring size and every number of bytes:   *)
(* the type invariant, that the ring keeps its contents whatever the       *)
(* interleaving of the interrupt with core 1, and that it implements the   *)
(* bounded FIFO of ByteFifo.                                               *)
(***************************************************************************)
EXTENDS GnssRing, SequenceTheorems, TLAPS

(* The modulus of gnss_ring_push and gnss_ring_pop on an index of the ring. *)
LEMMA SuccIndex ==
  ASSUME NEW i \in Index
  PROVE  /\ Succ(i) \in Index
         /\ Succ(i) = IF i + 1 = Size THEN 0 ELSE i + 1
<1>1. CASE i + 1 = Size
  BY <1>1, SizeAssumption DEF Succ, Index
<1>2. CASE i + 1 < Size
  BY <1>2, SizeAssumption DEF Succ, Index
<1>3. QED
  BY <1>1, <1>2, SizeAssumption DEF Index

(* Facts about the cells: moving head or tail by one cell changes Used by  *)
(* one, and the cells keep their order.                                    *)
LEMMA UsedBounds ==
  ASSUME TypeOK
  PROVE  /\ Used \in 0 .. Size - 1
         /\ Used = 0 <=> tail = head
         /\ \A k \in 0 .. Size - 1 : Cell(k) \in Index
         /\ Cell(0) = tail
         /\ Cell(Used) = head
         /\ \A k \in 0 .. Size - 1 : Cell(k) = head => k = Used
BY SizeAssumption DEF TypeOK, Used, Cell, Index

-----------------------------------------------------------------------------
(* The inductive invariant.                                                *)

LEMMA InitIInv == Init => IInv
<1> SUFFICES ASSUME Init PROVE IInv
  OBVIOUS
<1>1. TypeOK
  BY SizeAssumption DEF Init, TypeOK, Index, None
<1>2. Contents
  BY SizeAssumption DEF Init, Contents, Used
<1>3. IrqKnows /\ PopKnows
  BY DEF Init, IrqKnows, PopKnows
<1>4. QED
  BY <1>1, <1>2, <1>3 DEF IInv

(* Type correctness of one step.  The interrupt's byte is in Byte when it  *)
(* is stored, which is where IrqKnows is needed.                           *)
LEMMA NextTypeOK == IInv /\ [Next]_vars => TypeOK'
<1> SUFFICES ASSUME IInv, [Next]_vars PROVE TypeOK'
  OBVIOUS
<1> USE SizeAssumption, MaxBytesAssumption DEF IInv, TypeOK
<1>1. CASE Receive
  BY <1>1 DEF Receive, Byte, None, popVars
<1>2. CASE Room
  BY <1>2 DEF Room, popVars
<1>3. CASE Overflow
  BY <1>3 DEF Overflow, popVars
<1>4. CASE Store
  BY <1>4 DEF Store, popVars
<1>5. CASE Publish
  BY <1>5, SuccIndex, AppendProperties DEF Publish, popVars, IrqKnows
<1>6. CASE PopBegin
  BY <1>6 DEF PopBegin, irqVars
<1>7. CASE PopRead
  BY <1>7 DEF PopRead, irqVars
<1>8. CASE PopAdvance
  BY <1>8, SuccIndex DEF PopAdvance, irqVars
<1>9. CASE UNCHANGED vars
  BY <1>9 DEF vars
<1>10. QED
  BY <1>1, <1>2, <1>3, <1>4, <1>5, <1>6, <1>7, <1>8, <1>9
     DEF Next, Isr, Core1

LEMMA NextIInv == IInv /\ [Next]_vars => IInv'
<1> SUFFICES ASSUME IInv, [Next]_vars PROVE (Contents /\ IrqKnows /\ PopKnows)'
  BY NextTypeOK DEF IInv
<1> USE DEF IInv
<1>t. TypeOK /\ TypeOK'
  BY NextTypeOK
<1>u. /\ Used \in 0 .. Size - 1
      /\ Len(accepted) \in Nat
  BY <1>t, UsedBounds, LenProperties DEF TypeOK
<1>1. CASE Receive
  <2>1. UNCHANGED << ring, head, tail, popPc, got, accepted, taken >>
        /\ irqPc' = "check" /\ rx' \in Byte
    BY <1>1, <1>t DEF Receive, popVars, TypeOK, Byte, None
  <2>2. QED
    BY <2>1 DEF Contents, IrqKnows, PopKnows, Used, Cell, Byte
<1>2. CASE Room
  BY <1>2 DEF Room, Full, popVars, Contents, IrqKnows, PopKnows, Used, Cell, Succ
<1>3. CASE Overflow
  BY <1>3 DEF Overflow, popVars, Contents, IrqKnows, PopKnows, Used, Cell
<1>4. CASE Store
  <2>1. /\ ring' = [ring EXCEPT ![head] = rx]
        /\ irqPc = "store" /\ irqPc' = "publish"
        /\ UNCHANGED << head, tail, rx, popPc, got, accepted, taken >>
    BY <1>4 DEF Store, popVars
  <2>2. \A k \in 0 .. Used - 1 : Cell(k) \in Index /\ Cell(k) # head
    BY <1>t, <1>u, UsedBounds, SizeAssumption
  <2>3. Contents'
    <3>1. Used' = Used /\ \A k : Cell(k)' = Cell(k)
      BY <2>1 DEF Used, Cell
    <3>2. \A k \in 0 .. Used - 1 : ring'[Cell(k)] = ring[Cell(k)]
      BY <2>1, <2>2, <1>t DEF TypeOK
    <3>3. QED
      BY <2>1, <3>1, <3>2 DEF Contents
  <2>4. IrqKnows'
    BY <2>1, <1>t DEF IrqKnows, TypeOK, Succ
  <2>5. PopKnows'
    BY <2>1, <1>t DEF PopKnows, TypeOK
  <2>6. QED
    BY <2>3, <2>4, <2>5
<1>5. CASE Publish
  <2>1. /\ irqPc = "publish" /\ irqPc' = "idle"
        /\ head' = Succ(head)
        /\ accepted' = Append(accepted, rx)
        /\ UNCHANGED << ring, tail, rx, popPc, got, taken >>
    BY <1>5 DEF Publish, popVars
  <2>2. Succ(head) = (IF head + 1 = Size THEN 0 ELSE head + 1) /\ Succ(head) # tail
    BY <2>1, <1>t, SuccIndex DEF IrqKnows, TypeOK
  <2>3. Used' = Used + 1 /\ \A k : Cell(k)' = Cell(k)
    BY <2>1, <2>2, <1>t, SizeAssumption DEF Used, Cell, TypeOK, Index
  <2>4. Contents'
    <3>1. /\ Len(accepted') = Len(accepted) + 1
          /\ \A i \in 1 .. Len(accepted) : accepted'[i] = accepted[i]
          /\ accepted'[Len(accepted) + 1] = rx
      BY <2>1, <1>t, AppendProperties DEF IrqKnows, TypeOK
    <3>2. ring[Cell(Used)] = rx
      BY <2>1, <1>t, UsedBounds DEF IrqKnows
    <3>3. ASSUME NEW k \in 0 .. Used' - 1
          PROVE  ring'[Cell(k)'] = accepted'[taken' + k + 1]
      <4>1. CASE k = Used
        BY <4>1, <2>1, <2>3, <3>1, <3>2, <1>u, <1>t DEF Contents, TypeOK
      <4>2. CASE k \in 0 .. Used - 1
        BY <4>2, <2>1, <2>3, <3>1, <1>u, <1>t DEF Contents, TypeOK
      <4>3. QED
        BY <3>3, <4>1, <4>2, <2>3, <1>u
    <3>4. taken' + Used' = Len(accepted')
      BY <2>1, <2>3, <3>1, <1>u, <1>t DEF Contents, TypeOK
    <3>5. QED
      BY <3>3, <3>4 DEF Contents
  <2>5. IrqKnows'
    BY <2>1 DEF IrqKnows
  <2>6. PopKnows'
    BY <2>1, <2>2 DEF PopKnows
  <2>7. QED
    BY <2>4, <2>5, <2>6
<1>6. CASE PopBegin
  BY <1>6 DEF PopBegin, irqVars, Contents, IrqKnows, PopKnows, Used, Cell, Succ
<1>7. CASE PopRead
  BY <1>7 DEF PopRead, irqVars, Contents, IrqKnows, PopKnows, Used, Cell, Succ
<1>8. CASE PopAdvance
  <2>1. /\ popPc = "advance" /\ popPc' = "idle"
        /\ tail' = Succ(tail)
        /\ taken' = taken + 1
        /\ UNCHANGED << ring, head, irqPc, rx, got, accepted >>
    BY <1>8 DEF PopAdvance, irqVars
  <2>2. Succ(tail) = (IF tail + 1 = Size THEN 0 ELSE tail + 1) /\ tail # head
    BY <2>1, <1>t, SuccIndex DEF PopKnows, TypeOK
  <2>3. /\ Used' = Used - 1
        /\ \A k \in 0 .. Used - 2 : Cell(k)' = Cell(k + 1)
    BY <2>1, <2>2, <1>t, SizeAssumption DEF Used, Cell, TypeOK, Index
  <2>4. Contents'
    <3>1. taken' + Used' = Len(accepted')
      <4>1. taken + Used = Len(accepted)
        BY DEF Contents
      <4>2. Len(accepted') = Len(accepted)
        BY <2>1
      <4>3. taken \in Nat
        BY <1>t DEF TypeOK
      <4>4. QED
        BY <4>1, <4>2, <4>3, <2>1, <2>3, <1>u
    <3>2. ASSUME NEW k \in 0 .. Used' - 1
          PROVE  ring'[Cell(k)'] = accepted'[taken' + k + 1]
      <4>1. k \in 0 .. Used - 2 /\ k + 1 \in 0 .. Used - 1
        BY <2>3, <1>u
      <4>2. ring[Cell(k + 1)] = accepted[taken + (k + 1) + 1]
        BY <4>1 DEF Contents
      <4>3. taken' + k + 1 = taken + (k + 1) + 1
        BY <2>1, <4>1, <1>t DEF TypeOK
      <4>4. QED
        BY <2>1, <2>3, <4>1, <4>2, <4>3
    <3>3. QED
      BY <3>1, <3>2 DEF Contents
  <2>5. IrqKnows'
    <3>1. ASSUME irqPc \in {"store", "publish"} PROVE Succ(head) # Succ(tail)
      <4>1. Succ(head) = IF head + 1 = Size THEN 0 ELSE head + 1
        BY <1>t, SuccIndex DEF TypeOK
      <4>2. QED
        BY <4>1, <2>2, <1>t, SizeAssumption DEF TypeOK, Index
    <3>2. QED
      BY <2>1, <3>1 DEF IrqKnows, Succ
  <2>6. PopKnows'
    BY <2>1 DEF PopKnows
  <2>7. QED
    BY <2>4, <2>5, <2>6
<1>9. CASE UNCHANGED vars
  BY <1>9 DEF vars, Contents, IrqKnows, PopKnows, Used, Cell, Succ
<1>10. QED
  BY <1>1, <1>2, <1>3, <1>4, <1>5, <1>6, <1>7, <1>8, <1>9
     DEF Next, Isr, Core1

THEOREM Invariance == Spec => []IInv
BY InitIInv, NextIInv, PTL DEF Spec

(* Every variable of the ring keeps its type, for every ring size: in      *)
(* particular the indices of gnss_ring_push and gnss_ring_pop never leave  *)
(* the array.                                                              *)
THEOREM TypeCorrect == Spec => []TypeOK
BY Invariance, PTL DEF IInv

(* The cells between tail and head hold the accepted bytes that core 1 has *)
(* not taken, in order, whatever the interleaving.                         *)
THEOREM ContentsKept == Spec => []Contents
BY Invariance, PTL DEF IInv

(* gnss_ring_pop returns the bytes in the order in which they came.        *)
THEOREM PopOrder == Spec => []PopReturnsNext
<1>1. IInv => PopReturnsNext
  <2> SUFFICES ASSUME IInv, popPc = "advance"
               PROVE  got = accepted[taken + 1]
    BY DEF PopReturnsNext
  <2>1. Used \in 0 .. Size - 1 /\ Used # 0 /\ Cell(0) = tail
    BY UsedBounds DEF IInv, PopKnows
  <2>2. ring[Cell(0)] = accepted[taken + 0 + 1]
    BY <2>1, SizeAssumption DEF IInv, Contents
  <2>3. QED
    BY <2>1, <2>2 DEF IInv, PopKnows, TypeOK
<1>2. QED
  BY <1>1, Invariance, PTL

-----------------------------------------------------------------------------
(* Refinement of the bounded FIFO.                                         *)

LEMMA WaitingFacts ==
  IInv => /\ Waiting \in Seq(Byte)
          /\ Len(Waiting) = Used
          /\ \A k \in 1 .. Used : Waiting[k] = accepted[taken + k]
<1> SUFFICES ASSUME IInv
             PROVE  /\ Waiting \in Seq(Byte)
                    /\ Len(Waiting) = Used
                    /\ \A k \in 1 .. Used : Waiting[k] = accepted[taken + k]
  OBVIOUS
<1>1. taken \in Nat /\ accepted \in Seq(Byte) /\ Len(accepted) \in Nat
  BY LenProperties DEF IInv, TypeOK
<1>2. Used \in Nat /\ taken + Used = Len(accepted)
  BY UsedBounds, SizeAssumption DEF IInv, Contents
<1>3. \A i \in taken + 1 .. Len(accepted) : accepted[i] \in Byte
  BY <1>1, ElementOfSeq
<1>4. /\ Waiting \in Seq(Byte)
      /\ Len(Waiting) = IF taken + 1 <= Len(accepted)
                          THEN Len(accepted) - (taken + 1) + 1 ELSE 0
      /\ \A i \in 1 .. Len(accepted) - (taken + 1) + 1 :
           Waiting[i] = accepted[taken + 1 + i - 1]
  BY <1>1, <1>3, SubSeqProperties DEF Waiting
<1>5. QED
  BY <1>1, <1>2, <1>4

LEMMA RingInit == Init => Fifo!FifoInit
<1> SUFFICES ASSUME Init PROVE Fifo!FifoInit
  OBVIOUS
<1>1. accepted = << >> /\ taken = 0 /\ overflow = 0 /\ Len(accepted) = 0
  BY EmptySeq DEF Init
<1>2. Waiting = << >>
  BY <1>1, SubSeqEmpty DEF Waiting
<1>3. QED
  BY <1>1, <1>2 DEF Fifo!FifoInit

LEMMA RingStep == IInv /\ IInv' /\ [Next]_vars => [Fifo!FifoNext]_(Fifo!fifoVars)
<1> SUFFICES ASSUME IInv, IInv', [Next]_vars
             PROVE  Fifo!FifoNext \/ (Waiting' = Waiting /\ overflow' = overflow)
  BY DEF Fifo!fifoVars
<1>t. TypeOK
  BY DEF IInv
<1>w. /\ Waiting \in Seq(Byte)
      /\ Len(Waiting) = Used /\ Used \in 0 .. Size - 1
      /\ taken + Used = Len(accepted)
  BY WaitingFacts, UsedBounds DEF IInv, Contents
<1>1. CASE UNCHANGED << accepted, taken, overflow >>
  BY <1>1 DEF Waiting
<1>2. CASE Publish
  <2>1. /\ irqPc = "publish" /\ rx \in Byte /\ Succ(head) # tail
        /\ head' = Succ(head)
        /\ accepted' = Append(accepted, rx)
        /\ UNCHANGED << tail, taken, overflow >>
    BY <1>2 DEF Publish, IInv, IrqKnows, popVars
  <2>2. Used' = Used + 1 /\ Used < Size - 1
    <3>1. Succ(head) = IF head + 1 = Size THEN 0 ELSE head + 1
      BY <1>t, SuccIndex DEF TypeOK
    <3>2. QED
      BY <2>1, <3>1, <1>t, SizeAssumption DEF Used, TypeOK, Index
  <2>3. /\ Waiting' \in Seq(Byte)
        /\ Len(Waiting') = Used + 1
        /\ \A k \in 1 .. Used + 1 : Waiting'[k] = accepted'[taken + k]
    <3>1. (/\ Waiting \in Seq(Byte)
           /\ Len(Waiting) = Used
           /\ \A k \in 1 .. Used : Waiting[k] = accepted[taken + k])'
      BY WaitingFacts, IInv', PTL
    <3>2. QED
      BY <3>1, <2>1, <2>2
  <2>4. /\ Append(Waiting, rx) \in Seq(Byte)
        /\ Len(Append(Waiting, rx)) = Used + 1
        /\ \A k \in 1 .. Used : Append(Waiting, rx)[k] = Waiting[k]
        /\ Append(Waiting, rx)[Used + 1] = rx
    BY <1>w, <2>1, AppendProperties
  <2>5. /\ \A i \in 1 .. Len(accepted) : accepted'[i] = accepted[i]
        /\ accepted'[Len(accepted) + 1] = rx
    BY <2>1, <1>t, AppendProperties DEF TypeOK
  <2>6. \A k \in 1 .. Used + 1 : Waiting'[k] = Append(Waiting, rx)[k]
    <3> SUFFICES ASSUME NEW k \in 1 .. Used + 1
                 PROVE  Waiting'[k] = Append(Waiting, rx)[k]
      OBVIOUS
    <3>1. CASE k = Used + 1
      BY <3>1, <2>3, <2>4, <2>5, <1>w, <1>t DEF TypeOK
    <3>2. CASE k \in 1 .. Used
      <4>1. Waiting[k] = accepted[taken + k]
        BY <3>2, WaitingFacts
      <4>2. taken + k \in 1 .. Len(accepted)
        BY <3>2, <1>w, <1>t DEF TypeOK
      <4>3. QED
        BY <3>2, <4>1, <4>2, <2>3, <2>4, <2>5, <1>w
    <3>3. QED
      BY <3>1, <3>2, <1>w
  <2>7. Waiting' = Append(Waiting, rx)
    BY <2>3, <2>4, <2>6, <1>w, SeqEqual
  <2>8. Fifo!Put(rx)
    BY <2>1, <2>2, <2>7, <1>w DEF Fifo!Put
  <2>9. QED
    BY <2>1, <2>8 DEF Fifo!FifoNext
<1>3. CASE Overflow
  <2>1. Succ(head) = tail /\ overflow' = overflow + 1
        /\ UNCHANGED << accepted, taken >>
    BY <1>3 DEF Overflow, Full
  <2>2. Used = Size - 1
    BY <2>1, <1>t, SuccIndex, SizeAssumption DEF Used, TypeOK, Index
  <2>3. Fifo!Drop
    BY <2>1, <2>2, <1>w DEF Fifo!Drop, Waiting
  <2>4. QED
    BY <2>3 DEF Fifo!FifoNext
<1>4. CASE PopAdvance
  <2>1. /\ taken' = taken + 1
        /\ UNCHANGED << accepted, overflow >>
        /\ tail # head
    BY <1>4 DEF PopAdvance, IInv, PopKnows
  <2>2. Used > 0
    BY <2>1, <1>t, <1>w, UsedBounds
  <2>3. /\ taken + 1 \in 1 .. Len(accepted)
        /\ Len(accepted) \in taken + 1 .. Len(accepted)
        /\ accepted \in Seq(Byte)
    BY <2>2, <1>w, <1>t DEF TypeOK
  <2>4. Tail(Waiting) = SubSeq(accepted, taken + 1 + 1, Len(accepted))
    BY <2>3, HeadTailOfSubSeq DEF Waiting
  <2>5. Waiting' = Tail(Waiting)
    BY <2>1, <2>4 DEF Waiting
  <2>6. Waiting # << >>
    BY <2>2, <1>w, EmptySeq
  <2>7. Fifo!Take
    BY <2>1, <2>5, <2>6 DEF Fifo!Take
  <2>8. QED
    BY <2>7 DEF Fifo!FifoNext
<1>5. QED
  BY <1>1, <1>2, <1>3, <1>4
     DEF Next, Isr, Core1, vars, Receive, Room, Store, PopBegin, PopRead

(* The ring, whatever its size and whatever the interleaving of the two    *)
(* cores, is a FIFO of Size - 1 slots: gnss_overflow counts a byte only    *)
(* when that many are waiting, and core 1 takes them in order.             *)
THEOREM Refinement == Spec => ImplementsFifo
<1>1. Spec => Fifo!FifoInit
  BY RingInit DEF Spec
<1>2. QED
  BY <1>1, Invariance, RingStep, PTL DEF Spec, ImplementsFifo, Fifo!FifoSpec

-----------------------------------------------------------------------------
(* Bytes are counted, and numbered in order.                               *)

LEMMA InitAccounted == Init => Accounted /\ StoredEarlier
  BY DEF Init, Accounted, StoredEarlier, None

LEMMA NextAccounted ==
  TypeOK /\ Accounted /\ StoredEarlier /\ [Next]_vars => (Accounted /\ StoredEarlier)'
<1> SUFFICES ASSUME TypeOK, Accounted, StoredEarlier, [Next]_vars
             PROVE  Accounted' /\ StoredEarlier'
  OBVIOUS
<1>0. rx \in Nat /\ accepted \in Seq(Nat) /\ overflow \in Nat /\ Len(accepted) \in Nat
  BY MaxBytesAssumption DEF TypeOK, Byte, None
<1>1. CASE Receive
  BY <1>0, <1>1 DEF Receive, Accounted, StoredEarlier
<1>2. CASE Room
  BY <1>0, <1>2 DEF Room, Accounted, StoredEarlier
<1>3. CASE Overflow
  BY <1>0, <1>3 DEF Overflow, Accounted, StoredEarlier
<1>4. CASE Store
  BY <1>0, <1>4 DEF Store, Accounted, StoredEarlier
<1>5. CASE Publish
  <2>1. /\ Len(accepted') = Len(accepted) + 1
        /\ \A i \in 1 .. Len(accepted) : accepted'[i] = accepted[i]
        /\ accepted'[Len(accepted) + 1] = rx
    BY <1>0, <1>5 DEF Publish
  <2>2. irqPc = "publish" /\ irqPc' = "idle" /\ rx' = rx /\ overflow' = overflow
    BY <1>5 DEF Publish
  <2>3. \A i \in 1 .. Len(accepted) : accepted[i] \in Nat /\ accepted[i] < rx
    BY <1>0, <2>2 DEF StoredEarlier
  <2>4. StoredEarlier'
    BY <1>0, <2>1, <2>2, <2>3 DEF StoredEarlier
  <2>5. ASSUME NEW i \in 1 .. Len(accepted'), NEW j \in 1 .. Len(accepted'), i < j
        PROVE  accepted'[i] < accepted'[j]
    <3>1. i \in 1 .. Len(accepted)
      BY <1>0, <2>1, <2>5
    <3>2. CASE j = Len(accepted) + 1
      BY <2>1, <2>3, <3>1, <3>2
    <3>3. CASE j \in 1 .. Len(accepted)
      BY <2>1, <2>5, <3>1, <3>3 DEF Accounted
    <3> QED
      BY <1>0, <2>1, <3>2, <3>3
  <2>6. rx' = Len(accepted') + overflow' + 0
    BY <1>0, <2>1, <2>2 DEF Accounted
  <2> QED
    BY <2>2, <2>4, <2>5, <2>6 DEF Accounted
<1>6. CASE PopBegin \/ PopRead \/ PopAdvance \/ UNCHANGED vars
  <2>1. UNCHANGED << rx, accepted, overflow, irqPc >>
    BY <1>6 DEF PopBegin, PopRead, PopAdvance, vars, irqVars
  <2> QED
    BY <2>1 DEF Accounted, StoredEarlier
<1> QED
  BY <1>1, <1>2, <1>3, <1>4, <1>5, <1>6 DEF Next, Isr, Core1

(* gnss_overflow counts every byte that was dropped, and no stored byte is *)
(* duplicated or out of order.                                             *)
THEOREM AllAccounted == Spec => []Accounted
  BY InitAccounted, NextAccounted, TypeCorrect, PTL DEF Spec

=============================================================================
