--------------------------- MODULE ShtpLinkProofs ---------------------------
(***************************************************************************)
(* Proofs about ShtpLink, for every length of chunks and cargoes, every    *)
(* modulus of the sequence numbers and any number of cargoes, resets,      *)
(* failures and writes: its type invariant, the inductive invariant, and   *)
(* that it implements CargoLink.                                           *)
(***************************************************************************)
EXTENDS ShtpLink, SequenceTheorems, TLAPS

Unit == (1 .. MaxCargoes) \X (1 .. AdvertSize)

HeaderType ==
  [left : 0 .. AdvertSize, cont : BOOLEAN, chan : Channels, seq : 0 .. SeqMod - 1]

LEMMA NextSeq ==
  ASSUME NEW n \in 0 .. SeqMod - 1
  PROVE  (n + 1) % SeqMod \in 0 .. SeqMod - 1
  BY SizesAssumption

-----------------------------------------------------------------------------
(* Lemmas about the sensor's end.                                          *)

LEMMA FirstCargo ==
  ASSUME TypeOK, outbox # << >>
  PROVE  /\ Head(outbox) \in Cargo
         /\ Head(outbox).id \in 1 .. MaxCargoes
         /\ Head(outbox).chan \in Channels
         /\ Head(outbox).size \in 1 .. AdvertSize
         /\ Tail(outbox) \in Seq(Cargo)
         /\ gone \in Nat
         /\ Left = Head(outbox).size - gone
<1>1. Head(outbox) \in Cargo /\ Tail(outbox) \in Seq(Cargo)
  BY HeadTailProperties DEF TypeOK
<1>2. /\ Head(outbox).id \in 1 .. MaxCargoes
      /\ Head(outbox).chan \in Channels
      /\ Head(outbox).size \in 1 .. AdvertSize
  BY <1>1 DEF Cargo
<1>3. gone \in Nat
  BY SizesAssumption DEF TypeOK
<1> QED
  BY <1>1, <1>2, <1>3 DEF Left

LEMMA ChunkFits ==
  ASSUME TypeOK, pc = "chunk"
  PROVE  /\ outbox # << >>
         /\ Left \in 1 .. AdvertSize /\ want \in 1 .. Left
         /\ ReadSize \in 1 .. want
<1>1. outbox # << >> /\ want \in 1 .. Left
  BY DEF TypeOK
<1>2. Left \in Int /\ Left <= AdvertSize /\ AdvertSize \in Nat
  BY <1>1, FirstCargo, SizesAssumption
<1>3. want \in Nat /\ Chunk \in Nat \ {0}
  BY SizesAssumption DEF TypeOK
<1> QED
  BY <1>1, <1>2, <1>3 DEF ReadSize, Least

LEMMA UnitsOfCargo ==
  ASSUME TypeOK, outbox # << >>, NEW n \in 1 .. Left
  PROVE  /\ Units(n) \in Seq(Unit)
         /\ Len(Units(n)) = n
         /\ \A i \in 1 .. n : Units(n)[i] = << Head(outbox).id, gone + i >>
<1>1. /\ Head(outbox).id \in 1 .. MaxCargoes
      /\ Head(outbox).size \in 1 .. AdvertSize
      /\ gone \in Nat /\ Left = Head(outbox).size - gone
      /\ AdvertSize \in Nat
  BY FirstCargo, SizesAssumption
<1>2. n \in Nat
  BY <1>1
<1>3. ASSUME NEW i \in 1 .. n
      PROVE  << Head(outbox).id, gone + i >> \in Unit
  <2>1. gone + i \in 1 .. AdvertSize
    BY <1>1
  <2> QED
    BY <1>1, <2>1 DEF Unit
<1> DEFINE u == [i \in 1 .. n |-> << Head(outbox).id, gone + i >>]
<1>4. u \in [1 .. n -> Unit]
  BY <1>3
<1> HIDE DEF u
<1>5. u \in Seq(Unit) /\ Len(u) = n
  BY <1>2, <1>4
<1> QED
  BY <1>5 DEF u, Units

LEMMA Crossed ==
  ASSUME TypeOK, outbox # << >>, NEW n \in 1 .. Left, Cross(n)
  PROVE  /\ outbox' \in Seq(Cargo)
         /\ gone' \in 0 .. AdvertSize - 1
         /\ outSeq' \in [Channels -> 0 .. SeqMod - 1]
         /\ queued' = queued
         /\ PartlyGone'
         /\ n < Left => outbox' = outbox /\ gone' = gone + n
         /\ n = Left => outbox' = Tail(outbox) /\ gone' = 0
<1>1. /\ Head(outbox).size \in 1 .. AdvertSize /\ Head(outbox).chan \in Channels
      /\ Tail(outbox) \in Seq(Cargo)
      /\ gone \in Nat /\ Left = Head(outbox).size - gone
      /\ AdvertSize \in Nat \ {0}
  BY FirstCargo, SizesAssumption
<1>2. outSeq' \in [Channels -> 0 .. SeqMod - 1]
  <2> DEFINE ch == Head(outbox).chan
  <2>1. outSeq[ch] \in 0 .. SeqMod - 1
    BY <1>1 DEF TypeOK
  <2>2. (outSeq[ch] + 1) % SeqMod \in 0 .. SeqMod - 1
    BY <2>1, NextSeq
  <2> QED
    BY <2>2 DEF Cross, TypeOK
<1>3. CASE n < Left
  <2>1. outbox' = outbox /\ gone' = gone + n /\ queued' = queued
    BY <1>3 DEF Cross
  <2>2. gone + n < Head(outbox).size /\ gone + n \in 0 .. AdvertSize - 1
    BY <1>1, <1>3
  <2>3. PartlyGone'
    BY <2>1, <2>2 DEF PartlyGone
  <2>4. outbox' \in Seq(Cargo)
    BY <2>1 DEF TypeOK
  <2> QED
    BY <1>2, <1>3, <2>1, <2>2, <2>3, <2>4
<1>4. CASE n = Left
  <2>1. outbox' = Tail(outbox) /\ gone' = 0 /\ queued' = queued
    BY <1>1, <1>4 DEF Cross
  <2>2. PartlyGone'
    <3>1. CASE outbox' = << >>
      BY <2>1, <3>1 DEF PartlyGone
    <3>2. CASE outbox' # << >>
      <4>1. Head(outbox') \in Cargo
        BY <1>1, <2>1, <3>2, HeadTailProperties
      <4> QED
        BY <2>1, <3>2, <4>1 DEF PartlyGone, Cargo
    <3> QED
      BY <3>1, <3>2
  <2> QED
    BY <1>1, <1>2, <1>4, <2>1, <2>2
<1> QED
  BY <1>1, <1>3, <1>4

-----------------------------------------------------------------------------
(* Lemmas about the host's end.                                            *)

LEMMA Assembled ==
  ASSUME TypeOK, NEW h \in HeaderType, NEW data \in Seq(Unit),
         Len(data) <= h.left, Assemble(h, data)
  PROVE  /\ remaining' = h.left - Len(data)
         /\ remaining' \in 0 .. AdvertSize
         /\ inChan' \in Channels
         /\ nextInSeq' \in [Channels -> 0 .. SeqMod - 1]
         /\ assembly' \in Seq(Unit)
         /\ payload' \in Seq(Unit)
         /\ remaining' = 0 /\ ~h.cont => payload' = data
<1> DEFINE all == IF Starts(h) THEN data ELSE assembly \o data
<1>1. /\ assembly' = all
      /\ inChan' = h.chan
      /\ remaining' = h.left - Len(data)
      /\ payload' = IF remaining' = 0 THEN all ELSE payload
      /\ nextInSeq' = [nextInSeq EXCEPT ![h.chan] = (h.seq + 1) % SeqMod]
  BY DEF Assemble
<1>2. h.left \in 0 .. AdvertSize /\ h.chan \in Channels /\ h.seq \in 0 .. SeqMod - 1
  BY DEF HeaderType
<1>3. assembly \in Seq(Unit) /\ payload \in Seq(Unit)
  BY DEF TypeOK, Unit
<1>4. assembly \o data \in Seq(Unit)
  BY <1>3, ConcatProperties
<1>5. all \in Seq(Unit)
  BY <1>4
<1>6. ~h.cont => all = data
  BY DEF Starts
<1>7. nextInSeq' \in [Channels -> 0 .. SeqMod - 1]
  <2>1. (h.seq + 1) % SeqMod \in 0 .. SeqMod - 1
    BY <1>2, NextSeq
  <2> QED
    BY <1>1, <2>1 DEF TypeOK
<1>8. remaining' \in 0 .. AdvertSize
  <2>1. Len(data) \in Nat
    BY LenProperties
  <2> QED
    BY <1>1, <1>2, <2>1, SizesAssumption
<1> HIDE DEF all
<1> QED
  BY <1>1, <1>2, <1>3, <1>5, <1>6, <1>7, <1>8

(* What a chunk adds to the buffer, and the header of the transfer.        *)
LEMMA ChunkRead ==
  ASSUME TypeOK, HeaderCovers, ReadChunk
  PROVE  /\ pc = "chunk"
         /\ buffer' = buffer \o Units(ReadSize)
         /\ header' = IF buffer = << >> THEN HeaderNow ELSE header
         /\ buffer \in Seq(Unit) /\ buffer' \in Seq(Unit)
         /\ Len(buffer) \in Nat /\ Len(buffer') = Len(buffer) + ReadSize
         /\ header' \in HeaderType
         /\ want' = want - ReadSize /\ want' \in Nat
         /\ Len(buffer') + want' <= header'.left
         /\ Cross(ReadSize)
         /\ UNCHANGED << back, spoilt, bounds >>
         /\ IF want' = 0 THEN Assemble(header', buffer') /\ pc' = back
                         ELSE UNCHANGED << assembler, pc >>
<1>1. /\ pc = "chunk"
      /\ buffer' = buffer \o Units(ReadSize)
      /\ header' = IF buffer = << >> THEN HeaderNow ELSE header
      /\ want' = want - ReadSize
      /\ Cross(ReadSize)
      /\ UNCHANGED << back, spoilt, bounds >>
      /\ IF want' = 0 THEN Assemble(header', buffer') /\ pc' = back
                      ELSE UNCHANGED << assembler, pc >>
  BY DEF ReadChunk
<1>2. /\ outbox # << >>
      /\ Left \in 1 .. AdvertSize /\ want \in 1 .. Left /\ ReadSize \in 1 .. want
  BY <1>1, ChunkFits
<1>3. want \in Nat /\ ReadSize \in Nat /\ Left \in Nat /\ want' \in Nat /\ ReadSize \in 1 .. Left
  BY <1>1, <1>2, SizesAssumption
<1>4. buffer \in Seq(Unit) /\ Len(buffer) \in Nat
  BY LenProperties DEF TypeOK, Unit
<1>5. Units(ReadSize) \in Seq(Unit) /\ Len(Units(ReadSize)) = ReadSize
  BY <1>2, <1>3, UnitsOfCargo
<1>6. buffer' \in Seq(Unit) /\ Len(buffer') = Len(buffer) + ReadSize
  BY <1>1, <1>4, <1>5, ConcatProperties
<1>7. CASE buffer = << >>
  <2>1. header' = HeaderNow
    BY <1>1, <1>7
  <2>2. /\ Head(outbox).chan \in Channels
        /\ outSeq[Head(outbox).chan] \in 0 .. SeqMod - 1
    BY <1>2, FirstCargo DEF TypeOK
  <2>3. Left \in 0 .. AdvertSize /\ (gone > 0) \in BOOLEAN
    BY <1>2, SizesAssumption
  <2>4. HeaderNow \in HeaderType /\ HeaderNow.left = Left
    BY <2>2, <2>3 DEF HeaderNow, HeaderType
  <2>5. Len(buffer) = 0
    BY <1>7
  <2> QED
    BY <1>1, <1>2, <1>3, <1>4, <1>6, <2>1, <2>4, <2>5
<1>8. CASE buffer # << >>
  <2>1. header' = header /\ header \in HeaderType
    BY <1>1, <1>8 DEF TypeOK, HeaderType
  <2>2. Len(buffer) + want <= header.left /\ header.left \in Nat
    BY <1>1, <1>8, <2>1, SizesAssumption DEF HeaderCovers, HeaderType
  <2> QED
    BY <1>1, <1>2, <1>3, <1>4, <1>6, <2>1, <2>2
<1> QED
  BY <1>7, <1>8

(* The buffer holds an unspoilt cargo from its first unit on.              *)
LEMMA WholeSoFar ==
  ASSUME IInv, ReadChunk, Head(outbox).id \notin spoilt
  PROVE  /\ want = Left
         /\ buffer' = [i \in 1 .. gone + ReadSize |-> << Head(outbox).id, i >>]
         /\ ~header'.cont /\ header'.left = Head(outbox).size
<1> USE DEF IInv
<1>1. pc = "chunk" /\ outbox # << >> /\ ReadSize \in 1 .. want /\ want \in 1 .. Left
      /\ Left \in 1 .. AdvertSize
  BY ChunkRead, ChunkFits
<1>2. /\ want = Left
      /\ buffer = [i \in 1 .. gone |-> << Head(outbox).id, i >>]
      /\ gone > 0 => ~header.cont /\ header.left = Head(outbox).size
  BY <1>1 DEF Intact
<1>3. gone \in Nat /\ Left = Head(outbox).size - gone /\ Head(outbox).size \in 1 .. AdvertSize
  BY <1>1, FirstCargo
<1>4. ReadSize \in Nat /\ ReadSize \in 1 .. Left
  BY <1>1, <1>2
<1>5. Len(buffer) = gone
  BY <1>2, <1>3
<1>6. buffer' = [i \in 1 .. gone + ReadSize |-> << Head(outbox).id, i >>]
  <2>1. /\ buffer \in Seq(Unit) /\ Units(ReadSize) \in Seq(Unit)
        /\ buffer' = buffer \o Units(ReadSize)
        /\ Len(Units(ReadSize)) = ReadSize
        /\ \A i \in 1 .. ReadSize : Units(ReadSize)[i] = << Head(outbox).id, gone + i >>
    BY <1>1, <1>4, ChunkRead, UnitsOfCargo
  <2>2. /\ buffer' \in Seq(Unit)
        /\ Len(buffer') = gone + ReadSize
        /\ \A i \in 1 .. gone + ReadSize :
             buffer'[i] = IF i <= gone THEN buffer[i] ELSE Units(ReadSize)[i - gone]
    <3> DEFINE u == Units(ReadSize)  both == buffer \o u
    <3>1. u \in Seq(Unit) /\ Len(u) = ReadSize
      BY <2>1
    <3> HIDE DEF u
    <3>2. /\ both \in Seq(Unit)
          /\ Len(both) = Len(buffer) + Len(u)
          /\ \A i \in 1 .. Len(buffer) + Len(u) :
               both[i] = IF i <= Len(buffer) THEN buffer[i] ELSE u[i - Len(buffer)]
      BY <2>1, <3>1, ConcatProperties
    <3>3. buffer' = both
      BY <2>1 DEF u
    <3> HIDE DEF both
    <3> QED
      BY <1>5, <3>1, <3>2, <3>3 DEF u
  <2>3. ASSUME NEW i \in 1 .. gone + ReadSize
        PROVE  buffer'[i] = << Head(outbox).id, i >>
    <3>1. CASE i <= gone
      <4>1. i \in 1 .. gone
        BY <1>3, <1>4, <3>1
      <4> QED
        BY <1>2, <2>2, <3>1, <4>1
    <3>2. CASE ~(i <= gone)
      <4>1. i - gone \in 1 .. ReadSize /\ gone + (i - gone) = i
        BY <1>3, <1>4, <3>2
      <4> QED
        BY <2>1, <2>2, <3>2, <4>1
    <3> QED
      BY <3>1, <3>2
  <2>4. buffer' = [i \in 1 .. gone + ReadSize |-> buffer'[i]]
    BY <2>2, LenProperties
  <2> QED
    BY <2>3, <2>4
<1>7. CASE buffer = << >>
  <2>1. gone = 0
    BY <1>5, <1>7
  <2>2. header' = HeaderNow
    BY <1>7, ChunkRead
  <2>3. ~(gone > 0)
    BY <2>1
  <2> QED
    <3>1. HeaderNow.left = Left /\ HeaderNow.cont = (gone > 0)
      BY DEF HeaderNow
    <3>2. ~header'.cont /\ header'.left = Left
      BY <2>2, <2>3, <3>1
    <3> QED
      BY <1>2, <1>3, <1>6, <2>1, <3>2
<1>8. CASE buffer # << >>
  <2>1. gone > 0
    <3>1. Len(buffer) # 0
      BY <1>8, ChunkRead, EmptySeq
    <3> QED
      BY <1>3, <1>5, <3>1
  <2>2. header' = header
    BY <1>8, ChunkRead
  <2> QED
    BY <1>2, <1>6, <2>1, <2>2
<1> QED
  BY <1>7, <1>8

-----------------------------------------------------------------------------
(* The inductive invariant.                                                *)

LEMMA InitInv == Init => IInv
<1> SUFFICES ASSUME Init PROVE IInv
  OBVIOUS
<1> USE SizesAssumption, BoundsAssumption
<1> DEFINE a == [id |-> 0 + 1, chan |-> 0, size |-> AdvertSize]
           b == [id |-> 0 + 2, chan |-> 1, size |-> 1]
<1>1. a \in Cargo /\ b \in Cargo
  BY DEF Cargo
<1>2. outbox = << a, b >>
  BY DEF Init, Announcement
<1>3. outbox \in Seq(Cargo) /\ outbox # << >> /\ Head(outbox) = a
  BY <1>1, <1>2
<1>4. gone = 0 /\ pc = "idle"
  BY DEF Init
<1>5. TypeOK
  <2>1. outSeq \in [Channels -> 0 .. SeqMod - 1] /\ nextInSeq \in [Channels -> 0 .. SeqMod - 1]
    BY DEF Init
  <2>2. header \in HeaderType
    BY DEF Init, NoHeader, HeaderType
  <2> QED
    BY <1>3, <2>1, <2>2 DEF Init, TypeOK, HeaderType
<1>6. PartlyGone
  BY <1>3, <1>4 DEF PartlyGone
<1> QED
  BY <1>4, <1>5, <1>6 DEF IInv, Intact, HeaderCovers

LEMMA ReadChunkInv ==
  ASSUME IInv, ReadChunk PROVE IInv'
<1> USE DEF IInv
<1>1. /\ pc = "chunk" /\ outbox # << >>
      /\ Left \in 1 .. AdvertSize /\ want \in 1 .. Left /\ ReadSize \in 1 .. want
      /\ gone \in Nat /\ Left = Head(outbox).size - gone
      /\ Head(outbox).size \in 1 .. AdvertSize
  BY ChunkRead, ChunkFits, FirstCargo
<1>2. /\ want' = want - ReadSize /\ want' \in Nat
      /\ ReadSize \in 1 .. Left /\ ReadSize \in Nat
      /\ Cross(ReadSize)
      /\ UNCHANGED << back, spoilt, bounds >>
  BY <1>1, ChunkRead
<1>3. /\ outbox' \in Seq(Cargo)
      /\ gone' \in 0 .. AdvertSize - 1
      /\ outSeq' \in [Channels -> 0 .. SeqMod - 1]
      /\ queued' = queued
      /\ PartlyGone'
      /\ ReadSize < Left => outbox' = outbox /\ gone' = gone + ReadSize
      /\ ReadSize = Left => outbox' = Tail(outbox) /\ gone' = 0
  BY <1>1, <1>2, Crossed
<1>4. CASE want' = 0
  <2>1. Assemble(header', buffer') /\ pc' = back /\ pc' # "chunk" /\ pc' \in {"idle", "send"}
    BY <1>4, ChunkRead DEF TypeOK
  <2>2. header' \in HeaderType /\ buffer' \in Seq(Unit) /\ Len(buffer') <= header'.left
    BY <1>4, ChunkRead, LenProperties, SizesAssumption DEF HeaderType
  <2>3. /\ remaining' \in 0 .. AdvertSize
        /\ inChan' \in Channels
        /\ nextInSeq' \in [Channels -> 0 .. SeqMod - 1]
        /\ assembly' \in Seq(Unit)
        /\ payload' \in Seq(Unit)
    BY <2>1, <2>2, Assembled
  <2>4. want' \in 0 .. AdvertSize
    BY <1>4, SizesAssumption
  <2>5. TypeOK'
    BY <1>2, <1>3, <2>1, <2>2, <2>3, <2>4 DEF TypeOK, HeaderType, Unit
  <2>6. Intact'
    <3>1. CASE ReadSize = Left
      BY <1>3, <2>1, <3>1 DEF Intact
    <3>2. CASE ReadSize < Left
      <4>1. outbox' = outbox
        BY <1>3, <3>2
      <4>2. want # Left
        BY <1>1, <1>2, <1>4, <3>2
      <4>3. Head(outbox).id \in spoilt
        BY <4>2, WholeSoFar
      <4> QED
        BY <1>2, <4>1, <4>3 DEF Intact
    <3> QED
      BY <1>1, <1>2, <3>1, <3>2
  <2>7. HeaderCovers'
    BY <2>1 DEF HeaderCovers
  <2> QED
    BY <1>3, <2>5, <2>6, <2>7
<1>5. CASE want' # 0
  <2>1. UNCHANGED << assembler, pc >>
    BY <1>5, ChunkRead
  <2>2. ReadSize < Left /\ want' \in 1 .. Left - ReadSize
    BY <1>1, <1>2, <1>5
  <2>3. outbox' = outbox /\ gone' = gone + ReadSize
    BY <1>3, <2>2
  <2>4. Left' = Left - ReadSize
    BY <1>1, <1>2, <2>3 DEF Left
  <2>5. header' \in HeaderType /\ buffer' \in Seq(Unit) /\ Len(buffer') + want' <= header'.left
    BY ChunkRead
  <2>6. want' \in 0 .. AdvertSize
    BY <1>1, <1>2, <2>2, SizesAssumption
  <2>7. TypeOK'
    BY <1>1, <1>2, <1>3, <2>1, <2>2, <2>3, <2>4, <2>5, <2>6 DEF TypeOK, HeaderType, Unit, assembler
  <2>8. Intact'
    <3>1. CASE Head(outbox).id \in spoilt
      BY <1>2, <2>3, <3>1 DEF Intact
    <3>2. CASE Head(outbox).id \notin spoilt
      <4>1. /\ want = Left
            /\ buffer' = [i \in 1 .. gone + ReadSize |-> << Head(outbox).id, i >>]
            /\ ~header'.cont /\ header'.left = Head(outbox).size
        BY <3>2, WholeSoFar
      <4>2. want' = Left'
        BY <1>2, <2>4, <4>1
      <4> QED
        BY <1>1, <2>1, <2>3, <4>1, <4>2 DEF Intact
    <3> QED
      BY <3>1, <3>2
  <2> QED
    BY <1>3, <2>5, <2>7, <2>8 DEF HeaderCovers
<1> QED
  BY <1>4, <1>5

(* Whatever a failed chunk was, the cargo it belongs to is spoilt.         *)
LEMMA ReadChunkFailsInv ==
  ASSUME IInv, ReadChunkFails PROVE IInv'
<1> USE DEF IInv
<1>1. /\ pc = "chunk" /\ pc' = back /\ back' = back
      /\ fails' = fails + 1 /\ fails < MaxFails
      /\ Cross(ReadSize) \/ UNCHANGED sensor
      /\ spoilt' = spoilt \cup {Head(outbox).id}
      /\ UNCHANGED << hal, assembler >>
  BY DEF ReadChunkFails
<1>2. /\ outbox # << >> /\ Left \in 1 .. AdvertSize /\ want \in 1 .. Left
      /\ ReadSize \in 1 .. want
      /\ Head(outbox).id \in 1 .. MaxCargoes
  BY <1>1, ChunkFits, FirstCargo
<1>3. ReadSize \in 1 .. Left /\ ReadSize \in Nat /\ Left \in Nat
  BY <1>2
<1>4. /\ outbox' \in Seq(Cargo)
      /\ gone' \in 0 .. AdvertSize - 1
      /\ outSeq' \in [Channels -> 0 .. SeqMod - 1]
      /\ queued' = queued
      /\ PartlyGone'
      /\ outbox' = outbox \/ gone' = 0
  <2>1. CASE Cross(ReadSize)
    BY <1>2, <1>3, <2>1, Crossed
  <2>2. CASE UNCHANGED sensor
    BY <2>2 DEF sensor, TypeOK, PartlyGone
  <2> QED
    BY <1>1, <2>1, <2>2
<1>5. pc' # "chunk" /\ pc' \in {"idle", "send"}
  BY <1>1 DEF TypeOK
<1>6. TypeOK'
  BY <1>1, <1>2, <1>4, <1>5 DEF TypeOK, hal, assembler
<1>7. Intact'
  BY <1>1, <1>4, <1>5 DEF Intact
<1> QED
  BY <1>4, <1>5, <1>6, <1>7 DEF HeaderCovers

(* A new cargo goes to the end of the queue.                               *)
LEMMA QueuesInv ==
  ASSUME IInv, Queues PROVE IInv'
<1> USE DEF IInv
<1>1. /\ queued < MaxCargoes /\ queued' = queued + 1
      /\ UNCHANGED << gone, outSeq, pc, back, hal, assembler, spoilt, bounds >>
  BY DEF Queues
<1>2. PICK c \in Channels \ {0}, s \in Sizes :
        outbox' = Append(outbox, [id |-> queued', chan |-> c, size |-> s])
  BY DEF Queues
<1> DEFINE new == [id |-> queued', chan |-> c, size |-> s]
<1>3. queued' \in 1 .. MaxCargoes /\ s \in 1 .. AdvertSize
  BY <1>1, SizesAssumption, BoundsAssumption DEF TypeOK
<1>4. new \in Cargo /\ new.size \in 1 .. AdvertSize
  BY <1>2, <1>3 DEF Cargo
<1> HIDE DEF new
<1>5. /\ outbox \in Seq(Cargo) /\ outbox' = Append(outbox, new)
      /\ outbox' \in Seq(Cargo) /\ outbox' # << >>
  <2>1. outbox \in Seq(Cargo)
    BY DEF TypeOK
  <2>2. outbox' = Append(outbox, new)
    BY <1>2 DEF new
  <2> QED
    BY <1>4, <2>1, <2>2, AppendProperties
<1>6. IF outbox = << >> THEN Head(outbox') = new ELSE Head(outbox') = Head(outbox)
  BY <1>4, <1>5
<1>7. outbox # << >> => Left' = Left
  BY <1>1, <1>6 DEF Left
<1>8. TypeOK'
  <2>1. pc' = "chunk" => outbox' # << >> /\ want' \in 1 .. Left'
    BY <1>1, <1>5, <1>7 DEF TypeOK, hal
  <2>2. queued' \in 0 .. MaxCargoes
    BY <1>3
  <2> QED
    BY <1>1, <1>5, <2>1, <2>2 DEF TypeOK, hal, assembler
<1>9. PartlyGone'
  BY <1>1, <1>4, <1>5, <1>6 DEF PartlyGone
<1>10. Intact'
  <2>1. CASE outbox = << >>
    <3>1. pc # "chunk" /\ gone = 0
      BY <2>1 DEF TypeOK, PartlyGone
    <3> QED
      BY <1>1, <3>1 DEF Intact
  <2>2. CASE outbox # << >>
    <3>1. Head(outbox') = Head(outbox) /\ Left' = Left
      BY <1>6, <1>7, <2>2
    <3> QED
      BY <1>1, <1>5, <2>2, <3>1 DEF Intact, hal
  <2> QED
    BY <2>1, <2>2
<1>11. HeaderCovers'
  BY <1>1 DEF HeaderCovers, hal
<1> QED
  BY <1>8, <1>9, <1>10, <1>11

(* A reset in the middle of a transfer spoils the new advertisement.       *)
LEMMA ResetsInv ==
  ASSUME IInv, Resets PROVE IInv'
<1> USE DEF IInv
<1> USE SizesAssumption, BoundsAssumption
<1>1. /\ queued + 2 <= MaxCargoes /\ queued' = queued + 2
      /\ outbox' = Announcement(queued) /\ gone' = 0
      /\ outSeq' = [c \in Channels |-> 0]
      /\ spoilt' = IF pc = "chunk" THEN spoilt \cup {queued + 1} ELSE spoilt
      /\ UNCHANGED << pc, back, hal, assembler >>
  BY DEF Resets
<1> DEFINE a == [id |-> queued + 1, chan |-> 0, size |-> AdvertSize]
           b == [id |-> queued + 2, chan |-> 1, size |-> 1]
<1>2. queued \in Nat /\ queued + 1 \in 1 .. MaxCargoes /\ queued + 2 \in 1 .. MaxCargoes
  BY <1>1 DEF TypeOK
<1>3. a \in Cargo /\ b \in Cargo
  BY <1>2 DEF Cargo
<1>4. outbox' = << a, b >>
  BY <1>1 DEF Announcement
<1>5. outbox' \in Seq(Cargo) /\ outbox' # << >> /\ Head(outbox') = a
  BY <1>3, <1>4
<1>6. Head(outbox').id = queued + 1 /\ Head(outbox').size = AdvertSize
  BY <1>5
<1> HIDE DEF a, b
<1>7. Left' = AdvertSize
  BY <1>1, <1>6 DEF Left
<1>8. TypeOK'
  <2>1. outSeq' \in [Channels -> 0 .. SeqMod - 1] /\ gone' \in 0 .. AdvertSize - 1
    BY <1>1
  <2>2. spoilt' \subseteq 1 .. MaxCargoes
    BY <1>1, <1>2 DEF TypeOK
  <2>3. queued' \in 0 .. MaxCargoes
    BY <1>1, <1>2
  <2>4. pc = "chunk" => want \in 1 .. Left'
    <3>1. pc = "chunk" => want \in 1 .. AdvertSize
      BY ChunkFits
    <3> QED
      BY <1>7, <3>1
  <2> QED
    BY <1>1, <1>5, <2>1, <2>2, <2>3, <2>4 DEF TypeOK, hal, assembler
<1>9. PartlyGone'
  BY <1>1, <1>5, <1>6 DEF PartlyGone
<1>10. Intact'
  BY <1>1, <1>6 DEF Intact
<1>11. HeaderCovers'
  BY <1>1 DEF HeaderCovers, hal
<1> QED
  BY <1>8, <1>9, <1>10, <1>11

LEMMA NextInv == IInv /\ [Next]_vars => IInv'
<1> SUFFICES ASSUME IInv, [Next]_vars PROVE IInv'
  OBVIOUS
<1> USE DEF IInv
<1>1. CASE ReadChunk
  BY <1>1, ReadChunkInv
<1>2. CASE ReadChunkFails
  BY <1>2, ReadChunkFailsInv
<1>3. CASE Queues
  BY <1>3, QueuesInv
<1>4. CASE Resets
  BY <1>4, ResetsInv
<1>5. CASE ReadHeader
  <2>1. /\ pc # "chunk" /\ outbox # << >> /\ pc' = "chunk"
        /\ want' = Left /\ buffer' = << >> /\ header' = NoHeader
        /\ UNCHANGED << sensor, back, assembler, spoilt, bounds >>
    BY <1>5 DEF ReadHeader
  <2>2. /\ gone \in Nat /\ Left = Head(outbox).size - gone
        /\ Head(outbox).size \in 1 .. AdvertSize /\ gone < Head(outbox).size
    BY <2>1, FirstCargo DEF PartlyGone
  <2>3. Left \in 1 .. AdvertSize /\ Left' = Left
    BY <2>1, <2>2, SizesAssumption DEF Left, sensor
  <2>4. header' \in HeaderType
    BY <2>1, SizesAssumption DEF NoHeader, HeaderType
  <2>5. TypeOK'
    <3>1. outbox' # << >> /\ want' \in 1 .. Left' /\ want' \in 0 .. AdvertSize
      BY <2>1, <2>2, <2>3, SizesAssumption DEF sensor
    <3>2. buffer' \in Seq(Unit)
      BY <2>1
    <3> QED
      BY <2>1, <2>4, <3>1, <3>2 DEF TypeOK, HeaderType, Unit, sensor, assembler
  <2>6. Intact'
    BY <2>1, <2>3, <2>2 DEF Intact, sensor
  <2> QED
    BY <2>1, <2>5, <2>6 DEF PartlyGone, HeaderCovers, sensor
<1>6. CASE ReadHeaderFails \/ ServiceNothing \/ Service \/ Send \/ Written \/ WriteFails
  <2>1. /\ UNCHANGED << sensor, hal, assembler, spoilt >>
        /\ pc # "chunk" /\ pc' # "chunk"
        /\ pc' \in {"idle", "service", "send"} /\ back' \in {"idle", "send"}
    BY <1>6 DEF ReadHeaderFails, ServiceNothing, Service, Send, Written, WriteFails, TypeOK
  <2>2. TypeOK'
    BY <2>1 DEF TypeOK, sensor, hal, assembler
  <2> QED
    BY <2>1, <2>2 DEF PartlyGone, Intact, HeaderCovers, sensor, hal
<1>7. CASE UNCHANGED vars
  BY <1>7 DEF vars, sensor, hal, assembler, TypeOK, PartlyGone, Intact, HeaderCovers, Left
<1> QED
  BY <1>1, <1>2, <1>3, <1>4, <1>5, <1>6, <1>7 DEF Next, Host, Failure

LEMMA Invariance == Spec => []IInv
  BY InitInv, NextInv, PTL DEF Spec

(* The lengths in i2chal_read and rxAssemble stay inside their buffers:    *)
(* no chunk is larger than what the sensor has left of the cargo, and      *)
(* inRemaining does not become negative, whatever failures and resets fall *)
(* between the chunks.                                                     *)
THEOREM TypeCorrect == Spec => []TypeOK
<1>1. IInv => TypeOK
  BY DEF IInv
<1> QED
  BY <1>1, Invariance, PTL

-----------------------------------------------------------------------------
(* The refinement.                                                         *)

LEMMA InitRefines == Init => Link!LinkInit
<1> SUFFICES ASSUME Init PROVE Link!LinkInit
  OBVIOUS
<1> DEFINE a == [id |-> 0 + 1, chan |-> 0, size |-> AdvertSize]
           b == [id |-> 0 + 2, chan |-> 1, size |-> 1]
<1>1. outbox = << a, b >> /\ outbox \in Seq(Cargo)
  BY InitInv DEF Init, Announcement, IInv, TypeOK
<1>2. Link!Ids(outbox) \subseteq 1 .. 2
  <2>1. outbox[1].id = 1 /\ outbox[2].id = 2 /\ Len(outbox) = 2
    BY <1>1
  <2> QED
    BY <2>1 DEF Link!Ids
<1> QED
  BY <1>1, <1>2 DEF Init, Link!LinkInit

LEMMA ReadChunkRefines ==
  ASSUME IInv, ReadChunk PROVE Link!Deliver \/ Link!ReadSpoilt \/ UNCHANGED Link!linkVars
<1> USE DEF IInv
<1>1. /\ pc = "chunk" /\ outbox # << >>
      /\ Left \in 1 .. AdvertSize /\ want \in 1 .. Left /\ ReadSize \in 1 .. want
      /\ gone \in Nat /\ Left = Head(outbox).size - gone
      /\ Head(outbox).size \in 1 .. AdvertSize
  BY ChunkRead, ChunkFits, FirstCargo
<1>2. /\ want' = want - ReadSize /\ Cross(ReadSize) /\ ReadSize \in 1 .. Left
      /\ UNCHANGED spoilt
  BY <1>1, ChunkRead
<1>3. /\ queued' = queued
      /\ ReadSize < Left => outbox' = outbox
      /\ ReadSize = Left => outbox' = Tail(outbox)
  BY <1>1, <1>2, Crossed
<1>4. outbox' \in {outbox, Tail(outbox)}
  BY <1>1, <1>2, <1>3
<1>5. CASE Head(outbox).id \in spoilt
  BY <1>1, <1>2, <1>3, <1>4, <1>5 DEF Link!ReadSpoilt
<1>6. CASE Head(outbox).id \notin spoilt /\ want' = 0
  <2>1. /\ want = Left
        /\ buffer' = [i \in 1 .. gone + ReadSize |-> << Head(outbox).id, i >>]
        /\ ~header'.cont /\ header'.left = Head(outbox).size
    BY <1>6, WholeSoFar
  <2>2. ReadSize = Left /\ gone + ReadSize = Head(outbox).size
    <3>1. \A w, r, z \in Nat : w - r = 0 => r = w
      OBVIOUS
    <3>2. ReadSize = want
      BY <1>1, <1>2, <1>6, <3>1
    <3> QED
      BY <1>1, <2>1, <3>2
  <2>3. buffer' = Link!Whole(Head(outbox))
    BY <2>1, <2>2 DEF Link!Whole
  <2>4. /\ Assemble(header', buffer') /\ header' \in HeaderType
        /\ buffer' \in Seq(Unit) /\ Len(buffer') <= header'.left
    BY <1>6, ChunkRead, LenProperties, SizesAssumption DEF HeaderType
  <2>5. Len(buffer') = Head(outbox).size
    BY <1>1, <2>1, <2>2
  <2>6. remaining' = 0
    <3>1. remaining' = header'.left - Len(buffer')
      BY <2>4 DEF Assemble
    <3> QED
      BY <1>1, <2>1, <2>5, <3>1
  <2>7. payload' = Link!Whole(Head(outbox))
    BY <2>1, <2>3, <2>4, <2>6, Assembled
  <2> QED
    BY <1>1, <1>2, <1>3, <1>6, <2>2, <2>7 DEF Link!Deliver
<1>7. CASE want' # 0
  <2>1. ReadSize < Left
    BY <1>1, <1>2, <1>7
  <2>2. UNCHANGED assembler
    BY <1>7, ChunkRead
  <2> QED
    BY <1>2, <1>3, <2>1, <2>2 DEF Link!linkVars, assembler
<1> QED
  BY <1>5, <1>6, <1>7

LEMMA StepRefines == IInv /\ [Next]_vars => [Link!LinkNext]_(Link!linkVars)
<1> SUFFICES ASSUME IInv, [Next]_vars PROVE [Link!LinkNext]_(Link!linkVars)
  OBVIOUS
<1> USE DEF IInv, Link!LinkNext
<1>1. CASE ReadChunk
  BY <1>1, ReadChunkRefines
<1>2. CASE ReadChunkFails
  <2>1. /\ pc = "chunk"
        /\ Cross(ReadSize) \/ UNCHANGED sensor
        /\ spoilt' = spoilt \cup {Head(outbox).id}
        /\ UNCHANGED assembler
    BY <1>2 DEF ReadChunkFails
  <2>2. /\ outbox # << >> /\ ReadSize \in 1 .. Left /\ ReadSize \in Nat /\ Left \in Nat
    BY <2>1, ChunkFits
  <2>3. queued' = queued /\ outbox' \in {outbox, Tail(outbox)}
    <3>1. CASE Cross(ReadSize)
      BY <2>2, <3>1, Crossed
    <3>2. CASE UNCHANGED sensor
      BY <3>2 DEF sensor
    <3> QED
      BY <2>1, <3>1, <3>2
  <2> QED
    BY <2>1, <2>2, <2>3 DEF Link!Fail, assembler
<1>3. CASE Queues
  <2>1. /\ queued < MaxCargoes /\ queued' = queued + 1
        /\ UNCHANGED << assembler, spoilt >>
    BY <1>3 DEF Queues
  <2>2. PICK c \in Channels \ {0}, s \in Sizes :
          outbox' = Append(outbox, [id |-> queued', chan |-> c, size |-> s])
    BY <1>3 DEF Queues
  <2> DEFINE new == [id |-> queued', chan |-> c, size |-> s]
  <2>3. new \in Cargo /\ new.id = queued'
    BY <2>1, <2>2, SizesAssumption, BoundsAssumption DEF Cargo, TypeOK
  <2> QED
    BY <2>1, <2>2, <2>3 DEF Link!Queue, assembler
<1>4. CASE Resets
  <2>1. /\ queued' = queued + 2
        /\ outbox' = Announcement(queued)
        /\ spoilt' = IF pc = "chunk" THEN spoilt \cup {queued + 1} ELSE spoilt
        /\ UNCHANGED assembler
    BY <1>4 DEF Resets
  <2>2. queued \in Nat
    BY BoundsAssumption DEF TypeOK
  <2>3. /\ outbox' # << >> /\ Len(outbox') = 2
        /\ outbox'[1].id = queued + 1 /\ outbox'[2].id = queued + 2
        /\ Head(outbox').id = queued + 1
    BY <2>1 DEF Announcement
  <2>4. Link!Ids(outbox') \subseteq queued + 1 .. queued'
    BY <2>1, <2>2, <2>3 DEF Link!Ids
  <2>5. spoilt' \in {spoilt, spoilt \cup {Head(outbox').id}}
    BY <2>1, <2>3
  <2> QED
    BY <2>1, <2>2, <2>3, <2>4, <2>5 DEF Link!Reset, assembler
<1>5. CASE ReadHeader \/ ReadHeaderFails \/ ServiceNothing \/ Service \/ Send \/ Written \/ WriteFails
  BY <1>5 DEF ReadHeader, ReadHeaderFails, ServiceNothing, Service, Send, Written, WriteFails,
              Link!linkVars, sensor, assembler
<1>6. CASE UNCHANGED vars
  BY <1>6 DEF vars, Link!linkVars, sensor, assembler
<1> QED
  BY <1>1, <1>2, <1>3, <1>4, <1>5, <1>6 DEF Next, Host, Failure

(* shtp_service over i2chal_read hands every cargo no failure and no reset *)
(* fell into to its listener whole, once and in its turn: ReadChunk        *)
(* delivers the first cargo when it reads its last chunk, or belongs to a  *)
(* spoilt one; failures, resets and new cargoes are those of CargoLink.    *)
THEOREM Refinement == Spec => ImplementsLink
<1>1. Init => Link!LinkInit
  BY InitRefines
<1>2. IInv /\ [Next]_vars => [Link!LinkNext]_(Link!linkVars)
  BY StepRefines
<1> QED
  BY <1>1, <1>2, Invariance, PTL DEF Spec, ImplementsLink, Link!LinkSpec

=============================================================================
