--------------------------- MODULE GnssCycleProofs ---------------------------
(***************************************************************************)
(* Proofs about GnssCycle, for every schedule of sentences, size of ring   *)
(* and line, number of lost bytes and place in an epoch where the UART is  *)
(* enabled: lines are pieces of the stream, a valid reading comes from the *)
(* latest line of its kind, no reading is pushed twice, a sample mixes no  *)
(* epochs further apart than the number of bytes lost, and one more if the *)
(* UART is enabled within an epoch, and no more than two epochs are missed *)
(* for each byte, besides the one whose begin the UART has missed.         *)
(***************************************************************************)
EXTENDS GnssCycle, FiniteSetTheorems, TLAPS

-----------------------------------------------------------------------------
(* Arithmetic of the positions in the stream.                              *)

LEMMA DivMod ==
  ASSUME NEW a \in Nat, NEW m \in Nat \ {0}
  PROVE  a \div m \in Nat /\ a % m \in 0 .. m - 1 /\ a = m * (a \div m) + (a % m)
  OBVIOUS

LEMMA TimesMonotonic ==
  ASSUME NEW m \in Nat \ {0}, NEW s \in Nat, NEW q \in Nat, s <= q
  PROVE  m * s <= m * q
<1>1. PICK d \in Nat : q = s + d
  <2>1. q - s \in Nat /\ q = s + (q - s)
    OBVIOUS
  <2> QED
    BY <2>1
<1>2. m * q = m * s + m * d /\ m * d \in Nat /\ m * s \in Nat /\ m * q \in Nat
  BY <1>1
<1> QED
  BY <1>2

LEMMA DivBound ==
  ASSUME NEW a \in Nat, NEW m \in Nat \ {0}, NEW s \in Nat, a < s * m
  PROVE  a \div m \in 0 .. s - 1
<1>1. a \div m \in Nat /\ a >= m * (a \div m)
  BY DivMod
<1>2. ~(s <= a \div m)
  <2> SUFFICES ASSUME s <= a \div m PROVE FALSE
    OBVIOUS
  <2>1. m * s <= m * (a \div m)
    BY <1>1, TimesMonotonic
  <2>2. m * s = s * m /\ s * m \in Nat
    OBVIOUS
  <2> QED
    BY <1>1, <2>1, <2>2
<1> QED
  BY <1>1, <1>2

LEMMA SentenceCount == Sentences \in Nat /\ Body + 2 \in Nat \ {0} /\ Sentences * (Body + 2) \in Nat
<1>1. Len(Schedule) \in Nat /\ Epochs \in Nat /\ Body \in Nat
  BY ScheduleAssumption, BoundsAssumption
<1>2. Sentences \in Nat
  BY <1>1 DEF Sentences
<1> QED
  BY <1>1, <1>2

LEMMA CharIsNat == ASSUME NEW c \in Char PROVE c \in Nat /\ c - 1 \in Nat
  BY SentenceCount DEF Char

LEMMA SentenceRange == ASSUME NEW c \in Char PROVE SentenceOf(c) \in 1 .. Sentences
<1>1. c - 1 \in Nat /\ c - 1 < Sentences * (Body + 2)
  BY SentenceCount DEF Char
<1>2. (c - 1) \div (Body + 2) \in 0 .. Sentences - 1
  BY <1>1, SentenceCount, DivBound
<1> QED
  BY <1>2, SentenceCount DEF SentenceOf

(* The header of an earlier character belongs to an earlier sentence.      *)
LEMMA HeaderOrder ==
  ASSUME NEW c \in Char, NEW d \in Char, IsHeader(c), IsHeader(d), c < d
  PROVE  SentenceOf(c) < SentenceOf(d)
<1> DEFINE m == Body + 2  q(e) == (e - 1) \div m
<1>1. m \in Nat \ {0}
  BY SentenceCount
<1>2. ASSUME NEW e \in Char, IsHeader(e) PROVE q(e) \in Nat /\ e - 1 = m * q(e)
  <2>1. e - 1 \in Nat
    BY CharIsNat
  <2>2. q(e) \in Nat /\ (e - 1) % m \in 0 .. m - 1 /\ e - 1 = m * q(e) + ((e - 1) % m)
    BY <1>1, <2>1, DivMod
  <2>3. (e - 1) % m = 0
    BY <1>2, <2>2, <1>1 DEF IsHeader, PartOf
  <2>4. m * q(e) \in Nat
    BY <1>1, <2>2
  <2> HIDE DEF q, m
  <2> QED
    BY <2>2, <2>3, <2>4
<1>3. ~(q(d) <= q(c))
  <2> SUFFICES ASSUME q(d) <= q(c) PROVE FALSE
    OBVIOUS
  <2>1. q(c) \in Nat /\ q(d) \in Nat /\ c - 1 = m * q(c) /\ d - 1 = m * q(d)
    BY <1>2
  <2> HIDE DEF q, m
  <2>2. m * q(d) <= m * q(c)
    BY <1>1, <2>1, TimesMonotonic
  <2> QED
    BY <2>1, <2>2, CharIsNat
<1>4. q(c) \in Nat /\ q(d) \in Nat /\ SentenceOf(c) = q(c) + 1 /\ SentenceOf(d) = q(d) + 1
  BY <1>2 DEF SentenceOf
<1> HIDE DEF q, m
<1> QED
  BY <1>3, <1>4

-----------------------------------------------------------------------------
(* Types.                                                                  *)

Sample == [Kind -> [from : 0 .. Sentences, valid : BOOLEAN]]

(* The sample a parser leaves, when the line begins with a character.      *)
LEMMA ParsedType ==
  ASSUME TypeOK, LineKind \in Kind, NEW solved \in BOOLEAN
  PROVE  /\ line # << >> /\ line[1] \in Char /\ IsHeader(line[1])
         /\ SentenceOf(line[1]) \in 1 .. Sentences
         /\ Parsed(LineKind, solved) \in [from : 0 .. Sentences, valid : BOOLEAN]
         /\ Parsed(LineKind, solved).valid <=> solved
         /\ Parsed(LineKind, solved).from =
              IF solved THEN SentenceOf(line[1]) ELSE gnss[LineKind].from
<1>1. line # << >> /\ IsHeader(line[1])
  BY DEF LineKind, Kind
<1>2. line[1] \in Char
  BY <1>1 DEF TypeOK
<1>3. SentenceOf(line[1]) \in 1 .. Sentences
  BY <1>2, SentenceRange
<1>4. gnss[LineKind] \in [from : 0 .. Sentences, valid : BOOLEAN]
  BY DEF TypeOK
<1>5. gnss[LineKind].from \in 0 .. Sentences /\ SentenceOf(line[1]) \in 0 .. Sentences
  BY <1>3, <1>4, SentenceCount
<1> DEFINE n == SentenceOf(line[1])  g == gnss[LineKind].from
<1>6. Parsed(LineKind, solved) =
        IF solved THEN [from |-> n, valid |-> TRUE] ELSE [from |-> g, valid |-> FALSE]
  BY Zenon DEF Parsed
<1>7. n \in 0 .. Sentences /\ g \in 0 .. Sentences /\ n \in 1 .. Sentences
  BY <1>3, <1>5
<1> HIDE DEF n, g
<1>8. Parsed(LineKind, solved) \in [from : 0 .. Sentences, valid : BOOLEAN]
  BY <1>6, <1>7
<1>9. /\ Parsed(LineKind, solved).valid <=> solved
      /\ Parsed(LineKind, solved).from = IF solved THEN n ELSE g
  BY <1>6
<1> QED
  BY <1>1, <1>2, <1>7, <1>8, <1>9 DEF n, g

(* What the end of a line of a known kind does to the samples.             *)
LEMMA EndKnownSample ==
  ASSUME TypeOK, NEW c, EndKnown(c)
  PROVE  /\ LineKind \in Kind /\ line # << >> /\ line[1] \in Char /\ IsHeader(line[1])
         /\ SentenceOf(line[1]) \in 1 .. Sentences
         /\ latest' \in [Kind -> 0 .. Sentences]
         /\ \A k \in Kind : latest'[k] = IF k = LineKind THEN SentenceOf(line[1]) ELSE latest[k]
         /\ gnss' \in Sample
         /\ \A k \in Kind \ {LineKind} : gnss'[k] = gnss[k]
         /\ gnss'[LineKind].from \in {SentenceOf(line[1]), gnss[LineKind].from}
         /\ gnss'[LineKind].valid => gnss'[LineKind].from = SentenceOf(line[1])
         /\ \/ cycle \cup {LineKind} = Kind /\ cycle' = {} /\ pushed' = gnss' /\ pushes' = pushes + 1
            \/ cycle' = cycle \cup {LineKind} /\ pushed' = pushed /\ pushes' = pushes
<1>1. LineKind \in Kind
  BY DEF EndKnown
<1>2. line # << >> /\ line[1] \in Char /\ IsHeader(line[1]) /\ SentenceOf(line[1]) \in 1 .. Sentences
  BY <1>1, ParsedType
<1>3. SentenceOf(line[1]) \in 0 .. Sentences
  BY <1>2, SentenceCount
<1>4. /\ latest' \in [Kind -> 0 .. Sentences]
      /\ \A k \in Kind : latest'[k] = IF k = LineKind THEN SentenceOf(line[1]) ELSE latest[k]
  BY <1>1, <1>3 DEF EndKnown, TypeOK
<1>5. PICK solved \in BOOLEAN : gnss' = [gnss EXCEPT ![LineKind] = Parsed(LineKind, solved)]
  BY DEF EndKnown
<1> DEFINE p == Parsed(LineKind, solved)
<1>6. /\ p \in [from : 0 .. Sentences, valid : BOOLEAN]
      /\ p.valid <=> solved
      /\ p.from = IF solved THEN SentenceOf(line[1]) ELSE gnss[LineKind].from
  BY <1>1, ParsedType
<1>7. p.valid => p.from = SentenceOf(line[1])
  BY <1>6
<1>8. p.from \in {SentenceOf(line[1]), gnss[LineKind].from}
  BY <1>6
<1>9. gnss \in Sample
  BY DEF TypeOK, Sample
<1>10. \/ cycle \cup {LineKind} = Kind /\ cycle' = {} /\ pushed' = gnss' /\ pushes' = pushes + 1
       \/ cycle' = cycle \cup {LineKind} /\ pushed' = pushed /\ pushes' = pushes
  <2>1. CASE cycle \cup {LineKind} = Kind
    BY <2>1 DEF EndKnown, CycleAfter, MaybePush
  <2>2. CASE cycle \cup {LineKind} # Kind
    BY <2>2 DEF EndKnown, CycleAfter, MaybePush
  <2> QED
    BY <2>1, <2>2
<1> HIDE DEF p
<1>11. gnss' = [gnss EXCEPT ![LineKind] = p]
  BY <1>5 DEF p
<1>12. /\ gnss' \in Sample
       /\ \A k \in Kind \ {LineKind} : gnss'[k] = gnss[k]
       /\ gnss'[LineKind] = p
  BY <1>1, <1>6, <1>9, <1>11 DEF Sample
<1> QED
  BY <1>1, <1>2, <1>4, <1>7, <1>8, <1>10, <1>12

(* The UART is enabled within the first epoch.                             *)
LEMMA StartRange ==
  ASSUME NEW n \in Starts
  PROVE  /\ n \in 0 .. Sentences * (Body + 2)
         /\ n < Len(Schedule) * (Body + 2)
         /\ Len(Schedule) \in 0 .. Sentences
<1> DEFINE L == Len(Schedule)  w == L * (Body + 2)
<1>1. L \in Nat \ {0} /\ Epochs \in Nat \ {0} /\ Body \in Nat
  BY ScheduleAssumption, BoundsAssumption
<1>2. w \in Nat /\ n \in 0 .. w - 1
  BY <1>1, StartsAssumption
<1>3. L * 1 <= L * Epochs
  BY <1>1, TimesMonotonic
<1>4. L <= Sentences /\ Sentences \in Nat
  BY <1>1, <1>3 DEF Sentences
<1>5. (Body + 2) * L <= (Body + 2) * Sentences
  BY <1>1, <1>4, TimesMonotonic
<1>6. w <= Sentences * (Body + 2) /\ Sentences * (Body + 2) \in Nat
  BY <1>1, <1>4, <1>5
<1> HIDE DEF L, w
<1> QED
  BY <1>1, <1>2, <1>4, <1>6 DEF L, w

LEMMA StartKept == [Next]_vars => start' = start /\ PartEpoch' = PartEpoch
  BY DEF Next, Store, Lose, Core1, Consume, vars, PartEpoch

LEMMA PartEpochIs == PartEpoch \in {0, 1}
  BY DEF PartEpoch

LEMMA InitType == Init => TypeOK
<1> SUFFICES ASSUME Init PROVE TypeOK
  OBVIOUS
<1>1. Nothing \in Sample
  BY SentenceCount DEF Nothing, Sample
<1>2. fifo = << >> /\ lost = 0
  BY DEF Init, Fifo!FifoInit
<1>3. sent \in 0 .. Sentences * (Body + 2)
  BY StartRange DEF Init
<1> QED
  BY <1>1, <1>2, <1>3, SentenceCount, BoundsAssumption DEF Init, TypeOK, Sample

LEMMA NextType == TypeOK /\ [Next]_vars => TypeOK'
<1> SUFFICES ASSUME TypeOK, [Next]_vars PROVE TypeOK'
  OBVIOUS
<1> USE BoundsAssumption, SentenceCount
<1>0. start' \in Starts
  BY StartKept DEF TypeOK
<1>1. CASE Store
  BY <1>0, <1>1 DEF Store, Fifo!Put, TypeOK, lineVars, Char
<1>2. CASE Lose
  BY <1>0, <1>2 DEF Lose, Fifo!Drop, TypeOK, lineVars, Char
<1>3. CASE Core1
  <2> DEFINE c == Head(fifo)
  <2>1. Consume
    BY <1>3 DEF Core1
  <2>2. fifo # << >> /\ fifo' = Tail(fifo) /\ lost' = lost /\ sent' = sent /\ dropped' = dropped
    BY <2>1 DEF Consume, Fifo!Take
  <2>3. c \in Char /\ Tail(fifo) \in Seq(Char) /\ Len(Tail(fifo)) <= Slots
    BY <2>2 DEF TypeOK
  <2>4. CASE SkipReturn(c)
    BY <1>0, <2>2, <2>3, <2>4 DEF SkipReturn, lineVars, TypeOK
  <2>5. CASE EndOther(c)
    BY <1>0, <2>2, <2>3, <2>5 DEF EndOther, TypeOK
  <2>6. CASE EndKnown(c)
    <3>1. /\ gnss' \in Sample /\ latest' \in [Kind -> 0 .. Sentences] /\ LineKind \in Kind
          /\ \/ cycle' = {} /\ pushed' = gnss' /\ pushes' = pushes + 1
             \/ cycle' = cycle \cup {LineKind} /\ pushed' = pushed /\ pushes' = pushes
      BY <2>6, EndKnownSample
    <3>2. cycle' \subseteq Kind /\ pushed' \in Sample /\ pushes' \in Nat
      BY <3>1 DEF TypeOK, Sample
    <3>3. line' = << >>
      BY <2>6 DEF EndKnown
    <3>4. /\ sent' \in 0 .. Sentences * (Body + 2) /\ lost' \in 0 .. MaxLost
          /\ fifo' \in Seq(Char) /\ Len(fifo') <= Slots
          /\ dropped' \subseteq Char
      BY <2>2, <2>3 DEF TypeOK
    <3>5. line' \in Seq(Char) /\ Len(line') <= LineMax
      BY <3>3
    <3> HIDE BoundsAssumption, SentenceCount
    <3> QED
      BY ONLY <1>0, <3>1, <3>2, <3>4, <3>5, Zenon DEF TypeOK, Sample
  <2>7. CASE Keep(c)
    BY <1>0, <2>2, <2>3, <2>7 DEF Keep, TypeOK
  <2>8. CASE Overlong(c)
    BY <1>0, <2>2, <2>3, <2>8 DEF Overlong, TypeOK
  <2> QED
    BY <1>3, <2>4, <2>5, <2>6, <2>7, <2>8 DEF Core1
<1>4. CASE UNCHANGED vars
  BY <1>0, <1>4 DEF vars, lineVars, TypeOK
<1> QED
  BY <1>1, <1>2, <1>3, <1>4 DEF Next

(* The variables keep their types: neither the ring nor line overflows.    *)
THEOREM TypeCorrect == Spec => []TypeOK
  BY InitType, NextType, PTL DEF Spec

-----------------------------------------------------------------------------
(* The order of the stream.                                                *)

(* What core 1 takes from the ring, and what is then ahead of it.          *)
LEMMA Taken ==
  ASSUME TypeOK, Consume
  PROVE  /\ fifo # << >> /\ Head(fifo) = fifo[1] /\ Head(fifo) \in Char
         /\ Len(fifo) \in Nat \ {0} /\ fifo' = Tail(fifo) /\ Len(fifo') = Len(fifo) - 1
         /\ \A i \in 1 .. Len(fifo') : fifo'[i] = fifo[i + 1]
         /\ sent' = sent /\ dropped' = dropped
         /\ Ahead = Head(fifo)
         /\ Ahead' = IF Len(fifo) = 1 THEN sent + 1 ELSE fifo[2]
<1>1. fifo # << >> /\ fifo' = Tail(fifo) /\ sent' = sent /\ dropped' = dropped
  BY DEF Consume, Fifo!Take
<1>2. fifo \in Seq(Char)
  BY DEF TypeOK
<1>3. /\ Head(fifo) = fifo[1] /\ Head(fifo) \in Char /\ Len(fifo) \in Nat \ {0}
      /\ Len(fifo') = Len(fifo) - 1
      /\ \A i \in 1 .. Len(fifo') : fifo'[i] = fifo[i + 1]
  BY <1>1, <1>2
<1>4. Ahead' = IF Len(fifo) = 1 THEN sent + 1 ELSE fifo[2]
  <2>1. CASE Len(fifo) = 1
    BY <1>1, <1>2, <1>3, <2>1 DEF Ahead
  <2>2. CASE Len(fifo) # 1
    BY <1>1, <1>2, <1>3, <2>2 DEF Ahead
  <2> QED
    BY <2>1, <2>2
<1> QED
  BY <1>1, <1>3, <1>4 DEF Ahead

(* What becomes of the line.                                               *)
LEMMA LineAfter ==
  ASSUME TypeOK, Core1
  PROVE  /\ Consume
         /\ \/ line' = line /\ IsReturn(Head(fifo)) /\ UNCHANGED lineVars
            \/ line' = << >>
            \/ line' = Append(line, Head(fifo))
  BY DEF Core1, SkipReturn, EndOther, EndKnown, Keep, Overlong, lineVars

LEMMA InitOrder == Init => StreamOrder
  BY DEF Init, Fifo!FifoInit, StreamOrder

LEMMA NextOrder == TypeOK /\ StreamOrder /\ [Next]_vars => StreamOrder'
<1> SUFFICES ASSUME TypeOK, StreamOrder, [Next]_vars PROVE StreamOrder'
  OBVIOUS
<1>0. fifo \in Seq(Char) /\ line \in Seq(Char) /\ sent \in Nat
  BY SentenceCount DEF TypeOK
<1>1. CASE Store
  <2>1. /\ sent' = sent + 1 /\ fifo' = Append(fifo, sent + 1) /\ line' = line
    BY <1>1 DEF Store, Fifo!Put, lineVars
  <2>2. /\ Len(fifo') = Len(fifo) + 1 /\ fifo'[Len(fifo) + 1] = sent + 1
        /\ \A i \in 1 .. Len(fifo) : fifo'[i] = fifo[i] /\ fifo[i] \in Nat
    BY <1>0, <2>1, CharIsNat
  <2>3. Ahead' = Ahead
    BY <1>0, <2>1, <2>2 DEF Ahead
  <2>4. ASSUME NEW i \in 1 .. Len(fifo'), NEW j \in 1 .. Len(fifo'), i < j
        PROVE  fifo'[i] < fifo'[j]
    <3>1. i \in 1 .. Len(fifo) /\ fifo[i] <= sent /\ fifo'[i] = fifo[i] /\ fifo[i] \in Nat
      BY <1>0, <2>2, <2>4 DEF StreamOrder
    <3>2. CASE j = Len(fifo) + 1
      BY <1>0, <2>2, <3>1, <3>2
    <3>3. CASE j # Len(fifo) + 1
      <4>1. j \in 1 .. Len(fifo)
        BY <1>0, <2>2, <3>3
      <4> QED
        BY <2>2, <2>4, <3>1, <4>1 DEF StreamOrder
    <3> QED
      BY <3>2, <3>3
  <2>5. \A i \in 1 .. Len(fifo') : fifo'[i] <= sent'
    BY <1>0, <2>1, <2>2 DEF StreamOrder
  <2> QED
    BY <2>1, <2>3, <2>4, <2>5 DEF StreamOrder
<1>2. CASE Lose
  <2>1. /\ sent' = sent + 1 /\ fifo' = fifo /\ line' = line
    BY <1>2 DEF Lose, Fifo!Drop, lineVars
  <2>2. Ahead <= Ahead' /\ Ahead \in Nat /\ Ahead' \in Nat
    BY <1>0, <2>1, CharIsNat DEF Ahead
  <2>3. \A i \in 1 .. Len(line) : line[i] \in Nat
    BY <1>0, CharIsNat
  <2>4. \A i \in 1 .. Len(fifo) : fifo[i] \in Nat
    BY <1>0, CharIsNat
  <2>5. \A i \in 1 .. Len(line') : line'[i] < Ahead'
    BY <2>1, <2>2, <2>3 DEF StreamOrder
  <2> QED
    BY <1>0, <2>1, <2>4, <2>5 DEF StreamOrder
<1>3. CASE Core1
  <2>1. Consume
    BY <1>3, LineAfter
  <2>2. \A i \in 1 .. Len(fifo) : fifo[i] \in Nat
    BY <1>0, CharIsNat
  <2>3. /\ \A i, j \in 1 .. Len(fifo') : i < j => fifo'[i] < fifo'[j]
        /\ \A i \in 1 .. Len(fifo') : fifo'[i] <= sent'
    <3>1. /\ Len(fifo) \in Nat \ {0} /\ Len(fifo') = Len(fifo) - 1 /\ sent' = sent
          /\ \A i \in 1 .. Len(fifo') : fifo'[i] = fifo[i + 1]
      BY <2>1, Taken
    <3>2. \A i \in 1 .. Len(fifo') : i + 1 \in 1 .. Len(fifo)
      BY <3>1
    <3>3. \A i, j \in 1 .. Len(fifo') : i < j => i + 1 < j + 1
      BY <3>1
    <3>4. \A i, j \in 1 .. Len(fifo') : i < j => fifo'[i] < fifo'[j]
      BY <3>1, <3>2, <3>3 DEF StreamOrder
    <3>5. \A i \in 1 .. Len(fifo') : fifo'[i] <= sent'
      BY <3>1, <3>2 DEF StreamOrder
    <3> QED
      BY <3>4, <3>5
  <2>4. Head(fifo) \in Nat /\ Head(fifo) < Ahead' /\ Ahead = Head(fifo) /\ Ahead' \in Nat
    BY <1>0, <2>1, <2>2, Taken DEF StreamOrder
  <2>5. ASSUME NEW i \in 1 .. Len(line) PROVE line[i] \in Nat /\ line[i] < Ahead'
    <3>1. line[i] \in Nat /\ line[i] < Ahead
      BY <1>0, CharIsNat DEF StreamOrder
    <3> QED
      BY <2>4, <3>1
  <2>6. \A i \in 1 .. Len(line') : line'[i] < Ahead'
    <3>1. CASE line' = line
      BY <2>5, <3>1
    <3>2. CASE line' = << >>
      BY <3>2
    <3>3. CASE line' = Append(line, Head(fifo))
      BY <1>0, <2>4, <2>5, <3>3, <2>1, Taken
    <3> QED
      BY <1>3, <3>1, <3>2, <3>3, LineAfter
  <2> QED
    BY <2>3, <2>6 DEF StreamOrder
<1>4. CASE UNCHANGED vars
  BY <1>4 DEF vars, lineVars, StreamOrder, Ahead
<1> QED
  BY <1>1, <1>2, <1>3, <1>4 DEF Next

-----------------------------------------------------------------------------
(* Lines are pieces of the stream.                                         *)

(* Two gaps and what lies between them make one.                           *)
LEMMA GapJoined ==
  ASSUME NEW b \in Nat, NEW c \in Nat, NEW e \in Nat,
         OnlyLost(b, c), OnlyLost(c, e), c \in dropped \/ IsReturn(c)
  PROVE  OnlyLost(b, e)
<1> SUFFICES ASSUME NEW x \in b + 1 .. e - 1 PROVE x \in dropped \/ IsReturn(x)
  BY DEF OnlyLost
<1>1. x \in b + 1 .. c - 1 \/ x = c \/ x \in c + 1 .. e - 1
  OBVIOUS
<1> QED
  BY <1>1 DEF OnlyLost

Integrity == LineIntegrity /\ StreamGaps

LEMMA InitIntegrity == Init => Integrity
  BY DEF Init, Fifo!FifoInit, Integrity, LineIntegrity, StreamGaps

(* When core 1 takes a character, the gap in front of the line moves on.   *)
LEMMA GapAhead ==
  ASSUME TypeOK, StreamGaps, Consume
  PROVE  OnlyLost(Head(fifo), Ahead') /\ Head(fifo) \in Nat /\ Ahead' \in Nat
<1>0. fifo \in Seq(Char) /\ sent \in Nat
  BY SentenceCount DEF TypeOK
<1>1. \A i \in 1 .. Len(fifo) : fifo[i] \in Nat
  BY <1>0, CharIsNat
<1>2. CASE Len(fifo) = 1
  <2>1. Head(fifo) = fifo[1] /\ Ahead' = sent + 1 /\ fifo # << >>
    BY <1>2, Taken
  <2> QED
    BY <1>0, <1>1, <1>2, <2>1 DEF StreamGaps
<1>3. CASE Len(fifo) # 1
  <2>1. Head(fifo) = fifo[1] /\ Ahead' = fifo[2] /\ fifo # << >> /\ Len(fifo) \in Nat \ {0}
    BY <1>3, Taken
  <2>2. 1 \in 1 .. Len(fifo) - 1 /\ 2 \in 1 .. Len(fifo)
    <3> DEFINE n == Len(fifo)
    <3>1. n \in Nat /\ n # 0 /\ n # 1
      BY <1>3, <2>1
    <3> HIDE DEF n
    <3>2. 1 \in 1 .. n - 1 /\ 2 \in 1 .. n
      BY <3>1
    <3> QED
      BY <3>2 DEF n
  <2>3. OnlyLost(fifo[1], fifo[1 + 1])
    BY <2>2 DEF StreamGaps
  <2> QED
    BY <1>1, <2>1, <2>2, <2>3
<1> QED
  BY <1>2, <1>3

(* The ring's own gaps, from both ends.                                    *)
RingGaps ==
  /\ \A i \in 1 .. Len(fifo) - 1 : OnlyLost(fifo[i], fifo[i + 1])
  /\ fifo # << >> => OnlyLost(fifo[Len(fifo)], sent + 1)

LEMMA CoreOneIntegrity ==
  ASSUME TypeOK, Integrity, Core1 PROVE Integrity'
<1>0. fifo \in Seq(Char) /\ line \in Seq(Char) /\ sent \in Nat /\ Consume
  BY SentenceCount, LineAfter DEF TypeOK
<1>1. dropped' = dropped /\ sent' = sent /\ Ahead = Head(fifo)
  BY <1>0, Taken
<1>2. RingGaps'
  <2>1. /\ Len(fifo') = Len(fifo) - 1 /\ Len(fifo) \in Nat \ {0} /\ fifo' = Tail(fifo)
        /\ \A i \in 1 .. Len(fifo') : fifo'[i] = fifo[i + 1]
    BY <1>0, Taken
  <2>2. ASSUME NEW i \in 1 .. Len(fifo') - 1 PROVE OnlyLost(fifo'[i], fifo'[i + 1])
    <3>1. i + 1 \in 1 .. Len(fifo) - 1 /\ i \in 1 .. Len(fifo') /\ i + 1 \in 1 .. Len(fifo')
      BY <2>1
    <3>2. OnlyLost(fifo[i + 1], fifo[(i + 1) + 1])
      BY <3>1 DEF Integrity, StreamGaps
    <3> QED
      BY <2>1, <3>1, <3>2
  <2>3. fifo' # << >> => OnlyLost(fifo'[Len(fifo')], sent + 1)
    <3> SUFFICES ASSUME fifo' # << >> PROVE OnlyLost(fifo'[Len(fifo')], sent + 1)
      OBVIOUS
    <3>1. Len(fifo') \in 1 .. Len(fifo')
      BY <1>0, <2>1
    <3>2. fifo'[Len(fifo')] = fifo[Len(fifo)] /\ fifo # << >>
      BY <1>0, <2>1, <3>1
    <3> QED
      BY <3>2 DEF Integrity, StreamGaps
  <2> QED
    BY <1>1, <2>2, <2>3 DEF RingGaps, OnlyLost
<1>3. OnlyLost(Head(fifo), Ahead') /\ Head(fifo) \in Nat /\ Ahead' \in Nat
  BY <1>0, GapAhead DEF Integrity
<1>4. line # << >> => Len(line) \in 1 .. Len(line) /\ line[Len(line)] \in Nat
                      /\ OnlyLost(line[Len(line)], Head(fifo))
  BY <1>0, <1>1, CharIsNat DEF Integrity, StreamGaps
<1>5. CASE line' = line /\ IsReturn(Head(fifo))
  <2>1. line # << >> => OnlyLost(line[Len(line)], Ahead')
    BY <1>3, <1>4, <1>5, GapJoined
  <2> QED
    BY <1>1, <1>2, <1>5, <2>1 DEF Integrity, LineIntegrity, StreamGaps, RingGaps, OnlyLost
<1>6. CASE line' = << >>
  BY <1>1, <1>2, <1>6 DEF Integrity, LineIntegrity, StreamGaps, RingGaps
<1>7. CASE line' = Append(line, Head(fifo))
  <2>1. /\ Len(line') = Len(line) + 1 /\ line' # << >> /\ line'[Len(line')] = Head(fifo)
        /\ \A i \in 1 .. Len(line) : line'[i] = line[i]
    <3> DEFINE s == line  c == Head(fifo)
    <3>1. s \in Seq(Char) /\ c \in Char /\ line' = Append(s, c)
      BY <1>0, <1>7, Taken
    <3> HIDE DEF s, c
    <3>2. /\ Len(Append(s, c)) = Len(s) + 1 /\ Append(s, c) # << >>
          /\ Append(s, c)[Len(s) + 1] = c
          /\ \A i \in 1 .. Len(s) : Append(s, c)[i] = s[i]
      BY <3>1
    <3> QED
      BY <3>1, <3>2 DEF s, c
  <2>2. ASSUME NEW i \in 1 .. Len(line') - 1 PROVE OnlyLost(line'[i], line'[i + 1])
    <3>1. i \in 1 .. Len(line) /\ line'[i] = line[i]
      BY <1>0, <2>1
    <3>2. CASE i = Len(line)
      <4>1. line'[i + 1] = Head(fifo) /\ line # << >>
        BY <1>0, <2>1, <3>1, <3>2
      <4> QED
        BY <1>4, <3>1, <3>2, <4>1
    <3>3. CASE i # Len(line)
      <4>1. i \in 1 .. Len(line) - 1 /\ line'[i + 1] = line[i + 1]
        BY <1>0, <2>1, <3>1, <3>3
      <4> QED
        BY <3>1, <4>1 DEF Integrity, LineIntegrity, OnlyLost
    <3> QED
      BY <3>2, <3>3
  <2>3. LineIntegrity'
    BY <1>1, <2>2 DEF LineIntegrity, OnlyLost
  <2>4. OnlyLost(line'[Len(line')], Ahead')
    BY <1>3, <2>1
  <2> QED
    BY <1>1, <1>2, <2>3, <2>4 DEF Integrity, StreamGaps, RingGaps, OnlyLost
<1> QED
  BY <1>5, <1>6, <1>7, LineAfter

LEMMA NextIntegrity == TypeOK /\ Integrity /\ [Next]_vars => Integrity'
<1> SUFFICES ASSUME TypeOK, Integrity, [Next]_vars PROVE Integrity'
  OBVIOUS
<1>0. fifo \in Seq(Char) /\ line \in Seq(Char) /\ sent \in Nat
  BY SentenceCount DEF TypeOK
<1>1. CASE Store
  <2>1. /\ sent' = sent + 1 /\ fifo' = Append(fifo, sent + 1) /\ line' = line /\ dropped' = dropped
    BY <1>1 DEF Store, Fifo!Put, lineVars
  <2>2. /\ Len(fifo') = Len(fifo) + 1 /\ fifo'[Len(fifo) + 1] = sent + 1
        /\ \A i \in 1 .. Len(fifo) : fifo'[i] = fifo[i]
    BY <1>0, <2>1
  <2>3. Ahead' = Ahead
    BY <1>0, <2>1, <2>2 DEF Ahead
  <2>4. ASSUME NEW i \in 1 .. Len(fifo') - 1 PROVE OnlyLost(fifo'[i], fifo'[i + 1])
    <3>1. i \in 1 .. Len(fifo) /\ fifo'[i] = fifo[i]
      BY <1>0, <2>2
    <3>2. CASE i = Len(fifo)
      <4>1. fifo'[i + 1] = sent + 1 /\ fifo # << >>
        BY <1>0, <2>2, <3>1, <3>2
      <4> QED
        BY <3>1, <3>2, <4>1 DEF Integrity, StreamGaps
    <3>3. CASE i # Len(fifo)
      <4>1. i \in 1 .. Len(fifo) - 1 /\ fifo'[i + 1] = fifo[i + 1]
        BY <1>0, <2>2, <3>1, <3>3
      <4> QED
        BY <3>1, <4>1 DEF Integrity, StreamGaps
    <3> QED
      BY <3>2, <3>3
  <2>5. OnlyLost(fifo'[Len(fifo')], sent' + 1)
    <3>1. fifo'[Len(fifo')] = sent + 1
      BY <2>2
    <3>2. OnlyLost(sent + 1, (sent + 1) + 1)
      BY <1>0 DEF OnlyLost
    <3> QED
      BY <2>1, <3>1, <3>2
  <2> QED
    BY <2>1, <2>3, <2>4, <2>5 DEF Integrity, LineIntegrity, StreamGaps, OnlyLost
<1>2. CASE Lose
  <2>1. /\ sent' = sent + 1 /\ fifo' = fifo /\ line' = line /\ dropped' = dropped \cup {sent + 1}
    BY <1>2 DEF Lose, Fifo!Drop, lineVars
  <2>2. ASSUME NEW b \in Nat, OnlyLost(b, sent + 1)
        PROVE  \A c \in b + 1 .. (sent' + 1) - 1 : c \in dropped' \/ IsReturn(c)
    <3> SUFFICES ASSUME NEW c \in b + 1 .. (sent' + 1) - 1 PROVE c \in dropped' \/ IsReturn(c)
      OBVIOUS
    <3>1. c \in b + 1 .. (sent + 1) - 1 \/ c = sent + 1
      BY <1>0, <2>1
    <3> QED
      BY <2>1, <2>2, <3>1 DEF OnlyLost
  <2>3. LineIntegrity'
    BY <2>1 DEF Integrity, LineIntegrity
  <2>4. \A i \in 1 .. Len(fifo') - 1 :
          \A c \in fifo'[i] + 1 .. fifo'[i + 1] - 1 : c \in dropped' \/ IsReturn(c)
    BY <2>1 DEF Integrity, StreamGaps, OnlyLost
  <2>5. fifo' # << >> => \A c \in fifo'[Len(fifo')] + 1 .. (sent' + 1) - 1 : c \in dropped' \/ IsReturn(c)
    <3> SUFFICES ASSUME fifo' # << >>
                 PROVE  \A c \in fifo'[Len(fifo')] + 1 .. (sent' + 1) - 1 : c \in dropped' \/ IsReturn(c)
      OBVIOUS
    <3>1. fifo'[Len(fifo')] = fifo[Len(fifo)] /\ fifo[Len(fifo)] \in Nat /\ fifo # << >>
      BY <1>0, <2>1, CharIsNat
    <3>2. OnlyLost(fifo[Len(fifo)], sent + 1)
      BY <3>1 DEF Integrity, StreamGaps
    <3> QED
      BY <2>2, <3>1, <3>2
  <2>6. line' # << >> => \A c \in line'[Len(line')] + 1 .. Ahead' - 1 : c \in dropped' \/ IsReturn(c)
    <3> SUFFICES ASSUME line' # << >>
                 PROVE  \A c \in line'[Len(line')] + 1 .. Ahead' - 1 : c \in dropped' \/ IsReturn(c)
      OBVIOUS
    <3>1. line'[Len(line')] = line[Len(line)] /\ line[Len(line)] \in Nat /\ line # << >>
      BY <1>0, <2>1, CharIsNat
    <3>2. OnlyLost(line[Len(line)], Ahead)
      BY <3>1 DEF Integrity, StreamGaps
    <3>3. CASE fifo = << >>
      <4>1. Ahead = sent + 1 /\ Ahead' = sent' + 1
        BY <2>1, <3>3 DEF Ahead
      <4> QED
        BY <2>2, <3>1, <3>2, <4>1
    <3>4. CASE fifo # << >>
      <4>1. Ahead' = Ahead
        BY <2>1, <3>4 DEF Ahead
      <4> QED
        BY <2>1, <3>1, <3>2, <4>1 DEF OnlyLost
    <3> QED
      BY <3>3, <3>4
  <2>7. StreamGaps'
    BY <2>4, <2>5, <2>6 DEF StreamGaps, OnlyLost
  <2> QED
    BY <2>3, <2>7 DEF Integrity
<1>3. CASE Core1
  BY <1>3, CoreOneIntegrity
<1>4. CASE UNCHANGED vars
  BY <1>4 DEF vars, lineVars, Integrity, LineIntegrity, StreamGaps, OnlyLost, Ahead
<1> QED
  BY <1>1, <1>2, <1>3, <1>4 DEF Next

(* Whatever the ring refuses, a line holds two sentences only if the       *)
(* newline between them was refused.                                       *)
THEOREM LinesAreStreamPieces == Spec => []LineIntegrity
<1>1. Integrity => LineIntegrity
  BY DEF Integrity
<1> QED
  BY InitType, NextType, InitIntegrity, NextIntegrity, <1>1, PTL DEF Spec

-----------------------------------------------------------------------------
(* What a sample holds.                                                    *)

Fresh == ValidIsLatest /\ LatestBehind /\ CycleFresh

LEMMA InitFresh == Init => Fresh
<1> SUFFICES ASSUME Init PROVE Fresh
  OBVIOUS
<1>1. /\ fifo = << >> /\ line = << >> /\ cycle = {}
      /\ \A k \in Kind : /\ gnss[k].from = 0 /\ ~gnss[k].valid /\ pushed[k].from = 0
                         /\ latest[k] = 0
  BY DEF Init, Fifo!FifoInit, Nothing
<1>2. \A c \in Char : Later(c)
  BY <1>1, SentenceRange, SentenceCount DEF Later
<1> QED
  BY <1>1, <1>2 DEF Fresh, ValidIsLatest, LatestBehind, CycleFresh

(* The header of the line is earlier than what is in the ring or to come.  *)
LEMMA HeaderBehind ==
  ASSUME TypeOK, StreamOrder, line # << >>, IsHeader(line[1])
  PROVE  /\ \A i \in 1 .. Len(fifo) : IsHeader(fifo[i]) => SentenceOf(line[1]) < SentenceOf(fifo[i])
         /\ \A c \in Char : c > sent /\ IsHeader(c) => SentenceOf(line[1]) < SentenceOf(c)
<1>0. fifo \in Seq(Char) /\ line \in Seq(Char) /\ sent \in Nat
  BY SentenceCount DEF TypeOK
<1>1. line[1] \in Char /\ line[1] \in Nat /\ line[1] < Ahead
  BY <1>0, CharIsNat DEF StreamOrder
<1>2. ASSUME NEW i \in 1 .. Len(fifo), IsHeader(fifo[i])
      PROVE  SentenceOf(line[1]) < SentenceOf(fifo[i])
  <2>1. Ahead = fifo[1] /\ 1 \in 1 .. Len(fifo) /\ fifo[1] \in Char /\ fifo[i] \in Char
    BY <1>0, <1>2 DEF Ahead
  <2>2. fifo[1] <= fifo[i] /\ fifo[1] \in Nat /\ fifo[i] \in Nat
    <3>1. fifo[1] \in Nat /\ fifo[i] \in Nat
      BY <2>1, CharIsNat
    <3>2. CASE i = 1
      BY <3>1, <3>2
    <3>3. CASE i # 1
      <4>1. fifo[1] < fifo[i]
        BY <2>1, <3>3 DEF StreamOrder
      <4> QED
        BY <3>1, <4>1
    <3> QED
      BY <3>2, <3>3
  <2>3. line[1] < fifo[i]
    BY <1>1, <2>1, <2>2
  <2> QED
    BY <1>1, <1>2, <2>1, <2>3, HeaderOrder
<1>3. ASSUME NEW c \in Char, c > sent, IsHeader(c)
      PROVE  SentenceOf(line[1]) < SentenceOf(c)
  <2>1. Ahead <= sent + 1 /\ Ahead \in Nat
    <3>1. CASE fifo = << >>
      BY <1>0, <3>1 DEF Ahead
    <3>2. CASE fifo # << >>
      <4>1. Head(fifo) = fifo[1] /\ 1 \in 1 .. Len(fifo) /\ fifo[1] \in Char
        BY <1>0, <3>2
      <4>2. Ahead = fifo[1]
        BY <3>2, <4>1 DEF Ahead
      <4>3. fifo[1] <= sent /\ fifo[1] \in Nat
        BY <4>1, CharIsNat DEF StreamOrder
      <4> QED
        BY <1>0, <4>2, <4>3
    <3> QED
      BY <3>1, <3>2
  <2>2. c \in Nat
    BY CharIsNat
  <2>3. line[1] < c
    BY <1>0, <1>1, <1>3, <2>1, <2>2
  <2> QED
    BY <1>1, <1>3, <2>3, HeaderOrder
<1> QED
  BY <1>2, <1>3

(* The end of a line of a known kind: its sentence is later than those of  *)
(* all lines of the kind before it, and earlier than all to come.          *)
LEMMA EndKnownFresh ==
  ASSUME TypeOK, StreamOrder, Fresh, Consume, EndKnown(Head(fifo))
  PROVE  /\ Fresh'
         /\ pushes' # pushes =>
              \A k \in Kind : pushed'[k].valid => pushed'[k].from > pushed[k].from
<1> DEFINE n == SentenceOf(line[1])
<1>1. /\ LineKind \in Kind /\ line # << >> /\ line[1] \in Char /\ IsHeader(line[1])
      /\ n \in 1 .. Sentences
      /\ latest' \in [Kind -> 0 .. Sentences]
      /\ \A k \in Kind : latest'[k] = IF k = LineKind THEN n ELSE latest[k]
      /\ gnss' \in Sample
      /\ \A k \in Kind \ {LineKind} : gnss'[k] = gnss[k]
      /\ gnss'[LineKind].from \in {n, gnss[LineKind].from}
      /\ gnss'[LineKind].valid => gnss'[LineKind].from = n
      /\ \/ cycle \cup {LineKind} = Kind /\ cycle' = {} /\ pushed' = gnss' /\ pushes' = pushes + 1
         \/ cycle' = cycle \cup {LineKind} /\ pushed' = pushed /\ pushes' = pushes
  BY EndKnownSample
<1>2. line' = << >>
  BY DEF EndKnown
<1>3. \A k \in Kind : /\ gnss[k].from \in Nat /\ pushed[k].from \in Nat /\ latest[k] \in Nat
                      /\ latest'[k] \in Nat
  <2>1. \A k \in Kind : gnss[k] \in [from : 0 .. Sentences, valid : BOOLEAN]
                        /\ pushed[k] \in [from : 0 .. Sentences, valid : BOOLEAN]
    BY DEF TypeOK
  <2>2. \A k \in Kind : gnss[k].from \in 0 .. Sentences /\ pushed[k].from \in 0 .. Sentences
    BY <2>1
  <2>3. \A k \in Kind : latest[k] \in 0 .. Sentences /\ latest'[k] \in 0 .. Sentences
    BY <1>1 DEF TypeOK
  <2> QED
    BY <2>2, <2>3, SentenceCount
<1>4. n \in Nat /\ \A k \in Kind : latest[k] < n
  <2>1. 1 \in 1 .. Len(line)
    BY <1>1 DEF TypeOK
  <2> QED
    BY <1>1, <2>1, SentenceCount DEF Fresh, LatestBehind, Later
<1>5. /\ \A i \in 1 .. Len(fifo) : IsHeader(fifo[i]) => n < SentenceOf(fifo[i])
      /\ \A c \in Char : c > sent /\ IsHeader(c) => n < SentenceOf(c)
  BY <1>1, HeaderBehind
<1>6. /\ sent' = sent /\ Len(fifo) \in Nat \ {0} /\ Len(fifo') = Len(fifo) - 1
      /\ \A i \in 1 .. Len(fifo') : fifo'[i] = fifo[i + 1]
  BY Taken
<1> HIDE DEF n
<1>7. LatestBehind'
  <2>1. ASSUME NEW i \in 1 .. Len(fifo') 
        PROVE  IsHeader(fifo'[i]) => \A k \in Kind : latest'[k] < SentenceOf(fifo'[i])
    <3>1. i + 1 \in 1 .. Len(fifo) /\ fifo'[i] = fifo[i + 1]
      BY <1>6
    <3>2. IsHeader(fifo[i + 1]) => \A k \in Kind : latest'[k] < SentenceOf(fifo[i + 1])
      BY <1>1, <1>5, <3>1 DEF Fresh, LatestBehind, Later
    <3> QED
      BY <3>1, <3>2
  <2>2. \A c \in Char : c > sent' => (IsHeader(c) => \A k \in Kind : latest'[k] < SentenceOf(c))
    BY <1>1, <1>5, <1>6 DEF Fresh, LatestBehind, Later
  <2> QED
    BY <1>2, <2>1, <2>2 DEF LatestBehind, Later
<1>8. ValidIsLatest'
  <2> SUFFICES ASSUME NEW k \in Kind, gnss'[k].valid PROVE gnss'[k].from = latest'[k]
    BY DEF ValidIsLatest
  <2>1. CASE k = LineKind
    BY <1>1, <2>1
  <2>2. CASE k # LineKind
    BY <1>1, <2>2 DEF Fresh, ValidIsLatest
  <2> QED
    BY <2>1, <2>2
<1>9. \A k \in Kind : /\ gnss'[k].from <= latest'[k] /\ pushed[k].from <= latest'[k]
                      /\ latest[k] <= latest'[k]
                      /\ k \in cycle \cup {LineKind} => pushed[k].from < latest'[k]
  <2> SUFFICES ASSUME NEW k \in Kind
               PROVE  /\ gnss'[k].from <= latest'[k] /\ pushed[k].from <= latest'[k]
                      /\ latest[k] <= latest'[k]
                      /\ k \in cycle \cup {LineKind} => pushed[k].from < latest'[k]
    OBVIOUS
  <2>1. /\ gnss[k].from <= latest[k] /\ pushed[k].from <= latest[k]
        /\ k \in cycle => pushed[k].from < latest[k]
    BY DEF Fresh, CycleFresh
  <2>2. CASE k = LineKind
    BY <1>1, <1>3, <1>4, <2>1, <2>2
  <2>3. CASE k # LineKind
    BY <1>1, <1>3, <2>1, <2>3
  <2> QED
    BY <2>2, <2>3
<1>10. CASE cycle \cup {LineKind} = Kind /\ cycle' = {} /\ pushed' = gnss' /\ pushes' = pushes + 1
  <2>1. CycleFresh'
    BY <1>9, <1>10 DEF CycleFresh
  <2>2. \A k \in Kind : pushed'[k].valid => pushed'[k].from > pushed[k].from
    <3> SUFFICES ASSUME NEW k \in Kind, pushed'[k].valid PROVE pushed'[k].from > pushed[k].from
      OBVIOUS
    <3>1. pushed'[k].from = latest'[k]
      BY <1>8, <1>10 DEF ValidIsLatest
    <3>2. pushed[k].from < latest'[k]
      BY <1>9, <1>10
    <3> QED
      BY <1>3, <3>1, <3>2
  <2> QED
    BY <1>7, <1>8, <2>1, <2>2 DEF Fresh
<1>11. CASE cycle' = cycle \cup {LineKind} /\ pushed' = pushed /\ pushes' = pushes
  BY <1>7, <1>8, <1>9, <1>11 DEF Fresh, CycleFresh
<1> QED
  BY <1>1, <1>10, <1>11

(* The steps that end no line of a known kind leave the samples alone.     *)
LEMMA NextFresh ==
  ASSUME TypeOK, StreamOrder, Fresh, [Next]_vars
  PROVE  /\ Fresh'
         /\ pushes' # pushes =>
              \A k \in Kind : pushed'[k].valid => pushed'[k].from > pushed[k].from
<1>0. fifo \in Seq(Char) /\ line \in Seq(Char) /\ sent \in Nat
  BY SentenceCount DEF TypeOK
<1> DEFINE Kept == gnss' = gnss /\ pushed' = pushed /\ pushes' = pushes /\ latest' = latest
<1>1. ASSUME Kept, cycle' \in {cycle, {}}, LatestBehind' PROVE Fresh' /\ pushes' = pushes
  BY <1>1 DEF Fresh, ValidIsLatest, CycleFresh
<1>2. CASE Store
  <2>1. /\ sent' = sent + 1 /\ sent + 1 \in Char /\ fifo' = Append(fifo, sent + 1)
        /\ line' = line /\ cycle' = cycle /\ Kept
    BY <1>2 DEF Store, Fifo!Put, lineVars
  <2>2. Later(sent + 1)
    BY <1>0, <2>1 DEF Fresh, LatestBehind
  <2>3. \A i \in 1 .. Len(fifo') : fifo'[i] = IF i = Len(fifo) + 1 THEN sent + 1 ELSE fifo[i]
    BY <1>0, <2>1
  <2>4. \A i \in 1 .. Len(fifo') : Later(fifo'[i])
    BY <1>0, <2>1, <2>2, <2>3 DEF Fresh, LatestBehind
  <2>5. \A c \in Char : c > sent' => Later(c)
    BY <1>0, <2>1, CharIsNat DEF Fresh, LatestBehind
  <2>6. LatestBehind'
    BY <2>1, <2>4, <2>5 DEF Fresh, LatestBehind, Later
  <2> QED
    BY <1>1, <2>1, <2>6
<1>3. CASE Lose
  <2>1. /\ sent' = sent + 1 /\ fifo' = fifo /\ line' = line /\ cycle' = cycle /\ Kept
    BY <1>3 DEF Lose, Fifo!Drop, lineVars
  <2>2. \A c \in Char : c > sent' => Later(c)
    BY <1>0, <2>1, CharIsNat DEF Fresh, LatestBehind
  <2>3. LatestBehind'
    BY <2>1, <2>2 DEF Fresh, LatestBehind, Later
  <2> QED
    BY <1>1, <2>1, <2>3
<1>4. ASSUME Core1, ~EndKnown(Head(fifo))
      PROVE  Fresh' /\ pushes' = pushes
  <2> DEFINE c == Head(fifo)
  <2>1. /\ Kept /\ cycle' \in {cycle, {}}
    BY <1>4 DEF Core1, SkipReturn, EndOther, Keep, Overlong, lineVars
  <2>2. Consume /\ (line' = line \/ line' = << >> \/ line' = Append(line, c))
    BY <1>4, LineAfter
  <2>3. /\ sent' = sent /\ Len(fifo) \in Nat \ {0} /\ Len(fifo') = Len(fifo) - 1 /\ c = fifo[1]
        /\ \A i \in 1 .. Len(fifo') : fifo'[i] = fifo[i + 1]
    BY <2>2, Taken
  <2>4. Later(c) /\ \A i \in 1 .. Len(fifo') : Later(fifo'[i])
    BY <2>3 DEF Fresh, LatestBehind
  <2>5. \A i \in 1 .. Len(line') : Later(line'[i])
    <3>1. CASE line' = line \/ line' = << >>
      BY <3>1 DEF Fresh, LatestBehind
    <3>2. CASE line' = Append(line, c)
      <4>1. \A i \in 1 .. Len(line') : line'[i] = IF i = Len(line) + 1 THEN c ELSE line[i]
        BY <1>0, <2>2, <3>2, Taken
      <4>2. \A i \in 1 .. Len(line') : i = Len(line) + 1 \/ i \in 1 .. Len(line)
        BY <1>0, <3>2
      <4> QED
        BY <2>4, <4>1, <4>2 DEF Fresh, LatestBehind
    <3> QED
      BY <2>2, <3>1, <3>2
  <2>6. LatestBehind'
    BY <2>1, <2>3, <2>4, <2>5 DEF Fresh, LatestBehind, Later
  <2> QED
    BY <1>1, <2>1, <2>6
<1>5. CASE UNCHANGED vars
  BY <1>5 DEF vars, lineVars, Fresh, ValidIsLatest, LatestBehind, Later, CycleFresh
<1> QED
  BY <1>2, <1>3, <1>4, <1>5, EndKnownFresh, LineAfter DEF Next

(* A reading marked valid comes from the latest line of its kind.          *)
THEOREM ValidFromLatest == Spec => []ValidIsLatest
<1>1. TypeOK /\ StreamOrder /\ Fresh /\ [Next]_vars => Fresh'
  BY NextFresh
<1>2. Fresh => ValidIsLatest
  BY DEF Fresh
<1> QED
  BY InitType, NextType, InitOrder, NextOrder, InitFresh, <1>1, <1>2, PTL DEF Spec

(* No reading reaches core 0 twice, whatever is lost in between.           *)
THEOREM NoReadingTwice == Spec => NothingPushedTwice
<1>1. TypeOK /\ StreamOrder /\ Fresh /\ [Next]_vars => Fresh'
  BY NextFresh
<1>2. TypeOK /\ StreamOrder /\ Fresh /\ [Next]_vars =>
        [pushes' # pushes =>
           \A k \in Kind : pushed'[k].valid => pushed'[k].from > pushed[k].from]_vars
  BY NextFresh
<1> QED
  BY InitType, NextType, InitOrder, NextOrder, InitFresh, <1>1, <1>2, PTL
  DEF Spec, NothingPushedTwice

-----------------------------------------------------------------------------
(* The skew of a sample: arithmetic of sentences and epochs.               *)

LEMMA DivModUnique ==
  ASSUME NEW m \in Nat \ {0}, NEW q \in Nat, NEW r \in 0 .. m - 1
  PROVE  (m * q + r) \div m = q /\ (m * q + r) % m = r
<1> DEFINE a == m * q + r
           x == a \div m
           y == a % m
<1>1. m * q \in Nat /\ a \in Nat /\ r \in Nat /\ a = m * q + r
  OBVIOUS
<1>2. x \in Nat /\ y \in 0 .. m - 1 /\ a = m * x + y
  BY <1>1, DivMod
<1> HIDE DEF a, x, y
<1>3. m * x \in Nat /\ y \in Nat
  BY <1>2
<1>4. ~(x + 1 <= q)
  <2> SUFFICES ASSUME x + 1 <= q PROVE FALSE
    OBVIOUS
  <2>1. m * (x + 1) <= m * q
    BY <1>2, TimesMonotonic
  <2>2. m * (x + 1) = m * x + m
    BY <1>2
  <2> QED
    BY <1>1, <1>2, <1>3, <2>1, <2>2
<1>5. ~(q + 1 <= x)
  <2> SUFFICES ASSUME q + 1 <= x PROVE FALSE
    OBVIOUS
  <2>1. m * (q + 1) <= m * x
    BY <1>2, TimesMonotonic
  <2>2. m * (q + 1) = m * q + m
    OBVIOUS
  <2> QED
    BY <1>1, <1>2, <1>3, <2>1, <2>2
<1>6. x = q
  BY <1>2, <1>4, <1>5
<1>7. y = r
  BY <1>1, <1>2, <1>3, <1>6
<1> QED
  BY <1>6, <1>7 DEF a, x, y

(* Where a character stands.                                               *)
LEMMA Places ==
  ASSUME NEW n \in Nat \ {0}
  PROVE  /\ HeaderAt(n) \in Nat \ {0} /\ NewlineAt(n) \in Nat /\ NewlineAt(n - 1) \in Nat
         /\ NewlineAt(n) = HeaderAt(n) + (Body + 1)
         /\ NewlineAt(n - 1) = HeaderAt(n) - 1
         /\ HeaderAt(n + 1) = NewlineAt(n) + 1
<1> DEFINE m == Body + 2
<1>1. m \in Nat \ {0} /\ Body \in Nat
  BY SentenceCount, BoundsAssumption
<1>2. n - 1 \in Nat /\ (n - 1) * m \in Nat /\ n * m \in Nat
  BY <1>1
<1>3. n * m = (n - 1) * m + m
  BY <1>1, <1>2
<1>4. (n + 1) - 1 = n
  OBVIOUS
<1> QED
  BY <1>1, <1>2, <1>3, <1>4 DEF HeaderAt, NewlineAt

LEMMA PlaceIs ==
  ASSUME NEW n \in Nat \ {0}, NEW t \in 1 .. Body + 2
  PROVE  SentenceOf(HeaderAt(n) + (t - 1)) = n /\ PartOf(HeaderAt(n) + (t - 1)) = t
<1> DEFINE m == Body + 2
           q == n - 1
           r == t - 1
<1>1. m \in Nat \ {0} /\ q \in Nat /\ r \in 0 .. m - 1
  BY SentenceCount
<1>2. (m * q + r) \div m = q /\ (m * q + r) % m = r
  BY <1>1, DivModUnique
<1>3. (HeaderAt(n) + (t - 1)) - 1 = m * q + r
  <2>1. m * q \in Nat /\ (n - 1) * (Body + 2) = m * q
    BY <1>1
  <2> QED
    BY <1>1, <2>1 DEF HeaderAt
<1>4. SentenceOf(HeaderAt(n) + (t - 1)) = q + 1 /\ PartOf(HeaderAt(n) + (t - 1)) = r + 1
  BY <1>2, <1>3 DEF SentenceOf, PartOf
<1> QED
  BY <1>4

LEMMA PlaceOf ==
  ASSUME NEW c \in Nat \ {0}
  PROVE  /\ SentenceOf(c) \in Nat \ {0} /\ PartOf(c) \in 1 .. Body + 2
         /\ c = HeaderAt(SentenceOf(c)) + (PartOf(c) - 1)
         /\ IsHeader(c) => c = HeaderAt(SentenceOf(c))
         /\ IsNewline(c) => c = NewlineAt(SentenceOf(c))
<1> DEFINE m == Body + 2
           q == (c - 1) \div m
           r == (c - 1) % m
<1>1. m \in Nat \ {0} /\ c - 1 \in Nat /\ Body \in Nat
  BY SentenceCount, BoundsAssumption
<1>2. q \in Nat /\ r \in 0 .. m - 1 /\ c - 1 = m * q + r
  BY <1>1, DivMod
<1>3. SentenceOf(c) = q + 1 /\ PartOf(c) = r + 1
  BY DEF SentenceOf, PartOf
<1> HIDE DEF q, r
<1>4. HeaderAt(SentenceOf(c)) = m * q + 1
  <2>1. (SentenceOf(c) - 1) * (Body + 2) = m * q
    BY <1>1, <1>2, <1>3
  <2> QED
    BY <2>1 DEF HeaderAt
<1>5. m * q \in Nat
  BY <1>1, <1>2
<1>6. /\ SentenceOf(c) \in Nat \ {0} /\ PartOf(c) \in 1 .. Body + 2
      /\ c = HeaderAt(SentenceOf(c)) + (PartOf(c) - 1)
  BY <1>1, <1>2, <1>3, <1>4, <1>5
<1>7. /\ IsHeader(c) => c = HeaderAt(SentenceOf(c))
      /\ IsNewline(c) => c = HeaderAt(SentenceOf(c)) + (Body + 1)
  <2>1. HeaderAt(SentenceOf(c)) \in Nat
    BY <1>6, Places
  <2>2. PartOf(c) = 1 => c = HeaderAt(SentenceOf(c))
    BY <1>6, <2>1
  <2>3. PartOf(c) = Body + 2 => c = HeaderAt(SentenceOf(c)) + (Body + 1)
    BY <1>1, <1>6, <2>1
  <2> QED
    BY <2>2, <2>3 DEF IsHeader, IsNewline
<1> QED
  BY <1>6, <1>7, Places

LEMMA Marks ==
  ASSUME NEW n \in Nat \ {0}
  PROVE  /\ IsHeader(HeaderAt(n)) /\ SentenceOf(HeaderAt(n)) = n
         /\ ~IsReturn(HeaderAt(n)) /\ ~IsNewline(HeaderAt(n))
         /\ IsNewline(NewlineAt(n)) /\ SentenceOf(NewlineAt(n)) = n
         /\ ~IsReturn(NewlineAt(n)) /\ ~IsHeader(NewlineAt(n))
<1>1. Body \in Nat \ {0}
  BY BoundsAssumption
<1>2. 1 \in 1 .. Body + 2 /\ Body + 2 \in 1 .. Body + 2 /\ (Body + 2) - 1 = Body + 1
  BY <1>1
<1>3. HeaderAt(n) \in Nat /\ NewlineAt(n) = HeaderAt(n) + (Body + 1)
  BY Places
<1>4. SentenceOf(HeaderAt(n)) = n /\ PartOf(HeaderAt(n)) = 1
  <2>1. HeaderAt(n) + (1 - 1) = HeaderAt(n)
    BY <1>3
  <2> QED
    BY <1>2, <2>1, PlaceIs
<1>5. SentenceOf(NewlineAt(n)) = n /\ PartOf(NewlineAt(n)) = Body + 2
  BY <1>2, <1>3, PlaceIs
<1> QED
  BY <1>1, <1>4, <1>5 DEF IsHeader, IsReturn, IsNewline

LEMMA PlacesOrder ==
  ASSUME NEW n \in Nat \ {0}, NEW p \in Nat \ {0}, p < n
  PROVE  /\ HeaderAt(p) < NewlineAt(n - 1) /\ HeaderAt(p) < HeaderAt(n)
         /\ NewlineAt(p) < HeaderAt(n)
<1> DEFINE m == Body + 2
<1>1. m \in Nat \ {0} /\ p \in Nat /\ n - 1 \in Nat /\ p <= n - 1 /\ Body \in Nat
  BY SentenceCount, BoundsAssumption
<1>2. m * p <= m * (n - 1)
  BY <1>1, TimesMonotonic
<1>3. NewlineAt(p) <= NewlineAt(n - 1)
  BY <1>1, <1>2 DEF NewlineAt
<1>4. /\ HeaderAt(p) \in Nat /\ NewlineAt(p) = HeaderAt(p) + (Body + 1)
      /\ HeaderAt(n) \in Nat /\ NewlineAt(n - 1) = HeaderAt(n) - 1
  BY Places
<1> QED
  BY <1>1, <1>3, <1>4

(* A sentence whose header comes earlier is earlier.                       *)
LEMMA PlacesBack ==
  ASSUME NEW n \in Nat \ {0}, NEW p \in Nat \ {0}, HeaderAt(p) < HeaderAt(n)
  PROVE  p < n
<1>1. HeaderAt(p) \in Nat /\ HeaderAt(n) \in Nat
  BY Places
<1>2. ~(n < p) /\ n # p
  BY <1>1, PlacesOrder
<1> QED
  BY <1>2

(* The p-th sentence of an epoch, the epochs counted from 0.               *)
At(q, p) == q * Len(Schedule) + p

LEMMA ScheduleLength ==
  /\ Len(Schedule) \in Nat \ {0} /\ Sentences = Epochs * Len(Schedule)
  /\ Epochs \in Nat /\ Sentences \in Nat
  BY ScheduleAssumption, BoundsAssumption DEF Sentences

LEMMA AtIs ==
  ASSUME NEW q \in Nat, NEW p \in 1 .. Len(Schedule)
  PROVE  /\ At(q, p) \in Nat \ {0}
         /\ EpochOf(At(q, p)) = q + 1
         /\ (At(q, p) - 1) % Len(Schedule) = p - 1
         /\ KindOf(At(q, p)) = Schedule[p]
<1> DEFINE m == Len(Schedule)
           r == p - 1
<1>1. m \in Nat \ {0} /\ r \in 0 .. m - 1 /\ p \in Nat
  BY ScheduleLength
<1>2. (m * q + r) \div m = q /\ (m * q + r) % m = r
  BY <1>1, DivModUnique
<1>3. m * q \in Nat /\ q * m = m * q
  BY <1>1
<1>4. At(q, p) - 1 = m * q + r /\ At(q, p) \in Nat \ {0}
  BY <1>1, <1>3 DEF At
<1>5. EpochOf(At(q, p)) = q + 1
  BY <1>2, <1>4 DEF EpochOf
<1>6. (At(q, p) - 1) % Len(Schedule) = p - 1
  BY <1>2, <1>4
<1>7. KindOf(At(q, p)) = Schedule[(p - 1) + 1] /\ (p - 1) + 1 = p
  BY <1>1, <1>6 DEF KindOf
<1> QED
  BY <1>4, <1>5, <1>6, <1>7

LEMMA IsAt ==
  ASSUME NEW n \in Nat \ {0}
  PROVE  /\ EpochOf(n) \in Nat \ {0} /\ EpochOf(n) - 1 \in Nat
         /\ \E p \in 1 .. Len(Schedule) :
              n = At(EpochOf(n) - 1, p) /\ KindOf(n) = Schedule[p]
<1> DEFINE m == Len(Schedule)
           q == (n - 1) \div m
           r == (n - 1) % m
<1>1. m \in Nat \ {0} /\ n - 1 \in Nat
  BY ScheduleLength
<1>2. q \in Nat /\ r \in 0 .. m - 1 /\ n - 1 = m * q + r
  BY <1>1, DivMod
<1>3. EpochOf(n) = q + 1 /\ KindOf(n) = Schedule[r + 1]
  BY DEF EpochOf, KindOf
<1> HIDE DEF q, r
<1>4. m * q \in Nat /\ q * m = m * q
  BY <1>1, <1>2
<1>5. r + 1 \in 1 .. m /\ EpochOf(n) - 1 = q
  BY <1>1, <1>2, <1>3
<1>6. n = At(q, r + 1)
  BY <1>1, <1>2, <1>4, <1>5 DEF At
<1> QED
  BY <1>2, <1>3, <1>5, <1>6

LEMMA AtOrder ==
  ASSUME NEW q \in Nat, NEW p \in 1 .. Len(Schedule),
         NEW x \in Nat, NEW y \in 1 .. Len(Schedule)
  PROVE  /\ q < x => At(q, p) < At(x, y)
         /\ At(q, p) < At(q, y) <=> p < y
<1> DEFINE m == Len(Schedule)
<1>1. m \in Nat \ {0} /\ p \in Nat /\ y \in Nat
  BY ScheduleLength
<1>2. q * m \in Nat /\ x * m \in Nat
  BY <1>1
<1>3. ASSUME q < x PROVE At(q, p) < At(x, y)
  <2>1. m * (q + 1) <= m * x
    BY <1>1, <1>3, TimesMonotonic
  <2>2. m * (q + 1) = q * m + m /\ m * x = x * m
    BY <1>1
  <2> QED
    BY <1>1, <1>2, <2>1, <2>2 DEF At
<1> QED
  BY <1>1, <1>2, <1>3 DEF At

LEMMA EpochOrder ==
  ASSUME NEW n \in Nat \ {0}, NEW x \in Nat \ {0}, n <= x
  PROVE  EpochOf(n) <= EpochOf(x)
<1>1. PICK p \in 1 .. Len(Schedule) : n = At(EpochOf(n) - 1, p)
  BY IsAt
<1>2. PICK y \in 1 .. Len(Schedule) : x = At(EpochOf(x) - 1, y)
  BY IsAt
<1>3. EpochOf(n) - 1 \in Nat /\ EpochOf(x) - 1 \in Nat
  BY IsAt
<1>4. ~(EpochOf(x) - 1 < EpochOf(n) - 1)
  <2> SUFFICES ASSUME EpochOf(x) - 1 < EpochOf(n) - 1 PROVE FALSE
    OBVIOUS
  <2>1. x < n
    BY <1>1, <1>2, <1>3, AtOrder
  <2> QED
    BY <2>1
<1>5. EpochOf(n) \in Nat /\ EpochOf(x) \in Nat
  BY IsAt
<1> QED
  BY <1>4, <1>5

-----------------------------------------------------------------------------
(* The skew of a sample: what a step does to the place in the stream.      *)

LEMMA Between ==
  ASSUME NEW b \in Nat, NEW d \in Nat, NEW e \in Nat
  PROVE  /\ \A c \in Nat : d < c /\ c < e => c \in d + 1 .. e - 1
         /\ \A c \in b + 1 .. e - 1 : c \in b + 1 .. d - 1 \/ c = d \/ c \in d + 1 .. e - 1
  OBVIOUS

LEMMA TwoAtLeast ==
  ASSUME NEW n \in Nat, n # 0, n # 1
  PROVE  1 \in 1 .. n - 1 /\ 1 \in 1 .. n /\ 2 \in 1 .. n
  OBVIOUS

LEMMA Received ==
  ASSUME TypeOK, Store \/ Lose
  PROVE  /\ Ahead' = Ahead /\ UNCHANGED lineVars /\ dropped \subseteq dropped'
         /\ Lose => dropped' # {}
<1>0. fifo \in Seq(Char) /\ Slots \in Nat \ {0}
  BY BoundsAssumption DEF TypeOK
<1>1. CASE Store
  <2>1. fifo' = Append(fifo, sent + 1) /\ sent' = sent + 1 /\ dropped' = dropped /\ UNCHANGED lineVars
    BY <1>1 DEF Store, Fifo!Put
  <2>2. Ahead' = Ahead
    <3>1. CASE fifo = << >>
      BY <1>0, <2>1, <3>1 DEF Ahead
    <3>2. CASE fifo # << >>
      BY <1>0, <2>1, <3>2 DEF Ahead
    <3> QED
      BY <3>1, <3>2
  <2>3. ~Lose
    BY <1>0, <1>1 DEF Store, Fifo!Put, Lose, Fifo!Drop
  <2> QED
    BY <2>1, <2>2, <2>3
<1>2. CASE Lose
  <2>1. /\ fifo' = fifo /\ Len(fifo) = Slots /\ dropped' = dropped \cup {sent + 1}
        /\ UNCHANGED lineVars
    BY <1>2 DEF Lose, Fifo!Drop
  <2>2. fifo # << >>
    BY <1>0, <2>1
  <2> QED
    BY <2>1, <2>2 DEF Ahead
<1> QED
  BY <1>1, <1>2

LEMMA Moved ==
  ASSUME TypeOK, StreamOrder, StreamGaps, Consume
  PROVE  /\ Ahead = Head(fifo) /\ Ahead \in Char /\ Ahead \in Nat \ {0}
         /\ Ahead' \in Nat /\ Ahead < Ahead'
         /\ dropped' = dropped /\ lost' = lost /\ sent' = sent
         /\ \A c \in Ahead + 1 .. Ahead' - 1 : c \in dropped \/ IsReturn(c)
<1>0. sent \in Nat
  BY SentenceCount DEF TypeOK
<1>1. /\ fifo # << >> /\ Head(fifo) = fifo[1] /\ Head(fifo) \in Char
      /\ Len(fifo) \in Nat \ {0} /\ sent' = sent /\ dropped' = dropped
      /\ Ahead = Head(fifo)
      /\ Ahead' = IF Len(fifo) = 1 THEN sent + 1 ELSE fifo[2]
  BY Taken
<1>2. Ahead \in Nat \ {0}
  BY <1>1, CharIsNat
<1>3. lost' = lost
  BY DEF Consume, Fifo!Take
<1>4. Ahead' \in Nat /\ Ahead < Ahead' /\ OnlyLost(Ahead, Ahead')
  <2>1. CASE Len(fifo) = 1
    <3>1. fifo[1] <= sent /\ OnlyLost(fifo[1], sent + 1)
      BY <1>1, <2>1 DEF StreamOrder, StreamGaps
    <3> QED
      BY <1>0, <1>1, <1>2, <2>1, <3>1
  <2>2. CASE Len(fifo) # 1
    <3>1. Len(fifo) \in Nat /\ Len(fifo) # 0
      BY <1>1
    <3>2. 1 \in 1 .. Len(fifo) - 1 /\ 1 \in 1 .. Len(fifo) /\ 2 \in 1 .. Len(fifo)
      BY <2>2, <3>1, TwoAtLeast
    <3>3. fifo[2] \in Char
      <4>1. fifo \in Seq(Char)
        BY DEF TypeOK
      <4> QED
        BY <3>2, <4>1
    <3>4. fifo[1] < fifo[2]
      BY <3>2 DEF StreamOrder
    <3>5. OnlyLost(fifo[1], fifo[1 + 1])
      BY <3>2 DEF StreamGaps
    <3>6. fifo[1 + 1] = fifo[2]
      OBVIOUS
    <3> QED
      BY <1>1, <2>2, <3>3, <3>4, <3>5, <3>6, CharIsNat
  <2> QED
    BY <2>1, <2>2
<1> QED
  BY <1>1, <1>2, <1>3, <1>4 DEF OnlyLost

(* The headers and newlines that are behind core 1 after a step.           *)
LEMMA Passed ==
  ASSUME TypeOK, StreamOrder, StreamGaps, Consume, NEW n \in Nat \ {0}
  PROVE  /\ HeaderAt(n) < Ahead' => HeaderAt(n) <= Ahead \/ HeaderAt(n) \in dropped
         /\ NewlineAt(n) < Ahead' => NewlineAt(n) <= Ahead \/ NewlineAt(n) \in dropped
<1>1. /\ Ahead \in Nat \ {0} /\ Ahead' \in Nat
      /\ \A c \in Ahead + 1 .. Ahead' - 1 : c \in dropped \/ IsReturn(c)
  BY Moved
<1>2. HeaderAt(n) \in Nat /\ NewlineAt(n) \in Nat
  BY Places
<1>3. ~IsReturn(HeaderAt(n)) /\ ~IsReturn(NewlineAt(n))
  BY Marks
<1>4. ASSUME NEW c \in Nat, c < Ahead', ~(c <= Ahead) PROVE c \in Ahead + 1 .. Ahead' - 1
  <2>1. Ahead < c
    BY <1>1, <1>4
  <2> QED
    BY <1>1, <1>4, <2>1, Between
<1> QED
  BY <1>1, <1>2, <1>3, <1>4

(* The first character of the line after a step.                           *)
LEMMA FirstOfLine ==
  ASSUME TypeOK, Core1, line' # << >>
  PROVE  /\ Consume /\ ~IsNewline(Head(fifo))
         /\ cycle' = cycle /\ latest' = latest /\ pushed' = pushed
         /\ \/ line # << >> /\ line'[1] = line[1]
            \/ line = << >> /\ line'[1] = Head(fifo) /\ ~IsReturn(Head(fifo))
<1>0. line \in Seq(Char) /\ Consume
  BY LineAfter DEF TypeOK
<1>1. CASE SkipReturn(Head(fifo))
  <2>1. ~IsNewline(Head(fifo))
    BY <1>1, BoundsAssumption DEF SkipReturn, IsReturn, IsNewline
  <2> QED
    BY <1>0, <1>1, <2>1 DEF SkipReturn, lineVars
<1>2. CASE Keep(Head(fifo))
  <2>1. /\ line' = Append(line, Head(fifo)) /\ Head(fifo) \in Char
        /\ ~IsReturn(Head(fifo)) /\ ~IsNewline(Head(fifo))
        /\ cycle' = cycle /\ latest' = latest /\ pushed' = pushed
    BY <1>0, <1>2, Taken DEF Keep
  <2>2. CASE line = << >>
    BY <1>0, <2>1, <2>2
  <2>3. CASE line # << >>
    <3>1. Len(line) \in Nat \ {0} /\ 1 \in 1 .. Len(line)
      BY <1>0, <2>3
    <3>2. line'[1] = line[1]
      BY <1>0, <2>1, <3>1
    <3> QED
      BY <1>0, <2>1, <2>3, <3>2
  <2> QED
    BY <2>2, <2>3
<1> QED
  BY <1>1, <1>2 DEF Core1, EndOther, EndKnown, Overlong

-----------------------------------------------------------------------------
(* The skew of a sample: the parts of the inductive invariant.             *)

LEMMA DroppedFinite == ASSUME TypeOK PROVE IsFiniteSet(dropped)
<1>1. IsFiniteSet(Char)
  BY SentenceCount, FS_Interval DEF Char
<1> QED
  BY <1>1, FS_Subset DEF TypeOK

LEMMA LostCountedStep ==
  ASSUME TypeOK, LostCounted, [Next]_vars PROVE LostCounted'
<1>0. sent \in Nat
  BY SentenceCount DEF TypeOK
<1>1. CASE Store
  BY <1>0, <1>1, CharIsNat DEF Store, Fifo!Put, LostCounted, TypeOK
<1>2. CASE Lose
  <2>1. lost' = lost + 1 /\ sent' = sent + 1 /\ dropped' = dropped \cup {sent + 1}
    BY <1>2 DEF Lose, Fifo!Drop
  <2>2. \A c \in dropped : c \in Nat /\ c <= sent
    BY CharIsNat DEF LostCounted, TypeOK
  <2>3. sent + 1 \notin dropped
    BY <1>0, <2>2
  <2>4. Cardinality(dropped') = Cardinality(dropped) + 1
    BY <2>1, <2>3, DroppedFinite, FS_AddElement
  <2> QED
    BY <1>0, <2>1, <2>2, <2>4 DEF LostCounted
<1>3. CASE Core1 \/ UNCHANGED vars
  <2>1. lost' = lost /\ sent' = sent /\ dropped' = dropped
    BY <1>3, LineAfter DEF Consume, Fifo!Take, vars
  <2> QED
    BY <2>1 DEF LostCounted
<1> QED
  BY <1>1, <1>2, <1>3 DEF Next

LEMMA LatestOfKindStep ==
  ASSUME TypeOK, LatestOfKind, [Next]_vars PROVE LatestOfKind'
<1>1. CASE Store \/ Lose \/ UNCHANGED vars
  <2>1. cycle' = cycle /\ latest' = latest
    BY <1>1 DEF Store, Lose, vars, lineVars
  <2> QED
    BY <2>1 DEF LatestOfKind
<1>2. CASE Core1 /\ ~EndKnown(Head(fifo))
  <2>1. cycle' \in {cycle, {}} /\ latest' = latest
    BY <1>2 DEF Core1, SkipReturn, EndOther, Keep, Overlong, lineVars
  <2> QED
    BY <2>1 DEF LatestOfKind
<1>3. CASE EndKnown(Head(fifo))
  <2>1. /\ LineKind \in Kind /\ line # << >> /\ SentenceOf(line[1]) \in 1 .. Sentences
        /\ IsHeader(line[1])
        /\ \A k \in Kind : latest'[k] = IF k = LineKind THEN SentenceOf(line[1]) ELSE latest[k]
        /\ cycle' = {} \/ cycle' = cycle \cup {LineKind}
    BY <1>3, EndKnownSample
  <2>2. LineKind = KindOf(SentenceOf(line[1])) /\ SentenceOf(line[1]) # 0
    BY <2>1 DEF LineKind
  <2> SUFFICES ASSUME NEW k \in Kind
               PROVE  /\ latest'[k] # 0 => KindOf(latest'[k]) = k
                      /\ k \in cycle' => latest'[k] # 0
    BY DEF LatestOfKind
  <2>3. CASE k = LineKind
    BY <2>1, <2>2, <2>3
  <2>4. CASE k # LineKind
    BY <2>1, <2>4 DEF LatestOfKind
  <2> QED
    BY <2>3, <2>4
<1> QED
  BY <1>1, <1>2, <1>3 DEF Next

LEMMA SplicedStep ==
  ASSUME TypeOK, StreamOrder, StreamGaps, Spliced, [Next]_vars PROVE Spliced'
<1>1. CASE Store \/ Lose
  <2>1. Ahead' = Ahead /\ line' = line /\ dropped \subseteq dropped'
    BY <1>1, Received DEF lineVars
  <2> QED
    BY <2>1 DEF Spliced
<1>2. CASE Core1
  <2> SUFFICES ASSUME line' # << >>
               PROVE  /\ ~IsNewline(line'[1])
                      /\ \A c \in line'[1] + 1 .. Ahead' - 1 : IsNewline(c) => c \in dropped'
    BY DEF Spliced
  <2>1. /\ Consume /\ ~IsNewline(Head(fifo))
        /\ \/ line # << >> /\ line'[1] = line[1]
           \/ line = << >> /\ line'[1] = Head(fifo)
    BY <1>2, FirstOfLine
  <2>2. /\ Ahead = Head(fifo) /\ Ahead \in Nat /\ Ahead' \in Nat /\ dropped' = dropped
        /\ \A c \in Ahead + 1 .. Ahead' - 1 : c \in dropped \/ IsReturn(c)
    BY <2>1, Moved
  <2>3. \A c \in Ahead + 1 .. Ahead' - 1 : IsNewline(c) => c \in dropped
    <3>1. \A c : ~(IsReturn(c) /\ IsNewline(c))
      BY BoundsAssumption DEF IsNewline, IsReturn
    <3> QED
      BY <2>2, <3>1
  <2>4. CASE line # << >> /\ line'[1] = line[1]
    <3>1. ~IsNewline(line[1]) /\ \A c \in line[1] + 1 .. Ahead - 1 : IsNewline(c) => c \in dropped
      BY <2>4 DEF Spliced
    <3>2. line[1] \in Nat
      <4>1. line[1] \in Char
        BY <2>4 DEF TypeOK
      <4> QED
        BY <4>1, CharIsNat
    <3>3. ASSUME NEW c \in line[1] + 1 .. Ahead' - 1, IsNewline(c) PROVE c \in dropped
      <4>1. c \in line[1] + 1 .. Ahead - 1 \/ c = Ahead \/ c \in Ahead + 1 .. Ahead' - 1
        BY <2>2, <3>2, <3>3, Between
      <4> QED
        BY <2>1, <2>2, <2>3, <3>1, <3>3, <4>1
    <3> QED
      BY <2>2, <2>4, <3>1, <3>3
  <2>5. CASE line = << >> /\ line'[1] = Head(fifo)
    BY <2>1, <2>2, <2>3, <2>5
  <2> QED
    BY <2>1, <2>4, <2>5
<1>3. CASE UNCHANGED vars
  BY <1>3 DEF vars, lineVars, Spliced, Ahead
<1> QED
  BY <1>1, <1>2, <1>3 DEF Next

(* A header that core 1 passes undamaged begins a line.                    *)
LEMMA HeaderTaken ==
  ASSUME TypeOK, StreamOrder, StreamGaps, Spliced, Core1, NEW n \in Nat \ {0},
         HeaderAt(n) < Ahead', ~(HeaderAt(n) < Ahead), ~Damaged(n)
  PROVE  \/ Overlong(Head(fifo))
         \/ Keep(Head(fifo)) /\ line' # << >> /\ line'[1] = HeaderAt(n)
<1>1. Consume /\ line \in Seq(Char)
  BY LineAfter DEF TypeOK
<1>2. /\ Ahead = Head(fifo) /\ Ahead \in Char /\ Ahead \in Nat \ {0}
  BY <1>1, Moved
<1>3. HeaderAt(n) \in Nat \ {0} /\ NewlineAt(n - 1) = HeaderAt(n) - 1
  BY Places
<1>4. HeaderAt(n) = Ahead
  <2>1. HeaderAt(n) <= Ahead
    BY <1>1, Passed DEF Damaged
  <2> QED
    BY <1>2, <1>3, <2>1
<1>5. ~IsReturn(Head(fifo)) /\ ~IsNewline(Head(fifo))
  BY <1>2, <1>4, Marks
<1>6. Keep(Head(fifo)) \/ Overlong(Head(fifo))
  BY <1>5 DEF Core1, SkipReturn, EndOther, EndKnown
<1>7. line = << >>
  <2> SUFFICES ASSUME line # << >> PROVE FALSE
    OBVIOUS
  <2>1. line[1] \in Char /\ 1 \in 1 .. Len(line)
    BY <1>1
  <2>2. line[1] < Ahead /\ line[1] \in Nat \ {0}
    BY <2>1, SentenceCount DEF StreamOrder, Char
  <2>3. n - 1 \in Nat \ {0}
    <3>1. CASE n = 1
      <4>1. HeaderAt(n) = 1
        BY <3>1, SentenceCount DEF HeaderAt
      <4> QED
        BY <1>4, <2>2, <4>1
    <3> QED
      BY <3>1
  <2>4. IsNewline(NewlineAt(n - 1))
    BY <2>3, Marks
  <2>5. line[1] # NewlineAt(n - 1)
    BY <2>4 DEF Spliced
  <2>6. NewlineAt(n - 1) \in line[1] + 1 .. Ahead - 1
    BY <1>2, <1>3, <1>4, <2>2, <2>5
  <2> QED
    BY <2>4, <2>6 DEF Spliced, Damaged
<1>8. Keep(Head(fifo)) => line' = Append(<< >>, Head(fifo))
  BY <1>7 DEF Keep
<1> QED
  BY <1>2, <1>4, <1>6, <1>8

(* Where the end of a line leaves the sentences before it.                 *)
LEMMA LineEnded ==
  ASSUME TypeOK, StreamOrder, StreamGaps, Spliced, Consume,
         IsNewline(Head(fifo)), line # << >>, IsHeader(line[1])
  PROVE  /\ SentenceOf(line[1]) \in Nat \ {0} /\ line[1] = HeaderAt(SentenceOf(line[1]))
         /\ \A n \in Nat \ {0} :
              HeaderAt(n) < Ahead' /\ ~Damaged(n) =>
                HeaderAt(n) < Ahead /\ n <= SentenceOf(line[1])
<1> DEFINE m == SentenceOf(line[1])
<1>1. line[1] \in Char /\ 1 \in 1 .. Len(line)
  BY DEF TypeOK
<1>2. line[1] < Ahead /\ line[1] \in Nat \ {0}
  BY <1>1, SentenceCount DEF StreamOrder, Char
<1>3. m \in Nat \ {0} /\ line[1] = HeaderAt(m)
  BY <1>2, PlaceOf
<1>4. Ahead = Head(fifo) /\ Ahead \in Nat \ {0}
  BY Moved
<1> HIDE DEF m
<1>5. ASSUME NEW n \in Nat \ {0}, HeaderAt(n) < Ahead', ~Damaged(n)
      PROVE  HeaderAt(n) < Ahead /\ n <= m
  <2>1. HeaderAt(n) \in Nat \ {0} /\ NewlineAt(n - 1) = HeaderAt(n) - 1
    BY Places
  <2>2. HeaderAt(n) <= Ahead
    BY <1>5, Passed DEF Damaged
  <2>3. ~IsNewline(HeaderAt(n))
    BY Marks
  <2>4. HeaderAt(n) < Ahead
    BY <1>4, <2>1, <2>2, <2>3
  <2>5. ~(m < n)
    <3> SUFFICES ASSUME m < n PROVE FALSE
      OBVIOUS
    <3>1. HeaderAt(m) < NewlineAt(n - 1)
      BY <1>3, PlacesOrder
    <3>2. n - 1 \in Nat \ {0}
      BY <1>3
    <3>3. IsNewline(NewlineAt(n - 1))
      BY <3>2, Marks
    <3>4. NewlineAt(n - 1) \in line[1] + 1 .. Ahead - 1
      BY <1>2, <1>3, <1>4, <2>1, <2>4, <3>1
    <3> QED
      BY <1>5, <3>3, <3>4 DEF Spliced, Damaged
  <2> QED
    BY <1>3, <2>4, <2>5
<1> QED
  BY <1>3, <1>5 DEF m

LEMMA NoneSkippedStep ==
  ASSUME TypeOK, StreamOrder, StreamGaps, Spliced, LatestBehind, NoneSkipped, [Next]_vars
  PROVE  NoneSkipped'
<1>1. CASE Store \/ Lose
  <2>1. Ahead' = Ahead /\ line' = line /\ cycle' = cycle /\ latest' = latest /\ dropped \subseteq dropped'
    BY <1>1, Received DEF lineVars
  <2> QED
    BY <2>1 DEF NoneSkipped, Damaged
<1>2. CASE UNCHANGED vars
  BY <1>2 DEF vars, lineVars, NoneSkipped, Damaged, Ahead
<1>3. CASE Core1
  <2>1. Consume /\ dropped' = dropped
    BY <1>3, LineAfter, Moved
  <2> SUFFICES ASSUME NEW k \in cycle', NEW n \in latest'[k] + 1 .. Sentences,
                      HeaderAt(n) < Ahead', ~Damaged(n)
               PROVE  \/ line' # << >> /\ line'[1] = HeaderAt(n)
                      \/ KindOf(n) \in Kind => KindOf(n) \in cycle' /\ n <= latest'[KindOf(n)]
    BY <2>1 DEF NoneSkipped, Damaged
  <2>2. n \in Nat \ {0} /\ n \in 1 .. Sentences /\ latest'[k] < n
    <3>1. TypeOK'
      BY NextType
    <3>2. latest'[k] \in Nat
      BY <3>1, SentenceCount DEF TypeOK
    <3> QED
      BY <3>2, SentenceCount
  <2>3. ASSUME k \in cycle, latest[k] < n, HeaderAt(n) < Ahead
        PROVE  \/ line # << >> /\ line[1] = HeaderAt(n)
               \/ KindOf(n) \in Kind => KindOf(n) \in cycle /\ n <= latest[KindOf(n)]
    <3>1. latest[k] \in Nat
      BY <2>3, SentenceCount DEF TypeOK
    <3>2. n \in latest[k] + 1 .. Sentences
      BY <2>2, <2>3, <3>1
    <3> QED
      BY <2>3, <3>2 DEF NoneSkipped
  <2>4. CASE SkipReturn(Head(fifo))
    <3>1. line' = line /\ cycle' = cycle /\ latest' = latest
      BY <2>4 DEF SkipReturn, lineVars
    <3>2. IsReturn(Head(fifo))
      BY <2>4 DEF SkipReturn
    <3>3. HeaderAt(n) < Ahead
      BY <1>3, <2>2, <3>2, HeaderTaken DEF Overlong, Keep
    <3> QED
      BY <2>2, <2>3, <3>1, <3>3
  <2>5. CASE Keep(Head(fifo))
    <3>1. /\ cycle' = cycle /\ latest' = latest /\ line' = Append(line, Head(fifo))
          /\ ~Overlong(Head(fifo))
      BY <2>5 DEF Keep, Overlong, TypeOK
    <3>2. CASE HeaderAt(n) < Ahead
      <4>1. line # << >> => line' # << >> /\ line'[1] = line[1]
        <5>1. line \in Seq(Char) /\ Head(fifo) \in Char
          BY <2>1, Taken DEF TypeOK
        <5>2. line' # << >>
          BY <3>1, <5>1
        <5> QED
          BY <1>3, <5>2, FirstOfLine
      <4> QED
        BY <2>2, <2>3, <3>1, <3>2, <4>1
    <3>3. CASE ~(HeaderAt(n) < Ahead)
      BY <1>3, <2>2, <3>1, <3>3, HeaderTaken
    <3> QED
      BY <3>2, <3>3
  <2>6. CASE Overlong(Head(fifo))
    BY <2>6 DEF Overlong
  <2>7. CASE EndOther(Head(fifo))
    <3>1. cycle' = cycle /\ latest' = latest /\ IsNewline(Head(fifo)) /\ LineKind \notin Kind
      BY <2>7 DEF EndOther
    <3>2. HeaderAt(n) < Ahead
      BY <1>3, <2>2, <3>1, HeaderTaken DEF Overlong, Keep
    <3>3. ASSUME line # << >>, line[1] = HeaderAt(n) PROVE KindOf(n) \notin Kind
      BY <2>2, <3>1, <3>3, Marks DEF LineKind
    <3> QED
      BY <2>2, <2>3, <3>1, <3>2, <3>3
  <2>8. CASE EndKnown(Head(fifo))
    <3> DEFINE m == SentenceOf(line[1])
    <3>1. /\ LineKind \in Kind /\ line # << >> /\ IsHeader(line[1]) /\ m \in 1 .. Sentences
          /\ \A j \in Kind : latest'[j] = IF j = LineKind THEN m ELSE latest[j]
          /\ cycle' = {} \/ cycle' = cycle \cup {LineKind}
      BY <2>8, EndKnownSample
    <3>2. cycle' = cycle \cup {LineKind} /\ k \in Kind /\ cycle \subseteq Kind
      BY <3>1 DEF TypeOK
    <3>3. LineKind = KindOf(m)
      BY <3>1 DEF LineKind
    <3>4. /\ m \in Nat \ {0} /\ line[1] = HeaderAt(m) /\ HeaderAt(n) < Ahead /\ n <= m
      BY <2>1, <2>2, <2>8, <3>1, LineEnded DEF EndKnown
    <3>5. \A j \in Kind : latest[j] < m /\ latest[j] \in Nat
      <4>1. 1 \in 1 .. Len(line)
        BY <3>1 DEF TypeOK
      <4>2. \A j \in Kind : latest[j] \in 0 .. Sentences
        BY DEF TypeOK
      <4> QED
        BY <3>1, <4>1, <4>2, SentenceCount DEF LatestBehind, Later
    <3> HIDE DEF m
    <3>6. CASE n = m
      BY <3>1, <3>2, <3>3, <3>4, <3>6
    <3>7. CASE n # m
      <4>1. k # LineKind
        BY <2>2, <3>1, <3>4, <3>7
      <4>2. k \in cycle /\ latest[k] < n
        BY <2>2, <3>1, <3>2, <4>1
      <4>3. line[1] # HeaderAt(n)
        <5>1. HeaderAt(n) < HeaderAt(m) /\ HeaderAt(n) \in Nat /\ HeaderAt(m) \in Nat
          <6>1. n < m
            BY <2>2, <3>4, <3>7
          <6> QED
            BY <2>2, <3>4, <6>1, PlacesOrder, Places
        <5> QED
          BY <3>4, <5>1
      <4>4. KindOf(n) \in Kind => KindOf(n) \in cycle /\ n <= latest[KindOf(n)]
        BY <2>3, <3>4, <4>2, <4>3
      <4>5. \A j \in Kind : latest[j] <= latest'[j] /\ latest'[j] \in Nat /\ latest[j] \in Nat
        BY <3>1, <3>4, <3>5
      <4> QED
        BY <2>2, <3>2, <4>4, <4>5
    <3> QED
      BY <3>6, <3>7
  <2> QED
    BY <1>3, <2>4, <2>5, <2>6, <2>7, <2>8 DEF Core1
<1> QED
  BY <1>1, <1>2, <1>3 DEF Next

-----------------------------------------------------------------------------
(* The skew of a sample: without loss core 1 is in phase.                  *)

LEMMA NextPlace ==
  ASSUME NEW c \in Nat \ {0}
  PROVE  IF PartOf(c) = Body + 2
         THEN SentenceOf(c + 1) = SentenceOf(c) + 1 /\ PartOf(c + 1) = 1
         ELSE SentenceOf(c + 1) = SentenceOf(c) /\ PartOf(c + 1) = PartOf(c) + 1
<1> DEFINE s == SentenceOf(c)
           t == PartOf(c)
<1>1. /\ s \in Nat \ {0} /\ t \in 1 .. Body + 2 /\ c = HeaderAt(s) + (t - 1)
  BY PlaceOf
<1>2. /\ HeaderAt(s) \in Nat /\ Body \in Nat /\ HeaderAt(s + 1) = HeaderAt(s) + (Body + 2)
      /\ HeaderAt(s + 1) \in Nat
  <2>1. s + 1 \in Nat \ {0} /\ Body \in Nat
    BY <1>1, BoundsAssumption
  <2>2. HeaderAt(s) \in Nat /\ HeaderAt(s + 1) \in Nat
    BY <1>1, <2>1, Places
  <2>3. NewlineAt(s) = HeaderAt(s) + (Body + 1) /\ HeaderAt(s + 1) = NewlineAt(s) + 1
    BY <1>1, Places
  <2> QED
    BY <2>1, <2>2, <2>3
<1> HIDE DEF s, t
<1>3. CASE t = Body + 2
  <2>1. c + 1 = HeaderAt(s + 1) + (1 - 1) /\ 1 \in 1 .. Body + 2 /\ s + 1 \in Nat \ {0}
    BY <1>1, <1>2, <1>3
  <2>2. SentenceOf(c + 1) = s + 1 /\ PartOf(c + 1) = 1
    BY <2>1, PlaceIs
  <2> QED
    BY <1>3, <2>2 DEF s, t
<1>4. CASE t # Body + 2
  <2>1. c + 1 = HeaderAt(s) + ((t + 1) - 1) /\ t + 1 \in 1 .. Body + 2
    BY <1>1, <1>2, <1>4
  <2>2. SentenceOf(c + 1) = s /\ PartOf(c + 1) = t + 1
    BY <1>1, <2>1, PlaceIs
  <2> QED
    BY <1>4, <2>2 DEF s, t
<1> QED
  BY <1>3, <1>4

LEMMA GaplessStep ==
  ASSUME TypeOK, StreamOrder, StreamGaps, Gapless, [Next]_vars
  PROVE  /\ Gapless'
         /\ Core1 /\ dropped = {} => Ahead' = Ahead + 1
<1>0. fifo \in Seq(Char) /\ sent \in Nat /\ Len(fifo) \in Nat
  BY SentenceCount DEF TypeOK
<1>1. CASE Store
  <2>1. fifo' = Append(fifo, sent + 1) /\ sent' = sent + 1 /\ dropped' = dropped
    BY <1>1 DEF Store, Fifo!Put
  <2>2. /\ Len(fifo') = Len(fifo) + 1
        /\ \A i \in 1 .. Len(fifo') : fifo'[i] = IF i = Len(fifo) + 1 THEN sent + 1 ELSE fifo[i]
    BY <1>0, <2>1
  <2>3. sent' - Len(fifo') = sent - Len(fifo)
    BY <1>0, <2>1, <2>2
  <2> SUFFICES ASSUME dropped = {}, NEW i \in 1 .. Len(fifo')
               PROVE  fifo'[i] = (sent' - Len(fifo')) + i
    BY <1>1, <2>1 DEF Gapless, Core1, Consume, Fifo!Take, Fifo!Put, Store
  <2>4. CASE i = Len(fifo) + 1
    BY <1>0, <2>2, <2>3, <2>4
  <2>5. CASE i # Len(fifo) + 1
    <3>1. i \in 1 .. Len(fifo) /\ fifo'[i] = fifo[i]
      BY <1>0, <2>2, <2>5
    <3> QED
      BY <2>3, <3>1 DEF Gapless
  <2> QED
    BY <2>4, <2>5
<1>2. CASE Lose
  <2>1. dropped' # {} /\ sent' # sent
    BY <1>0, <1>2, Received DEF Lose
  <2> QED
    BY <2>1, LineAfter, Moved DEF Gapless
<1>3. CASE Core1
  <2>1. /\ Head(fifo) = fifo[1] /\ Len(fifo) # 0 /\ Len(fifo') = Len(fifo) - 1
        /\ \A i \in 1 .. Len(fifo') : fifo'[i] = fifo[i + 1]
        /\ sent' = sent /\ dropped' = dropped /\ Ahead = Head(fifo)
        /\ Ahead' = IF Len(fifo) = 1 THEN sent + 1 ELSE fifo[2]
    BY <1>3, LineAfter, Taken
  <2>2. Gapless'
    <3> SUFFICES ASSUME dropped = {}, NEW i \in 1 .. Len(fifo')
                 PROVE  fifo'[i] = (sent' - Len(fifo')) + i
      BY <2>1 DEF Gapless
    <3>1. i \in Nat /\ i + 1 \in 1 .. Len(fifo)
      BY <1>0, <2>1
    <3>2. fifo'[i] = (sent - Len(fifo)) + (i + 1)
      BY <2>1, <3>1 DEF Gapless
    <3> QED
      BY <1>0, <2>1, <3>1, <3>2
  <2>3. ASSUME dropped = {} PROVE Ahead' = Ahead + 1
    <3>1. 1 \in 1 .. Len(fifo)
      BY <1>0, <2>1
    <3>2. fifo[1] = (sent - Len(fifo)) + 1
      BY <2>3, <3>1 DEF Gapless
    <3>3. CASE Len(fifo) = 1
      BY <1>0, <2>1, <3>2, <3>3
    <3>4. CASE Len(fifo) # 1
      <4>1. 2 \in 1 .. Len(fifo)
        BY <1>0, <2>1, <3>4, TwoAtLeast
      <4>2. fifo[2] = (sent - Len(fifo)) + 2
        BY <2>3, <4>1 DEF Gapless
      <4> QED
        BY <1>0, <2>1, <3>2, <3>4, <4>2
    <3> QED
      BY <3>3, <3>4
  <2> QED
    BY <2>2, <2>3
<1>4. CASE UNCHANGED vars
  <2>1. fifo' = fifo /\ sent' = sent /\ dropped' = dropped
    BY <1>4 DEF vars
  <2>2. ~Core1
    <3> SUFFICES ASSUME Core1 PROVE FALSE
      OBVIOUS
    <3>1. Len(fifo') = Len(fifo) - 1
      BY LineAfter, Taken
    <3> QED
      BY <1>0, <2>1, <3>1
  <2> QED
    BY <2>1, <2>2 DEF Gapless
<1> QED
  BY <1>1, <1>2, <1>3, <1>4 DEF Next

(* The flags move on with the schedule, a sentence at a time.              *)
LEMMA CycleOn ==
  ASSUME KindsOnce, EachKind, NEW n \in Nat \ {0}, NEW flags, NEW after,
         flags = CycleAfter(Upto((n - 1) % Len(Schedule))),
         \/ KindOf(n) \notin Kind /\ after = flags
         \/ KindOf(n) \in Kind /\ after = CycleAfter(flags \cup {KindOf(n)})
  PROVE  after = CycleAfter(Upto(n % Len(Schedule)))
<1> DEFINE m == Len(Schedule)
           r == (n - 1) % m
<1>1. m \in Nat \ {0}
  BY ScheduleLength
<1>2. PICK p \in 1 .. m : n = At(EpochOf(n) - 1, p) /\ KindOf(n) = Schedule[p]
  BY IsAt
<1>3. EpochOf(n) - 1 \in Nat
  BY IsAt
<1>4. p \in Nat /\ r = p - 1
  <2>1. (At(EpochOf(n) - 1, p) - 1) % Len(Schedule) = p - 1
    BY <1>3, AtIs
  <2>2. (n - 1) % Len(Schedule) = p - 1
    BY <1>2, <2>1
  <2> QED
    BY <2>2, ScheduleLength
<1>5. Upto(p) = Upto(p - 1) \cup ({KindOf(n)} \cap Kind)
  <2>1. 1 .. p = 1 .. (p - 1) \cup {p}
    BY <1>2
  <2> QED
    BY <1>2, <2>1 DEF Upto
<1>6. after = CycleAfter(Upto(p))
  <2>1. CASE KindOf(n) \notin Kind
    <3>1. Upto(p) = Upto(p - 1)
      BY <1>5, <2>1
    <3> QED
      BY <1>4, <2>1, <3>1
  <2>2. CASE KindOf(n) \in Kind
    <3>1. KindOf(n) \notin Upto(p - 1)
      <4> SUFFICES ASSUME KindOf(n) \in Upto(p - 1) PROVE FALSE
        OBVIOUS
      <4>1. PICK y \in 1 .. p - 1 : Schedule[y] = KindOf(n)
        BY DEF Upto
      <4>2. y \in 1 .. m /\ y # p
        BY <1>1, <1>2, <4>1
      <4> QED
        BY <1>2, <2>2, <4>1, <4>2 DEF KindsOnce
    <3>2. flags = Upto(p - 1)
      BY <1>4, <2>2, <3>1 DEF CycleAfter
    <3>3. flags \cup {KindOf(n)} = Upto(p)
      BY <1>5, <2>2, <3>2
    <3> QED
      BY <2>2, <3>3
  <2> QED
    BY <2>1, <2>2
<1>7. CycleAfter(Upto(p)) = CycleAfter(Upto(n % m))
  <2> DEFINE q == EpochOf(n) - 1
  <2>1. q \in Nat /\ m * q \in Nat /\ n = m * q + p
    <3>1. q * m = m * q /\ m * q \in Nat
      BY <1>1, <1>3
    <3> QED
      BY <1>2, <1>3, <3>1 DEF At
  <2> HIDE DEF q
  <2>2. CASE p < m
    <3>1. p \in 0 .. m - 1
      BY <1>1, <1>2, <2>2
    <3>2. n % m = p
      BY <1>1, <2>1, <3>1, DivModUnique
    <3> QED
      BY <3>2
  <2>3. CASE p = m
    <3>1. n = m * (q + 1) + 0 /\ q + 1 \in Nat /\ 0 \in 0 .. m - 1
      BY <1>1, <2>1, <2>3
    <3>2. n % m = 0
      BY <1>1, <3>1, DivModUnique
    <3>3. Upto(0) = {} /\ {} # Kind
      BY DEF Upto, Kind
    <3>4. Upto(p) = Kind
      BY <2>3 DEF Upto, EachKind
    <3> QED
      BY <3>2, <3>3, <3>4 DEF CycleAfter
  <2> QED
    BY <1>1, <1>2, <2>2, <2>3
<1> QED
  BY <1>6, <1>7

LEMMA InPhaseStep ==
  ASSUME KindsOnce, EachKind, TypeOK, StreamOrder, StreamGaps, Gapless, InPhase, [Next]_vars
  PROVE  InPhase'
<1>1. CASE Store \/ Lose
  <2>1. Ahead' = Ahead /\ line' = line /\ cycle' = cycle /\ (dropped' = {} => dropped = {})
        /\ start' = start
    BY <1>1, Received, StartKept DEF lineVars
  <2> QED
    BY <2>1 DEF InPhase
<1>2. CASE UNCHANGED vars
  <2>1. Ahead' = Ahead /\ line' = line /\ cycle' = cycle /\ dropped' = dropped
        /\ start' = start
    BY <1>2 DEF vars, lineVars, Ahead
  <2> QED
    BY <2>1 DEF InPhase
<1>3. CASE Core1
  <2> DEFINE c == Head(fifo)
             s == SentenceOf(c)
             t == PartOf(c)
             kept(u) == IF u - 1 <= Body THEN u - 1 ELSE Body
             begun(l) == l # << >> /\ IsHeader(l[1])
             now(l, cy, n, u) ==
               /\ begun(l) => l[1] = HeaderAt(n) /\ Len(l) = kept(u)
               /\ Body <= LineMax =>
                    /\ IF u = 1 THEN l = << >> ELSE begun(l)
                    /\ cy = CycleAfter(Upto((n - 1) % Len(Schedule)))
               /\ Body > LineMax => cy = {}
  <2>0. SUFFICES ASSUME dropped = {}, start = 0
                 PROVE  now(line', cycle', SentenceOf(c + 1), PartOf(c + 1))
    <3>1. Ahead = c /\ dropped' = dropped /\ start' = start
      BY <1>3, LineAfter, Moved, StartKept
    <3>2. dropped = {} => Ahead' = c + 1
      BY <1>3, <3>1, GaplessStep
    <3> HIDE DEF c
    <3> QED
      BY <3>1, <3>2 DEF InPhase
  <2>1. Ahead = c /\ c \in Nat \ {0} /\ c \in Char /\ Consume
    BY <1>3, LineAfter, Moved
  <2>2. now(line, cycle, s, t)
    BY <2>0, <2>1 DEF InPhase
  <2>3. /\ Body \in Nat \ {0} /\ LineMax \in Nat \ {0} /\ line \in Seq(Char)
        /\ Len(line) \in Nat /\ Len(line) <= LineMax
    BY BoundsAssumption DEF TypeOK
  <2>4. s \in Nat \ {0} /\ t \in 1 .. Body + 2 /\ (IsHeader(c) => c = HeaderAt(s))
    BY <2>1, PlaceOf
  <2>5. /\ t = Body + 2 => SentenceOf(c + 1) = s + 1 /\ PartOf(c + 1) = 1
        /\ t # Body + 2 => SentenceOf(c + 1) = s /\ PartOf(c + 1) = t + 1
    BY <2>1, NextPlace
  <2>6. /\ IsReturn(c) <=> t = Body + 1
        /\ IsNewline(c) <=> t = Body + 2
        /\ IsHeader(c) <=> t = 1
    BY DEF IsReturn, IsNewline, IsHeader
  <2>7. CASE SkipReturn(c)
    <3>1. line' = line /\ cycle' = cycle /\ t = Body + 1
      BY <2>6, <2>7 DEF SkipReturn, lineVars
    <3>2. SentenceOf(c + 1) = s /\ PartOf(c + 1) = Body + 2
      BY <2>3, <2>5, <3>1
    <3>3. kept(Body + 2) = kept(t) /\ t # 1 /\ Body + 2 # 1
      BY <2>3, <3>1
    <3> HIDE DEF c, s, t, kept, begun
    <3> QED
      BY <2>2, <3>1, <3>2, <3>3
  <2>8. CASE Keep(c)
    <3>1. /\ t # Body + 1 /\ t # Body + 2 /\ line' = Append(line, c) /\ cycle' = cycle
      BY <2>6, <2>8 DEF Keep
    <3>2. t \in 1 .. Body
      BY <2>3, <2>4, <3>1
    <3>3. SentenceOf(c + 1) = s /\ PartOf(c + 1) = t + 1
      BY <2>5, <3>1
    <3>4. /\ Len(line') = Len(line) + 1 /\ line' # << >>
          /\ line'[1] = IF line = << >> THEN c ELSE line[1]
      BY <2>1, <2>3, <3>1
    <3>5. kept(t + 1) = t /\ kept(t) = t - 1 /\ t + 1 # 1 /\ t \in Nat
      BY <2>3, <3>2
    <3>6. begun(line') => line'[1] = HeaderAt(s) /\ Len(line') = t
      <4>1. CASE line = << >>
        <5>1. Len(line') = 1 /\ line'[1] = c
          BY <3>4, <4>1
        <5> QED
          BY <2>4, <2>6, <5>1
      <4>2. CASE line # << >>
        <5>1. begun(line') => begun(line)
          BY <3>4, <4>2
        <5>2. begun(line) => line[1] = HeaderAt(s) /\ Len(line) = t - 1
          BY <2>2, <3>5
        <5> QED
          BY <2>3, <3>4, <3>5, <4>2, <5>1, <5>2
      <4> QED
        BY <4>1, <4>2
    <3>7. Body <= LineMax => begun(line')
      BY <2>2, <2>6, <3>4
    <3> HIDE DEF c, s, t, kept, begun
    <3> QED
      BY <2>2, <3>1, <3>3, <3>5, <3>6, <3>7
  <2>9. CASE Overlong(c)
    <3>1. /\ t # Body + 1 /\ t # Body + 2 /\ line' = << >> /\ cycle' = {} /\ Len(line) = LineMax
      BY <2>6, <2>9 DEF Overlong
    <3>2. t \in 1 .. Body
      BY <2>3, <2>4, <3>1
    <3>3. ~(Body <= LineMax)
      <4> SUFFICES ASSUME Body <= LineMax PROVE FALSE
        OBVIOUS
      <4>1. CASE t = 1
        <5>1. line = << >>
          BY <2>2, <4>1
        <5> QED
          BY <2>3, <3>1, <5>1
      <4>2. CASE t # 1
        <5>1. Len(line) = kept(t)
          BY <2>2, <4>2
        <5> QED
          BY <2>3, <3>1, <3>2, <5>1
      <4> QED
        BY <4>1, <4>2
    <3>4. ~begun(line')
      BY <3>1
    <3> HIDE DEF c, s, t, kept, begun
    <3> QED
      BY <3>1, <3>3, <3>4
  <2>10. CASE EndOther(c) \/ EndKnown(c)
    <3>1. t = Body + 2 /\ line' = << >>
      BY <2>6, <2>10 DEF EndOther, EndKnown
    <3>2. SentenceOf(c + 1) = s + 1 /\ PartOf(c + 1) = 1 /\ (s + 1) - 1 = s
      BY <2>4, <2>5, <3>1
    <3>3. kept(t) = Body /\ t # 1 /\ ~begun(line')
      BY <2>3, <3>1
    <3>4. \/ LineKind \notin Kind /\ cycle' = cycle
          \/ LineKind \in Kind /\ cycle' = CycleAfter(cycle \cup {LineKind})
      BY <2>10 DEF EndOther, EndKnown
    <3>5. CASE Body <= LineMax
      <4>1. begun(line) /\ cycle = CycleAfter(Upto((s - 1) % Len(Schedule)))
        BY <2>2, <3>3, <3>5
      <4>2. SentenceOf(line[1]) = s
        <5>1. line[1] = HeaderAt(s)
          BY <2>2, <4>1
        <5> QED
          BY <2>4, <5>1, Marks
      <4>3. LineKind = KindOf(s)
        BY <4>1, <4>2 DEF LineKind
      <4>4. cycle' = CycleAfter(Upto(s % Len(Schedule)))
        <5> HIDE DEF s
        <5> QED
          BY <2>4, <3>4, <4>1, <4>3, CycleOn
      <4>5. ~(Body > LineMax)
        BY <2>3, <3>5
      <4> HIDE DEF c, s, t, kept, begun
      <4> QED
        BY <3>1, <3>2, <3>3, <4>4, <4>5
    <3>6. CASE ~(Body <= LineMax)
      <4>1. ~begun(line)
        BY <2>2, <2>3, <3>3, <3>6
      <4>2. LineKind \notin Kind
        BY <4>1 DEF LineKind, Kind
      <4>3. cycle' = {}
        BY <2>2, <2>3, <3>4, <3>6, <4>2
      <4> HIDE DEF c, s, t, kept, begun
      <4> QED
        BY <3>3, <3>6, <4>3
    <3> QED
      BY <3>5, <3>6
  <2> QED
    BY <1>3, <2>7, <2>8, <2>9, <2>10 DEF Core1
<1> QED
  BY <1>1, <1>2, <1>3 DEF Next

-----------------------------------------------------------------------------
(* The skew of a sample: every epoch of it costs a byte.                   *)

(* The byte that was lost of a damaged sentence.                           *)
Charge(n) == IF HeaderAt(n) \in dropped THEN HeaderAt(n) ELSE NewlineAt(n - 1)

LEMMA Charged ==
  ASSUME NEW n \in Nat \ {0}
  PROVE  /\ Damaged(n) => Charge(n) \in dropped
         /\ Charge(n) \in Nat /\ NewlineAt(n - 1) <= Charge(n) /\ Charge(n) < NewlineAt(n)
<1>1. /\ HeaderAt(n) \in Nat /\ NewlineAt(n - 1) = HeaderAt(n) - 1 /\ NewlineAt(n - 1) \in Nat
      /\ NewlineAt(n) = HeaderAt(n) + (Body + 1) /\ Body \in Nat
  BY Places, BoundsAssumption
<1> QED
  BY <1>1 DEF Charge, Damaged

LEMMA NewlineOrder ==
  ASSUME NEW p \in Nat, NEW n \in Nat, p <= n
  PROVE  NewlineAt(p) <= NewlineAt(n) /\ NewlineAt(p) \in Nat /\ NewlineAt(n) \in Nat
<1>1. Body + 2 \in Nat \ {0}
  BY SentenceCount
<1>2. (Body + 2) * p <= (Body + 2) * n
  BY <1>1, TimesMonotonic
<1>3. NewlineAt(p) = (Body + 2) * p /\ NewlineAt(n) = (Body + 2) * n
  BY <1>1 DEF NewlineAt
<1> QED
  BY <1>1, <1>2, <1>3

(* Of different damaged sentences different bytes were lost.               *)
LEMMA CountDamaged ==
  ASSUME NEW S, IsFiniteSet(S), NEW d \in Nat, NEW f \in [1 .. d -> Nat \ {0}],
         \A i \in 1 .. d : Charge(f[i]) \in S,
         \A i, j \in 1 .. d : i # j => f[i] # f[j]
  PROVE  d <= Cardinality(S)
<1> DEFINE h == [i \in 1 .. d |-> Charge(f[i])]
<1>1. Cardinality(S) \in Nat
  BY FS_CardinalityType
<1>2. IsFiniteSet(1 .. d) /\ Cardinality(1 .. d) = d
  BY FS_Interval
<1>3. h \in [1 .. d -> S]
  OBVIOUS
<1>4. ASSUME NEW n \in Nat \ {0}, NEW p \in Nat \ {0}, p < n PROVE Charge(p) # Charge(n)
  <2>1. /\ Charge(p) < NewlineAt(p) /\ NewlineAt(n - 1) <= Charge(n)
        /\ Charge(p) \in Nat /\ Charge(n) \in Nat
    BY Charged
  <2>2. n - 1 \in Nat /\ p <= n - 1
    BY <1>4
  <2>3. NewlineAt(p) <= NewlineAt(n - 1) /\ NewlineAt(p) \in Nat /\ NewlineAt(n - 1) \in Nat
    BY <2>2, NewlineOrder
  <2> QED
    BY <2>1, <2>3
<1>5. \A i, j \in 1 .. d : i # j => h[i] # h[j]
  <2> SUFFICES ASSUME NEW i \in 1 .. d, NEW j \in 1 .. d, i # j PROVE Charge(f[i]) # Charge(f[j])
    OBVIOUS
  <2>1. f[i] \in Nat \ {0} /\ f[j] \in Nat \ {0} /\ f[i] # f[j]
    OBVIOUS
  <2>2. f[i] < f[j] \/ f[j] < f[i]
    BY <2>1
  <2> QED
    BY <1>4, <2>1, <2>2
<1> HIDE DEF h
<1>6. ~(Cardinality(S) < Cardinality(1 .. d))
  BY <1>2, <1>3, <1>5, FS_PigeonHole
<1> QED
  BY <1>1, <1>2, <1>6

LEMMA LostForEach ==
  ASSUME TypeOK, LostCounted, NEW d \in Nat, NEW f \in [1 .. d -> Nat \ {0}],
         \A i \in 1 .. d : Damaged(f[i]),
         \A i, j \in 1 .. d : i # j => f[i] # f[j]
  PROVE  d <= lost
<1>1. IsFiniteSet(dropped) /\ Cardinality(dropped) = lost
  BY DroppedFinite DEF LostCounted
<1>2. \A i \in 1 .. d : Charge(f[i]) \in dropped
  BY Charged
<1>3. d <= Cardinality(dropped)
  BY <1>1, <1>2, CountDamaged
<1> QED
  BY <1>1, <1>3

(* A sentence whose kind waits for the push, and one of the last kind, is  *)
(* damaged if it stands between the latest of its kind and the line.       *)
LEMMA DamagedBetween ==
  ASSUME TypeOK, StreamOrder, NoneSkipped, line # << >>,
         NEW m \in 1 .. Sentences, line[1] = HeaderAt(m), KindOf(m) \notin cycle,
         NEW k \in cycle, NEW n \in Nat \ {0}, latest[k] < n, n < m,
         KindOf(n) \in {k, KindOf(m)}, KindOf(m) \in Kind
  PROVE  Damaged(n)
<1>1. latest[k] \in Nat /\ n \in latest[k] + 1 .. Sentences /\ m \in Nat \ {0}
  <2>1. latest[k] \in 0 .. Sentences
    BY DEF TypeOK
  <2> QED
    BY <2>1, SentenceCount
<1>2. HeaderAt(n) < HeaderAt(m) /\ HeaderAt(n) \in Nat /\ HeaderAt(m) \in Nat
  BY <1>1, PlacesOrder, Places
<1>3. line[1] < Ahead /\ Ahead \in Nat
  <2>1. 1 \in 1 .. Len(line)
    BY DEF TypeOK
  <2>2. Ahead \in Nat
    <3>1. sent + 1 \in Nat
      BY SentenceCount DEF TypeOK
    <3>2. fifo # << >> => Head(fifo) \in Char
      BY DEF TypeOK
    <3> QED
      BY <3>1, <3>2, CharIsNat DEF Ahead
  <2> QED
    BY <2>1, <2>2 DEF StreamOrder
<1>4. HeaderAt(n) < Ahead /\ line[1] # HeaderAt(n)
  BY <1>2, <1>3
<1>5. KindOf(n) \in Kind
  BY DEF TypeOK
<1>6. \/ Damaged(n)
      \/ KindOf(n) \in cycle /\ n <= latest[KindOf(n)]
  BY <1>1, <1>4, <1>5 DEF NoneSkipped
<1> QED
  BY <1>1, <1>6

LEMMA CycleOpen ==
  ASSUME TypeOK, cycle # Kind, [Next]_vars PROVE cycle' # Kind
<1>1. Kind # {}
  BY DEF Kind
<1>2. cycle' = cycle \/ cycle' = {} \/ \E flags : cycle' = CycleAfter(flags)
  BY DEF Next, vars, lineVars, Store, Lose, Core1, SkipReturn, EndOther, EndKnown, Keep, Overlong
<1> QED
  BY <1>1, <1>2 DEF CycleAfter

(* Between the latest sentence of a kind and any that is in the line, or   *)
(* before it, as many bytes were lost as there are epochs between them.    *)
LEMMA SkewCounted ==
  ASSUME KindsOnce, TypeOK, StreamOrder, LostCounted, LatestOfKind, NoneSkipped, InPhase,
         cycle # Kind, line # << >>, IsHeader(line[1]), IsNewline(Ahead), Ahead \in Nat \ {0},
         LineKind \in Kind, cycle \cup {LineKind} = Kind,
         NEW k \in cycle, NEW n \in 1 .. SentenceOf(line[1])
  PROVE  EpochOf(n) - EpochOf(latest[k]) <= lost + PartEpoch
<1> DEFINE m == SentenceOf(line[1])
           a == EpochOf(latest[k]) - 1
           b == EpochOf(m) - 1
           e == EpochOf(n) - 1
           L == Len(Schedule)
<1>1. /\ m \in 1 .. Sentences /\ m \in Nat \ {0} /\ line[1] = HeaderAt(m)
      /\ LineKind = KindOf(m) /\ KindOf(m) \in Kind
  <2>1. line[1] \in Char
    BY DEF TypeOK
  <2>2. m \in 1 .. Sentences
    BY <2>1, SentenceRange
  <2>3. line[1] \in Nat \ {0}
    BY <2>1, SentenceCount DEF Char
  <2> QED
    BY <2>2, <2>3, PlaceOf, SentenceCount DEF LineKind
<1>2. KindOf(m) \notin cycle /\ KindOf(m) # k /\ k \in Kind
  BY <1>1 DEF TypeOK
<1>3. latest[k] \in Nat \ {0} /\ KindOf(latest[k]) = k
  <2>1. latest[k] \in 0 .. Sentences
    BY <1>2 DEF TypeOK
  <2> QED
    BY <1>2, <2>1, SentenceCount DEF LatestOfKind
<1>4. PICK y \in 1 .. L : latest[k] = At(a, y) /\ Schedule[y] = k
  BY <1>3, IsAt
<1>5. PICK z \in 1 .. L : m = At(b, z) /\ Schedule[z] = KindOf(m)
  BY <1>1, IsAt
<1>6. a \in Nat /\ b \in Nat /\ e \in Nat /\ e <= b /\ L \in Nat \ {0} /\ y \in Nat /\ z \in Nat
  <2>1. n \in Nat \ {0} /\ n <= m
    <3>1. n \in 1 .. m /\ m \in Nat
      BY <1>1
    <3> HIDE DEF m
    <3> QED
      BY <3>1
  <2>2. EpochOf(n) <= EpochOf(m) /\ EpochOf(n) \in Nat /\ EpochOf(m) \in Nat
    BY <1>1, <2>1, EpochOrder, IsAt
  <2>3. a \in Nat /\ b \in Nat /\ e \in Nat
    BY <1>1, <1>3, <2>1, IsAt
  <2>4. e <= b
    BY <2>2
  <2> HIDE DEF m, a, b, e
  <2> QED
    BY <2>3, <2>4, ScheduleLength
<1>7. EpochOf(n) - EpochOf(latest[k]) = e - a
  <2>1. EpochOf(n) \in Nat /\ EpochOf(latest[k]) \in Nat
    <3>1. n \in Nat \ {0}
      <4>1. n \in 1 .. m /\ m \in Nat
        BY <1>1
      <4> HIDE DEF m
      <4> QED
        BY <4>1
    <3> QED
      BY <1>3, <3>1, IsAt
  <2> QED
    BY <2>1
<1>8. lost \in Nat /\ PartEpoch \in {0, 1}
  BY BoundsAssumption, PartEpochIs DEF TypeOK
<1>9. \A x \in Nat \ {0} : latest[k] < x /\ x < m /\ KindOf(x) \in {k, KindOf(m)} => Damaged(x)
  BY <1>1, <1>2, DamagedBetween
<1>10. (m - 1) % L = z - 1
  <2>1. (At(b, z) - 1) % Len(Schedule) = z - 1
    BY <1>6, AtIs
  <2> QED
    BY <1>5, <2>1
<1> HIDE DEF m, a, b, e
<1> SUFFICES ASSUME 1 <= e - a PROVE e - a <= lost + PartEpoch
  BY <1>6, <1>7, <1>8
<1> DEFINE E == e - a
<1>11. E \in Nat \ {0} /\ a + E = e
  BY <1>6
(* The sentences of kind k that came in the epochs between.                *)
<1>12. ASSUME NEW i \in 1 .. E, a + i < b \/ (a + i <= b /\ y < z)
       PROVE  At(a + i, y) \in Nat \ {0} /\ Damaged(At(a + i, y)) /\ KindOf(At(a + i, y)) = k
  <2>1. a + i \in Nat /\ a < a + i /\ (a + i < b \/ (a + i = b /\ y < z))
    BY <1>6, <1>11, <1>12
  <2>2. At(a + i, y) \in Nat \ {0} /\ KindOf(At(a + i, y)) = k
    BY <1>4, <2>1, AtIs
  <2>3. latest[k] < At(a + i, y)
    BY <1>4, <1>6, <2>1, AtOrder
  <2>4. At(a + i, y) < m
    BY <1>5, <1>6, <2>1, AtOrder
  <2> QED
    BY <1>9, <2>2, <2>3, <2>4
<1>13. ASSUME NEW i \in 1 .. E, NEW j \in 1 .. E, i # j PROVE At(a + i, y) # At(a + j, y)
  <2>1. a + i \in Nat /\ a + j \in Nat /\ (a + i < a + j \/ a + j < a + i)
    BY <1>6, <1>11, <1>13
  <2>2. At(a + i, y) < At(a + j, y) \/ At(a + j, y) < At(a + i, y)
    BY <2>1, AtOrder
  <2>3. At(a + i, y) \in Nat /\ At(a + j, y) \in Nat
    BY <2>1, AtIs
  <2> QED
    BY <2>2, <2>3
<1>14. CASE e < b \/ y < z
  <2> DEFINE f == [i \in 1 .. E |-> At(a + i, y)]
  <2>1. \A i \in 1 .. E : a + i < b \/ (a + i <= b /\ y < z)
    BY <1>6, <1>11, <1>14
  <2>2. \A i \in 1 .. E : f[i] \in Nat \ {0} /\ Damaged(f[i])
    BY <1>12, <2>1
  <2>3. f \in [1 .. E -> Nat \ {0}] /\ \A i, j \in 1 .. E : i # j => f[i] # f[j]
    BY <1>13, <2>2
  <2> HIDE DEF f, E
  <2>4. E <= lost
    BY <1>11, <2>2, <2>3, LostForEach
  <2> QED
    BY <1>8, <1>11, <2>4 DEF E
<1>15. CASE e = b /\ z < y /\ E # 1
  (* The last of them is the sentence of the line's kind, an epoch ago.    *)
  <2> DEFINE x == At(b - 1, z)
             f == [i \in 1 .. E |-> IF i < E THEN At(a + i, y) ELSE x]
  <2>1. b - 1 \in Nat /\ a < b - 1 /\ b - 1 < b
    BY <1>6, <1>11, <1>15
  <2>2. x \in Nat \ {0} /\ KindOf(x) = KindOf(m)
    BY <1>5, <2>1, AtIs
  <2>3. latest[k] < x /\ x < m
    BY <1>4, <1>5, <1>6, <2>1, AtOrder
  <2>4. Damaged(x)
    BY <1>9, <2>2, <2>3
  <2> HIDE DEF x
  <2>5. \A i \in 1 .. E : i < E => a + i < b
    BY <1>6, <1>11, <1>15
  <2>6. \A i \in 1 .. E : i < E => /\ At(a + i, y) \in Nat \ {0} /\ Damaged(At(a + i, y))
                                  /\ KindOf(At(a + i, y)) = k
    <3> SUFFICES ASSUME NEW i \in 1 .. E, i < E
                 PROVE  /\ At(a + i, y) \in Nat \ {0} /\ Damaged(At(a + i, y))
                        /\ KindOf(At(a + i, y)) = k
      OBVIOUS
    <3>1. a + i < b
      BY <2>5
    <3> HIDE DEF f, E
    <3> QED
      BY <1>12, <3>1
  <2>7. \A i \in 1 .. E : f[i] \in Nat \ {0} /\ Damaged(f[i])
    BY <2>2, <2>4, <2>6
  <2>8. ASSUME NEW i \in 1 .. E, NEW j \in 1 .. E, i # j PROVE f[i] # f[j]
    <3>1. CASE i < E /\ j < E
      BY <1>13, <2>8, <3>1
    <3>2. CASE ~(i < E) \/ ~(j < E)
      <4>1. (i < E /\ ~(j < E)) \/ (~(i < E) /\ j < E)
        BY <1>11, <2>8, <3>2
      <4>2. \A u \in 1 .. E : u < E => At(a + u, y) # x
        BY <1>2, <2>2, <2>6
      <4> QED
        BY <4>1, <4>2
    <3> QED
      BY <3>1, <3>2
  <2>9. f \in [1 .. E -> Nat \ {0}]
    BY <2>7
  <2> HIDE DEF f, E
  <2>10. E <= lost
    BY <1>11, <2>7, <2>8, <2>9, LostForEach
  <2> QED
    BY <1>8, <1>11, <2>10 DEF E
<1>16. CASE e = b /\ z < y /\ E = 1
  (* Without loss, the flags set are those of the kinds before this one,   *)
  (* if the stream begins with an epoch.                                   *)
  <2>1. ASSUME dropped = {}, start = 0 PROVE FALSE
    <3>1. SentenceOf(Ahead) = m /\ PartOf(Ahead) = Body + 2
      <4>1. line[1] = HeaderAt(SentenceOf(Ahead))
        BY <2>1 DEF InPhase
      <4>2. SentenceOf(Ahead) \in Nat \ {0}
        BY PlaceOf
      <4> QED
        BY <4>1, <4>2, Marks DEF m, IsNewline
    <3>2. Body \in Nat /\ LineMax \in Nat
      BY BoundsAssumption
    <3>3. Body <= LineMax
      <4> SUFFICES ASSUME Body > LineMax PROVE FALSE
        BY <3>2
      <4>1. cycle = {}
        BY <2>1 DEF InPhase
      <4> QED
        BY <4>1
    <3>4. cycle = CycleAfter(Upto((m - 1) % L))
      BY <2>1, <3>1, <3>3 DEF InPhase
    <3>5. k \in Upto(z - 1)
      <4>1. k \in CycleAfter(Upto(z - 1))
        BY <1>10, <3>4
      <4> QED
        BY <4>1 DEF CycleAfter
    <3>6. PICK p \in 1 .. z - 1 : Schedule[p] = k
      BY <3>5 DEF Upto
    <3>7. p \in 1 .. L /\ p # y
      BY <1>6, <1>16, <3>6
    <3> QED
      BY <1>2, <1>4, <3>6, <3>7 DEF KindsOnce
  <2>2. CASE start = 0
    <3>1. Cardinality(dropped) # 0
      BY <2>1, <2>2, DroppedFinite, FS_EmptySet
    <3> QED
      BY <1>8, <1>16, <3>1 DEF LostCounted
  <2>3. CASE start # 0
    <3>1. PartEpoch = 1
      BY <2>3 DEF PartEpoch
    <3> QED
      BY <1>8, <1>16, <3>1
  <2> QED
    BY <2>2, <2>3
<1>17. y # z
  BY <1>2, <1>4, <1>5
<1> QED
  BY <1>6, <1>11, <1>14, <1>15, <1>16, <1>17

LEMMA SkewStep ==
  ASSUME KindsOnce, TypeOK, StreamOrder, StreamGaps, Fresh, SkewInv, [Next]_vars
  PROVE  SkewBoundedByLoss'
<1>0. lost' \in Nat /\ lost \in Nat /\ lost <= lost'
  BY BoundsAssumption DEF TypeOK, Next, Store, Lose, Core1, Consume, vars,
     Fifo!Put, Fifo!Drop, Fifo!Take
<1>p. PartEpoch \in {0, 1} /\ PartEpoch' = PartEpoch
  BY PartEpochIs, StartKept
<1>1. CASE pushed' = pushed
  <2> SUFFICES ASSUME NEW j \in Kind, NEW k \in Kind, pushed[j].valid, pushed[k].valid
               PROVE  EpochOf(pushed[j].from) - EpochOf(pushed[k].from) <= lost' + PartEpoch
    BY <1>1, <1>p DEF SkewBoundedByLoss
  <2>1. EpochOf(pushed[j].from) - EpochOf(pushed[k].from) <= lost + PartEpoch
    BY DEF SkewInv, SkewBoundedByLoss
  <2>2. \A n \in Nat : EpochOf(n) \in Int
    BY ScheduleLength DEF EpochOf
  <2>3. pushed[j].from \in Nat /\ pushed[k].from \in Nat
    <3>1. \A i \in Kind : pushed[i] \in [from : 0 .. Sentences, valid : BOOLEAN]
      BY DEF TypeOK
    <3>2. \A i \in Kind : pushed[i].from \in 0 .. Sentences
      BY <3>1
    <3> QED
      BY <3>2, SentenceCount
  <2> QED
    BY <1>0, <1>p, <2>1, <2>2, <2>3
<1>2. CASE pushed' # pushed
  <2>1. Consume /\ EndKnown(Head(fifo))
    BY <1>2 DEF Next, vars, lineVars, Store, Lose, Core1, SkipReturn, EndOther, Keep, Overlong
  <2> DEFINE m == SentenceOf(line[1])
  <2>2. /\ LineKind \in Kind /\ line # << >> /\ line[1] \in Char /\ IsHeader(line[1])
        /\ m \in 1 .. Sentences
        /\ \A k \in Kind : latest'[k] = IF k = LineKind THEN m ELSE latest[k]
        /\ cycle \cup {LineKind} = Kind /\ pushed' = gnss'
    BY <1>2, <2>1, EndKnownSample
  <2>3. Ahead = Head(fifo) /\ Ahead \in Nat \ {0} /\ IsNewline(Ahead)
    BY <2>1, Moved DEF EndKnown
  <2>4. \A k \in Kind : pushed'[k].valid => pushed'[k].from = latest'[k]
    <3>1. Fresh'
      BY NextFresh
    <3> QED
      BY <2>2, <3>1 DEF Fresh, ValidIsLatest
  <2>5. \A k \in Kind : latest[k] < m /\ latest[k] \in Nat
    <3>1. 1 \in 1 .. Len(line)
      BY <2>2 DEF TypeOK
    <3>2. \A j \in Kind : latest[j] \in 0 .. Sentences
      BY DEF TypeOK
    <3> QED
      BY <2>2, <3>1, <3>2, SentenceCount DEF Fresh, LatestBehind, Later
  <2>6. \A k \in Kind : latest'[k] \in 1 .. m
    <3> SUFFICES ASSUME NEW k \in Kind PROVE latest'[k] \in 1 .. m
      OBVIOUS
    <3>1. CASE k = LineKind
      BY <2>2, <3>1, SentenceCount
    <3>2. CASE k # LineKind
      <4>1. k \in cycle /\ latest'[k] = latest[k]
        BY <2>2, <3>2
      <4>2. latest[k] # 0
        BY <4>1 DEF SkewInv, LatestOfKind
      <4> QED
        BY <2>2, <2>5, <4>1, <4>2, SentenceCount
    <3> QED
      BY <3>1, <3>2
  <2> SUFFICES ASSUME NEW j \in Kind, NEW k \in Kind
               PROVE  EpochOf(latest'[j]) - EpochOf(latest'[k]) <= lost + PartEpoch
    <3>1. \A n \in Nat \ {0} : EpochOf(n) \in Nat
      BY IsAt
    <3>2. \A i \in Kind : latest'[i] \in Nat \ {0}
      BY <2>2, <2>6, SentenceCount
    <3> QED
      BY <1>0, <1>p, <2>4, <3>1, <3>2 DEF SkewBoundedByLoss
  <2>7. m \in Nat \ {0} /\ latest'[j] \in Nat \ {0} /\ latest'[j] <= m
    BY <2>2, <2>6, SentenceCount
  <2>8. CASE k = LineKind
    <3>1. latest'[k] = m
      BY <2>2, <2>8
    <3>2. EpochOf(latest'[j]) <= EpochOf(m) /\ EpochOf(latest'[j]) \in Nat /\ EpochOf(m) \in Nat
      BY <2>7, EpochOrder, IsAt
    <3> QED
      BY <1>0, <1>p, <3>1, <3>2
  <2>9. CASE k # LineKind
    <3>1. k \in cycle /\ latest'[k] = latest[k] /\ latest'[j] \in 1 .. m
      BY <2>2, <2>6, <2>9
    <3> QED
      BY <2>2, <2>3, <3>1, SkewCounted DEF SkewInv
  <2> QED
    BY <2>8, <2>9
<1> QED
  BY <1>1, <1>2

LEMMA InitSkew == Init => Gapless /\ InPhase /\ SkewInv
<1> SUFFICES ASSUME Init PROVE Gapless /\ InPhase /\ SkewInv
  OBVIOUS
<1>1. /\ fifo = << >> /\ line = << >> /\ cycle = {} /\ sent = start /\ lost = 0 /\ dropped = {}
      /\ latest = [k \in Kind |-> 0] /\ \A k \in Kind : ~pushed[k].valid
  BY DEF Init, Fifo!FifoInit, Nothing
<1>2. start = 0 => Ahead = 1
  BY <1>1 DEF Ahead
<1>3. SentenceOf(1) = 1 /\ PartOf(1) = 1
  <2>1. HeaderAt(1) = 1 /\ 1 \in Nat \ {0}
    BY SentenceCount DEF HeaderAt
  <2> QED
    BY <2>1, Marks DEF IsHeader
<1>4. Upto((1 - 1) % Len(Schedule)) = {}
  <2>1. (1 - 1) % Len(Schedule) = 0
    <3>1. Len(Schedule) * 0 + 0 = 1 - 1 /\ 0 \in 0 .. Len(Schedule) - 1
      BY ScheduleLength
    <3> QED
      BY <3>1, ScheduleLength, DivModUnique
  <2> QED
    BY <2>1 DEF Upto
<1>5. InPhase
  BY <1>1, <1>2, <1>3, <1>4 DEF InPhase, CycleAfter, Kind
<1>6. Gapless
  BY <1>1 DEF Gapless
<1>7. LostCounted
  BY <1>1, FS_EmptySet DEF LostCounted
<1>8. LatestOfKind /\ Spliced /\ NoneSkipped /\ cycle # Kind /\ SkewBoundedByLoss
  BY <1>1 DEF LatestOfKind, Spliced, NoneSkipped, SkewBoundedByLoss, Kind
<1> QED
  BY <1>5, <1>6, <1>7, <1>8 DEF SkewInv

LEMMA NextSkew ==
  ASSUME KindsOnce, EachKind, TypeOK, StreamOrder, Integrity, Fresh, SkewInv, [Next]_vars
  PROVE  SkewInv'
<1>1. StreamGaps /\ LatestBehind
  BY DEF Integrity, Fresh
<1>2. LostCounted' /\ LatestOfKind' /\ Spliced'
  BY <1>1, LostCountedStep, LatestOfKindStep, SplicedStep DEF SkewInv
<1>3. NoneSkipped'
  BY <1>1, NoneSkippedStep DEF SkewInv
<1>4. Gapless' /\ InPhase'
  BY <1>1, GaplessStep, InPhaseStep DEF SkewInv
<1>5. cycle' # Kind
  BY CycleOpen DEF SkewInv
<1>6. SkewBoundedByLoss'
  BY <1>1, SkewStep
<1> QED
  BY <1>2, <1>3, <1>4, <1>5, <1>6 DEF SkewInv

(* A kind that the receiver never sends keeps every sample from core 0.    *)
Unfilled == (\A k \in cycle : \E p \in 1 .. Len(Schedule) : Schedule[p] = k) /\ pushed = Nothing

LEMMA NextUnfilled ==
  ASSUME ~EachKind, TypeOK, Unfilled, [Next]_vars PROVE Unfilled'
<1> PICK k \in Kind : ~ \E p \in 1 .. Len(Schedule) : Schedule[p] = k
  BY DEF EachKind
<1>1. CASE EndKnown(Head(fifo))
  <2>1. /\ LineKind \in Kind /\ IsHeader(line[1]) /\ SentenceOf(line[1]) \in 1 .. Sentences
        /\ line # << >>
        /\ \/ cycle \cup {LineKind} = Kind /\ cycle' = {} /\ pushed' = gnss'
           \/ cycle' = cycle \cup {LineKind} /\ pushed' = pushed
    BY <1>1, EndKnownSample
  <2>2. \E p \in 1 .. Len(Schedule) : Schedule[p] = LineKind
    <3>1. LineKind = KindOf(SentenceOf(line[1])) /\ SentenceOf(line[1]) \in Nat \ {0}
      BY <2>1, SentenceCount DEF LineKind
    <3> QED
      BY <3>1, IsAt
  <2>3. cycle \cup {LineKind} # Kind
    BY <2>2 DEF Unfilled
  <2> QED
    BY <2>1, <2>2, <2>3 DEF Unfilled
<1>2. CASE ~EndKnown(Head(fifo))
  <2>1. cycle' \in {cycle, {}} /\ pushed' = pushed
    BY <1>2 DEF Next, vars, lineVars, Store, Lose, Core1, SkipReturn, EndOther, Keep, Overlong
  <2> QED
    BY <2>1 DEF Unfilled
<1> QED
  BY <1>1, <1>2

(* Whatever the ring refuses, a sample never mixes epochs further apart    *)
(* than the number of bytes that were lost, and one more if the UART was   *)
(* enabled within an epoch: if the receiver sends each kind of sentence at *)
(* most once an epoch.  So without loss a sample is of one epoch, or of    *)
(* two neighbouring ones, for as long as the firmware runs, if it was      *)
(* enabled within an epoch.                                                *)
THEOREM SkewBounded == ASSUME KindsOnce PROVE Spec => []SkewBoundedByLoss
<1>1. CASE EachKind
  <2>1. TypeOK /\ StreamOrder /\ Integrity /\ Fresh /\ SkewInv /\ [Next]_vars => SkewInv'
    BY <1>1, NextSkew
  <2>2. TypeOK /\ StreamOrder /\ Fresh /\ [Next]_vars => Fresh'
    BY NextFresh
  <2>3. Init => SkewInv
    BY InitSkew
  <2>4. SkewInv => SkewBoundedByLoss
    BY DEF SkewInv
  <2> QED
    BY InitType, NextType, InitOrder, NextOrder, InitIntegrity, NextIntegrity, InitFresh,
       <2>1, <2>2, <2>3, <2>4, PTL DEF Spec
<1>2. CASE ~EachKind
  <2>1. TypeOK /\ Unfilled /\ [Next]_vars => Unfilled'
    BY <1>2, NextUnfilled
  <2>2. Init => Unfilled
    BY DEF Init, Unfilled
  <2>3. Unfilled => SkewBoundedByLoss
    BY DEF Unfilled, SkewBoundedByLoss, Nothing
  <2> QED
    BY InitType, NextType, <2>1, <2>2, <2>3, PTL DEF Spec
<1> QED
  BY <1>1, <1>2


-----------------------------------------------------------------------------
(* The epochs that are not pushed: bytes lost between two sentences.       *)

LEMMA KindWithin ==
  ASSUME EachKind, NEW k \in Kind, NEW a \in Nat
  PROVE  \E n \in a + 1 .. a + Len(Schedule) : KindOf(n) = k
<1> DEFINE m == Len(Schedule)
           q == a \div m
           r == a % m
<1>1. m \in Nat \ {0}
  BY ScheduleLength
<1>2. q \in Nat /\ r \in 0 .. m - 1 /\ a = m * q + r
  BY <1>1, DivMod
<1>3. PICK p \in 1 .. m : Schedule[p] = k
  BY DEF EachKind
<1> HIDE DEF q, r
<1>4. m * q \in Nat /\ q * m = m * q /\ (q + 1) * m = m * q + m /\ p \in Nat /\ r \in Nat
  BY <1>1, <1>2
<1>5. CASE r < p
  <2>1. KindOf(At(q, p)) = k
    BY <1>2, <1>3, AtIs
  <2>2. At(q, p) = m * q + p
    BY <1>4 DEF At
  <2>3. At(q, p) \in a + 1 .. a + m
    BY <1>1, <1>2, <1>4, <1>5, <2>2
  <2> QED
    BY <2>1, <2>3
<1>6. CASE p <= r
  <2>1. KindOf(At(q + 1, p)) = k
    <3>1. q + 1 \in Nat
      BY <1>2
    <3> QED
      BY <1>3, <3>1, AtIs
  <2>2. At(q + 1, p) = (m * q + m) + p
    BY <1>4 DEF At
  <2>3. At(q + 1, p) \in a + 1 .. a + m
    BY <1>1, <1>2, <1>4, <1>6, <2>2
  <2> QED
    BY <2>1, <2>3
<1> QED
  BY <1>4, <1>5, <1>6

LEMMA LossesOrder ==
  ASSUME TypeOK, NEW b \in Nat, NEW x \in Nat, b <= x
  PROVE  /\ IsFiniteSet(LostBefore(x)) /\ LostBefore(b) \subseteq LostBefore(x)
         /\ Cardinality(LostBefore(b)) \in Nat /\ Cardinality(LostBefore(x)) \in Nat
         /\ Cardinality(LostBefore(b)) <= Cardinality(LostBefore(x))
<1>1. LostBefore(x) \subseteq dropped /\ \A c \in dropped : c \in Nat
  BY CharIsNat DEF LostBefore, TypeOK
<1>2. IsFiniteSet(LostBefore(x))
  BY <1>1, DroppedFinite, FS_Subset
<1>3. NewlineAt(b) <= NewlineAt(x) /\ NewlineAt(b) \in Nat /\ NewlineAt(x) \in Nat
  BY NewlineOrder
<1>4. LostBefore(b) \subseteq LostBefore(x)
  BY <1>1, <1>3 DEF LostBefore
<1>5. IsFiniteSet(LostBefore(b)) /\ Cardinality(LostBefore(b)) <= Cardinality(LostBefore(x))
  BY <1>2, <1>4, FS_Subset
<1> QED
  BY <1>2, <1>4, <1>5, FS_CardinalityType

LEMMA LossesBetween ==
  ASSUME TypeOK, NEW b \in Nat, NEW x \in Nat, b <= x,
         NEW d \in Nat, NEW f \in [1 .. d -> b + 1 .. x],
         \A i \in 1 .. d : Damaged(f[i]),
         \A i, j \in 1 .. d : i # j => f[i] # f[j]
  PROVE  Cardinality(LostBefore(b)) + d <= Cardinality(LostBefore(x))
<1> DEFINE S == LostBefore(x) \ LostBefore(b)
<1>1. /\ IsFiniteSet(LostBefore(x)) /\ LostBefore(b) \subseteq LostBefore(x)
      /\ Cardinality(LostBefore(b)) \in Nat /\ Cardinality(LostBefore(x)) \in Nat
  BY LossesOrder
<1>2. LostBefore(x) \cap LostBefore(b) = LostBefore(b)
  BY <1>1
<1>3. IsFiniteSet(S) /\ Cardinality(S) = Cardinality(LostBefore(x)) - Cardinality(LostBefore(b))
  BY <1>1, <1>2, FS_Difference
<1>4. \A i \in 1 .. d : f[i] \in Nat \ {0} /\ f[i] - 1 \in Nat /\ b <= f[i] - 1 /\ f[i] <= x
  OBVIOUS
<1>5. ASSUME NEW i \in 1 .. d PROVE Charge(f[i]) \in S
  <2> DEFINE n == f[i]
  <2>1. n \in Nat \ {0} /\ n - 1 \in Nat /\ b <= n - 1 /\ n <= x /\ Damaged(n)
    BY <1>4
  <2> HIDE DEF n
  <2>2. /\ Charge(n) \in dropped /\ Charge(n) \in Nat
        /\ NewlineAt(n - 1) <= Charge(n) /\ Charge(n) < NewlineAt(n)
    BY <2>1, Charged
  <2>3. /\ NewlineAt(b) <= NewlineAt(n - 1) /\ NewlineAt(b) \in Nat /\ NewlineAt(n - 1) \in Nat
        /\ NewlineAt(n) <= NewlineAt(x) /\ NewlineAt(n) \in Nat /\ NewlineAt(x) \in Nat
    BY <2>1, NewlineOrder
  <2>4. Charge(n) < NewlineAt(x) /\ ~(Charge(n) < NewlineAt(b))
    BY <2>2, <2>3
  <2>5. Charge(n) \in S
    BY <2>2, <2>4 DEF LostBefore
  <2> QED
    BY <2>5 DEF n
<1>6. f \in [1 .. d -> Nat \ {0}]
  BY <1>4
<1> HIDE DEF S
<1>7. d <= Cardinality(S)
  BY <1>3, <1>5, <1>6, CountDamaged
<1> QED
  BY <1>1, <1>3, <1>7

(* Where every sentence is damaged, a byte was lost for each.              *)
LEMMA AllDamaged ==
  ASSUME TypeOK, NEW b \in Nat, NEW x \in Nat, b <= x, \A n \in b + 1 .. x : Damaged(n)
  PROVE  x - b <= Cardinality(LostBefore(x)) - Cardinality(LostBefore(b))
<1> DEFINE f == [i \in 1 .. x - b |-> b + i]
<1>1. x - b \in Nat
  OBVIOUS
<1>2. \A i \in 1 .. x - b : b + i \in b + 1 .. x
  OBVIOUS
<1>3. f \in [1 .. x - b -> b + 1 .. x] /\ \A i, j \in 1 .. x - b : i # j => f[i] # f[j]
  BY <1>2
<1>4. \A i \in 1 .. x - b : Damaged(f[i])
  BY <1>2
<1> HIDE DEF f
<1>5. Cardinality(LostBefore(b)) + (x - b) <= Cardinality(LostBefore(x))
  BY <1>1, <1>3, <1>4, LossesBetween
<1>6. Cardinality(LostBefore(b)) \in Nat /\ Cardinality(LostBefore(x)) \in Nat
  BY LossesOrder
<1> QED
  BY <1>1, <1>5, <1>6

(* Where every sentence of a kind is damaged, a byte was lost for each     *)
(* rotation of the schedule.                                               *)
LEMMA Rotations ==
  ASSUME EachKind, TypeOK, NEW b \in Nat, NEW x \in Nat, b < x, NEW k \in Kind,
         \A n \in b + 1 .. x - 1 : KindOf(n) = k => Damaged(n)
  PROVE  x - b <= Len(Schedule) *
                    (Cardinality(LostBefore(x)) - Cardinality(LostBefore(b))) + Len(Schedule)
<1> DEFINE m == Len(Schedule)
           a == (x - 1) - b
           d == a \div m
           begin(i) == b + m * (i - 1)
           f == [i \in 1 .. d |-> CHOOSE n \in begin(i) + 1 .. begin(i) + m : KindOf(n) = k]
<1>1. m \in Nat \ {0} /\ a \in Nat /\ x - 1 \in Nat
  BY ScheduleLength
<1>2. d \in Nat /\ a % m \in 0 .. m - 1 /\ a = m * d + (a % m)
  BY <1>1, DivMod
<1>3. m * d \in Nat /\ m * d <= a /\ a <= m * d + (m - 1)
  BY <1>1, <1>2
<1> HIDE DEF d
<1>4. ASSUME NEW i \in 1 .. d
      PROVE  /\ begin(i) \in Nat /\ begin(i) + m = b + m * i /\ b <= begin(i) /\ m * i \in Nat
             /\ begin(i) + m <= x - 1
  <2>1. i \in Nat /\ i - 1 \in Nat /\ i <= d
    BY <1>2
  <2>2. m * (i - 1) \in Nat /\ m * (i - 1) + m = m * i /\ m * i \in Nat
    BY <1>1, <2>1
  <2>3. m * i <= m * d
    BY <1>1, <1>2, <2>1, TimesMonotonic
  <2> QED
    BY <1>1, <1>3, <2>2, <2>3
<1>5. ASSUME NEW i \in 1 .. d
      PROVE  f[i] \in begin(i) + 1 .. begin(i) + m /\ KindOf(f[i]) = k
  <2>1. \E n \in begin(i) + 1 .. begin(i) + m : KindOf(n) = k
    BY <1>4, KindWithin
  <2> QED
    BY <2>1
<1> HIDE DEF f
<1>6. ASSUME NEW i \in 1 .. d PROVE f[i] \in b + 1 .. x /\ Damaged(f[i])
  <2>1. f[i] \in b + 1 .. x - 1
    BY <1>1, <1>4, <1>5
  <2> QED
    BY <1>1, <1>5, <2>1
<1>7. ASSUME NEW i \in 1 .. d, NEW j \in 1 .. d, i < j PROVE f[i] < f[j]
  <2>1. i \in Nat /\ j - 1 \in Nat /\ i <= j - 1
    BY <1>2, <1>7
  <2>2. m * i <= m * (j - 1)
    BY <1>1, <2>1, TimesMonotonic
  <2>3. begin(i) + m <= begin(j)
    BY <1>1, <1>4, <2>1, <2>2
  <2>4. f[i] \in begin(i) + 1 .. begin(i) + m /\ f[j] \in begin(j) + 1 .. begin(j) + m
    BY <1>5
  <2>5. begin(i) \in Nat /\ begin(j) \in Nat
    BY <1>4
  <2> HIDE DEF begin, m
  <2> QED
    BY <1>1, <2>3, <2>4, <2>5
<1>8. \A i, j \in 1 .. d : i # j => f[i] # f[j]
  <2> SUFFICES ASSUME NEW i \in 1 .. d, NEW j \in 1 .. d, i # j PROVE f[i] # f[j]
    OBVIOUS
  <2>1. i < j \/ j < i
    BY <1>2
  <2>2. f[i] \in Nat /\ f[j] \in Nat
    BY <1>6
  <2> QED
    BY <1>7, <2>1, <2>2
<1>9. DOMAIN f = 1 .. d /\ f = [i \in 1 .. d |-> f[i]]
  BY DEF f
<1>10. f \in [1 .. d -> b + 1 .. x]
  BY <1>6, <1>9
<1> DEFINE u == Cardinality(LostBefore(b))
           v == Cardinality(LostBefore(x))
<1>11. u + d <= v
  <2>1. b <= x /\ \A i \in 1 .. d : Damaged(f[i])
    BY <1>6
  <2> QED
    BY <1>2, <1>8, <1>10, <2>1, LossesBetween
<1>12. u \in Nat /\ v \in Nat
  BY LossesOrder
<1> HIDE DEF u, v
<1>13. v - u \in Nat /\ d <= v - u
  BY <1>2, <1>11, <1>12
<1>14. m * d <= m * (v - u) /\ m * (v - u) \in Nat
  BY <1>1, <1>2, <1>13, TimesMonotonic
<1>15. x - b <= m * (v - u) + m
  BY <1>1, <1>3, <1>14
<1> QED
  BY <1>15 DEF u, v

-----------------------------------------------------------------------------
(* The epochs that are not pushed: what a sample waits for.                *)

LEMMA AheadRange ==
  ASSUME TypeOK
  PROVE  /\ Ahead \in Nat \ {0}
         /\ SentenceOf(Ahead) \in 1 .. Sentences + 1 /\ SentenceOf(Ahead) \in Nat \ {0}
         /\ HeaderAt(SentenceOf(Ahead)) <= Ahead /\ Ahead <= NewlineAt(SentenceOf(Ahead))
<1> DEFINE s == SentenceOf(Ahead)
<1>1. sent \in Nat /\ sent <= Sentences * (Body + 2) /\ Sentences \in Nat
  BY SentenceCount DEF TypeOK
<1>2. HeaderAt(Sentences + 1) = Sentences * (Body + 2) + 1
  BY <1>1, SentenceCount DEF HeaderAt
<1>3. Ahead \in Nat \ {0} /\ Ahead <= HeaderAt(Sentences + 1)
  <2>1. CASE fifo = << >>
    BY <1>1, <1>2, <2>1, SentenceCount DEF Ahead
  <2>2. CASE fifo # << >>
    <3>1. Ahead = Head(fifo) /\ Head(fifo) \in Char
      BY <2>2 DEF Ahead, TypeOK
    <3> QED
      BY <1>2, <3>1, SentenceCount DEF Char
  <2> QED
    BY <2>1, <2>2
<1>4. /\ s \in Nat \ {0} /\ PartOf(Ahead) \in 1 .. Body + 2
      /\ Ahead = HeaderAt(s) + (PartOf(Ahead) - 1)
  BY <1>3, PlaceOf
<1> HIDE DEF s
<1>5. HeaderAt(s) \in Nat /\ NewlineAt(s) = HeaderAt(s) + (Body + 1) /\ Body \in Nat
  BY <1>4, Places, BoundsAssumption
<1>6. HeaderAt(s) <= Ahead /\ Ahead <= NewlineAt(s)
  BY <1>4, <1>5
<1>7. ~(Sentences + 1 < s)
  <2> SUFFICES ASSUME Sentences + 1 < s PROVE FALSE
    OBVIOUS
  <2>1. Sentences + 1 \in Nat \ {0}
    BY <1>1
  <2>2. HeaderAt(Sentences + 1) < HeaderAt(s) /\ HeaderAt(Sentences + 1) \in Nat
    BY <1>4, <2>1, PlacesOrder, Places
  <2> QED
    BY <1>3, <1>5, <1>6, <2>2
<1>8. s \in 1 .. Sentences + 1
  BY <1>1, <1>4, <1>7
<1> QED
  BY <1>3, <1>4, <1>6, <1>8 DEF s

(* The first character of the line is of the sentence core 1 is reading or *)
(* of one before it, and those in between have lost their newlines.        *)
LEMMA LineBegan ==
  ASSUME TypeOK, StreamOrder, Spliced, line # << >>, NEW m \in Nat \ {0}, line[1] = HeaderAt(m)
  PROVE  /\ m <= SentenceOf(Ahead) /\ HeaderAt(m) < Ahead
         /\ \A n \in m + 1 .. SentenceOf(Ahead) : Damaged(n)
<1> DEFINE s == SentenceOf(Ahead)
<1>1. Ahead \in Nat \ {0} /\ s \in Nat \ {0} /\ HeaderAt(s) <= Ahead /\ Ahead <= NewlineAt(s)
  BY AheadRange
<1> HIDE DEF s
<1>2. 1 \in 1 .. Len(line)
  BY DEF TypeOK
<1>3. HeaderAt(m) < Ahead /\ HeaderAt(m) \in Nat /\ HeaderAt(s) \in Nat /\ NewlineAt(s) \in Nat
  BY <1>1, <1>2, Places DEF StreamOrder
<1>4. ~(s < m)
  <2> SUFFICES ASSUME s < m PROVE FALSE
    OBVIOUS
  <2>1. NewlineAt(s) < HeaderAt(m)
    BY <1>1, PlacesOrder
  <2> QED
    BY <1>1, <1>3, <2>1
<1>5. ASSUME NEW n \in m + 1 .. s PROVE Damaged(n)
  <2>1. n \in Nat \ {0} /\ n - 1 \in Nat \ {0} /\ m < n /\ n <= s
    BY <1>1
  <2>2. HeaderAt(m) < NewlineAt(n - 1)
    BY <2>1, PlacesOrder
  <2>3. NewlineAt(n - 1) = HeaderAt(n) - 1 /\ HeaderAt(n) \in Nat
    BY <2>1, Places
  <2>4. HeaderAt(n) <= HeaderAt(s)
    <3>1. CASE n = s
      BY <1>3, <3>1
    <3>2. CASE n # s
      BY <1>1, <1>3, <2>1, <2>3, <3>2, PlacesOrder
    <3> QED
      BY <3>1, <3>2
  <2>5. NewlineAt(n - 1) \in line[1] + 1 .. Ahead - 1
    BY <1>1, <1>3, <2>2, <2>3, <2>4
  <2>6. IsNewline(NewlineAt(n - 1))
    BY <2>1, Marks
  <2> QED
    BY <2>5, <2>6 DEF Spliced, Damaged
<1> QED
  BY <1>1, <1>3, <1>4, <1>5 DEF s

LEMMA TimesMore ==
  ASSUME NEW m \in Nat \ {0}, NEW u \in Nat, NEW v \in Nat
  PROVE  m * (u + v) = m * u + m * v /\ m * u \in Nat /\ m * v \in Nat /\ u <= m * u
<1>1. m * u \in Nat /\ m * v \in Nat /\ m * (u + v) = m * u + m * v
  OBVIOUS
<1>2. u * 1 <= u * m
  <2>1. CASE u = 0
    BY <2>1
  <2>2. CASE u # 0
    BY <2>2, TimesMonotonic
  <2> QED
    BY <2>1, <2>2
<1>3. u * 1 = u /\ u * m = m * u
  OBVIOUS
<1> QED
  BY <1>1, <1>2, <1>3

(* A flag that is not set has waited no longer than the losses explain.    *)
LEMMA Waiting ==
  ASSUME EachKind, TypeOK, StreamOrder, Spliced, cycle # Kind,
         NEW b \in Nat, Wanting(b), b < SentenceOf(Ahead)
  PROVE  LET s == SentenceOf(Ahead)
         IN  s - b <= Len(Schedule) *
                        (Cardinality(LostBefore(s)) - Cardinality(LostBefore(b))) + Len(Schedule)
<1> DEFINE s == SentenceOf(Ahead)
           L == Len(Schedule)
           C(n) == Cardinality(LostBefore(n))
<1>1. /\ s \in 1 .. Sentences + 1 /\ s \in Nat \ {0} /\ HeaderAt(s) <= Ahead
      /\ Ahead \in Nat \ {0} /\ Sentences \in Nat
  BY AheadRange, SentenceCount
<1>2. L \in Nat \ {0}
  BY ScheduleLength
<1> SUFFICES s - b <= L * (C(s) - C(b)) + L
  OBVIOUS
<1>3. b < s
  OBVIOUS
<1> HIDE DEF s
<1>4. ASSUME NEW n \in b + 1 .. s - 1, KindOf(n) \in Kind \ cycle
      PROVE  Damaged(n) \/ (line # << >> /\ line[1] = HeaderAt(n))
  <2>1. n \in b + 1 .. Sentences /\ n \in Nat \ {0} /\ n < s
    BY <1>1
  <2>2. HeaderAt(n) < HeaderAt(s) /\ HeaderAt(n) \in Nat /\ HeaderAt(s) \in Nat
    BY <1>1, <2>1, PlacesOrder, Places
  <2>3. HeaderAt(n) < Ahead
    BY <1>1, <2>2
  <2> QED
    BY <1>4, <2>1, <2>3 DEF Wanting
<1>5. CASE \E m \in b + 1 .. s - 1 :
             KindOf(m) \in Kind \ cycle /\ line # << >> /\ line[1] = HeaderAt(m)
  <2>1. PICK m \in b + 1 .. s - 1 :
           KindOf(m) \in Kind \ cycle /\ line # << >> /\ line[1] = HeaderAt(m)
    BY <1>5
  <2>2. m \in Nat \ {0} /\ b < m /\ m <= s
    BY <1>1
  <2>3. \A n \in m + 1 .. s : Damaged(n)
    BY <2>1, <2>2, LineBegan DEF s
  <2>4. ASSUME NEW n \in b + 1 .. m - 1, KindOf(n) = KindOf(m) PROVE Damaged(n)
    <3>1. n \in b + 1 .. s - 1 /\ n \in Nat \ {0} /\ n < m
      BY <1>1, <2>2
    <3>2. HeaderAt(n) < HeaderAt(m) /\ HeaderAt(n) \in Nat /\ HeaderAt(m) \in Nat
      BY <2>2, <3>1, PlacesOrder, Places
    <3> QED
      BY <1>4, <2>1, <2>4, <3>1, <3>2
  <2>5. m - b <= L * (C(m) - C(b)) + L
    BY <2>1, <2>2, <2>4, Rotations
  <2>6. s - m <= C(s) - C(m)
    BY <1>1, <2>2, <2>3, AllDamaged
  <2>7. /\ C(b) \in Nat /\ C(m) \in Nat /\ C(s) \in Nat /\ C(b) <= C(m) /\ C(m) <= C(s)
    BY <1>1, <2>2, LossesOrder
  <2> HIDE DEF C
  <2>8. PICK u \in Nat : u = C(m) - C(b)
    BY <2>7
  <2>9. PICK v \in Nat : v = C(s) - C(m)
    BY <2>7
  <2>10. C(s) - C(b) = u + v
    BY <2>7, <2>8, <2>9
  <2>11. L * (u + v) = L * u + L * v /\ L * u \in Nat /\ L * v \in Nat
    BY <1>2, TimesMore
  <2>12. v <= L * v
    BY <1>2, TimesMore
  <2>13. m - b <= L * u + L /\ s - m <= v
    BY <2>5, <2>6, <2>8, <2>9
  <2>14. s - b <= L * (u + v) + L
    BY <1>1, <1>2, <2>2, <2>11, <2>12, <2>13
  <2> QED
    BY <2>10, <2>14
<1>6. CASE ~ \E m \in b + 1 .. s - 1 :
               KindOf(m) \in Kind \ cycle /\ line # << >> /\ line[1] = HeaderAt(m)
  <2>1. PICK k \in Kind : k \notin cycle
    BY DEF TypeOK
  <2>2. \A n \in b + 1 .. s - 1 : KindOf(n) = k => Damaged(n)
    BY <1>4, <1>6, <2>1
  <2> QED
    BY <1>1, <1>3, <2>1, <2>2, Rotations
<1> QED
  BY <1>5, <1>6

-----------------------------------------------------------------------------
(* The epochs that are not pushed: what a step does to the account.        *)

(* What is paid for by samples and losses up to a sentence, and what a     *)
(* waiting flag adds to it.                                                *)
LEMMA Budget ==
  ASSUME NEW m \in Nat \ {0}, NEW p \in Nat, NEW u \in Nat, NEW v \in Nat, u <= v,
         NEW b \in Nat, b <= m * (p + 2 * u),
         NEW x \in Nat, x - b <= m * (v - u) + m
  PROVE  /\ x <= m * ((p + 1) + 2 * v)
         /\ u < v => x <= m * (p + 2 * v)
<1>1. PICK d \in Nat : d = v - u /\ v = u + d
  <2>1. v - u \in Nat /\ v = u + (v - u)
    OBVIOUS
  <2> QED
    BY <2>1
<1>2. p + 2 * u \in Nat /\ d + d \in Nat
  BY <1>1
<1>3. x <= m * (p + 2 * u) + m * d + m
  <2>1. m * (p + 2 * u) \in Nat /\ m * d \in Nat
    BY <1>1, <1>2, TimesMore
  <2>2. x - b <= m * d + m
    BY <1>1
  <2> QED
    BY <2>1, <2>2
<1>4. m * (p + 2 * v) = m * (p + 2 * u) + (m * d + m * d)
  <2>1. p + 2 * v = (p + 2 * u) + (d + d)
    BY <1>1
  <2>2. m * ((p + 2 * u) + (d + d)) = m * (p + 2 * u) + m * (d + d)
    BY <1>2, TimesMore
  <2>3. m * (d + d) = m * d + m * d
    BY <1>1, TimesMore
  <2> QED
    BY <2>1, <2>2, <2>3
<1>5. m * ((p + 1) + 2 * v) = m * (p + 2 * v) + m
  <2>1. (p + 1) + 2 * v = (p + 2 * v) + 1 /\ p + 2 * v \in Nat
    OBVIOUS
  <2>2. m * ((p + 2 * v) + 1) = m * (p + 2 * v) + m * 1
    BY <2>1, TimesMore
  <2> QED
    BY <2>1, <2>2
<1>6. m * (p + 2 * u) \in Nat /\ m * d \in Nat
  BY <1>1, <1>2, TimesMore
<1>7. x <= m * ((p + 1) + 2 * v)
  BY <1>3, <1>4, <1>5, <1>6
<1>8. ASSUME u < v PROVE x <= m * (p + 2 * v)
  <2>1. 1 \in Nat /\ 1 <= d
    BY <1>1, <1>8
  <2>2. m * 1 <= m * d
    BY <1>1, <2>1, TimesMonotonic
  <2>3. m <= m * d
    BY <2>2
  <2> QED
    BY <1>3, <1>4, <1>6, <2>3
<1> QED
  BY <1>7, <1>8

LEMMA LineCompactStep ==
  ASSUME TypeOK, StreamOrder, StreamGaps, LineCompact, [Next]_vars PROVE LineCompact'
<1>1. CASE Store \/ Lose
  BY <1>1, Received DEF LineCompact, lineVars
<1>2. CASE UNCHANGED vars
  BY <1>2 DEF LineCompact, vars, lineVars, Ahead
<1>3. CASE Core1
  <2>1. Consume
    BY <1>3, LineAfter
  <2>2. Ahead = Head(fifo) /\ Ahead \in Nat /\ Ahead' \in Nat /\ Ahead < Ahead' /\ Ahead \in Char
    BY <2>1, Moved
  <2>3. line \in Seq(Char) /\ Len(line) \in Nat /\ (line # << >> => line[1] \in Nat)
    BY CharIsNat DEF TypeOK
  <2>4. CASE line' = line
    <3>1. line # << >> => Len(line) <= Ahead - line[1]
      BY DEF LineCompact
    <3>2. line # << >> => Len(line) <= Ahead' - line[1]
      BY <2>2, <2>3, <3>1
    <3> QED
      BY <2>4, <3>2 DEF LineCompact
  <2>5. CASE line' = << >>
    BY <2>5 DEF LineCompact
  <2>6. CASE line' = Append(line, Head(fifo))
    <3>1. CASE line = << >>
      <4>1. Len(line') = 1 /\ line'[1] = Ahead
        BY <2>2, <2>6, <3>1
      <4> QED
        BY <2>2, <4>1 DEF LineCompact
    <3>2. CASE line # << >>
      <4>1. Len(line') = Len(line) + 1 /\ line'[1] = line[1]
        BY <2>2, <2>3, <2>6, <3>2
      <4>2. Len(line) <= Ahead - line[1]
        BY <3>2 DEF LineCompact
      <4>3. Len(line) + 1 <= Ahead' - line[1]
        BY <2>2, <2>3, <3>2, <4>2
      <4> QED
        BY <4>1, <4>3 DEF LineCompact
    <3> QED
      BY <3>1, <3>2
  <2> QED
    BY <1>3, <2>4, <2>5, <2>6, LineAfter
<1> QED
  BY <1>1, <1>2, <1>3 DEF Next

(* The samples pushed and the epoch that is not expected to be.            *)
Granted == pushes + PartEpoch

LEMMA GrantedIs ==
  ASSUME TypeOK, [Next]_vars
  PROVE  /\ Granted \in Nat
         /\ pushes' = pushes => Granted' = Granted
         /\ pushes' = pushes + 1 => Granted' = Granted + 1
<1>1. pushes \in Nat /\ PartEpoch \in {0, 1} /\ PartEpoch' = PartEpoch
  BY PartEpochIs, StartKept DEF TypeOK
<1> QED
  BY <1>1 DEF Granted

LEMMA SettledIs ==
  ASSUME NEW b
  PROVE  Settled(b) <=> b <= Len(Schedule) * (Granted + 2 * Cardinality(LostBefore(b)))
  BY DEF Settled, Granted

LEMMA SettledKept ==
  ASSUME TypeOK, [Next]_vars, NEW b \in Nat, Settled(b)
  PROVE  Settled(b)'
<1> DEFINE u == Cardinality(LostBefore(b))
           v == Cardinality(LostBefore(b)')
<1>1. dropped \subseteq dropped' /\ dropped' \subseteq Char
  <2>1. dropped \subseteq dropped'
    BY LineAfter, Received DEF Next, vars, Consume
  <2>2. TypeOK'
    BY NextType
  <2> QED
    BY <2>1, <2>2 DEF TypeOK
<1>2. Granted \in Nat /\ (Granted' = Granted \/ Granted' = Granted + 1)
  <2>1. pushes' = pushes \/ pushes' = pushes + 1
    BY DEF Next, vars, lineVars, Store, Lose, Core1, SkipReturn, EndOther, EndKnown,
       Keep, Overlong, MaybePush
  <2> QED
    BY <2>1, GrantedIs
<1>3. IsFiniteSet(Char)
  BY SentenceCount, FS_Interval DEF Char
<1>4. LostBefore(b)' \subseteq Char /\ LostBefore(b) \subseteq LostBefore(b)'
  BY <1>1 DEF LostBefore
<1>5. IsFiniteSet(LostBefore(b)')
  BY <1>3, <1>4, FS_Subset
<1>6. IsFiniteSet(LostBefore(b)) /\ u <= v
  BY <1>4, <1>5, FS_Subset
<1>7. u \in Nat /\ v \in Nat
  BY <1>5, <1>6, FS_CardinalityType
<1>8. b <= Len(Schedule) * (Granted + 2 * u)
  BY SettledIs DEF u
<1> HIDE DEF u, v
<1>9. b <= Len(Schedule) * (Granted' + 2 * v)
  <2>1. Granted + 2 * u \in Nat /\ Granted' + 2 * v \in Nat /\ Granted + 2 * u <= Granted' + 2 * v
    BY <1>2, <1>6, <1>7
  <2>2. Len(Schedule) * (Granted + 2 * u) <= Len(Schedule) * (Granted' + 2 * v)
    BY <2>1, ScheduleLength, TimesMonotonic
  <2>3. Len(Schedule) * (Granted + 2 * u) \in Nat /\ Len(Schedule) * (Granted' + 2 * v) \in Nat
    BY <2>1, ScheduleLength
  <2> QED
    BY <1>8, <2>2, <2>3
<1> QED
  BY <1>9 DEF v, Settled, Granted

(* A step that clears no flag leaves what is wanted as it is.              *)
LEMMA WantingKept ==
  ASSUME TypeOK, StreamOrder, StreamGaps, Spliced, Core1, ~Overlong(Head(fifo)),
         cycle \subseteq cycle', NEW b \in Nat, Wanting(b)
  PROVE  Wanting(b)'
<1>1. Consume /\ dropped' = dropped
  BY LineAfter, Moved
<1> SUFFICES ASSUME NEW n \in b + 1 .. Sentences, KindOf(n) \in Kind \ cycle',
                    HeaderAt(n) < Ahead', ~Damaged(n)
             PROVE  line' # << >> /\ line'[1] = HeaderAt(n)
  BY <1>1 DEF Wanting, Damaged
<1>2. n \in Nat \ {0}
  BY SentenceCount
<1>3. HeaderAt(n) < Ahead => line # << >> /\ line[1] = HeaderAt(n)
  BY DEF Wanting
<1>4. CASE ~(HeaderAt(n) < Ahead)
  BY <1>2, <1>4, HeaderTaken
<1>5. CASE HeaderAt(n) < Ahead
  <2>1. line # << >> /\ line[1] = HeaderAt(n)
    BY <1>3, <1>5
  <2>2. LineKind = KindOf(n)
    BY <1>2, <2>1, Marks DEF LineKind
  <2>3. ~EndOther(Head(fifo))
    BY <2>2 DEF EndOther
  <2>4. ~EndKnown(Head(fifo))
    <3> SUFFICES ASSUME EndKnown(Head(fifo)) PROVE FALSE
      OBVIOUS
    <3>1. cycle' = {} \/ cycle' = cycle \cup {LineKind}
      BY EndKnownSample
    <3>2. cycle' = {} => cycle = {} /\ cycle \cup {LineKind} = Kind
      BY EndKnownSample
    <3>3. {LineKind} # Kind
      BY DEF Kind
    <3> QED
      BY <2>2, <3>1, <3>2, <3>3
  <2>5. CASE SkipReturn(Head(fifo))
    BY <2>1, <2>5 DEF SkipReturn, lineVars
  <2>6. CASE Keep(Head(fifo))
    <3>1. line' = Append(line, Head(fifo)) /\ line \in Seq(Char) /\ Head(fifo) \in Char
      BY <1>1, <2>6, Taken DEF Keep, TypeOK
    <3>2. line' # << >>
      BY <3>1
    <3> QED
      BY <2>1, <3>2, FirstOfLine
  <2> QED
    BY <2>3, <2>4, <2>5, <2>6 DEF Core1
<1> QED
  BY <1>4, <1>5

(* Once all flags are cleared, nothing may have been taken whole.          *)
LEMMA WantingAll ==
  ASSUME TypeOK, Core1, NEW b \in Nat,
         \A n \in Nat \ {0} : b < n /\ HeaderAt(n) < Ahead' => Damaged(n)
  PROVE  Wanting(b)'
<1>1. dropped' = dropped
  BY LineAfter, Moved DEF Consume
<1>2. \A n \in b + 1 .. Sentences : n \in Nat \ {0} /\ b < n
  BY SentenceCount
<1> QED
  BY <1>1, <1>2 DEF Wanting, Damaged

(* The sentence in which the line overflows has lost the newline before    *)
(* it, if it would have fitted.                                            *)
LEMMA OverlongDamaged ==
  ASSUME Body <= LineMax, TypeOK, StreamOrder, StreamGaps, Spliced, LineCompact,
         Consume, Overlong(Head(fifo))
  PROVE  Damaged(SentenceOf(Ahead))
<1> DEFINE s == SentenceOf(Ahead)
           t == PartOf(Ahead)
<1>1. Ahead = Head(fifo) /\ Ahead \in Nat \ {0}
  BY Moved
<1>2. s \in Nat \ {0} /\ t \in 1 .. Body + 2 /\ Ahead = HeaderAt(s) + (t - 1)
  BY <1>1, PlaceOf
<1>3. /\ HeaderAt(s) \in Nat \ {0} /\ NewlineAt(s - 1) = HeaderAt(s) - 1
      /\ Body \in Nat \ {0} /\ LineMax \in Nat \ {0}
  BY <1>2, Places, BoundsAssumption
<1>4. t # Body + 1 /\ t # Body + 2 /\ Len(line) = LineMax
  BY <1>1 DEF Overlong, IsReturn, IsNewline
<1> HIDE DEF s, t
<1>5. line # << >> /\ line[1] \in Char /\ 1 \in 1 .. Len(line)
  <2>1. line \in Seq(Char)
    BY DEF TypeOK
  <2> QED
    BY <1>3, <1>4, <2>1
<1>6. line[1] \in Nat \ {0} /\ Body <= Ahead - line[1]
  <2>1. line[1] \in Nat \ {0}
    BY <1>5, SentenceCount DEF Char
  <2>2. Len(line) <= Ahead - line[1]
    BY <1>5 DEF LineCompact
  <2> QED
    BY <1>1, <1>3, <1>4, <2>1, <2>2
<1>7. line[1] <= NewlineAt(s - 1) /\ NewlineAt(s - 1) < Ahead /\ NewlineAt(s - 1) \in Nat
  BY <1>1, <1>2, <1>3, <1>4, <1>6
<1>8. s - 1 \in Nat \ {0}
  <2>1. CASE s = 1
    <3>1. HeaderAt(s) = 1
      BY <2>1, SentenceCount DEF HeaderAt
    <3> QED
      BY <1>3, <1>6, <1>7, <3>1
  <2> QED
    BY <1>2, <2>1
<1>9. IsNewline(NewlineAt(s - 1))
  BY <1>8, Marks
<1>10. line[1] # NewlineAt(s - 1)
  BY <1>5, <1>9 DEF Spliced
<1>11. NewlineAt(s - 1) \in line[1] + 1 .. Ahead - 1
  BY <1>1, <1>6, <1>7, <1>10
<1> QED
  BY <1>5, <1>9, <1>11 DEF Spliced, Damaged, s

(* A push settles all up to the sentence it ends.                          *)
LEMMA PushSettles ==
  ASSUME EachKind, TypeOK, StreamOrder, StreamGaps, Spliced, cycle # Kind, Core1,
         EndKnown(Head(fifo)), cycle \cup {LineKind} = Kind, pushes' = pushes + 1,
         NEW b \in 0 .. Sentences, Wanting(b), Settled(b)
  PROVE  \E x \in 0 .. Sentences : Wanting(x)' /\ Settled(x)'
<1>1. Consume /\ dropped' = dropped /\ Sentences \in Nat
        /\ Granted \in Nat /\ Granted' = Granted + 1
  BY LineAfter, Moved, SentenceCount, GrantedIs DEF Next
<1>2. PICK m \in 1 .. Sentences : /\ m = SentenceOf(line[1]) /\ line # << >>
                                /\ IsHeader(line[1]) /\ LineKind = KindOf(m)
  BY EndKnownSample DEF LineKind
<1>3. /\ m \in Nat \ {0} /\ line[1] = HeaderAt(m)
      /\ \A n \in Nat \ {0} : HeaderAt(n) < Ahead' /\ ~Damaged(n) => n <= m
  <2>1. IsNewline(Head(fifo))
    BY DEF EndKnown
  <2> QED
    BY <1>1, <1>2, <2>1, LineEnded
<1>4. HeaderAt(m) < Ahead /\ HeaderAt(m) \in Nat /\ Ahead \in Nat
  <2>1. 1 \in 1 .. Len(line)
    BY <1>2 DEF TypeOK
  <2>2. line[1] < Ahead
    BY <2>1 DEF StreamOrder
  <2> QED
    BY <1>3, <2>2, Places, AheadRange
<1>5. KindOf(m) \in Kind \ cycle
  BY <1>2 DEF TypeOK
<1>6. ASSUME NEW x \in Nat, m <= x PROVE Wanting(x)'
  <2>1. \A n \in Nat \ {0} : x < n => ~(n <= m)
    BY <1>3, <1>6
  <2>2. \A n \in Nat \ {0} : x < n /\ HeaderAt(n) < Ahead' => Damaged(n)
    BY <1>3, <2>1
  <2> QED
    BY <2>2, WantingAll
<1>7. CASE m <= b
  <2>1. b \in Nat
    BY <1>1
  <2>2. Settled(b)'
    BY <2>1, SettledKept DEF Next
  <2> QED
    BY <1>6, <1>7, <2>1, <2>2
<1>8. CASE ~(m <= b)
  <2> DEFINE u == Cardinality(LostBefore(b))
             v == Cardinality(LostBefore(m))
             L == Len(Schedule)
  <2>1. b \in Nat /\ m \in Nat /\ b < m /\ b <= m /\ L \in Nat \ {0}
    BY <1>1, <1>3, <1>8, ScheduleLength
  <2>2. ASSUME NEW n \in b + 1 .. m - 1, KindOf(n) = KindOf(m) PROVE Damaged(n)
    <3>1. n \in b + 1 .. Sentences /\ n \in Nat \ {0} /\ n < m
      BY <1>1, <1>2, <2>1
    <3>2. HeaderAt(n) < HeaderAt(m) /\ HeaderAt(n) \in Nat
      BY <1>3, <3>1, PlacesOrder, Places
    <3>3. HeaderAt(n) < Ahead /\ line[1] # HeaderAt(n)
      BY <1>3, <1>4, <3>2
    <3> QED
      BY <1>5, <2>2, <3>1, <3>3 DEF Wanting
  <2>3. m - b <= L * (v - u) + L
    BY <1>5, <2>1, <2>2, Rotations
  <2>4. u \in Nat /\ v \in Nat /\ u <= v
    BY <2>1, LossesOrder
  <2>5. b <= L * (Granted + 2 * u)
    BY SettledIs
  <2>6. LostBefore(m)' = LostBefore(m)
    BY <1>1 DEF LostBefore
  <2> HIDE DEF u, v, L
  <2>7. m <= L * ((Granted + 1) + 2 * v)
    BY <1>1, <2>1, <2>3, <2>4, <2>5, Budget
  <2>8. Settled(m)'
    BY <1>1, <2>6, <2>7 DEF Settled, Granted, v, L
  <2>9. Wanting(m)' /\ m \in 0 .. Sentences
    BY <1>2, <1>6, <2>1
  <2> QED
    BY <2>8, <2>9
<1> QED
  BY <1>7, <1>8

(* So does an overlong line: a byte was lost for it.                       *)
LEMMA OverlongSettles ==
  ASSUME EachKind, Body <= LineMax, TypeOK, StreamOrder, StreamGaps, Spliced, LineCompact,
         cycle # Kind, Core1, Overlong(Head(fifo)),
         NEW b \in 0 .. Sentences, Wanting(b), Settled(b)
  PROVE  \E x \in 0 .. Sentences : Wanting(x)' /\ Settled(x)'
<1>1. /\ Consume /\ dropped' = dropped /\ Ahead \in Char /\ Ahead \in Nat
      /\ Sentences \in Nat /\ Granted \in Nat /\ Granted' = Granted
  BY LineAfter, Moved, SentenceCount, GrantedIs DEF Next, Overlong
<1>2. PICK s \in 1 .. Sentences : s = SentenceOf(Ahead) /\ s \in Nat \ {0} /\ Ahead <= NewlineAt(s)
  BY <1>1, SentenceRange, AheadRange
<1>3. Damaged(s)
  BY <1>1, <1>2, OverlongDamaged
<1>4. ASSUME NEW x \in Nat, s <= x PROVE Wanting(x)'
  <2> SUFFICES ASSUME NEW n \in Nat \ {0}, x < n, HeaderAt(n) < Ahead' PROVE Damaged(n)
    BY WantingAll
  <2>1. HeaderAt(n) <= Ahead \/ HeaderAt(n) \in dropped
    BY <1>1, Passed
  <2>2. s < n
    BY <1>2, <1>4
  <2>3. NewlineAt(s) < HeaderAt(n) /\ NewlineAt(s) \in Nat /\ HeaderAt(n) \in Nat
    BY <1>2, <2>2, PlacesOrder, Places
  <2>4. ~(HeaderAt(n) <= Ahead)
    BY <1>1, <1>2, <2>3
  <2> QED
    BY <2>1, <2>4 DEF Damaged
<1>5. CASE s <= b
  <2>1. b \in Nat
    BY <1>1
  <2>2. Settled(b)'
    BY <2>1, SettledKept DEF Next
  <2> QED
    BY <1>4, <1>5, <2>1, <2>2
<1>6. CASE ~(s <= b)
  <2> DEFINE u == Cardinality(LostBefore(b))
             v == Cardinality(LostBefore(s))
             w == Cardinality(LostBefore(s - 1))
             L == Len(Schedule)
  <2>1. b \in Nat /\ b < s /\ s \in Nat /\ s - 1 \in Nat /\ b <= s - 1 /\ L \in Nat \ {0}
    BY <1>1, <1>2, <1>6, ScheduleLength
  <2>2. s - b <= L * (v - u) + L
    BY <1>2, <2>1, Waiting
  <2>3. u \in Nat /\ w \in Nat /\ v \in Nat /\ u <= w
    <3>1. u \in Nat /\ w \in Nat /\ u <= w
      BY <2>1, LossesOrder
    <3>2. s <= s
      BY <2>1
    <3>3. v \in Nat
      BY <2>1, <3>2, LossesOrder
    <3> QED
      BY <3>1, <3>3
  <2>4. s - (s - 1) <= v - w
    <3>1. \A n \in (s - 1) + 1 .. s : Damaged(n)
      <4>1. \A n \in (s - 1) + 1 .. s : n = s
        BY <2>1
      <4> QED
        BY <1>3, <4>1
    <3>2. s - 1 <= s
      BY <2>1
    <3> QED
      BY <2>1, <3>1, <3>2, AllDamaged
  <2>5. b <= L * (Granted + 2 * u)
    BY SettledIs
  <2>6. LostBefore(s)' = LostBefore(s)
    BY <1>1 DEF LostBefore
  <2> HIDE DEF u, v, w, L
  <2>7. u < v /\ u <= v
    BY <2>1, <2>3, <2>4
  <2>8. s <= L * (Granted + 2 * v)
    BY <1>1, <2>1, <2>2, <2>3, <2>5, <2>7, Budget
  <2>9. Settled(s)'
    BY <1>1, <2>6, <2>8 DEF Settled, Granted, v, L
  <2>10. Wanting(s)' /\ s \in 0 .. Sentences
    BY <1>2, <1>4, <2>1
  <2> QED
    BY <2>9, <2>10
<1> QED
  BY <1>5, <1>6

LEMMA NextEpochs ==
  ASSUME EachKind, Body <= LineMax, TypeOK, StreamOrder, StreamGaps, EpochsInv, [Next]_vars
  PROVE  EpochsInv'
<1>1. LostCounted' /\ Spliced' /\ LineCompact' /\ cycle' # Kind
  BY LostCountedStep, SplicedStep, LineCompactStep, CycleOpen DEF EpochsInv
<1>2. Spliced /\ LineCompact /\ cycle # Kind
  BY DEF EpochsInv
<1> SUFFICES \E x \in 0 .. Sentences : Wanting(x)' /\ Settled(x)'
  BY <1>1 DEF EpochsInv
<1>3. PICK b \in 0 .. Sentences : Wanting(b) /\ Settled(b)
  BY DEF EpochsInv
<1>4. b \in Nat /\ Settled(b)'
  <2>1. b \in Nat
    BY SentenceCount
  <2> QED
    BY <1>3, <2>1, SettledKept
<1>5. CASE Store \/ Lose \/ UNCHANGED vars
  <2>1. Ahead' = Ahead /\ line' = line /\ cycle' = cycle /\ dropped \subseteq dropped'
    <3>1. CASE Store \/ Lose
      BY <3>1, Received DEF lineVars
    <3>2. CASE UNCHANGED vars
      BY <3>2 DEF vars, lineVars, Ahead
    <3> QED
      BY <1>5, <3>1, <3>2
  <2>2. Wanting(b)'
    BY <1>3, <2>1 DEF Wanting, Damaged
  <2> QED
    BY <1>4, <2>2
<1>6. CASE Core1 /\ Overlong(Head(fifo))
  BY <1>2, <1>3, <1>6, OverlongSettles
<1>7. CASE Core1 /\ ~Overlong(Head(fifo)) /\ ~(cycle \subseteq cycle')
  <2>1. EndKnown(Head(fifo))
    BY <1>7 DEF Core1, SkipReturn, EndOther, Keep, lineVars
  <2>2. cycle \cup {LineKind} = Kind /\ pushes' = pushes + 1
    BY <1>7, <2>1, EndKnownSample
  <2> QED
    BY <1>2, <1>3, <1>7, <2>1, <2>2, PushSettles
<1>8. CASE Core1 /\ ~Overlong(Head(fifo)) /\ cycle \subseteq cycle'
  BY <1>2, <1>3, <1>4, <1>8, WantingKept
<1> QED
  BY <1>5, <1>6, <1>7, <1>8 DEF Next

LEMMA InitEpochs == Init => EpochsInv
<1> SUFFICES ASSUME Init PROVE EpochsInv
  OBVIOUS
<1> DEFINE L == Len(Schedule)  b == IF start = 0 THEN 0 ELSE L
<1>1. /\ fifo = << >> /\ line = << >> /\ cycle = {} /\ sent = start /\ lost = 0 /\ dropped = {}
      /\ pushes = 0 /\ start \in Starts
  BY DEF Init, Fifo!FifoInit
<1>2. LostCounted /\ Spliced /\ LineCompact /\ cycle # Kind
  BY <1>1, FS_EmptySet DEF LostCounted, Spliced, LineCompact, Kind
<1>3. /\ Ahead = start + 1 /\ start \in Nat /\ start < L * (Body + 2)
      /\ L \in 0 .. Sentences /\ Sentences \in Nat /\ L \in Nat /\ Body \in Nat
  BY <1>1, StartRange, SentenceCount, BoundsAssumption DEF Ahead
<1>4. b \in 0 .. Sentences /\ b \in Nat
  BY <1>3
(* No sentence after the first b has begun.                                *)
<1>5. ASSUME NEW n \in b + 1 .. Sentences PROVE ~(HeaderAt(n) < start + 1)
  <2>1. n \in Nat \ {0} /\ b <= n - 1 /\ n - 1 \in Nat
    BY <1>4
  <2>2. HeaderAt(n) \in Nat \ {0}
    BY <2>1, Places
  <2>3. CASE start = 0
    BY <2>2, <2>3
  <2>4. CASE start # 0
    <3>1. (Body + 2) * L <= (Body + 2) * (n - 1)
      BY <1>3, <2>1, <2>4, TimesMonotonic
    <3>2. (Body + 2) * L = L * (Body + 2) /\ (Body + 2) * (n - 1) = (n - 1) * (Body + 2)
          /\ L * (Body + 2) \in Nat /\ (n - 1) * (Body + 2) \in Nat
      BY <1>3, <2>1
    <3>3. HeaderAt(n) = (n - 1) * (Body + 2) + 1
      BY DEF HeaderAt
    <3> HIDE DEF L
    <3> QED
      BY <1>3, <3>1, <3>2, <3>3
  <2> QED
    BY <2>3, <2>4
<1>6. Wanting(b)
  BY <1>3, <1>5 DEF Wanting
<1>7. Settled(b)
  <2>1. LostBefore(b) = {}
    BY <1>1 DEF LostBefore
  <2>2. Cardinality(LostBefore(b)) = 0
    BY <2>1, FS_EmptySet
  <2>3. Granted = PartEpoch
    BY <1>1, PartEpochIs DEF Granted
  <2>4. b <= L * (PartEpoch + 2 * 0)
    <3>1. CASE start = 0
      BY <1>3, <3>1 DEF PartEpoch
    <3>2. CASE start # 0
      BY <1>3, <3>2 DEF PartEpoch
    <3> QED
      BY <3>1, <3>2
  <2> HIDE DEF b
  <2> QED
    BY <2>2, <2>3, <2>4, SettledIs
<1> QED
  BY <1>2, <1>4, <1>6, <1>7 DEF EpochsInv

LEMMA EpochsInvAccounts ==
  ASSUME EachKind, TypeOK, StreamOrder, EpochsInv PROVE EpochsAccounted
<1> DEFINE L == Len(Schedule)
<1>1. L \in Nat \ {0} /\ Granted \in Nat /\ lost \in Nat
  BY ScheduleLength, BoundsAssumption, PartEpochIs DEF TypeOK, Granted
<1>2. PICK s \in Nat \ {0} : s = SentenceOf(Ahead)
  BY AheadRange
<1>3. PICK b \in 0 .. Sentences : Wanting(b) /\ Settled(b)
  BY DEF EpochsInv
<1>4. b \in Nat /\ s \in Nat
  BY SentenceCount
<1>5. ASSUME NEW n \in Nat PROVE Cardinality(LostBefore(n)) \in 0 .. lost
  <2>1. IsFiniteSet(dropped) /\ LostBefore(n) \subseteq dropped
    BY DroppedFinite DEF LostBefore
  <2>2. Cardinality(LostBefore(n)) <= Cardinality(dropped) /\ IsFiniteSet(LostBefore(n))
    BY <2>1, FS_Subset
  <2> QED
    BY <1>1, <2>2, FS_CardinalityType DEF EpochsInv, LostCounted
<1> DEFINE u == Cardinality(LostBefore(b))
           v == Cardinality(LostBefore(s))
<1>6. u \in 0 .. lost /\ v \in 0 .. lost
  BY <1>4, <1>5
<1>7. b <= L * (Granted + 2 * u)
  BY <1>3, SettledIs
<1>8. s <= L * ((Granted + 1) + 2 * lost)
  <2>1. CASE s <= b
    <3>1. Granted + 2 * u \in Nat /\ (Granted + 1) + 2 * lost \in Nat
          /\ Granted + 2 * u <= (Granted + 1) + 2 * lost
      <4> HIDE DEF u
      <4> QED
        BY <1>1, <1>6
    <3>2. L * (Granted + 2 * u) <= L * ((Granted + 1) + 2 * lost)
      BY <1>1, <3>1, TimesMonotonic
    <3>3. L * (Granted + 2 * u) \in Nat /\ L * ((Granted + 1) + 2 * lost) \in Nat
      BY <1>1, <3>1
    <3> HIDE DEF L, u
    <3> QED
      BY <1>4, <1>7, <2>1, <3>2, <3>3
  <2>2. CASE ~(s <= b)
    <3>1. b < s /\ b <= s
      BY <1>4, <2>2
    <3>2. s - b <= L * (v - u) + L
      BY <1>2, <1>3, <1>4, <3>1, Waiting DEF EpochsInv
    <3>3. u \in Nat /\ v \in Nat /\ u <= v
      BY <1>4, <3>1, LossesOrder
    <3> HIDE DEF u, v, L
    <3>4. s <= L * ((Granted + 1) + 2 * v)
      BY <1>1, <1>4, <1>7, <3>2, <3>3, Budget
    <3>5. (Granted + 1) + 2 * v \in Nat /\ (Granted + 1) + 2 * lost \in Nat
          /\ (Granted + 1) + 2 * v <= (Granted + 1) + 2 * lost
      BY <1>1, <1>6
    <3>6. L * ((Granted + 1) + 2 * v) <= L * ((Granted + 1) + 2 * lost)
      BY <1>1, <3>5, TimesMonotonic
    <3>7. L * ((Granted + 1) + 2 * v) \in Nat /\ L * ((Granted + 1) + 2 * lost) \in Nat
      BY <1>1, <3>5, TimesMore
    <3> QED
      BY <1>4, <3>4, <3>6, <3>7
  <2> QED
    BY <2>1, <2>2
<1>9. (s - 1) \div L \in 0 .. ((Granted + 1) + 2 * lost) - 1
  <2>1. (Granted + 1) + 2 * lost \in Nat /\ s - 1 \in Nat
    BY <1>1
  <2>2. L * ((Granted + 1) + 2 * lost) = ((Granted + 1) + 2 * lost) * L
        /\ L * ((Granted + 1) + 2 * lost) \in Nat
    BY <1>1, <2>1
  <2> HIDE DEF L
  <2>3. s - 1 < ((Granted + 1) + 2 * lost) * L
    BY <1>4, <1>8, <2>2
  <2> QED
    BY <1>1, <2>1, <2>3, DivBound
<1>10. EpochOf(SentenceOf(Ahead)) = ((s - 1) \div L) + 1
  BY <1>2 DEF EpochOf
<1> HIDE DEF L
<1> QED
  BY <1>1, <1>9, <1>10 DEF EpochsAccounted, Granted

(* No more than two samples are lost to a byte: of the epochs core 1 has   *)
(* gone past, as many were pushed to core 0 as there were, less two for    *)
(* each byte the ring refused and one if the UART was enabled within an    *)
(* epoch, if the receiver sends each kind in every epoch and no sentence   *)
(* is longer than line.                                                    *)
THEOREM EpochsCovered == ASSUME EachKind, Body <= LineMax PROVE Spec => []EpochsAccounted
<1>1. TypeOK /\ StreamOrder /\ Integrity /\ EpochsInv /\ [Next]_vars => EpochsInv'
  BY NextEpochs DEF Integrity
<1>2. TypeOK /\ StreamOrder /\ EpochsInv => EpochsAccounted
  BY EpochsInvAccounts
<1> QED
  BY InitType, NextType, InitOrder, NextOrder, InitIntegrity, NextIntegrity, InitEpochs,
     <1>1, <1>2, PTL DEF Spec

=============================================================================
