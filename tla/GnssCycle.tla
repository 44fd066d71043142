------------------------------ MODULE GnssCycle ------------------------------
(***************************************************************************)
(* From the bytes of the GNSS receiver to the samples core 1 hands to      *)
(* core 0: the interrupt stores bytes in the ring, the loop of core1_entry *)
(* takes them, cuts them into lines, classifies and parses each line, and  *)
(* pushes the gnss_t it has filled once a GGA, a GST and a heading line    *)
(* have been parsed.                                                       *)
(*                                                                         *)
(* The ring is the bounded FIFO that GnssRing implements.  A character is  *)
(* its position in the stream; a sentence is Body characters, the first of *)
(* which is the header a line is classified by, then '\r' and '\n'.  The    *)
(* receiver is already sending when main enables the UART, which may be at *)
(* any character of an epoch.                                              *)
(***************************************************************************)
EXTENDS Integers, Sequences, FiniteSets

CONSTANTS
  Schedule,  (* the kinds of sentences the receiver sends in each epoch    *)
  Epochs,    (* how many epochs it sends: bounds the model                 *)
  Starts,    (* how many characters of the first epoch it may have sent    *)
             (* when the UART is enabled: bounds the model                 *)
  Body,      (* characters of a sentence before its line ending            *)
  LineMax,   (* sizeof(line) - 1                                           *)
  Slots,     (* how many bytes the ring can hold                           *)
  MaxLost    (* how many bytes the ring may refuse: bounds the model       *)

(* The lines the parsers know, each with its cycle_has_ flag.              *)
Kind == {"gga", "gst", "heading"}

ASSUME ScheduleAssumption == Schedule \in Seq(Kind \cup {"other"}) /\ Schedule # << >>
ASSUME BoundsAssumption ==
  /\ Epochs \in Nat \ {0} /\ Body \in Nat \ {0}
  /\ LineMax \in Nat \ {0} /\ Slots \in Nat \ {0}
  /\ MaxLost \in Nat
ASSUME StartsAssumption == Starts \subseteq 0 .. Len(Schedule) * (Body + 2) - 1

Sentences == Epochs * Len(Schedule)
Char == 1 .. Sentences * (Body + 2)

SentenceOf(c) == ((c - 1) \div (Body + 2)) + 1
PartOf(c) == ((c - 1) % (Body + 2)) + 1
KindOf(n) == Schedule[((n - 1) % Len(Schedule)) + 1]
EpochOf(n) == ((n - 1) \div Len(Schedule)) + 1

IsHeader(c)  == PartOf(c) = 1
IsReturn(c)  == PartOf(c) = Body + 1
IsNewline(c) == PartOf(c) = Body + 2

VARIABLES
  start,    (* how many characters it had sent when the UART was enabled   *)
  sent,     (* how many characters the receiver has sent                   *)
  fifo,     (* the bytes in the ring                                       *)
  lost,     (* gnss_overflow                                               *)
  line,     (* line[0 .. idx-1]                                            *)
  cycle,    (* the kinds whose cycle_has_ flag is set                      *)
  gnss,     (* gnss: for each kind, the sentence its fields come from and  *)
            (* its valid_coords, valid_cov or valid_heading                *)
  pushed,   (* the last gnss pushed to q_gnss                              *)
  pushes,   (* how many were pushed                                        *)
  dropped,  (* ghost: the characters the ring refused                      *)
  latest    (* ghost: for each kind, the sentence whose header began the   *)
            (* last line of that kind                                      *)

lineVars == << line, cycle, gnss, pushed, pushes, latest >>
vars == << start, sent, fifo, lost, dropped, lineVars >>

Fifo == INSTANCE ByteFifo WITH Byte <- Char

Nothing == [k \in Kind |-> [from |-> 0, valid |-> FALSE]]

(* The UART is enabled on a receiver that sends.                           *)
Init ==
  /\ start \in Starts
  /\ sent = start
  /\ Fifo!FifoInit
  /\ line = << >>
  /\ cycle = {}
  /\ gnss = Nothing
  /\ pushed = Nothing
  /\ pushes = 0
  /\ dropped = {}
  /\ latest = [k \in Kind |-> 0]

-----------------------------------------------------------------------------
(* gnss_uart_irq_handler: the next character of the receiver is stored, or *)
(* dropped because the ring is full.                                       *)

Store ==
  /\ sent + 1 \in Char
  /\ sent' = sent + 1
  /\ Fifo!Put(sent + 1)
  /\ UNCHANGED << start, dropped, lineVars >>

Lose ==
  /\ sent + 1 \in Char
  /\ lost < MaxLost
  /\ sent' = sent + 1
  /\ Fifo!Drop
  /\ dropped' = dropped \cup {sent + 1}
  /\ UNCHANGED << start, lineVars >>

-----------------------------------------------------------------------------
(* What the loop of core1_entry does with a character.                     *)

(* The kind of a line, from the header at its start.                       *)
LineKind ==
  IF line # << >> /\ IsHeader(line[1]) THEN KindOf(SentenceOf(line[1])) ELSE "other"

(* Mutant: the valid flag is not cleared before the line is parsed.        *)
ParsedKeepsValid(k, solved) ==
  IF solved THEN [from |-> SentenceOf(line[1]), valid |-> TRUE] ELSE gnss[k]

(* parse_gga_line, parse_gst_line, parse_headingga_line: the valid flag is *)
(* cleared first, and set with the fields if the line says that there is a *)
(* solution.  No checksum is verified, so a line that has lost characters  *)
(* may pass for one with a solution as well.                               *)
Parsed(k, solved) ==
  IF solved THEN [from |-> SentenceOf(line[1]), valid |-> TRUE]
            ELSE [from |-> gnss[k].from, valid |-> FALSE]

(* Mutant: one flag survives a push.                                       *)
CycleAfterKeepsHeading(flags) == IF flags = Kind THEN {"heading"} ELSE flags

(* The flags after a line is handled: cleared by a push.                   *)
CycleAfter(flags) == IF flags = Kind THEN {} ELSE flags

(* Mutant: only samples that are valid in every part are pushed.           *)
MaybePushValid(flags, sample) ==
  IF flags = Kind /\ \A k \in Kind : sample[k].valid
  THEN pushed' = sample /\ pushes' = pushes + 1
  ELSE UNCHANGED << pushed, pushes >>

(* queue_push_latest(&q_gnss, &gnss) once every flag is set.               *)
MaybePush(flags, sample) ==
  IF flags = Kind THEN pushed' = sample /\ pushes' = pushes + 1
                  ELSE UNCHANGED << pushed, pushes >>

SkipReturn(c) == IsReturn(c) /\ UNCHANGED lineVars

(* Mutant: idx is not set to 0 at the end of a line.                       *)
EndOtherKeepsLine(c) ==
  /\ IsNewline(c)
  /\ LineKind \notin Kind
  /\ UNCHANGED lineVars

(* '\n' after a line no parser knows.                                      *)
EndOther(c) ==
  /\ IsNewline(c)
  /\ LineKind \notin Kind
  /\ line' = << >>
  /\ UNCHANGED << cycle, gnss, pushed, pushes, latest >>

(* '\n' after a line of kind k; the parser returns true, so that the flag  *)
(* is set whether or not the line had a solution.                          *)
EndKnown(c) ==
  /\ IsNewline(c)
  /\ LineKind \in Kind
  /\ line' = << >>
  /\ latest' = [latest EXCEPT ![LineKind] = SentenceOf(line[1])]
  /\ \E solved \in BOOLEAN :
       gnss' = [gnss EXCEPT ![LineKind] = Parsed(LineKind, solved)]
  /\ LET flags == cycle \cup {LineKind}
     IN  cycle' = CycleAfter(flags) /\ MaybePush(flags, gnss')

Keep(c) ==
  /\ ~IsReturn(c) /\ ~IsNewline(c)
  /\ Len(line) < LineMax
  /\ line' = Append(line, c)
  /\ UNCHANGED << cycle, gnss, pushed, pushes, latest >>

(* Mutant: the character is stored past the end of the buffer.             *)
OverlongUnchecked(c) ==
  /\ ~IsReturn(c) /\ ~IsNewline(c)
  /\ Len(line) = LineMax
  /\ line' = Append(line, c)
  /\ UNCHANGED << cycle, gnss, pushed, pushes, latest >>

(* The buffer is full: gnss_line_overlong; line, character and flags go,   *)
(* and whatever is left of the sentence begins a new line.                 *)
Overlong(c) ==
  /\ ~IsReturn(c) /\ ~IsNewline(c)
  /\ Len(line) = LineMax
  /\ line' = << >>
  /\ cycle' = {}
  /\ UNCHANGED << gnss, pushed, pushes, latest >>

(* gnss_ring_pop returned the oldest character.                            *)
Consume ==
  /\ Fifo!Take
  /\ UNCHANGED << start, sent, dropped >>

-----------------------------------------------------------------------------

Core1 ==
  \/ Consume /\ SkipReturn(Head(fifo))
  \/ Consume /\ EndOther(Head(fifo))
  \/ Consume /\ EndKnown(Head(fifo))
  \/ Consume /\ Keep(Head(fifo))
  \/ Consume /\ Overlong(Head(fifo))

Next == Store \/ Lose \/ Core1

Spec == Init /\ [][Next]_vars

(* The receiver keeps sending, and core 1 keeps taking what is in the ring *)
(* (it may be slow, which is when bytes are lost).                         *)
Fairness == WF_vars(Store) /\ WF_vars(Core1)

FairSpec == Spec /\ Fairness

-----------------------------------------------------------------------------

TypeOK ==
  /\ start \in Starts
  /\ sent \in 0 .. Sentences * (Body + 2)
  /\ fifo \in Seq(Char) /\ Len(fifo) <= Slots
  /\ lost \in 0 .. MaxLost
  /\ line \in Seq(Char) /\ Len(line) <= LineMax
  /\ cycle \subseteq Kind
  /\ gnss \in [Kind -> [from : 0 .. Sentences, valid : BOOLEAN]]
  /\ pushed \in [Kind -> [from : 0 .. Sentences, valid : BOOLEAN]]
  /\ pushes \in Nat
  /\ dropped \subseteq Char
  /\ latest \in [Kind -> 0 .. Sentences]

(* A line is a contiguous piece of the stream except for the characters    *)
(* the ring refused: two sentences are spliced into one line only if the   *)
(* newline between them was among those.                                   *)
LineIntegrity ==
  \A i \in 1 .. Len(line) - 1 :
    \A c \in line[i] + 1 .. line[i + 1] - 1 : c \in dropped \/ IsReturn(c)

(* What the sample says is valid comes from the latest line of its kind,   *)
(* never from an earlier one that a later line should have invalidated.    *)
ValidIsLatest == \A k \in Kind : gnss[k].valid => gnss[k].from = latest[k]

(* What makes these inductive: the characters of the line, those in the    *)
(* ring and the next one the receiver sends come in this order, and what   *)
(* is missing between two of them was refused by the ring or is '\r'.      *)
Ahead == IF fifo = << >> THEN sent + 1 ELSE Head(fifo)

OnlyLost(b, e) == \A c \in b + 1 .. e - 1 : c \in dropped \/ IsReturn(c)

StreamOrder ==
  /\ \A i, j \in 1 .. Len(fifo) : i < j => fifo[i] < fifo[j]
  /\ \A i \in 1 .. Len(fifo) : fifo[i] <= sent
  /\ \A i \in 1 .. Len(line) : line[i] < Ahead

StreamGaps ==
  /\ \A i \in 1 .. Len(fifo) - 1 : OnlyLost(fifo[i], fifo[i + 1])
  /\ fifo # << >> => OnlyLost(fifo[Len(fifo)], sent + 1)
  /\ line # << >> => OnlyLost(line[Len(line)], Ahead)

(* No reading is sent twice: each valid part of a pushed sample is from a  *)
(* later sentence than that part of every earlier sample.                  *)
NothingPushedTwice ==
  [][pushes' # pushes =>
       \A k \in Kind : pushed'[k].valid => pushed'[k].from > pushed[k].from]_vars

(* What makes it inductive: every header that is still to end a line is    *)
(* later than all that have, and once its flag is set, a kind has a line   *)
(* later than the one in the last sample.                                  *)
Later(c) == IsHeader(c) => \A k \in Kind : latest[k] < SentenceOf(c)

LatestBehind ==
  /\ \A i \in 1 .. Len(fifo) : Later(fifo[i])
  /\ \A i \in 1 .. Len(line) : Later(line[i])
  /\ \A c \in Char : c > sent => Later(c)

CycleFresh ==
  \A k \in Kind :
    /\ gnss[k].from <= latest[k] /\ pushed[k].from <= latest[k]
    /\ k \in cycle => pushed[k].from < latest[k]

(* The epoch the UART was enabled in, when the ring has not all of it.     *)
PartEpoch == IF start = 0 THEN 0 ELSE 1

(* The epochs a pushed sample is put together from differ by no more than  *)
(* the number of bytes lost, and one more for good if the UART was enabled *)
(* within an epoch.                                                        *)
SkewBoundedByLoss ==
  \A j, k \in Kind :
    pushed[j].valid /\ pushed[k].valid =>
      EpochOf(pushed[j].from) - EpochOf(pushed[k].from) <= lost + PartEpoch

(* Each byte lost costs at most two samples; without loss as many are      *)
(* pushed as the receiver sends whole epochs to the UART.                  *)
EpochsPushed == <>[](pushes + PartEpoch + 2 * lost >= Epochs)

-----------------------------------------------------------------------------
(* What makes SkewBoundedByLoss inductive, when the receiver sends each    *)
(* kind once an epoch.                                                     *)

KindsOnce ==
  \A p, q \in 1 .. Len(Schedule) :
    Schedule[p] \in Kind /\ Schedule[p] = Schedule[q] => p = q

HeaderAt(n)  == (n - 1) * (Body + 2) + 1
NewlineAt(n) == n * (Body + 2)

(* What is lost of a sentence that is taken for no line of its own.        *)
Damaged(n) == HeaderAt(n) \in dropped \/ NewlineAt(n - 1) \in dropped

LostCounted == lost = Cardinality(dropped) /\ \A c \in dropped : c <= sent

LatestOfKind ==
  \A k \in Kind :
    /\ latest[k] # 0 => KindOf(latest[k]) = k
    /\ k \in cycle => latest[k] # 0

(* What stands in one line with its first character.                       *)
Spliced ==
  line # << >> =>
    /\ ~IsNewline(line[1])
    /\ \A c \in line[1] + 1 .. Ahead - 1 : IsNewline(c) => c \in dropped

(* Once the flag of a kind is set, every sentence is damaged, or in the    *)
(* line, or has set its own flag.                                          *)
NoneSkipped ==
  \A k \in cycle : \A n \in latest[k] + 1 .. Sentences :
    HeaderAt(n) < Ahead =>
      \/ Damaged(n)
      \/ line # << >> /\ line[1] = HeaderAt(n)
      \/ KindOf(n) \in Kind => KindOf(n) \in cycle /\ n <= latest[KindOf(n)]

(* As long as nothing is lost, the ring holds the last bytes sent.         *)
Gapless == dropped = {} => \A i \in 1 .. Len(fifo) : fifo[i] = (sent - Len(fifo)) + i

(* As long as nothing is lost of a stream that begins with an epoch, the   *)
(* line is the sentence up to here, if it fits, and the flags are those of *)
(* the epoch up to here.                                                   *)
Upto(r) == {Schedule[p] : p \in 1 .. r} \cap Kind

InPhase ==
  dropped = {} /\ start = 0 =>
    LET s == SentenceOf(Ahead)
        t == PartOf(Ahead)
        kept == IF t - 1 <= Body THEN t - 1 ELSE Body
    IN  /\ line # << >> /\ IsHeader(line[1]) =>
             line[1] = HeaderAt(s) /\ Len(line) = kept
        /\ Body <= LineMax =>
             /\ IF t = 1 THEN line = << >> ELSE line # << >> /\ IsHeader(line[1])
             /\ cycle = CycleAfter(Upto((s - 1) % Len(Schedule)))
        /\ Body > LineMax => cycle = {}

SkewInv ==
  /\ LostCounted /\ LatestOfKind /\ Spliced /\ NoneSkipped
  /\ Gapless /\ InPhase /\ cycle # Kind /\ SkewBoundedByLoss

-----------------------------------------------------------------------------
(* The part of EpochsPushed that needs no fairness, when the receiver      *)
(* sends every kind once an epoch or more and a sentence fits the line.    *)

EachKind == \A k \in Kind : \E p \in 1 .. Len(Schedule) : Schedule[p] = k

(* Of the epochs core 1 has gone past, each was pushed, except for two for *)
(* each byte lost and the one of which only a part was sent to the UART.   *)
EpochsAccounted ==
  pushes + PartEpoch + 2 * lost >= EpochOf(SentenceOf(Ahead)) - 1

(* What makes it inductive: the first sentences up to some b are accounted *)
(* for by the samples pushed and the bytes lost of them, and a kind whose  *)
(* flag is not set has had nothing but damaged sentences since, except     *)
(* perhaps the one in the line.                                            *)
LineCompact == line # << >> => Len(line) <= Ahead - line[1]

LostBefore(b) == {c \in dropped : c < NewlineAt(b)}

Wanting(b) ==
  \A k \in Kind \ cycle : \A n \in b + 1 .. Sentences :
    KindOf(n) = k /\ HeaderAt(n) < Ahead =>
      \/ Damaged(n)
      \/ line # << >> /\ line[1] = HeaderAt(n)

Settled(b) ==
  b <= Len(Schedule) * (pushes + PartEpoch + 2 * Cardinality(LostBefore(b)))

EpochsInv ==
  /\ LostCounted /\ Spliced /\ LineCompact /\ cycle # Kind
  /\ \E b \in 0 .. Sentences : Wanting(b) /\ Settled(b)

=============================================================================
