------------------------------ MODULE GnssRing ------------------------------
(***************************************************************************)
(* The lock-free byte ring between the GNSS UART interrupt, which runs on  *)
(* core 0 (gnss_uart_irq_handler, gnss_ring_push), and core 1, which drains *)
(* it (gnss_ring_pop in the loop of core1_entry).                          *)
(*                                                                         *)
(* There is no lock: each volatile access is a step of its own, so the two *)
(* sides interleave between the check of an index, the access to the cell  *)
(* and the update of the index.  head is written by the interrupt only,    *)
(* tail by core 1 only.  Bytes are numbered in the order they arrive, so   *)
(* that each can be told from every other one.                             *)
(***************************************************************************)
EXTENDS Naturals, Sequences

CONSTANTS
  Size,      (* GNSS_RING_SIZE                                             *)
  MaxBytes   (* how many bytes the receiver sends: bounds the model        *)

ASSUME SizeAssumption == Size \in Nat /\ Size >= 2
ASSUME MaxBytesAssumption == MaxBytes \in Nat

Index == 0 .. Size - 1
Byte  == 1 .. MaxBytes
None  == 0                    (* a cell or a local that holds no byte      *)

VARIABLES
  ring,      (* gnss_ring                                                  *)
  head,      (* gnss_head: the next cell the interrupt fills               *)
  tail,      (* gnss_tail: the next cell core 1 reads                      *)
  overflow,  (* gnss_overflow                                              *)
  irqPc,     (* where the interrupt handler is                             *)
  rx,        (* the byte the handler has read from the UART (c), and so    *)
             (* gnss_bytes_rx: bytes are numbered in the order of arrival  *)
  popPc,     (* where gnss_ring_pop is                                     *)
  got,       (* the byte gnss_ring_pop has read ( *c )                     *)
  accepted,  (* ghost: every byte stored in the ring, in order             *)
  taken      (* ghost: how many bytes core 1 has taken                     *)

irqVars == << irqPc, rx >>
popVars == << popPc, got >>
vars == << ring, head, tail, overflow, irqPc, rx, popPc, got, accepted, taken >>

(* Mutant: the index is not brought back into the ring.                    *)
SuccNoWrap(i) == i + 1

(* The successor of a ring index, a uint16_t: it is below 4096, so the sum *)
(* does not overflow.                                                      *)
Succ(i) == (i + 1) % Size

Init ==
  /\ ring = [i \in Index |-> None]
  /\ head = 0
  /\ tail = 0
  /\ overflow = 0
  /\ irqPc = "idle"
  /\ rx = None
  /\ popPc = "idle"
  /\ got = None
  /\ accepted = << >>
  /\ taken = 0

-----------------------------------------------------------------------------
(* The interrupt handler, one byte at a time.                              *)

(* A byte is readable: uart_getc, gnss_bytes_rx++.                         *)
Receive ==
  /\ irqPc = "idle"
  /\ rx < MaxBytes
  /\ rx' = rx + 1
  /\ irqPc' = "check"
  /\ UNCHANGED << ring, head, tail, overflow, popVars, accepted, taken >>

(* Mutants: the check is left out; it gives up one cell too early.         *)
FullUnchecked == FALSE
FullTooEarly == Succ(head) = tail \/ Succ(Succ(head)) = tail

(* The space check of gnss_ring_push: next == gnss_tail.                   *)
Full == Succ(head) = tail

(* gnss_ring_push finds room.                                              *)
Room ==
  /\ irqPc = "check"
  /\ ~Full
  /\ irqPc' = "store"
  /\ UNCHANGED << ring, head, tail, overflow, rx, popVars, accepted, taken >>

(* Mutant: the byte is dropped without being counted.                      *)
OverflowUncounted ==
  /\ irqPc = "check"
  /\ Full
  /\ irqPc' = "idle"
  /\ UNCHANGED << ring, head, tail, overflow, rx, popVars, accepted, taken >>

(* gnss_ring_push finds the ring full: the new byte is dropped.            *)
Overflow ==
  /\ irqPc = "check"
  /\ Full
  /\ overflow' = overflow + 1
  /\ irqPc' = "idle"
  /\ UNCHANGED << ring, head, tail, rx, popVars, accepted, taken >>

(* gnss_ring[gnss_head] = c.                                               *)
Store ==
  /\ irqPc = "store"
  /\ ring' = [ring EXCEPT ![head] = rx]
  /\ irqPc' = "publish"
  /\ UNCHANGED << head, tail, overflow, rx, popVars, accepted, taken >>

(* gnss_head = next: from here on core 1 can see the byte.                 *)
Publish ==
  /\ irqPc = "publish"
  /\ head' = Succ(head)
  /\ accepted' = Append(accepted, rx)
  /\ irqPc' = "idle"
  /\ UNCHANGED << ring, tail, overflow, rx, popVars, taken >>

-----------------------------------------------------------------------------
(* gnss_ring_pop on core 1.                                                *)

(* Mutant: the last byte is left in the ring.                              *)
PopBeginLeavesLast ==
  /\ popPc = "idle"
  /\ tail # head
  /\ Succ(tail) # head
  /\ popPc' = "read"
  /\ UNCHANGED << ring, head, tail, overflow, irqVars, got, accepted, taken >>

(* gnss_tail # gnss_head: there is a byte to read.                         *)
PopBegin ==
  /\ popPc = "idle"
  /\ tail # head
  /\ popPc' = "read"
  /\ UNCHANGED << ring, head, tail, overflow, irqVars, got, accepted, taken >>

(* Mutant: the index is incremented before the cell is read.               *)
PopReadNextCell ==
  /\ popPc = "read"
  /\ got' = ring[Succ(tail)]
  /\ popPc' = "advance"
  /\ UNCHANGED << ring, head, tail, overflow, irqVars, accepted, taken >>

(* *c = gnss_ring[gnss_tail].                                              *)
PopRead ==
  /\ popPc = "read"
  /\ got' = ring[tail]
  /\ popPc' = "advance"
  /\ UNCHANGED << ring, head, tail, overflow, irqVars, accepted, taken >>

(* gnss_tail = (gnss_tail + 1) % SIZE, return true.                        *)
PopAdvance ==
  /\ popPc = "advance"
  /\ tail' = Succ(tail)
  /\ taken' = taken + 1
  /\ popPc' = "idle"
  /\ UNCHANGED << ring, head, overflow, irqVars, got, accepted >>

-----------------------------------------------------------------------------

Isr   == Receive \/ Room \/ Overflow \/ Store \/ Publish
Core1 == PopBegin \/ PopRead \/ PopAdvance

Next == Isr \/ Core1

Spec == Init /\ [][Next]_vars

(* Core 1 keeps calling gnss_ring_pop, and an interrupt handler that has   *)
(* started runs to its end; bytes need not keep coming.                    *)
Fairness ==
  /\ WF_vars(Core1)
  /\ WF_vars(Room \/ Overflow \/ Store \/ Publish)

FairSpec == Spec /\ Fairness

-----------------------------------------------------------------------------

TypeOK ==
  /\ ring \in [Index -> Byte \cup {None}]
  /\ head \in Index
  /\ tail \in Index
  /\ overflow \in Nat
  /\ irqPc \in {"idle", "check", "store", "publish"}
  /\ rx \in Byte \cup {None}
  /\ popPc \in {"idle", "read", "advance"}
  /\ got \in Byte \cup {None}
  /\ accepted \in Seq(Byte)
  /\ taken \in Nat

(* How many cells lie between tail and head.                               *)
Used == IF head >= tail THEN head - tail ELSE head + Size - tail

(* The cell k places after the tail.                                       *)
Cell(k) == IF tail + k >= Size THEN tail + k - Size ELSE tail + k

(* The cells between tail and head hold exactly the bytes accepted and not *)
(* yet taken, in the order they came: no byte core 1 has still to read is  *)
(* overwritten by the interrupt, skipped or read twice.                    *)
Contents ==
  /\ taken + Used = Len(accepted)
  /\ \A k \in 0 .. Used - 1 : ring[Cell(k)] = accepted[taken + k + 1]

(* The byte gnss_ring_pop returns is the next one in the order of arrival, *)
(* although the interrupt may store others between its steps.              *)
PopReturnsNext == popPc = "advance" => got = accepted[taken + 1]

(* Every byte received is accounted for: stored, counted in gnss_overflow  *)
(* or still in the handler's hands; stored bytes keep their order.         *)
Accounted ==
  /\ rx = Len(accepted) + overflow + (IF irqPc = "idle" THEN 0 ELSE 1)
  /\ \A i, j \in 1 .. Len(accepted) : i < j => accepted[i] < accepted[j]

(* The ring implements the bounded FIFO with one slot fewer than cells: in *)
(* particular a byte is dropped only when Size - 1 bytes are waiting.      *)
Waiting == SubSeq(accepted, taken + 1, Len(accepted))

Fifo == INSTANCE ByteFifo WITH
          Slots <- Size - 1, Byte <- Byte, fifo <- Waiting, lost <- overflow

ImplementsFifo == Fifo!FifoSpec

(* Core 1 eventually takes every byte the interrupt stored.                *)
AllTaken == \A n \in Byte : Len(accepted) >= n ~> taken >= n

-----------------------------------------------------------------------------
(* What each side knows between its steps; with TypeOK and the invariants  *)
(* above this is inductive.                                                *)

(* The handler holds a byte; the room it found is still there (core 1 can  *)
(* only make more), and the cell it has filled is still its own.           *)
IrqKnows ==
  /\ irqPc # "idle" => rx \in Byte
  /\ irqPc \in {"store", "publish"} => Succ(head) # tail
  /\ irqPc = "publish" => ring[head] = rx

(* gnss_ring_pop has seen a byte, and it stays there until the tail moves. *)
PopKnows ==
  /\ popPc # "idle" => tail # head
  /\ popPc = "advance" => got = ring[tail]

IInv == TypeOK /\ Contents /\ IrqKnows /\ PopKnows

(* The byte in the handler's hands is later than every stored one: with    *)
(* this and TypeOK, Accounted is inductive.                                *)
StoredEarlier ==
  \A i \in 1 .. Len(accepted) :
    accepted[i] < rx \/ (irqPc = "idle" /\ accepted[i] = rx)

=============================================================================
