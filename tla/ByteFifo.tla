------------------------------ MODULE ByteFifo ------------------------------
(***************************************************************************)
(* What the GNSS receive ring of src/main.cpp promises to the two cores    *)
(* that share it: a bounded FIFO of bytes.  The UART interrupt on core 0   *)
(* puts bytes at one end and counts a byte as lost (gnss_overflow) only    *)
(* when Slots bytes are waiting; core 1 takes bytes from the other end.    *)
(*                                                                         *)
(* GnssRing is shown to implement this specification; GnssCycle is built   *)
(* on it.                                                                  *)
(***************************************************************************)
EXTENDS Naturals, Sequences

CONSTANTS
  Slots,  (* how many bytes can wait: one fewer than the ring has cells    *)
  Byte    (* the bytes a receiver can send                                 *)

VARIABLES
  fifo,   (* bytes accepted and not yet taken, oldest first                *)
  lost    (* gnss_overflow: how many bytes were refused                    *)

fifoVars == << fifo, lost >>

FifoInit ==
  /\ fifo = << >>
  /\ lost = 0

(* The interrupt handler stores a received byte.                           *)
Put(b) ==
  /\ Len(fifo) < Slots
  /\ fifo' = Append(fifo, b)
  /\ lost' = lost

(* The interrupt handler drops the byte it has just received.              *)
Drop ==
  /\ Len(fifo) = Slots
  /\ lost' = lost + 1
  /\ fifo' = fifo

(* Core 1 takes the oldest byte.                                           *)
Take ==
  /\ fifo # << >>
  /\ fifo' = Tail(fifo)
  /\ lost' = lost

FifoNext ==
  \/ \E b \in Byte : Put(b)
  \/ Drop
  \/ Take

FifoSpec == FifoInit /\ [][FifoNext]_fifoVars

=============================================================================
