------------------------------ MODULE ShtpLink ------------------------------
(***************************************************************************)
(* The SHTP link to the IMU: shtp_service and txProcess of shtp.c over     *)
(* i2chal_read and i2chal_write of bno08x.cpp.                             *)
(*                                                                         *)
(* A cargo crosses the bus in I2C transactions, each of which starts with  *)
(* a header: how much is left of the cargo, whether it continues one, its  *)
(* channel and a sequence number.  i2chal_read reads one header to learn   *)
(* the length, then the whole transfer in chunks, whose headers it skips   *)
(* after the first; rxAssemble makes payloads of transfers.  The sensor    *)
(* may reset between any two transactions, and any of them may fail.       *)
(* Lengths are counted without headers.                                    *)
(***************************************************************************)
EXTENDS Naturals, Sequences

CONSTANTS
  Chunk,        (* what an I2C transaction carries: maxBufferSize() - 4    *)
  AdvertSize,   (* the length of the advertisement, the longest cargo      *)
  Sizes,        (* the lengths of the other cargoes                        *)
  Channels,     (* the channels: 0 is the command channel                  *)
  SeqMod,       (* sequence numbers are modulo this, 256 on a uint8_t      *)
  MaxCargoes, MaxResets, MaxFails, MaxSends   (* these bound the model     *)

ASSUME SizesAssumption ==
  /\ Chunk \in Nat \ {0} /\ AdvertSize \in Nat \ {0} /\ SeqMod \in Nat \ {0}
  /\ Sizes \subseteq 1 .. AdvertSize
  /\ {0, 1} \subseteq Channels /\ Channels \subseteq Nat

(* There is room for the announcement the sensor starts with.              *)
ASSUME BoundsAssumption ==
  /\ MaxCargoes \in Nat \ {0, 1}
  /\ MaxResets \in Nat /\ MaxFails \in Nat /\ MaxSends \in Nat

Cargo == [id : 1 .. MaxCargoes, chan : Channels, size : 1 .. AdvertSize]

VARIABLES
  outbox,     (* the cargoes the sensor has queued                         *)
  gone,       (* how much of the first one has crossed the bus             *)
  outSeq,     (* the sensor's next sequence number on each channel         *)
  queued,     (* how many cargoes it has queued                            *)
  pc,         (* where the host is                                         *)
  back,       (* where it goes on when shtp_service returns                *)
  want,       (* cargo_remaining: how much of the transfer is to be read   *)
  header,     (* the header of its first chunk                             *)
  buffer,     (* inTransfer: what has been read of it                      *)
  remaining,  (* inRemaining                                               *)
  inChan, nextInSeq,
  assembly,   (* inPayload                                                 *)
  payload,    (* what the listener was given last                          *)
  spoilt,     (* ghost: the cargoes a failure or a reset fell into         *)
  resets, fails, sends

sensor   == << outbox, gone, outSeq, queued >>
hal      == << want, header, buffer >>
assembler == << remaining, inChan, nextInSeq, assembly, payload >>
bounds   == << resets, fails, sends >>
vars == << sensor, pc, back, hal, assembler, spoilt, bounds >>

NoHeader == [left |-> 0, cont |-> FALSE, chan |-> 0, seq |-> 0]

(* What the sensor queues when it starts: the advertisement and, on        *)
(* another channel, the notification that it has reset.                    *)
Announcement(n) ==
  << [id |-> n + 1, chan |-> 0, size |-> AdvertSize],
     [id |-> n + 2, chan |-> 1, size |-> 1] >>

Init ==
  /\ outbox = Announcement(0) /\ gone = 0 /\ queued = 2
  /\ outSeq = [c \in Channels |-> 0]
  /\ pc = "idle" /\ back = "idle"
  /\ want = 0 /\ header = NoHeader /\ buffer = << >>
  /\ remaining = 0 /\ inChan = 0 /\ nextInSeq = [c \in Channels |-> 0]
  /\ assembly = << >> /\ payload = << >>
  /\ spoilt = {}
  /\ resets = 0 /\ fails = 0 /\ sends = 0

Least(m, n) == IF m <= n THEN m ELSE n

-----------------------------------------------------------------------------
(* The sensor's end of a transaction (external).                           *)

Left == Head(outbox).size - gone

HeaderNow ==
  LET c == Head(outbox)
  IN  [left |-> Left, cont |-> gone > 0, chan |-> c.chan, seq |-> outSeq[c.chan]]

Units(n) == [i \in 1 .. n |-> << Head(outbox).id, gone + i >>]

(* n of the first cargo cross the bus.                                     *)
Cross(n) ==
  /\ IF n < Left THEN gone' = gone + n /\ UNCHANGED outbox
                 ELSE gone' = 0 /\ outbox' = Tail(outbox)
  /\ outSeq' = [outSeq EXCEPT ![Head(outbox).chan] = (@ + 1) % SeqMod]
  /\ UNCHANGED queued

-----------------------------------------------------------------------------
(* rxAssemble.                                                             *)

(* Mutant: a transfer is not compared with the assembly in progress.       *)
StartsUnchecked(h) == remaining = 0

(* A transfer starts a new payload if there is no assembly in progress, or *)
(* if it is not the continuation that assembly expects: it is discarded.   *)
Starts(h) ==
  \/ remaining = 0
  \/ ~h.cont
  \/ h.chan # inChan
  \/ h.seq # nextInSeq[h.chan]

(* A transfer with header h and contents data: when nothing is missing the *)
(* payload goes to the listener of the channel.                            *)
Assemble(h, data) ==
  LET all == IF Starts(h) THEN data ELSE assembly \o data
  IN  /\ assembly' = all
      /\ inChan' = h.chan
      /\ remaining' = h.left - Len(data)
      /\ payload' = IF remaining' = 0 THEN all ELSE payload
      /\ nextInSeq' = [nextInSeq EXCEPT ![h.chan] = (h.seq + 1) % SeqMod]

-----------------------------------------------------------------------------
(* shtp_service, with i2chal_read.                                         *)

(* Mutant: there is no such limit.                                         *)
ServiceNothingWaits ==
  /\ pc = "service"
  /\ outbox = << >>
  /\ UNCHANGED vars

(* The header is read, over and over for two milliseconds; if there is     *)
(* none, or its length is 0, there is nothing to read.                     *)
ServiceNothing ==
  /\ pc = "service"
  /\ outbox = << >>
  /\ pc' = back
  /\ UNCHANGED << sensor, back, hal, assembler, spoilt, bounds >>

ReadHeader ==
  /\ pc = "service"
  /\ outbox # << >>
  /\ want' = Left
  /\ buffer' = << >> /\ header' = NoHeader
  /\ pc' = "chunk"
  /\ UNCHANGED << sensor, back, assembler, spoilt, bounds >>

ReadHeaderFails ==
  /\ pc = "service"
  /\ fails < MaxFails
  /\ fails' = fails + 1
  /\ pc' = back
  /\ UNCHANGED << sensor, back, hal, assembler, spoilt, resets, sends >>

(* Mutant: std::min is forgotten: more is read than is wanted.             *)
ReadSizeWhole == Chunk

ReadSize == Least(Chunk, want)

(* A chunk, the first with its header; the last one completes the transfer *)
(* and rxAssemble takes it.                                                *)
ReadChunk ==
  /\ pc = "chunk"
  /\ LET data == buffer \o Units(ReadSize)
         h == IF buffer = << >> THEN HeaderNow ELSE header
     IN  /\ buffer' = data /\ header' = h
         /\ want' = want - ReadSize
         /\ IF want' = 0 THEN Assemble(h, data) /\ pc' = back
                         ELSE UNCHANGED << assembler, pc >>
  /\ Cross(ReadSize)
  /\ UNCHANGED << back, spoilt, bounds >>

(* A chunk fails, whether or not the sensor has sent it: i2chal_read       *)
(* returns 0 and what it had read is lost.                                 *)
ReadChunkFails ==
  /\ pc = "chunk"
  /\ fails < MaxFails
  /\ fails' = fails + 1
  /\ Cross(ReadSize) \/ UNCHANGED sensor
  /\ spoilt' = spoilt \cup {Head(outbox).id}
  /\ pc' = back
  /\ UNCHANGED << back, hal, assembler, resets, sends >>

(* sh2_service, or the loop of opProcess.                                  *)
Service ==
  /\ pc = "idle"
  /\ pc' = "service" /\ back' = "idle"
  /\ UNCHANGED << sensor, hal, assembler, spoilt, bounds >>

-----------------------------------------------------------------------------
(* txProcess, for a command that fits one transfer.                        *)

Send ==
  /\ pc = "idle"
  /\ sends < MaxSends
  /\ sends' = sends + 1
  /\ pc' = "send"
  /\ UNCHANGED << sensor, back, hal, assembler, spoilt, resets, fails >>

Written ==
  /\ pc = "send"
  /\ pc' = "idle"
  /\ UNCHANGED << sensor, back, hal, assembler, spoilt, bounds >>

(* The write is tried again, after a call of shtp_service.                 *)
WriteFails ==
  /\ pc = "send"
  /\ fails < MaxFails
  /\ fails' = fails + 1
  /\ pc' = "service" /\ back' = "send"
  /\ UNCHANGED << sensor, hal, assembler, spoilt, resets, sends >>

-----------------------------------------------------------------------------
(* The sensor (external).                                                  *)

Queues ==
  /\ queued < MaxCargoes
  /\ queued' = queued + 1
  /\ \E c \in Channels \ {0}, s \in Sizes :
       outbox' = Append(outbox, [id |-> queued', chan |-> c, size |-> s])
  /\ UNCHANGED << gone, outSeq, pc, back, hal, assembler, spoilt, bounds >>

(* It resets: what it had queued is gone, and if the host is about to read *)
(* a chunk, that is one of the new advertisement.                          *)
Resets ==
  /\ resets < MaxResets
  /\ resets' = resets + 1
  /\ queued + 2 <= MaxCargoes
  /\ queued' = queued + 2
  /\ outbox' = Announcement(queued) /\ gone' = 0
  /\ outSeq' = [c \in Channels |-> 0]
  /\ spoilt' = IF pc = "chunk" THEN spoilt \cup {queued + 1} ELSE spoilt
  /\ UNCHANGED << pc, back, hal, assembler, fails, sends >>

-----------------------------------------------------------------------------

Host == Service \/ ServiceNothing \/ ReadHeader \/ ReadChunk \/ Written
Failure == ReadHeaderFails \/ ReadChunkFails \/ WriteFails

Next == Host \/ Send \/ Failure \/ Queues \/ Resets

Spec == Init /\ [][Next]_vars

(* The host goes on; the bus works most of the time.                       *)
FairSpec == Spec /\ WF_vars(Host)

-----------------------------------------------------------------------------

TypeOK ==
  /\ outbox \in Seq(Cargo)
  /\ gone \in 0 .. AdvertSize - 1
  /\ outSeq \in [Channels -> 0 .. SeqMod - 1]
  /\ queued \in 0 .. MaxCargoes
  /\ pc \in {"idle", "service", "chunk", "send"}
  /\ back \in {"idle", "send"}
  /\ want \in 0 .. AdvertSize
  /\ header \in [left : 0 .. AdvertSize, cont : BOOLEAN, chan : Channels, seq : 0 .. SeqMod - 1]
  /\ buffer \in Seq((1 .. MaxCargoes) \X (1 .. AdvertSize))
  /\ remaining \in 0 .. AdvertSize
  /\ inChan \in Channels
  /\ nextInSeq \in [Channels -> 0 .. SeqMod - 1]
  /\ assembly \in Seq((1 .. MaxCargoes) \X (1 .. AdvertSize))
  /\ payload \in Seq((1 .. MaxCargoes) \X (1 .. AdvertSize))
  /\ spoilt \subseteq 1 .. MaxCargoes
  /\ pc = "chunk" => outbox # << >> /\ want \in 1 .. Left

(* Every cargo that no failed transaction and no reset fell into reaches   *)
(* its listener whole, once and in its turn, whatever is left in inPayload *)
(* and nextInSeq of those that were spoilt before.                         *)
Link == INSTANCE CargoLink WITH pending <- outbox

ImplementsLink == Link!LinkSpec

(* Nothing makes the host stop reading: once the sensor queues no more,    *)
(* all it has queued has been read and the host is back in its loop, also  *)
(* when the failures fell into the attempts of a write.                    *)
Drains == []<>(outbox = << >> /\ pc = "idle")

-----------------------------------------------------------------------------
(* The inductive invariant.                                                *)

(* A cargo leaves the queue with its last unit.                            *)
PartlyGone == IF outbox = << >> THEN gone = 0 ELSE gone < Head(outbox).size

(* A cargo no failure and no reset fell into is read from its first unit   *)
(* on, in one transfer: what is in the buffer is what has crossed the bus, *)
(* under a header that began a cargo.                                      *)
Intact ==
  outbox # << >> /\ Head(outbox).id \notin spoilt =>
    IF pc = "chunk"
    THEN /\ want = Left
         /\ buffer = [i \in 1 .. gone |-> << Head(outbox).id, i >>]
         /\ gone > 0 => ~header.cont /\ header.left = Head(outbox).size
    ELSE gone = 0

(* No transfer, of a spoilt cargo either, has more units than its header   *)
(* says, so that inRemaining does not become negative.                     *)
HeaderCovers ==
  pc = "chunk" /\ buffer # << >> => Len(buffer) + want <= header.left

IInv == TypeOK /\ PartlyGone /\ Intact /\ HeaderCovers

=============================================================================
