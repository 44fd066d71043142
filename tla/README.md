# Verification of the W6100 / BNO08x / GNSS micro-ROS firmware

TLA+ models of the firmware in `src/main.cpp` (RP2350, two cores, W6100 Ethernet,
micro-ROS over UDP) and of the part of the BNO08x library it runs on. The models
are checked with TLC on small instances; every safety invariant and action property
the passing runs check, and the four refinements, are proved with TLAPS for every
value of the constants.

Paths below are relative to the repository; line numbers are of `src/main.cpp`
unless another file is named.

## 1. Inventory

| component | state | operations | interacts with |
|---|---|---|---|
| GNSS receive ring (88-93, 607-639) | `gnss_ring`, `gnss_head`, `gnss_tail`, `gnss_overflow` | UART interrupt (core 0): receive, check, store, publish; core 1: pop | core 1's loop takes the bytes |
| GNSS lines and cycle (796-897, parsers 373-593) | `line`, `idx`, `gnss`, three `cycle_has_` flags | per byte: skip `\r`, end a line, keep, overlong; per line: parse; per cycle: push | ring, `q_gnss` |
| sample queues `q_imu`, `q_gnss`, `q_servo` (343-360) | `queue_t` of 8 elements | `queue_push_latest`, `queue_try_get_latest` | both cores |
| IMU session (777-794, 899-928; `bno08x.cpp`, `sh2.c`, `shtp.c`) | SHTP instance, `_sh2` (channel, pending operation), `_reset_occurred` | begin and its retry loop, enable, poll, wasReset | the sensor over I2C; shares core 1 with GNSS and servo |
| boot and agent supervision (947-1146, 1254-1296) | phase of `main`, `ping_fail`, entities, synchronised clock | boot steps, ping round, resync, watchdog reboot | agent and network; launches core 1 |
| COP light and pulse (665-714) | two pins, `cop_pattern_alarm`, the alarm pool | subscription callback, alarm interrupt | executor and timer interrupt on core 0 |
| light and camera outputs (717-764) | one pin each | subscription callback | none |
| sample publishing (1150-1252) | ROS messages | copy a sample, publish | queues, synchronised clock |
| UDP transport and sockets (`wiz_udp_transport.c`, `socket.c`, `w6100.c`) | socket number, `sock_remained_size`, `sock_pack_info`, chip pointers | open, close, write, read | XRCE client (not in the repository) |
| SHTP link (`shtp.c`, `i2chal_read` and `_write` of `bno08x.cpp`) | `inRemaining`, `inPayload`, `nextInSeq`, `inTransfer` | service, read chunk by chunk, assemble, send with retries | the IMU session above, the sensor below |
| servo bus (645-662, 930-937; `lib/scservo`) | half-duplex UART, `Error` | WritePosEx, Ack | `q_servo`, core 1's loop |
| I2C helper, WS2812, clock stub, SPI/GPIO port | peripheral registers | I/O | - |
| other WIZnet chips, DHCP, DNS, MQTT, SNMP, TFTP, HTTP, examples | - | - | not compiled |

What is hard about it, and what makes each component correct:

* **Two cores and interrupts without locks.** The ring is shared by an interrupt
  on core 0 and by core 1 with volatile indices only; the queues are locked call
  by call, but the two helpers make several calls; the COP alarm interrupts the
  callback that arms it. Correct: no byte and no newest sample is lost, repeated
  or reordered other than by a counted overflow; a pulse is ended by its own alarm.
* **Loss.** Bytes are dropped when core 1 is busy; sentences carry a checksum that
  is not verified, and the receiver is within an epoch when the UART is enabled.
  Correct: a loss damages a bounded number of lines and samples, and a sample never mixes
  epochs further apart than what was lost, or missed at boot, explains.
* **Framing on top of something that loses pieces.** Datagrams lie behind headers in
  the chip's memory, cargoes of the sensor cross the bus in chunks that may fail, servo
  replies come after their time. Correct: what is delivered is whole, once and in
  order, and whoever waits goes on.
* **A sensor with a life of its own.** It answers late, resets, or stops
  acknowledging the bus, while core 1 waits in loops. Correct: core 1 reaches its
  loop, stays in it, and configures the sensor again after a reset.
* **An agent that comes and goes.** Correct: reboots happen when, and only when,
  the agent has been silent for three rounds, and afterwards the firmware
  publishes again.

The complete list of hazards, each with its line and the properties aimed at it,
is `hazards` in `PROJECT.json`; those without a property say why none is stated.

## 2. Modules

| module | models | abstract specification | theorems |
|---|---|---|---|
| `ByteFifo` | what the ring promises: a bounded FIFO that counts refused bytes | - | - |
| `GnssRing` | the ring, one volatile access per step | `ByteFifo` (`ImplementsFifo`) | `GnssRingProofs` |
| `GnssCycle` | bytes to samples in `core1_entry`, on top of `ByteFifo` | - | `GnssCycleProofs` |
| `LatestMailbox` | what the two queue helpers promise: a mailbox for the latest sample | - | - |
| `SampleQueue` | the two helpers, one locked call per step | `LatestMailbox` (`ImplementsMailbox`) | `SampleQueueProofs` |
| `ServoPath` | a servo command from the callback through `SampleQueue` to the servo | `SampleQueue` | in `SampleQueueProofs` |
| `AgentSupervisor` | `main` from reset to the main loop, and its supervision | - | `AgentSupervisorProofs` |
| `CopPulse` | the COP callback and its alarm interrupt | - | `CopPulseProofs` |
| `ImuSession` | `BNO08x::begin`, enabling, polling and resets on core 1 | - | `ImuSessionProofs` |
| `CargoLink` | what the SHTP link promises: whole cargoes, once, in order, except spoilt ones | - | - |
| `ShtpLink` | transfers, chunks and assembly under `ImuSession`'s messages | `CargoLink` (`ImplementsLink`) | `ShtpLinkProofs` |
| `DatagramPort` | what the UDP transport promises the micro-ROS client | - | - |
| `UdpTransport` | the four transport callbacks over the socket layer | `DatagramPort` (`ImplementsPort`) | `UdpTransportProofs` |

`MC*` modules with their `.cfg` files instantiate them for TLC. A definition whose
comment begins with *Mutant* is a plausible bug in the operator after it; no
specification uses it. It is there to show that a property can be broken by the
code, and `PROJECT.json` pairs each property with one.

### How state and actions correspond to the code

* **GnssRing.** Variables have the names of the code's without `gnss_`. A byte is
  its number in the order of arrival, which is `gnss_bytes_rx`. `Receive` is
  lines 634-636, `Room`/`Overflow` the check of line 611, `Store` 616, `Publish`
  617; `PopBegin` 623, `PopRead` 627, `PopAdvance` 628. A pop that finds the ring
  empty changes nothing and is a stuttering step. `accepted` and `taken` are ghosts.
* **GnssCycle.** A character is its position in the stream, so that `LineIntegrity`
  can say what a line is made of; a sentence is `Body` characters, the first
  standing for its header, then `\r` and `\n`. The ring enters through
  `INSTANCE ByteFifo`. A line is classified by its first character, as
  the code does it with `strncmp`. Whether a line of a known kind has a solution is
  a free choice (`solved`): no checksum is verified, so even a damaged line may
  pass. The UART is enabled (999-1007) on a receiver that is sending already: `Init` takes
  the first character core 1 can see from `Starts`, any place within an epoch; an epoch
  that is missed in part is `PartEpoch`. A byte that enabling the UART cuts in half is the
  same as a later start. The statistics and the printed text are left out.
* **SampleQueue.** One instance stands for any of the three queues. `Push`,
  `Evict`, `Readd` are the calls at 356, 357, 358; `DrainBegin` 346, `DrainRemove`
  347-349, `DrainReturn` 350 with what the caller then does with the sample.
* **ServoPath.** Extends `SampleQueue` as `q_servo`: the producer is the subscription
  callback, and a drain that returns a command goes on with `WritePosEx`: `Flush`
  (`rFlushSCS`), `Send` or `SendLost` (`writeBuf`), then `Ack` byte by byte: `ReadHead` is one
  turn of `checkHead` (any two neighbours 0xff are a head, the eleventh byte is the last),
  `ReadBody` one turn of `readSCS(bBuf, 4)`, `Check` the comparisons (`Acknowledged`) with
  their `return`, `TimeOut` the end of a `readSCS` that waits in vain, between any two bytes. A
  reply has the six bytes of the protocol with its check sum, and arrives one byte at a time,
  so that a flush may leave any end of a reply for the next `Ack`. Identifiers are those of the
  request: 254 is for all servos and not answered, 255 is no servo. The caller ignores what
  `Ack` returns (930-937), so the results differ only in `AckGenuine`, which excepts 255: what a
  servo 2 with the state byte 252 has left behind, read a byte early, would pass for a reply of 255.
  `Ack` may take a late reply of the same servo to an earlier command; the protocol cannot
  tell them apart. Not in the model: echo, noise and collisions on the bus, and an overrun of the
  FIFO of 32 bytes (each write flushes it). That the queue holds at most one command for all servo
  identifiers in the end is what `ImplementsMailbox` says.
* **AgentSupervisor.** `phase` is the place in `main`; `Abort` is RCABORT and the
  watchdog. `Entities` stands for the fifteen creation calls after the first
  synchronisation. The session is what the agent remembers of this boot; a restart
  makes it forget. `answers` is a ghost: the last three ping rounds.
* **CopPulse.** One step per access of the volatile `cop_pattern_alarm`, per pin
  and per call of the alarm pool; the alarm interrupt is one step, because
  nothing on its core interrupts it.
* **ImuSession.** `pc` is the place in core 1's code through `begin`, `_init`,
  `sh2_open`, `opProcess` and the loop. A message of the sensor is one payload;
  `Deliver` is what `shtp_service` does with it. A write is repeated until
  acknowledged (`txProcess`), so `Request` and `Enable` need a live bus, while
  `Service` reads what arrives meanwhile.
* **ShtpLink.** One step per I2C transaction. `ReadHeader` is the read of four bytes
  with which `i2chal_read` learns the length (the sensor does not count it as
  delivered), `ReadChunk` each of the following reads with its part of the cargo, the last of
  them with `rxAssemble` (`Assemble`); `ReadHeaderFails`, `ReadChunkFails`, `WriteFails` are
  the error returns. A transaction that fails has either moved its whole chunk or nothing.
  `Send`, `Service`, `Written` are `txProcess` and the service it calls between two
  attempts. Lengths are counted without the four header bytes. Left out are guards
  no packet of this sensor meets: transfers shorter than a header, payloads that do not
  fit 384 bytes, unknown channels, a HAL that returns a negative length, and
  the advertisement request of `shtp_service`, whose condition
  (`advertPhase` ADVERT_NEEDED) no path of this firmware sets. `spoilt` is a ghost: the cargoes
  a failure or a reset fell into.
* **UdpTransport.** `Open` and `Close` with the `close` and `socket` they call; `Read` begins
  `wiz_uros_udp_read`, `Poll` asks for the received size, `Recv` is `recvfrom`, `Sleep` the
  wait of 1 ms, `TimeUp` the return without data; `Write` is `sendto` up to the SEND command,
  `WriteOk` and `WriteTimeout` its two ends. The chip's receive memory is a sequence of
  datagrams, each behind a header; `stream` says what the read pointer is at. When
  `recvfrom` reads a header where data lies (`RecvAstray`), lengths come out of data and
  its answer is arbitrary. The comparison of the sender's address, which the
  transport does not make, is not in the model either.

## 3. Runs

| run | instance | shows |
|---|---|---|
| `gnss_ring` | 4 cells, 9 bytes | ring contents, order, accounting, refinement of the FIFO, every byte taken |
| `sample_queue` | 2 slots, 5 commands, 2 losses; servos 253, 1 and none, and all of them | order, newest kept, freshness, refinement of the mailbox; `Ack` is not misled by what earlier replies have left (`AckGenuine`), and the servo ends where the last command told it to |
| `gnss_cycle` | 3 epochs of 3 sentences, 2 lost bytes, UART enabled at 4 places | what a loss or a boot within an epoch can do to lines, flags and samples |
| `gnss_readme` | GGA and heading only, no loss | **violation**: nothing is ever pushed (finding) |
| `supervisor` | 3 entities, 3 restarts, 3 outages | boot order (queues before core 1, entities and clock before the loop), justified reboot, recovery |
| `supervisor_sync` | 2 of each | **violation**: no reboot from the synchronisation loop (finding) |
| `cop` | 4 pulses | the alarm and the callback in every interleaving |
| `imu` | 1 late answer, 2 resets, 2 bus failures | session and reset knowledge of core 1 |
| `udp` | buffer of 4 units, datagrams of 0, 2, 4 and 5, writes of 1, 4 and 6, 4 datagrams | refinement of the datagram port, writes report what was transmitted, no call blocks |
| `shtp` | chunks of 2 units, cargoes of 1, 3 and 5, 7 cargoes, 2 resets, 2 failures, 1 write | refinement of the cargo link, the host reads on |
| `imu_begin` | 1 late answer | **violation**: begin is retried for ever (finding) |
| `imu_reset` | 1 reset | **violation**: the sensor is never configured again (finding) |

### Bounds

* Ring: the code's size is 4096; with 4 cells the indices wrap twice, the ring is
  full, empty and everything between. The proofs hold for every size from 2 on.
* Queue and servo: 2 slots of 8; more commands than slots, so that the producer finds
  the queue full more than once and drains come in between (proved for every capacity).
  Two losses: a command follows one whose reply was lost, and is lost itself. State bytes
  0 and 1: a reply of servo 253 with state 1 ends in the check sum 255, so that `checkHead`
  meets false heads; all states and identifiers are covered by the proof.
* GNSS: three epochs are the fewest in which a stale flag can pair an old sentence
  with a new one and the next push still follows; two losses let one damage hit the
  recovery from the other; `LineMax` 3 is reached by two sentences spliced together.
  The ring of two slots makes losses possible anywhere. The UART is enabled before an
  epoch, within its first sentence, at the header of the second and within the last.
* Supervisor: three ping rounds make a reboot; three restarts and three
  outages are enough for each to hit boot, loop, and the boot after a reboot.
  Three entities stand for fifteen: first, middle, last.
* COP: four pulses give a stale alarm number, a prolonged pulse and one more.
* UDP: an empty datagram, a short one, one that fills the buffer and one that is too
  long; a write that fits, one that fills the transmit memory and one that is
  larger than it; single polls (`timeout_ms` 0) and reads that sleep; four datagrams put two behind a
  cut one and one after the socket is opened again. Proved for all sizes.
* SHTP: transfers of one, two and three chunks (the advertisement of the real sensor takes two
  or more, reports one); sequence numbers wrap at 4 instead of 256, with more cargoes
  than that; two failures and two resets let one fall between any two transactions
  and another into the recovery.
* IMU: two resets, so that the second hits the handling of the first; two bus
  failures; the queue of the sensor holds each report at most once.

### Fairness

Weak fairness is assumed of each core's loop, which never blocks by design:
core 1's pop loop, `queue_try_get_latest`, the steps of a push that has begun,
`main`'s phases, the timers of ping and resync, the watchdog, an interrupt handler
that has started, an armed alarm. `GnssCycle` also assumes a receiver that keeps
sending, `ImuSession` a sensor that sends what it was told to send and (the only
strong fairness) that not every one of its reports has the timestamp 0.
`ShtpLink` assumes only that the host goes on, `UdpTransport` that a call in progress goes
on and that the chip ends a transmission (SENDOK or its ARP timeout), `ServoPath` that core 1
goes on and a push that has begun is finished: neither servo nor replies need do anything.
Nothing is assumed of the producer of samples, of the agent, of the network, of
sensor resets, or of the bus; properties that need them quiet say so (`[]alive`,
`[]~reachable`).

Deadlock is checked in `sample_queue`, `cop`, `imu`, `udp` and `shtp`. The ring and the cycle
stop when their bounded input is used up; the supervisor's steps may be
stutters.

### Assumptions about what is not in the repository

* Volatile accesses of the two cores take effect in program order and one at a
  time (the Cortex-M33 cores of the RP2350 share uncached SRAM). The compiler may
  not reorder volatile accesses; `gnss_ring`, `gnss_head` and `gnss_tail` all are.
* `queue_try_add` and `queue_try_remove` of the Pico SDK are atomic (spin lock).
* The alarm pool gives each alarm a new positive number, has room, and fires an
  alarm once unless it is cancelled first.
* A watchdog reboot resets both cores and clears all state; the library's
  `rmw_uros_epoch_synchronized` may or may not keep its value after a failed
  synchronisation.
* The W6100 keeps a datagram whole or drops it, and sets one of SENDOK and TIMEOUT for
  each SEND command. A client write is never empty.
* A servo answers a command with one reply, in order, at any later time and with any gaps
  between its bytes, or never; a reply once begun is sent to its end.
* The GNSS receiver has been sending for any time when the UART is enabled, and repeats
  its sentences epoch by epoch in a fixed order.
* A BNO08x that resets clears its queue and its features and announces itself.

## 4. Proofs

`tlapm` checks every step of the eight proof modules; they assume only the named
assumptions on constants of the modules (`Size >= 2`, a positive capacity, natural
bounds, that the SHTP channels include the executable channel 1), and hypotheses
about the receiver, which the two theorems that need them state (`KindsOnce`; `EachKind`
and `Body <= LineMax`).

* **GnssRingProofs.** `IInv` is `TypeOK`, `Contents`, and what each side knows
  between its steps: the interrupt that has found room still has it (core 1 only
  makes more) and owns the cell it has filled; the reader that has seen a byte
  still finds it at the tail. Without these `Contents` is not inductive, since
  `Publish` would have nothing to say about the cell it uncovers. From `IInv`:
  `ContentsKept`, `PopOrder`, `TypeCorrect`, and `Refinement`, which maps `Publish`
  to `Put`, `Overflow` to `Drop`, `PopAdvance` to `Take` and every other step to a
  stutter. `AllAccounted` (`Accounted`) has an inductive invariant of its own: the byte in
  the handler's hands is later than every stored one (`StoredEarlier`).
* **SampleQueueProofs.** `IInv` adds that after an eviction there is room until the
  producer uses it (only the consumer runs in between, and it only removes).
  From it: the ignored second add always succeeds (`PushSucceeds`), the
  queue is the contiguous newest samples (`Order`), the newest sample is kept
  except in the window between eviction and add (`NewestNotLost`), `Freshness`, and
  the refinement of `LatestMailbox`. `ServoPath` is `SampleQueue` with a consumer that
  does more: `ServoStep` shows that each of its steps is one of `SampleQueue` or leaves the
  queue alone, so that everything above holds of `q_servo` (`ServoQueueCorrect`). Its own
  invariant `ServoIInv` says that what `Ack` has read, what the FIFO holds and what is on the
  wire are together a piece of a sequence of replies that lacks at most its begin
  (`Chained(Stream)`), that `checkHead` has not read a head without noticing (`NoHeadYet`), and
  that a command about to be sent is one the servo has not had (`SentOnce`). Nothing in it says
  that `Ack` reads from the begin of a reply, since it may not. From it:
  `ServoTypeCorrect`; `AckCorrect`, because four neighbouring bytes of such a piece that pass
  the comparisons are a body: read one or more bytes off, identifier, length and check sum cannot all
  fit (`FourAcked`, `Shifted`), and among seven neighbours there is a head (`HeadInTime`); and
  `ServoMovesOn`: a servo never goes back to an earlier command.
* **AgentSupervisorProofs.** `IInv` adds what each phase of the boot has behind it
  (`BootOrder`) and that `ping_fail` counts only unanswered rounds
  (`FailuresRecorded`). From it: `QueuesReady`, `LoopReady` (queues,
  entities and clock), `RebootOnlyWhenSilent`.
* **CopPulseProofs.** `IInv` adds that only the latest pulse can have an alarm, none
  while the next one begins (`OneAlarm`), and that the alarm about to be cancelled is
  the one in the pool (`CallbackKnows`); a stale `cop_pattern_alarm` is harmless because
  of the second. From it: `PatternGuarded`, `AlarmNeverMissed`, `OwnAlarmOnly`.

* **GnssCycleProofs.** Positions in the stream order everything: the characters of the
  line, those in the ring and the next one to be sent increase (`StreamOrder`), and
  what is missing between neighbours was refused by the ring or is `\r`
  (`StreamGaps`); `LineIntegrity` is the part of this about the line. For the samples,
  every header still to come is later than all that have ended a line, and a kind whose
  cycle flag is set has a line later than the one last pushed (`LatestBehind`,
  `CycleFresh`). From it: `LinesAreStreamPieces`, `ValidFromLatest`, `NoReadingTwice`, for every
  schedule of sentences, ring size, line length and number of lost bytes.
  `SkewBounded` counts losses, by `SkewInv`: a sentence that core 1 has passed since the flag
  of some kind was set has set its own, is in the line, or has lost its header or the
  newline before it (`NoneSkipped`, because of `Spliced`); different sentences lose
  different bytes (`CountDamaged`). When a sample is pushed, each epoch between
  its oldest and its newest reading therefore has a byte of its own in `dropped`, except
  that the order of the schedule may hide one: that byte exists because without any loss
  the flags are those of the epoch so far (`InPhase`, `Gapless`). `InPhase` holds only where
  the UART was enabled between two epochs; where it was not, the bound is one epoch wider
  (`PartEpoch`), and so without any loss a sample mixes at most two neighbouring
  epochs. The theorem supposes that the
  receiver sends no kind twice an epoch (`KindsOnce`); with a kind twice, an epoch could
  be between two readings without loss.
  `EpochsCovered` is the part of `EpochsPushed` that needs no fairness: of the epochs core 1
  has gone past, all but two for each byte lost, and one for an epoch that the UART was enabled in, were
  pushed (`EpochsAccounted`). By
  `EpochsInv` the sentences up to some `b` are paid for by samples and lost bytes
  (`Settled`), and since then a kind whose flag is not set has had nothing but damaged
  sentences (`Wanting`), one in each rotation of the schedule (`Rotations`). A push settles everything
  up to the sentence it ends, which costs at most one epoch more than the losses since `b`
  (`PushSettles`, `Budget`); so does an overlong line, which pushes nothing and is paid for
  by the newline lost before it (`OverlongDamaged`, `OverlongSettles`): hence two epochs
  a byte. The theorem supposes that every kind is in the schedule (`EachKind`) and that a
  sentence fits the line; without the first nothing is ever pushed, as `gnss_readme` shows.
* **ImuSessionProofs.** `BeginProgress` is what `begin` has achieved at each step; only
  the product-id request is an operation that waits. `EnabledSoFar` says that a report
  core 1 has enabled is off only because of a reset that core 1 has seen or will read
  (`ResetToCome`). From them: `SessionWorks`, `ResetsRemembered`, for any number of late
  answers, resets and bus failures.
* **UdpTransportProofs.** `OneOutcome`: the interrupt register speaks of the write in
  progress or of none. Without it a write could take the status of the one before.
  From it: `WriteReports`, and `Refinement`, which maps `Arrive` to `Come`, `Read` to `Call`,
  `Recv` to `Deliver` or `Cut`, `RecvAstray` to `Garble`, `Open` and `Close` to `Reset`.

* **ShtpLinkProofs.** `IInv` says what the host's three variables hold of the cargo at the
  head of the sensor's queue: less than all of it has crossed the bus (`PartlyGone`); unless
  it is spoilt, the buffer of the transfer under way holds exactly the part that has
  crossed, and core 1 still wants exactly the rest (`Intact`); and what is read and
  wanted never exceeds the length the first header announced (`HeaderCovers`). From it: `TypeCorrect`, with `inPayload` never overrun,
  and `Refinement`, which maps the chunk that completes a cargo to `Deliver` or `ReadSpoilt`, a failed
  transaction to `Fail`, a reset of the sensor to `Reset`.

Only model-checked: every liveness property (`AllTaken`, `EpochsPushed`,
`DeadAgentReboots`, `Recovers`, `PatternEnds`, `EventReconfigures`, `LoopGoesOn`, `Drains`,
`CallsReturn`, `ServoSettles`), which are outside the prover's reach under fairness, and the
properties that the code violates (section 5), which have a counterexample instead.

## 5. Findings

1. *GST is needed although README does not ask for it* (`gnss_readme`): 877 against
   `README.md:47,57`.
2. *No reboot from the synchronisation loop* (`supervisor_sync`): 1032 against
   `README.md:37,200-202`. The same loop keeps the firmware when the agent comes
   back without the session; `Recovers` names this end.
3. *begin is retried for ever after one late advertisement* (`imu_begin`):
   `shtp.c:148`, `main.cpp:788`. Core 1 then serves neither GNSS nor servo.
4. *A sensor that resets is not configured again* (`imu_reset`): 922 against
   `bno08x.cpp:1249`. `EventReconfigures` shows the part that works: a reset
   followed by a report that was still queued or a bus read in between.

Met while modelling and not stated as a property of a run: if the UART is enabled while
the receiver is within an epoch, every sample from then on mixes the sentences of two
neighbouring epochs, with `gnss_overflow` 0, because 877 pushes as soon as the three flags
are set and nothing aligns them with an epoch (`SkewBoundedByLoss` bounds the mix to these two); an agent that restarts
between two pings is not noticed (`Recovers` names this end too); a servo
command answered with true may be replaced by the next before it is executed; the
frame ids and topic names of `README.md:143,146,152,156,164` are not those of the code, and
`servo/req` is not the `std_msgs/UInt8` of `README.md:156,229` but `my_robot_msgs/ServoCmd`; several
reports in one payload overwrite each other before `getSensorEvent` returns
(`bno08x.cpp:1036`); after a chunk has failed in the middle of a transfer, the tail of
that cargo may be delivered as a payload of its own (`CargoLink` calls it spoilt).

## 6. Not modelled

* The fields of the sentences: `strtok_r`, `atof` and the copies into shorter buffers are
  a sequential conversion. Two hazards about them are listed without a property.
* The decoding of SH-2 reports, and the SH-2 operations the firmware never calls
  (FRS, calibration, flush, counts); the servo instructions it never calls.
* Publishing, light and camera outputs, LED, clock stub, SPI, GPIO and I2C register
  access: sequential I/O whose inputs are what the models above produce.
* Code the firmware does not compile or never calls, by far the largest part of the
  repository: the register headers and drivers of the other WIZnet chips (W5100 to W6300),
  DHCP, DNS, MQTT, SNMP, TFTP, HTTP, the TCP half of `socket.c`, examples and vendored
  tests. There is no behaviour of this firmware in it; the share of all lines the map
  covers is small for this reason, while of `main.cpp`'s control and of the
  functions it reaches in `shtp.c`, `wiz_udp_transport.c` and `scservo` most is modelled.

## 7. Plan

Order: what every sample passes through first, then supervision, then the sensor,
then the transports.

1. done: `GnssRing` on `ByteFifo`, `SampleQueue` on `LatestMailbox`, with proofs.
2. done: `GnssCycle` composed with `ByteFifo`; `AgentSupervisor`, `CopPulse`,
   `ImuSession`, with proofs.
3. done: `UdpTransport` on `DatagramPort`, with proofs; `ShtpLink` on `CargoLink`;
   `ServoPath` composed with `SampleQueue`.
4. done: the refinement of `CargoLink` by `ShtpLink`; `AckGenuine` of `ServoPath`, byte by byte;
   `SkewBoundedByLoss` of `GnssCycle` and the safety half of `EpochsPushed`. Every safety
   invariant and action property that a passing run checks is now a theorem.
5. Proofs still worth writing: the safety half of other liveness properties, as with
   `EpochsPushed`: that `Drains` of `ShtpLink` and `CallsReturn` of `UdpTransport` can only
   fail by a party that stops, stated as what is left to do and never grows.
