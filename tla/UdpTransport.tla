---------------------------- MODULE UdpTransport ----------------------------
(***************************************************************************)
(* The custom transport of micro-ROS (wiz_uros_udp_open, _close, _write    *)
(* and _read) over the socket layer of the W6100: socket, close, sendto    *)
(* and recvfrom, for socket 0 in UDP mode.                                 *)
(*                                                                         *)
(* Core 0 makes the calls, one at a time; the chip receives and transmits  *)
(* meanwhile.  A datagram lies in the chip's memory behind a header (its   *)
(* length, the sender's address and port), which recvfrom reads first.     *)
(* recvfrom also reads a header when a part of a datagram was left by the  *)
(* call before; from then on lengths are taken out of data, and what it    *)
(* returns is arbitrary until the socket is opened again.                  *)
(***************************************************************************)
EXTENDS Naturals, Sequences

CONSTANTS
  BufLen,         (* the client's buffer: the MTU of its custom transport  *)
  TxMax,          (* the transmit memory of the socket                     *)
  RxSizes,        (* the lengths of the datagrams that come                *)
  TxSizes,        (* the lengths of those the client writes                *)
  Timeouts,       (* the timeouts of its reads in ms, 0 for a single poll  *)
  MaxDatagrams    (* how many it keeps: bounds the model                   *)

ASSUME SizesAssumption ==
  /\ BufLen \in Nat \ {0} /\ TxMax \in Nat \ {0}
  /\ RxSizes \subseteq Nat /\ TxSizes \subseteq Nat \ {0}
  /\ Timeouts \subseteq Nat
  /\ MaxDatagrams \in Nat

Datagram == [id : 1 .. MaxDatagrams, size : RxSizes]

(* Datagram 0 is none: what recvfrom returns out of data has no number.    *)
Nothing == [id |-> 0, size |-> 0]

VARIABLES
  open,      (* g_sock >= 0                                                *)
  inbox,     (* the datagrams in the chip's receive memory                 *)
  stream,    (* what its read pointer is at: a header ("aligned"), the     *)
             (* rest of a datagram ("rest", sock_remained_size # 0) or     *)
             (* anything ("astray")                                        *)
  came,      (* how many datagrams the chip has kept so far                *)
  pc,        (* where the call in progress is                              *)
  once,      (* its timeout is 0                                           *)
  left,      (* the ms left until t_end                                    *)
  result,    (* what it has received                                       *)
  err,       (* *err                                                       *)
  busy,      (* the length of the datagram the chip transmits, or 0        *)
  ir,        (* the bits SENDOK and TIMEOUT of the interrupt register      *)
  ret,       (* what the last write returned                               *)
  sent       (* ghost: what the chip transmitted of the last write         *)

rxVars   == << inbox, stream, came >>
readVars == << once, left, result >>
txVars   == << busy, ir, sent >>
vars == << open, rxVars, pc, readVars, err, txVars, ret >>

Init ==
  /\ open = FALSE
  /\ inbox = << >> /\ stream = "aligned" /\ came = 0
  /\ pc = "idle"
  /\ once = FALSE /\ left = 0 /\ result = Nothing
  /\ err = FALSE
  /\ busy = 0 /\ ir = {} /\ sent = 0 /\ ret = 0

Least(m, n) == IF m <= n THEN m ELSE n

-----------------------------------------------------------------------------
(* Opening and closing.                                                    *)

(* close(): the chip forgets what it has received, the interrupt register  *)
(* and sock_remained_size are cleared.                                     *)
CloseSocket ==
  /\ inbox' = << >> /\ stream' = "aligned"
  /\ busy' = 0 /\ ir' = {}

(* wiz_uros_udp_open closes the socket it has; socket() closes it again    *)
(* before it opens it, and does not fail in UDP mode.                      *)
Open ==
  /\ pc = "idle"
  /\ open' = TRUE
  /\ CloseSocket
  /\ UNCHANGED << came, pc, readVars, err, sent, ret >>

(* Mutant: sock_remained_size and the receive memory stay as they are.     *)
CloseKeepsRest ==
  /\ pc = "idle"
  /\ open' = FALSE
  /\ UNCHANGED << rxVars, pc, readVars, err, txVars, ret >>

Close ==
  /\ pc = "idle"
  /\ open' = FALSE
  /\ IF open THEN CloseSocket ELSE UNCHANGED << inbox, stream, busy, ir >>
  /\ UNCHANGED << came, pc, readVars, err, sent, ret >>

(* A read or a write without a socket fails.                               *)
NoSocket ==
  /\ pc = "idle"
  /\ ~open
  /\ err' = TRUE
  /\ result' = Nothing /\ ret' = 0 /\ sent' = 0
  /\ UNCHANGED << open, rxVars, pc, once, left, busy, ir >>

-----------------------------------------------------------------------------
(* wiz_uros_udp_read.                                                      *)

(* Mutant: recvfrom is called at once, whatever the chip holds.            *)
ReadUnpolled ==
  /\ pc = "idle"
  /\ open
  /\ \E t \in Timeouts : left' = t /\ once' = (t = 0)
  /\ result' = Nothing /\ err' = FALSE
  /\ pc' = "recv"
  /\ UNCHANGED << open, rxVars, txVars, ret >>

Read ==
  /\ pc = "idle"
  /\ open
  /\ \E t \in Timeouts : left' = t /\ once' = (t = 0)
  /\ result' = Nothing /\ err' = FALSE
  /\ pc' = "poll"
  /\ UNCHANGED << open, rxVars, txVars, ret >>

(* Where the read goes when it has received nothing.                       *)
Again == IF once THEN "idle" ELSE "sleep"

(* getSn_RX_RSR: is anything in the receive memory?                        *)
Poll ==
  /\ pc = "poll"
  /\ once \/ left > 0
  /\ \/ (inbox # << >> \/ stream # "aligned") /\ pc' = "recv"
     \/ inbox = << >> /\ stream # "rest" /\ pc' = Again
  /\ UNCHANGED << open, rxVars, readVars, err, txVars, ret >>

(* Mutant: the RECV command is not given: the datagram is read again.      *)
RecvNoCommand ==
  /\ pc = "recv"
  /\ stream = "aligned"
  /\ inbox # << >>
  /\ result' = [id |-> Head(inbox).id, size |-> Least(Head(inbox).size, BufLen)]
  /\ pc' = IF Head(inbox).size = 0 THEN Again ELSE "idle"
  /\ UNCHANGED << open, rxVars, once, left, err, txVars, ret >>

(* recvfrom of a datagram from its beginning: as much as the buffer holds  *)
(* is copied, sock_remained_size is the rest.  It waits while there is     *)
(* none.  A datagram of length 0 is taken, but the read goes on.           *)
Recv ==
  /\ pc = "recv"
  /\ stream = "aligned"
  /\ inbox # << >>
  /\ LET d == Head(inbox) IN
       /\ result' = [id |-> d.id, size |-> Least(d.size, BufLen)]
       /\ stream' = IF d.size <= BufLen THEN "aligned" ELSE "rest"
       /\ pc' = IF d.size = 0 THEN Again ELSE "idle"
  /\ inbox' = Tail(inbox)
  /\ UNCHANGED << open, came, once, left, err, txVars, ret >>

(* recvfrom when the read pointer is not at a header: the header it reads  *)
(* there is data, so any length can be found in it.                        *)
RecvAstray ==
  /\ pc = "recv"
  /\ stream # "aligned"
  /\ \E n \in 0 .. BufLen :
       /\ result' = [id |-> 0, size |-> n]
       /\ pc' = IF n = 0 THEN Again ELSE "idle"
  /\ stream' = "astray" /\ inbox' = << >>
  /\ UNCHANGED << open, came, once, left, err, txVars, ret >>

(* sleep_ms(1), which with what came before it takes a ms or more.         *)
Sleep ==
  /\ pc = "sleep"
  /\ \E t \in 0 .. left : t < left /\ left' = t
  /\ pc' = "poll"
  /\ UNCHANGED << open, rxVars, once, result, err, txVars, ret >>

(* t_end has passed: the read returns 0, without an error.                 *)
TimeUp ==
  /\ pc = "poll"
  /\ ~once /\ left = 0
  /\ pc' = "idle"
  /\ UNCHANGED << open, rxVars, readVars, err, txVars, ret >>

-----------------------------------------------------------------------------
(* wiz_uros_udp_write.                                                     *)

(* sendto as far as the SEND command: it waits for room, and sends no more *)
(* than the transmit memory holds.                                         *)
Write ==
  /\ pc = "idle"
  /\ open
  /\ busy = 0
  /\ \E n \in TxSizes : busy' = Least(n, TxMax)
  /\ ret' = busy'
  /\ sent' = 0
  /\ pc' = "send"
  /\ UNCHANGED << open, rxVars, readVars, err, ir >>

(* Mutant: SENDOK is left in the interrupt register.                       *)
WriteOkUncleared ==
  /\ pc = "send"
  /\ "SENDOK" \in ir
  /\ err' = FALSE
  /\ pc' = "idle"
  /\ UNCHANGED << open, rxVars, readVars, txVars, ret >>

WriteOk ==
  /\ pc = "send"
  /\ "SENDOK" \in ir
  /\ ir' = ir \ {"SENDOK"}
  /\ err' = FALSE
  /\ pc' = "idle"
  /\ UNCHANGED << open, rxVars, readVars, busy, sent, ret >>

(* SOCKERR_TIMEOUT: nobody answered for the agent's address.               *)
WriteTimeout ==
  /\ pc = "send"
  /\ "SENDOK" \notin ir /\ "TIMEOUT" \in ir
  /\ ir' = ir \ {"TIMEOUT"}
  /\ err' = TRUE /\ ret' = 0
  /\ pc' = "idle"
  /\ UNCHANGED << open, rxVars, readVars, busy, sent >>

-----------------------------------------------------------------------------
(* The chip and the network (external).                                    *)

(* A datagram comes and is kept (once the read pointer is astray it makes  *)
(* no difference what the memory holds).                                   *)
Arrive ==
  /\ came < MaxDatagrams
  /\ open /\ stream # "astray"
  /\ came' = came + 1
  /\ \E s \in RxSizes : inbox' = Append(inbox, [id |-> came', size |-> s])
  /\ UNCHANGED << open, stream, pc, readVars, err, txVars, ret >>

(* One is lost: in the network, because the socket is closed, or because   *)
(* the chip has no room for it.                                            *)
Lose == UNCHANGED vars

(* The SEND command ends one way or the other.                             *)
Transmit ==
  /\ busy # 0
  /\ busy' = 0
  /\ \/ sent' = busy /\ ir' = ir \cup {"SENDOK"}
     \/ sent' = sent /\ ir' = ir \cup {"TIMEOUT"}
  /\ UNCHANGED << open, rxVars, pc, readVars, err, ret >>

-----------------------------------------------------------------------------

Reading == Poll \/ Recv \/ RecvAstray \/ Sleep \/ TimeUp
Writing == WriteOk \/ WriteTimeout

Next ==
  \/ Open \/ Close \/ NoSocket \/ Read \/ Write
  \/ Reading \/ Writing
  \/ Arrive \/ Lose \/ Transmit

Spec == Init /\ [][Next]_vars

(* Core 0 goes on with a call it has begun, and the chip, which retries a  *)
(* bounded number of times, ends a transmission.  Nothing need ever come.  *)
Fairness == WF_vars(Reading \/ Writing) /\ WF_vars(Transmit)

FairSpec == Spec /\ Fairness

-----------------------------------------------------------------------------

(* Types, and what holds at every moment: a closed socket has nothing in   *)
(* it, datagrams lie in the order they came, and a read that sleeps has    *)
(* time left.                                                              *)
TypeOK ==
  /\ open \in BOOLEAN
  /\ inbox \in Seq(Datagram)
  /\ stream \in {"aligned", "rest", "astray"}
  /\ came \in 0 .. MaxDatagrams
  /\ pc \in {"idle", "poll", "recv", "sleep", "send"}
  /\ once \in BOOLEAN
  /\ left \in Nat
  /\ result \in [id : 0 .. MaxDatagrams, size : Nat]
  /\ err \in BOOLEAN
  /\ busy \in 0 .. TxMax
  /\ ir \subseteq {"SENDOK", "TIMEOUT"}
  /\ sent \in 0 .. TxMax
  /\ ret \in 0 .. TxMax
  /\ ~open => inbox = << >> /\ stream = "aligned" /\ pc = "idle"
  /\ pc = "sleep" => ~once
  /\ pc \in {"recv", "sleep"} => once \/ left > 0

(* A write that returns without an error has put on the wire exactly what  *)
(* it reports; one that fails has put nothing there.  (A status bit left   *)
(* over from an earlier write would answer for this one.)                  *)
ReportedIsSent ==
  [][pc = "send" /\ pc' = "idle" => ret' = sent /\ (err' <=> sent = 0)]_vars

(* No call blocks: wiz_uros_udp_read asks for recvfrom, which waits        *)
(* without end, only when there is something to receive, and a write ends  *)
(* even if nobody answers.                                                 *)
CallsReturn == pc # "idle" ~> pc = "idle"

(* Reads hand over whole datagrams, each once and in the order they came,  *)
(* until one was longer than the buffer; a datagram that comes after the   *)
(* time is up stays for the next read.                                     *)
Port == INSTANCE DatagramPort WITH
          Buffer <- BufLen, waiting <- inbox, answer <- result,
          broken <- (stream # "aligned")

ImplementsPort == Port!PortSpec

-----------------------------------------------------------------------------
(* The inductive invariant.                                                *)

(* The interrupt register speaks of the write in progress: while the chip  *)
(* transmits it is clear, and after that one bit tells the outcome.        *)
OneOutcome ==
  /\ pc # "send" => busy = 0 /\ ir = {}
  /\ pc = "send" =>
       /\ ret > 0
       /\ \/ busy = ret /\ ir = {} /\ sent = 0
          \/ busy = 0 /\ ir = {"SENDOK"} /\ sent = ret
          \/ busy = 0 /\ ir = {"TIMEOUT"} /\ sent = 0

IInv == TypeOK /\ OneOutcome

=============================================================================
