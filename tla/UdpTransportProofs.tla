------------------------- MODULE UdpTransportProofs -------------------------
(***************************************************************************)
(* Proofs about UdpTransport, for every buffer length, transmit memory,    *)
(* set of datagram lengths and of timeouts: its type invariant, that a     *)
(* write reports what was transmitted, and that reads implement            *)
(* DatagramPort.                                                           *)
(***************************************************************************)
EXTENDS UdpTransport, SequenceTheorems, TLAPS

(* The smaller of two lengths is a length, within both.                    *)
LEMMA LeastBounds ==
  ASSUME NEW m \in Nat, NEW n \in Nat
  PROVE  /\ Least(m, n) \in 0 .. n
         /\ m > 0 /\ n > 0 => Least(m, n) > 0
         /\ m <= n => Least(m, n) = m
         /\ m > n => Least(m, n) = n
BY DEF Least

(* What receiving leaves in the chip's memory, and what it takes out.      *)
LEMMA InboxHead ==
  ASSUME inbox \in Seq(Datagram), inbox # << >>
  PROVE  /\ Head(inbox) \in Datagram
         /\ Head(inbox).size \in Nat
         /\ Tail(inbox) \in Seq(Datagram)
<1>1. Head(inbox) \in Datagram /\ Tail(inbox) \in Seq(Datagram)
  BY HeadTailProperties
<1>2. QED
  BY <1>1, SizesAssumption DEF Datagram

(* A datagram cut to the buffer is a result.                               *)
LEMMA CutIsResult ==
  ASSUME NEW d \in Datagram
  PROVE  [id |-> d.id, size |-> Least(d.size, BufLen)]
           \in [id : 0 .. MaxDatagrams, size : Nat]
<1>1. d.id \in 1 .. MaxDatagrams /\ d.size \in Nat
  BY SizesAssumption DEF Datagram
<1>2. Least(d.size, BufLen) \in Nat
  BY <1>1, SizesAssumption DEF Least
<1>3. QED
  BY <1>1, <1>2, SizesAssumption

-----------------------------------------------------------------------------
(* The type invariant.                                                     *)

LEMMA InitIInv == Init => IInv
<1> SUFFICES ASSUME Init PROVE IInv
  OBVIOUS
<1>1. inbox \in Seq(Datagram)
  BY EmptySeq DEF Init
<1>2. result \in [id : 0 .. MaxDatagrams, size : Nat]
  BY SizesAssumption DEF Init, Nothing
<1>3. 0 \in 0 .. MaxDatagrams /\ 0 \in 0 .. TxMax /\ 0 \in Nat
  BY SizesAssumption
<1>4. {} \subseteq {"SENDOK", "TIMEOUT"}
  OBVIOUS
<1>5. TypeOK
  BY <1>1, <1>2, <1>3, <1>4 DEF Init, TypeOK
<1>6. OneOutcome
  BY DEF Init, OneOutcome
<1>7. QED
  BY <1>5, <1>6 DEF IInv

LEMMA NextIInv == IInv /\ [Next]_vars => IInv'
<1> SUFFICES ASSUME IInv, [Next]_vars PROVE IInv'
  OBVIOUS
<1> USE SizesAssumption DEF IInv
<1>n. Nothing \in [id : 0 .. MaxDatagrams, size : Nat]
  BY DEF Nothing
<1>e. << >> \in Seq(Datagram)
  BY EmptySeq
<1>1. CASE Open
  BY <1>1, <1>e DEF Open, CloseSocket, TypeOK, OneOutcome, readVars
<1>2. CASE Close
  BY <1>2, <1>e DEF Close, CloseSocket, TypeOK, OneOutcome, readVars
<1>3. CASE NoSocket
  BY <1>3, <1>n DEF NoSocket, TypeOK, OneOutcome, rxVars
<1>4. CASE Read
  <2>1. left' \in Nat /\ once' \in BOOLEAN
    BY <1>4 DEF Read
  <2>2. QED
    BY <1>4, <1>n, <2>1 DEF Read, TypeOK, OneOutcome, rxVars, txVars
<1>5. CASE Poll
  <2>1. pc' \in {"idle", "recv", "sleep"} /\ (pc' = "sleep" => ~once')
       /\ (pc' \in {"recv", "sleep"} => once' \/ left' > 0)
    BY <1>5 DEF Poll, Again, readVars, TypeOK
  <2>2. QED
    BY <1>5, <2>1 DEF Poll, TypeOK, OneOutcome, rxVars, readVars, txVars
<1>6. CASE Recv
  <2> DEFINE d == Head(inbox)
  <2>1. d \in Datagram /\ Tail(inbox) \in Seq(Datagram)
    BY <1>6, InboxHead DEF Recv, TypeOK
  <2>2. result' \in [id : 0 .. MaxDatagrams, size : Nat]
    BY <1>6, <2>1, CutIsResult DEF Recv
  <2>3. stream' \in {"aligned", "rest"} /\ pc' \in {"idle", "sleep"}
    BY <1>6 DEF Recv, Again
  <2>4. /\ pc' = "sleep" => ~once'
        /\ pc' \in {"recv", "sleep"} => once' \/ left' > 0
    BY <1>6 DEF Recv, Again, TypeOK
  <2>5. QED
    BY <1>6, <2>1, <2>2, <2>3, <2>4 DEF Recv, TypeOK, OneOutcome, txVars
<1>7. CASE RecvAstray
  <2>1. result' \in [id : 0 .. MaxDatagrams, size : Nat]
    <3>1. PICK n \in 0 .. BufLen : result' = [id |-> 0, size |-> n]
      BY <1>7 DEF RecvAstray
    <3>2. n \in Nat /\ 0 \in 0 .. MaxDatagrams
      OBVIOUS
    <3>3. QED
      BY <3>1, <3>2
  <2>2. pc' \in {"idle", "sleep"} /\ (pc' = "sleep" => ~once')
       /\ (pc' \in {"recv", "sleep"} => once' \/ left' > 0)
    BY <1>7 DEF RecvAstray, Again, TypeOK
  <2>3. QED
    BY <1>7, <1>e, <2>1, <2>2 DEF RecvAstray, TypeOK, OneOutcome, txVars
<1>8. CASE Sleep
  BY <1>8 DEF Sleep, TypeOK, OneOutcome, rxVars, txVars
<1>9. CASE TimeUp
  BY <1>9 DEF TimeUp, TypeOK, OneOutcome, rxVars, readVars, txVars
<1>10. CASE Write
  <2>1. busy' \in 1 .. TxMax
    BY <1>10, LeastBounds DEF Write
  <2>2. QED
    BY <1>10, <2>1 DEF Write, TypeOK, OneOutcome, rxVars, readVars
<1>11. CASE WriteOk
  BY <1>11 DEF WriteOk, TypeOK, OneOutcome, rxVars, readVars
<1>12. CASE WriteTimeout
  BY <1>12 DEF WriteTimeout, TypeOK, OneOutcome, rxVars, readVars
<1>13. CASE Arrive
  <2>1. came' \in 1 .. MaxDatagrams
    BY <1>13 DEF Arrive, TypeOK
  <2>2. inbox' \in Seq(Datagram)
    BY <1>13, <2>1, AppendProperties DEF Arrive, TypeOK, Datagram
  <2>3. QED
    BY <1>13, <2>1, <2>2 DEF Arrive, TypeOK, OneOutcome, readVars, txVars
<1>14. CASE Transmit
  BY <1>14 DEF Transmit, TypeOK, OneOutcome, rxVars, readVars
<1>15. CASE UNCHANGED vars
  BY <1>15 DEF vars, rxVars, readVars, txVars, TypeOK, OneOutcome
<1>16. QED
  BY <1>1, <1>2, <1>3, <1>4, <1>5, <1>6, <1>7, <1>8, <1>9, <1>10, <1>11,
     <1>12, <1>13, <1>14, <1>15 DEF Next, Reading, Writing, Lose

THEOREM Invariant == Spec => []IInv
<1>1. QED
  BY InitIInv, NextIInv, PTL DEF Spec

(* The transport's state is always well formed; in particular a closed     *)
(* socket holds nothing of the session before.                             *)
THEOREM TypeCorrect == Spec => []TypeOK
<1>1. IInv => TypeOK
  BY DEF IInv
<1>2. QED
  BY <1>1, Invariant, PTL

-----------------------------------------------------------------------------

(* wiz_uros_udp_write never reports more, less or other than what the chip *)
(* put on the wire for this call.                                          *)
THEOREM WriteReports == Spec => ReportedIsSent
<1>1. IInv /\ [Next]_vars =>
        [pc = "send" /\ pc' = "idle" => ret' = sent /\ (err' <=> sent = 0)]_vars
  <2> SUFFICES ASSUME IInv, Next, pc = "send", pc' = "idle"
               PROVE  ret' = sent /\ (err' <=> sent = 0)
    OBVIOUS
  <2>1. CASE WriteOk
    <3>1. ir = {"SENDOK"} /\ sent = ret /\ ret > 0
      <4>1. /\ "SENDOK" \in ir /\ pc = "send"
        BY <2>1 DEF WriteOk
      <4>2. "SENDOK" \notin {} /\ "SENDOK" \notin {"TIMEOUT"}
        OBVIOUS
      <4>3. QED
        BY <4>1, <4>2 DEF IInv, OneOutcome
    <3>2. ret' = ret /\ err' = FALSE
      BY <2>1 DEF WriteOk
    <3>3. sent # 0
      BY <3>1
    <3>4. QED
      BY <3>1, <3>2, <3>3
  <2>2. CASE WriteTimeout
    <3>1. sent = 0
      <4>1. "TIMEOUT" \in ir /\ pc = "send"
        BY <2>2 DEF WriteTimeout
      <4>2. "TIMEOUT" \notin {} /\ "TIMEOUT" \notin {"SENDOK"}
        OBVIOUS
      <4>3. QED
        BY <4>1, <4>2 DEF IInv, OneOutcome
    <3>2. ret' = 0 /\ err' = TRUE
      BY <2>2 DEF WriteTimeout
    <3>3. QED
      BY <3>1, <3>2
  <2>3. CASE Arrive \/ Lose \/ Transmit
    BY <2>3 DEF Arrive, Lose, Transmit, vars
  <2>4. CASE Open \/ Close \/ NoSocket \/ Read \/ Write
    BY <2>4 DEF Open, Close, NoSocket, Read, Write
  <2>5. CASE Reading
    BY <2>5 DEF Reading, Poll, Recv, RecvAstray, Sleep, TimeUp
  <2>6. QED
    BY <2>1, <2>2, <2>3, <2>4, <2>5 DEF Next, Writing
<1>2. QED
  BY <1>1, Invariant, PTL DEF Spec, ReportedIsSent

-----------------------------------------------------------------------------
(* The refinement.                                                         *)

LEMMA InitPort == Init => Port!PortInit
BY DEF Init, Port!PortInit

LEMMA StepPort == IInv /\ [Next]_vars => [Port!PortNext]_(Port!portVars)
<1> SUFFICES ASSUME IInv, [Next]_vars PROVE [Port!PortNext]_(Port!portVars)
  OBVIOUS
<1> USE DEF Port!PortNext, Port!portVars
<1>1. CASE Open \/ Close
  BY <1>1 DEF Open, Close, CloseSocket, readVars, Port!Reset
<1>2. CASE NoSocket \/ Read
  BY <1>2 DEF NoSocket, Read, rxVars, Port!Call
<1>3. CASE Recv
  <2> DEFINE d == Head(inbox)
  <2>1. d.size \in Nat /\ d = [id |-> d.id, size |-> d.size]
    BY <1>3, InboxHead DEF Recv, IInv, TypeOK, Datagram
  <2>2. CASE d.size <= BufLen
    <3>1. result' = d /\ stream' = "aligned"
      BY <1>3, <2>1, <2>2, LeastBounds, SizesAssumption DEF Recv
    <3>2. Port!Deliver
      BY <1>3, <2>2, <3>1 DEF Recv, Port!Deliver
    <3>3. QED
      BY <3>2
  <2>3. CASE d.size > BufLen
    <3>1. result' = [id |-> d.id, size |-> BufLen] /\ stream' = "rest"
      <4>1. Least(d.size, BufLen) = BufLen /\ ~(d.size <= BufLen)
        BY <2>1, <2>3, SizesAssumption DEF Least
      <4>2. QED
        BY <1>3, <4>1 DEF Recv
    <3>2. Port!Cut
      BY <1>3, <2>3, <3>1 DEF Recv, Port!Cut
    <3>3. QED
      BY <3>2
  <2>4. QED
    BY <2>1, <2>2, <2>3, SizesAssumption
<1>4. CASE RecvAstray
  BY <1>4 DEF RecvAstray, Port!Garble
<1>5. CASE Arrive
  <2>1. UNCHANGED << result, stream >> /\ came' = came + 1 /\ came' \in 1 .. MaxDatagrams
    BY <1>5, SizesAssumption DEF Arrive, readVars, IInv, TypeOK
  <2>2. \E d \in Datagram : d.id = came' /\ inbox' = Append(inbox, d)
    BY <1>5, <2>1 DEF Arrive, Datagram
  <2>3. QED
    BY <2>1, <2>2 DEF Port!Come
<1>6. CASE Poll \/ Sleep \/ TimeUp \/ Write \/ WriteOk \/ WriteTimeout \/ Transmit
  BY <1>6 DEF Poll, Sleep, TimeUp, Write, WriteOk, WriteTimeout, Transmit,
              rxVars, readVars
<1>7. CASE Lose \/ UNCHANGED vars
  BY <1>7 DEF Lose, vars, rxVars, readVars
<1>8. QED
  BY <1>1, <1>2, <1>3, <1>4, <1>5, <1>6, <1>7 DEF Next, Reading, Writing

(* The transport hands over whole datagrams, each once and in order, until *)
(* one is longer than the client's buffer; opening it again repairs it.    *)
THEOREM Refinement == Spec => ImplementsPort
<1>1. QED
  BY InitPort, StepPort, Invariant, PTL DEF Spec, ImplementsPort, Port!PortSpec

=============================================================================
