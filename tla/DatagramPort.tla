---------------------------- MODULE DatagramPort ----------------------------
(***************************************************************************)
(* What the transport of src/wiz_udp_transport.c owes the micro-ROS        *)
(* client.  Datagrams are numbered as the board keeps them (others are     *)
(* lost); they wait and are handed over whole, each once, in order.  The   *)
(* promise ends with the first datagram longer than the client's buffer,   *)
(* of which only the beginning is handed over: what follows is arbitrary   *)
(* until the port is opened again.                                         *)
(***************************************************************************)
EXTENDS Naturals, Sequences

CONSTANTS
  Buffer,     (* the length of the client's buffer                         *)
  Datagram,   (* every datagram there can be                               *)
  Nothing     (* the answer of a call that has received nothing            *)

VARIABLES
  came,       (* how many datagrams the board has kept                     *)
  waiting,    (* those that wait                                           *)
  answer,     (* what the client's call has received                       *)
  broken      (* a datagram was cut                                        *)

portVars == << came, waiting, answer, broken >>

PortInit ==
  /\ came = 0
  /\ waiting = << >>
  /\ answer = Nothing
  /\ broken = FALSE

Come ==
  /\ came' = came + 1
  /\ \E d \in Datagram : d.id = came' /\ waiting' = Append(waiting, d)
  /\ UNCHANGED << answer, broken >>

Call == answer' = Nothing /\ UNCHANGED << came, waiting, broken >>

Deliver ==
  /\ ~broken
  /\ waiting # << >>
  /\ Head(waiting).size <= Buffer
  /\ answer' = Head(waiting)
  /\ waiting' = Tail(waiting)
  /\ UNCHANGED << came, broken >>

Cut ==
  /\ ~broken
  /\ waiting # << >>
  /\ Head(waiting).size > Buffer
  /\ answer' = [id |-> Head(waiting).id, size |-> Buffer]
  /\ waiting' = Tail(waiting)
  /\ broken' = TRUE
  /\ UNCHANGED came

Garble == broken /\ waiting' = << >> /\ UNCHANGED << came, broken >>

Reset ==
  /\ waiting' = << >>
  /\ broken' = FALSE
  /\ UNCHANGED << came, answer >>

PortNext == Come \/ Call \/ Deliver \/ Cut \/ Garble \/ Reset

PortSpec == PortInit /\ [][PortNext]_portVars

=============================================================================
