--------------------------- MODULE MCTcpDatagram ---------------------------
(* Instances of TcpDatagram for TLC: bytes have two values, so that lengths *)
(* have four and the longest datagram does not fit.                         *)
EXTENDS TcpDatagram

Some == {<<>>, <<1>>, <<0, 1>>, <<1, 0, 1>>, <<1, 1, 0, 1>>}
=============================================================================
