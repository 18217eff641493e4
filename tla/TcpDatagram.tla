---------------------------- MODULE TcpDatagram ----------------------------
(***************************************************************************)
(* Datagrams over a TCP connection: the send, recv and recv_part functions *)
(* of linuxpp::net::tcp_datagram_socket (src/src/net/                      *)
(* tcp_datagram_socket.cpp) with the frames of                             *)
(* src/include/liblinuxpp/length_prefixed_message.hpp, for one direction   *)
(* of one connection.                                                      *)
(*                                                                         *)
(* The connection is the sequence of all bytes ever handed to the kernel,  *)
(* of which the receiver has taken the first pos.  A call may find any     *)
(* part of the rest arrived.  The receiver passes recv_part the state and  *)
(* the buffer of its last call, and calls recv only between datagrams.     *)
(***************************************************************************)
EXTENDS Naturals, Sequences

CONSTANTS
  Base,         \* values of a byte, 256 in the code
  Messages,     \* the datagrams callers send
  MaxMessages   \* bound on the datagrams sent

Byte == 0..(Base - 1)

\* The values of msg_size_type, an unsigned integer of two bytes.
MsgSize == 0..(Base * Base - 1)

ASSUME BaseAssumption == Base \in Nat /\ Base >= 2
ASSUME MessagesAssumption == Messages \subseteq Seq(Byte)
ASSUME MaxMessagesAssumption == MaxMessages \in Nat

VARIABLES
  bytes,        \* everything sent on the connection
  closed,       \* the sender has shut the connection down
  pos,          \* how many bytes the receiver has taken
  \* the receiver
  rstate,       \* the receive_state it holds
  buf,          \* its buffer
  in_recv,      \* it is in recv, between the length and the message
  \* history
  sent,         \* the datagrams that send was called with
  starts,       \* where their bytes begin
  received,     \* the datagrams delivered
  damage        \* what has gone wrong that the functions report, or misuse

sender   == <<bytes, closed, sent, starts>>
receiver == <<pos, rstate, buf, in_recv, received>>
vars     == <<sender, receiver, damage>>

SizeBytes == 2  \* sizeof(msg_size_type)

ReceiveState ==
  [msg_size : MsgSize, bytes_received : Nat,
   state : {"receiving_msg_size", "receiving_msg", "finished"}]

\* receive_state()
Fresh == [msg_size |-> 0, bytes_received |-> 0, state |-> "receiving_msg_size"]

Init ==
  /\ bytes = <<>>
  /\ closed = FALSE
  /\ pos = 0
  /\ rstate = Fresh
  /\ buf = <<>>
  /\ in_recv = FALSE
  /\ sent = <<>>
  /\ starts = <<>>
  /\ received = <<>>
  /\ damage = {}

-----------------------------------------------------------------------------
(* Sending.                                                                *)

\* static_cast<msg_size_type>
Truncate(n) == n % (Base * Base)

\* A length in network byte order.
NetworkOrder(n) == <<n \div Base, n % Base>>

\* The buffers handed to sendmsg: the length, then the datagram.
Frame(m) == NetworkOrder(Truncate(Len(m))) \o m

Transmit(m, data, harm) ==
  /\ ~ closed
  /\ Len(sent) < MaxMessages
  /\ bytes' = bytes \o data
  /\ sent' = Append(sent, m)
  /\ starts' = Append(starts, Len(bytes))
  /\ damage' = damage \cup harm
  /\ UNCHANGED <<closed, receiver>>

\* send(buf, length): the length is a msg_size_type.
SendBuffer(m) ==
  /\ Len(m) \in MsgSize
  /\ Transmit(m, Frame(m), {})

\* send(buffers, size_buffers): the lengths are added up and cut to two bytes.
SendVector(m) ==
  Transmit(m, Frame(m), IF Len(m) \in MsgSize THEN {} ELSE {"oversize"})

\* send<N>(buffers): the buffers are copied over the length, and the last
\* iovec is not initialized, so that it adds nothing or some byte.
SendArray(m) ==
  \E rest \in {<<>>} \cup {<<b>> : b \in Byte} : Transmit(m, m \o rest, {"array"})

\* sendmsg takes a part only (a signal, or a full buffer and MSG_DONTWAIT);
\* send returns the count and the rest cannot be sent.
SendShort(m) ==
  \E n \in 1..(Len(Frame(m)) - 1) :
    Transmit(m, SubSeq(Frame(m), 1, n), {"short_send"})

Shutdown ==
  /\ ~ closed
  /\ closed' = TRUE
  /\ UNCHANGED <<bytes, sent, starts, receiver, damage>>

-----------------------------------------------------------------------------
(* Receiving.                                                              *)

Available == Len(bytes) - pos
AtEnd     == closed /\ Available = 0

\* What ::recv may return for a request of n bytes with MSG_DONTWAIT.  It
\* returns 0 only at the end, or for an empty request when there is data;
\* otherwise it fails.
Returned(n) ==
  {k \in 0..n : /\ k <= Available
                /\ k = 0 => AtEnd \/ (n = 0 /\ Available > 0)}

\* std::vector::resize
Resize(b, n) == [k \in 1..n |-> IF k <= Len(b) THEN b[k] ELSE 0]

\* Mutant: each part is written to the front of the buffer.
Put_FromStart(b, at, n) ==
  [k \in DOMAIN b |-> IF k <= n THEN bytes[pos + k] ELSE b[k]]

\* The next n bytes are written to b from offset at.
Put(b, at, n) ==
  [k \in DOMAIN b |-> IF at < k /\ k <= at + n THEN bytes[pos + (k - at)] ELSE b[k]]

\* The shift of byte i of the length.
Weight(i) == IF i = 0 THEN Base ELSE 1

\* Mutant: the state is never advanced.
RecvSizePart_KeepsState(s) ==
  \E n \in Returned(SizeBytes - s.bytes_received) :
    LET part(i) == IF s.bytes_received <= i /\ i < s.bytes_received + n
                   THEN bytes[pos + 1 + (i - s.bytes_received)] * Weight(i) ELSE 0
    IN  /\ pos' = pos + n
        /\ rstate' = [s EXCEPT !.msg_size = @ + part(0) + part(1), !.bytes_received = @ + n]
        /\ UNCHANGED <<buf, in_recv, received>>

\* recv_size_part: the bytes that have arrived are added to the length.
RecvSizePart(s) ==
  \E n \in Returned(SizeBytes - s.bytes_received) :
    LET part(i) == IF s.bytes_received <= i /\ i < s.bytes_received + n
                   THEN bytes[pos + 1 + (i - s.bytes_received)] * Weight(i) ELSE 0
        size    == s.msg_size + part(0) + part(1)
    IN  /\ pos' = pos + n
        /\ rstate' = IF s.bytes_received + n = SizeBytes
                     THEN [msg_size |-> size, bytes_received |-> 0, state |-> "receiving_msg"]
                     ELSE [msg_size |-> size, bytes_received |-> s.bytes_received + n,
                           state |-> s.state]
        /\ UNCHANGED <<buf, in_recv, received>>

\* recv_msg_part: the buffer gets its size and the bytes that have arrived.
RecvMsgPart ==
  \E n \in Returned(rstate.msg_size - rstate.bytes_received) :
    LET got  == rstate.bytes_received + n
        done == got = rstate.msg_size
    IN  /\ pos' = pos + n
        /\ buf' = Put(Resize(buf, rstate.msg_size), rstate.bytes_received, n)
        /\ rstate' = [msg_size |-> rstate.msg_size, bytes_received |-> got,
                      state |-> IF done THEN "finished" ELSE rstate.state]
        /\ received' = IF done THEN Append(received, buf') ELSE received
        /\ UNCHANGED in_recv

RecvPart ==
  /\ ~ in_recv
  /\ \/ rstate.state = "receiving_msg_size" /\ RecvSizePart(rstate)
     \/ rstate.state = "receiving_msg" /\ RecvMsgPart
     \/ rstate.state = "finished" /\ RecvSizePart(Fresh)
  /\ UNCHANGED <<sender, damage>>

\* recv_part throws (EAGAIN): the caller keeps its state, but the buffer has
\* its size by then.
RecvPartThrows ==
  /\ ~ in_recv
  /\ rstate.state = "receiving_msg"
  /\ buf' = Resize(buf, rstate.msg_size)
  /\ UNCHANGED <<sender, damage, pos, rstate, in_recv, received>>

BetweenDatagrams == ~ in_recv /\ (rstate = Fresh \/ rstate.state = "finished")

\* recv, first part: MSG_WAITALL waits for both bytes of the length.
RecvLength ==
  /\ BetweenDatagrams
  /\ Available >= SizeBytes
  /\ pos' = pos + SizeBytes
  /\ buf' = Resize(buf, bytes[pos + 1] * Base + bytes[pos + 2])
  /\ in_recv' = TRUE
  /\ UNCHANGED <<sender, damage, rstate, received>>

\* Only one byte is returned (a signal, or the end); recv throws.
RecvLengthTruncated ==
  /\ BetweenDatagrams
  /\ Available > 0
  /\ pos' = pos + 1
  /\ damage' = damage \cup {"truncated_recv"}
  /\ UNCHANGED <<sender, rstate, buf, in_recv, received>>

\* recv, second part: the whole message, or 0 bytes of an empty one.
RecvMessage ==
  /\ in_recv
  /\ Len(buf) \in Returned(Len(buf))
  /\ pos' = pos + Len(buf)
  /\ buf' = Put(buf, 0, Len(buf))
  /\ in_recv' = FALSE
  /\ received' = Append(received, buf')
  /\ UNCHANGED <<sender, damage, rstate>>

\* Fewer bytes are returned (a signal, the end, or MSG_DONTWAIT among the
\* flags), or the call fails; recv throws and the length is lost.
RecvMessageTruncated ==
  /\ in_recv
  /\ \E n \in 0..Len(buf) :
       /\ n <= Available
       /\ n = Len(buf) => n = 0 /\ Available = 0 /\ ~ closed
       /\ pos' = pos + n
       /\ buf' = Put(buf, 0, n)
  /\ in_recv' = FALSE
  /\ damage' = damage \cup {"truncated_recv"}
  /\ UNCHANGED <<sender, rstate, received>>

-----------------------------------------------------------------------------

Receive == RecvPart \/ RecvLength \/ RecvMessage

Next ==
  \/ \E m \in Messages : SendBuffer(m) \/ SendVector(m) \/ SendArray(m) \/ SendShort(m)
  \/ Shutdown
  \/ Receive
  \/ RecvPartThrows \/ RecvLengthTruncated \/ RecvMessageTruncated

Spec == Init /\ [][Next]_vars

\* The receiver calls again as long as there is something to receive.
FairSpec == Spec /\ WF_vars(Receive)

-----------------------------------------------------------------------------
(* Properties.                                                             *)

\* Every variable has its type; no call asks for a negative number of bytes.
TypeOK ==
  /\ bytes \in Seq(Byte)
  /\ closed \in BOOLEAN
  /\ pos \in 0..Len(bytes)
  /\ rstate \in ReceiveState
  /\ rstate.state = "receiving_msg_size" => rstate.bytes_received < SizeBytes
  /\ rstate.state # "receiving_msg_size" => rstate.bytes_received <= rstate.msg_size
  /\ buf \in Seq(Byte)
  /\ in_recv \in BOOLEAN
  /\ sent \in Seq(Messages)
  /\ starts \in Seq(Nat) /\ Len(starts) = Len(sent)
  /\ received \in Seq(Seq(Byte))
  /\ damage \subseteq {"oversize", "array", "short_send", "truncated_recv"}

InOrder ==
  /\ Len(received) <= Len(sent)
  /\ \A k \in 1..Len(received) : received[k] = sent[k]

\* The datagrams delivered are the ones sent, in order and unchanged, in
\* whatever parts the bytes arrive and whichever of recv and recv_part take
\* them, until a call transfers only a part, a datagram is too long for its
\* length, or the overload for arrays is used.
DatagramsIntact == damage = {} => InOrder

\* What recv_part has put into the buffer so far is the beginning of the
\* datagram at hand.
PartialIsPrefix ==
  (damage = {} /\ rstate.state = "receiving_msg") =>
    /\ Len(received) < Len(sent)
    /\ rstate.msg_size = Len(sent[Len(received) + 1])
    /\ \A k \in 1..rstate.bytes_received : buf[k] = sent[Len(received) + 1][k]

\* The last datagram is empty: its end is not noticed before more bytes, or
\* the end of the connection, arrive, since an empty request waits for them.
EmptyLast ==
  /\ sent # <<>>
  /\ sent[Len(sent)] = <<>>
  /\ Available = 0
  /\ ~ closed

\* Every datagram sent is delivered to a receiver that keeps calling.
AllDelivered ==
  \A k \in 1..MaxMessages :
    (Len(sent) >= k) ~> (Len(received) >= k \/ damage # {} \/ EmptyLast)

\* Datagrams sent with the overload for arrays arrive like any others.
ArraysArrive == damage \subseteq {"array"} => InOrder
=============================================================================
