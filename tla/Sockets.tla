------------------------------- MODULE Sockets -------------------------------
(***************************************************************************)
(* The socket classes udp_socket, tcp_socket and tcp_datagram_socket       *)
(* (src/src/net/) and the free functions they call: socket, bind, connect, *)
(* listen, accept, send, recv, setsockopt and the conversions of names.    *)
(* Each object owns its descriptor through one unique_fd, so the module    *)
(* extends UniqueFd: a member function of a socket is a member function of *)
(* its unique_fd plus what the kernel's socket goes through.               *)
(*                                                                         *)
(* A constructor or assignment that makes several calls is several steps,  *)
(* any of which may throw.  A call that throws and changes nothing is a    *)
(* stuttering step.  The bytes of a stream are in TcpDatagram.             *)
(***************************************************************************)
EXTENDS UniqueFd, SequencesExt

CONSTANTS
  Names,        \* names (address and port) of the peers
  NoName,       \* no name
  BindOptions,  \* the sets of reuse options callers give to bind
  MaxQueue      \* bound on what waits in a socket

Kinds == {"unique_fd", "udp", "tcp", "tcp_datagram"}
Reuse == {"reuse_addr", "reuse_port"}

\* An address is four bytes and a port two, the most significant first.
ASSUME NamesAssumption ==
  /\ Names \subseteq [addr : [1..4 -> 0..255], port : [1..2 -> 0..255]]
  /\ NoName \notin Names

ASSUME BoundsAssumption ==
  /\ MaxQueue \in Nat
  /\ BindOptions \subseteq SUBSET Reuse

VARIABLES
  kind,     \* place -> class of the object that lives there, or "none"
  todo,     \* place -> calls its constructor or assignment has yet to make
  sock,     \* descriptor -> what the kernel keeps for it
  lost      \* descriptors accept4 returned to an accept that then threw

kernel == <<sock, lost>>
svars == <<vars, kind, todo, kernel>>

Fresh(type, domain) ==
  [type |-> type, domain |-> domain, state |-> "new", opts |-> {}, queue |-> <<>>]

NoSocket == Fresh("none", "none")

SocketsInit ==
  /\ Init
  /\ kind = [o \in Objects |-> "none"]
  /\ todo = [o \in Objects |-> <<>>]
  /\ sock = [d \in FDs |-> NoSocket]
  /\ lost = {}

-----------------------------------------------------------------------------
(* Names.  The fields of a sockaddr_in are numbers that hold the bytes in  *)
(* network order, and the host stores a number with its least significant  *)
(* byte first.                                                             *)

\* Memory contents of a number, and number with the given memory contents.
Memory(v) == Reverse(v)

htons(v) == Reverse(v)
htonl(v) == Reverse(v)
ntohs(v) == Reverse(v)
ntohl(v) == Reverse(v)

\* Mutant: the port keeps the host's byte order.
make_sockaddr_HostPort(n) ==
  [sin_addr |-> htonl(n.addr), sin_port |-> n.port]

make_sockaddr(n) == [sin_addr |-> htonl(n.addr), sin_port |-> htons(n.port)]

parse_sockaddr(s) == [addr |-> ntohl(s.sin_addr), port |-> ntohs(s.sin_port)]

\* The kernel reads a sockaddr_in as bytes, and writes one.
NameIn(s) == [addr |-> Memory(s.sin_addr), port |-> Memory(s.sin_port)]
SockaddrOf(n) == [sin_addr |-> Memory(n.addr), sin_port |-> Memory(n.port)]

-----------------------------------------------------------------------------
(* Lifetime of the objects.                                                *)

Idle(o) == o \in Alive /\ todo[o] = <<>>

\* The socket that an idle object of one of the kinds ks owns.
Sd(o, ks) == IF Idle(o) /\ kind[o] \in ks /\ fd[o] \in FDs THEN {fd[o]} ELSE {}

SetKind(o, k) == kind' = [kind EXCEPT ![o] = k]
SetTodo(o, body) == todo' = [todo EXCEPT ![o] = body]

\* The kernel forgets the socket of a descriptor that a step closes.
ForgetClosed ==
  /\ sock' = [d \in FDs |-> IF d \in open' THEN sock[d] ELSE NoSocket]
  /\ UNCHANGED lost

OpenFile(d) ==
  /\ Open(d)
  /\ sock' = [sock EXCEPT ![d] = Fresh("file", "none")]
  /\ UNCHANGED <<kind, todo, lost>>

CloseFile(d) ==
  /\ CloseRaw(d)
  /\ ForgetClosed
  /\ UNCHANGED <<kind, todo>>

DefaultConstruct(o, k) ==
  /\ Construct(o, closed_fd)
  /\ SetKind(o, k)
  /\ UNCHANGED <<todo, kernel>>

\* unique_fd(fd) and tcp_socket(file_descriptor &&).
Adopt(o, k, d) ==
  /\ d \in FDs
  /\ Construct(o, d)
  /\ SetKind(o, k)
  /\ UNCHANGED <<todo, kernel>>

\* What follows ::socket: only the IPv4 constructors bind or connect, and a
\* tcp_datagram_socket turns off Nagle's algorithm first.
Bodies(k, domain) ==
  LET calls == IF domain = "inet6" THEN {<<>>}
               ELSE IF k = "udp" THEN {<<>>, <<"bind">>}
               ELSE {<<>>, <<"bind">>, <<"connect">>}
  IN  IF k = "tcp_datagram" THEN {<<"nodelay">> \o c : c \in calls} ELSE calls

TypeOf(k) == IF k = "udp" THEN "udp" ELSE "tcp"

NewSocket(o, k, domain, d) ==
  /\ ConstructOpened(o, d)
  /\ SetKind(o, k)
  /\ \E body \in Bodies(k, domain) : SetTodo(o, body)
  /\ sock' = [sock EXCEPT ![d] = Fresh(TypeOf(k), domain)]
  /\ UNCHANGED lost

MoveConstructSocket(o, src) ==
  /\ Idle(src)
  /\ MoveConstruct(o, src)
  /\ SetKind(o, kind[src])
  /\ UNCHANGED <<todo, kernel>>

MoveAssignSocket(o, src) ==
  /\ Idle(o) /\ Idle(src) /\ kind[o] = kind[src]
  /\ MoveAssign(o, src)
  /\ UNCHANGED <<kind, todo, kernel>>

SwapSockets(o, p) ==
  /\ Idle(o) /\ Idle(p) /\ kind[o] = kind[p]
  /\ Swap(o, p)
  /\ UNCHANGED <<kind, todo, kernel>>

\* Mutant: the descriptor is copied out of the tcp_socket.
FromTcp_Copies(o, src) ==
  /\ Idle(src) /\ kind[src] = "tcp"
  /\ fd[o] = NotAlive
  /\ fd' = [fd EXCEPT ![o] = fd[src]]
  /\ SetKind(o, "tcp_datagram")
  /\ SetTodo(o, <<"nodelay">>)
  /\ UNCHANGED <<open, raw, kernel>>

\* tcp_datagram_socket(tcp_socket &&).
FromTcp(o, src) ==
  /\ Idle(src) /\ kind[src] = "tcp"
  /\ MoveConstruct(o, src)
  /\ SetKind(o, "tcp_datagram")
  /\ SetTodo(o, <<"nodelay">>)
  /\ UNCHANGED kernel

\* Mutant: only the constructors set the option.
AssignTcp_NoOption(o, src) ==
  /\ Idle(o) /\ kind[o] = "tcp_datagram"
  /\ Idle(src) /\ kind[src] = "tcp"
  /\ MoveAssign(o, src)
  /\ UNCHANGED <<kind, todo, kernel>>

\* tcp_datagram_socket::operator=(tcp_socket &&).
AssignTcp(o, src) ==
  /\ Idle(o) /\ kind[o] = "tcp_datagram"
  /\ Idle(src) /\ kind[src] = "tcp"
  /\ MoveAssign(o, src)
  /\ SetTodo(o, <<"assigned_nodelay">>)
  /\ UNCHANGED <<kind, kernel>>

ReleaseFd(o) ==
  /\ kind[o] = "unique_fd"
  /\ Release(o)
  /\ UNCHANGED <<kind, todo, kernel>>

ResetFd(o, d) ==
  /\ kind[o] = "unique_fd"
  /\ Reset(o, d)
  /\ ForgetClosed
  /\ UNCHANGED <<kind, todo>>

Close(o) ==
  /\ Idle(o) /\ kind[o] # "unique_fd"
  /\ Reset(o, closed_fd)
  /\ ForgetClosed
  /\ UNCHANGED <<kind, todo>>

DestroySocket(o) ==
  /\ Idle(o)
  /\ Destroy(o)
  /\ SetKind(o, "none")
  /\ ForgetClosed
  /\ UNCHANGED todo

-----------------------------------------------------------------------------
(* The kernel's part of the calls, on descriptor d.                        *)

SetOpts(d, opts) == sock' = [sock EXCEPT ![d].opts = @ \cup opts]

IsTcp(d) == d \in FDs /\ sock[d].type = "tcp"

\* A sockaddr_in names no address of an IPv6 socket, and a name is given
\* once.  That the address is free is the kernel's to say.
MayBind(d) ==
  /\ sock[d].type \in {"udp", "tcp"}
  /\ sock[d].domain = "inet"
  /\ sock[d].state = "new"

BindTo(d, opts) ==
  /\ MayBind(d)
  /\ sock' = [sock EXCEPT ![d].opts = @ \cup opts, ![d].state = "bound"]

ConnectTo(d, n) ==
  /\ sock[d].type = "tcp"
  /\ sock[d].domain = "inet"
  /\ sock[d].state \in {"new", "bound"}
  /\ NameIn(make_sockaddr(n)) \in Names
  /\ sock' = [sock EXCEPT ![d].state = "connected"]

-----------------------------------------------------------------------------
(* Bodies of the constructors and of the assignment.                       *)

BodyNodelay(o) ==
  /\ todo[o] # <<>> /\ Head(todo[o]) \in {"nodelay", "assigned_nodelay"}
  /\ IsTcp(fd[o])
  /\ SetOpts(fd[o], {"nodelay"})
  /\ SetTodo(o, Tail(todo[o]))
  /\ UNCHANGED <<vars, kind, lost>>

BodyBind(o) ==
  /\ todo[o] # <<>> /\ Head(todo[o]) = "bind"
  /\ BindTo(fd[o], {})
  /\ SetTodo(o, Tail(todo[o]))
  /\ UNCHANGED <<vars, kind, lost>>

BodyConnect(o) ==
  /\ todo[o] # <<>> /\ Head(todo[o]) = "connect"
  /\ \E n \in Names : ConnectTo(fd[o], n)
  /\ SetTodo(o, Tail(todo[o]))
  /\ UNCHANGED <<vars, kind, lost>>

\* Setting the option fails exactly on what is no TCP socket; bind and
\* connect may fail on any.
CallFails(o) ==
  /\ todo[o] # <<>>
  /\ Head(todo[o]) \in {"nodelay", "assigned_nodelay"} => ~ IsTcp(fd[o])

\* Mutant: the descriptor of the half-constructed object is forgotten.
ConstructorThrows_NotClosed(o) ==
  /\ CallFails(o) /\ Head(todo[o]) # "assigned_nodelay"
  /\ fd' = [fd EXCEPT ![o] = NotAlive]
  /\ SetKind(o, "none")
  /\ SetTodo(o, <<>>)
  /\ UNCHANGED <<open, raw, kernel>>

\* The exception leaves a constructor whose members are constructed: they
\* are destroyed.
ConstructorThrows(o) ==
  /\ CallFails(o) /\ Head(todo[o]) # "assigned_nodelay"
  /\ Destroy(o)
  /\ SetKind(o, "none")
  /\ SetTodo(o, <<>>)
  /\ ForgetClosed

\* The object keeps what was assigned to it.
AssignmentThrows(o) ==
  /\ CallFails(o) /\ Head(todo[o]) = "assigned_nodelay"
  /\ SetTodo(o, <<>>)
  /\ UNCHANGED <<vars, kind, kernel>>

-----------------------------------------------------------------------------
(* The calls on a socket.                                                  *)

\* Only udp_socket::bind takes the reuse options.
OptionsOf(o) == IF kind[o] = "udp" THEN BindOptions ELSE {{}}

SocketKinds == Kinds \ {"unique_fd"}
TcpKinds == {"tcp", "tcp_datagram"}

Bind(o, opts) ==
  /\ \E d \in Sd(o, SocketKinds) : BindTo(d, opts)
  /\ UNCHANGED <<vars, kind, todo, lost>>

\* The options are set before bind fails, and stay.
BindFails(o, opts) ==
  /\ \E d \in Sd(o, {"udp"}) : SetOpts(d, opts)
  /\ UNCHANGED <<vars, kind, todo, lost>>

JoinGroup(o) ==
  /\ \E d \in Sd(o, {"udp"}) : SetOpts(d, {"add_membership"})
  /\ UNCHANGED <<vars, kind, todo, lost>>

Connect(o, n) ==
  /\ \E d \in Sd(o, TcpKinds) : ConnectTo(d, n)
  /\ UNCHANGED <<vars, kind, todo, lost>>

\* A socket without a name is given one, of its own domain.
Listen(o) ==
  /\ \E d \in Sd(o, TcpKinds) :
       /\ IsTcp(d)
       /\ sock[d].state \in {"new", "bound"}
       /\ sock' = [sock EXCEPT ![d].state = "listening"]
  /\ UNCHANGED <<vars, kind, todo, lost>>

\* On a listening socket: connections that wait are given up, and whether the
\* name stays is the kernel's to say.  On a connected one a direction of the
\* stream ends, which no state here shows; elsewhere the call throws.
Shutdown(o) ==
  /\ \E d \in Sd(o, TcpKinds), state \in {"new", "bound"} :
       /\ sock[d].state = "listening"
       /\ sock' = [sock EXCEPT ![d].state = state, ![d].queue = <<>>]
  /\ UNCHANGED <<vars, kind, todo, lost>>

\* A peer connects to a listening socket, or sends to a bound one.
PeerCalls(d, n) ==
  /\ \/ sock[d].type = "tcp" /\ sock[d].state = "listening"
     \/ sock[d].type = "udp" /\ sock[d].state = "bound"
  /\ Len(sock[d].queue) < MaxQueue
  /\ sock' = [sock EXCEPT ![d].queue = Append(@, [from |-> n, asked |-> NoName])]
  /\ UNCHANGED <<vars, kind, todo, lost>>

\* The kernel stores a name of the socket's own domain: a sockaddr_in, or a
\* sockaddr_in6 even for an IPv4 peer.  It copies what fits into the caller's
\* sockaddr_in and reports the whole length.
SizeofSockaddrIn == 16
SizeofSockaddrIn6 == 28

NameLength(d) ==
  IF sock[d].domain = "inet" THEN SizeofSockaddrIn ELSE SizeofSockaddrIn6

\* In a sockaddr_in6 the port has the same place; sin_addr overlays the flow
\* label, which is zero, and the address is behind it.
Written(d, n) ==
  IF sock[d].domain = "inet" THEN SockaddrOf(n)
  ELSE [SockaddrOf(n) EXCEPT !.sin_addr = <<0, 0, 0, 0>>]

\* Mutant: the length that the kernel reports is not looked at.
NameFits_NotCompared(d) == TRUE

\* The comparison of accept and recv; they throw when it fails.
NameFits(d) == NameLength(d) = SizeofSockaddrIn

Connection(d) == [Fresh("tcp", sock[d].domain) EXCEPT !.state = "connected"]

Accept4(d, c) ==
  /\ IsTcp(d) /\ sock[d].queue # <<>>
  /\ sock' = [sock EXCEPT ![d].queue = Tail(@), ![c] = Connection(d)]

\* accept(flags) on any socket, accept(addr, port) where the name fits; the
\* caller gets the new descriptor as an int.
Accept(o, c) ==
  /\ \E d \in Sd(o, TcpKinds) : Accept4(d, c)
  /\ Open(c)
  /\ UNCHANGED <<kind, todo, lost>>

\* accept(addr, port) throws after accept4 returned c.
AcceptThrows(o, c) ==
  /\ c \in FDs \ open
  /\ \E d \in Sd(o, TcpKinds) :
       /\ ~ NameFits(d)
       /\ Accept4(d, c)
  /\ open' = open \cup {c}
  /\ lost' = lost \cup {c}
  /\ UNCHANGED <<fd, raw, kind, todo>>

\* sendto and sendmsg give the socket a name when it has none; the datagram
\* reaches the peer its sockaddr_in names, which may answer.
Sendto(d, n) ==
  LET bound == [sock[d] EXCEPT !.state = "bound"]
      peer  == NameIn(make_sockaddr(n))
      m     == [from |-> peer, asked |-> n]
  IN  \/ sock' = [sock EXCEPT ![d] = bound]
      \/ /\ peer \in Names
         /\ Len(sock[d].queue) < MaxQueue
         /\ sock' = [sock EXCEPT ![d] = [bound EXCEPT !.queue = Append(@, m)]]

Send(o, n) ==
  /\ \E d \in Sd(o, {"udp"}) : Sendto(d, n)
  /\ UNCHANGED <<vars, kind, todo, lost>>

\* recv, recvfrom and recvmsg take the first datagram.
Recvfrom(d) ==
  /\ sock[d].queue # <<>>
  /\ sock' = [sock EXCEPT ![d].queue = Tail(@)]

\* recv without a name, or with one that fits.
Recv(o) ==
  /\ \E d \in Sd(o, {"udp"}) : Recvfrom(d)
  /\ UNCHANGED <<vars, kind, todo, lost>>

\* recv with a name throws after the datagram was taken.
RecvThrows(o) ==
  /\ \E d \in Sd(o, {"udp"}) :
       /\ ~ NameFits(d)
       /\ Recvfrom(d)
  /\ UNCHANGED <<vars, kind, todo, lost>>

-----------------------------------------------------------------------------

SocketsNext ==
  \/ \E d \in FDs : OpenFile(d) \/ CloseFile(d) \/ \E n \in Names : PeerCalls(d, n)
  \/ \E o \in Objects :
       \/ ReleaseFd(o) \/ Close(o) \/ DestroySocket(o)
       \/ BodyNodelay(o) \/ BodyBind(o) \/ BodyConnect(o)
       \/ ConstructorThrows(o) \/ AssignmentThrows(o)
       \/ JoinGroup(o) \/ Listen(o) \/ Shutdown(o) \/ Recv(o) \/ RecvThrows(o)
       \/ \E k \in Kinds : DefaultConstruct(o, k)
       \/ \E d \in FDs \cup {closed_fd} : ResetFd(o, d)
       \/ \E d \in FDs : Accept(o, d) \/ AcceptThrows(o, d)
       \/ \E d \in FDs, k \in {"unique_fd", "tcp"} : Adopt(o, k, d)
       \/ \E d \in FDs, k \in SocketKinds, domain \in {"inet", "inet6"} :
            NewSocket(o, k, domain, d)
       \/ \E opts \in OptionsOf(o) : Bind(o, opts) \/ BindFails(o, opts)
       \/ \E n \in Names : Connect(o, n) \/ Send(o, n)
       \/ \E p \in Objects :
            \/ MoveConstructSocket(o, p) \/ MoveAssignSocket(o, p) \/ SwapSockets(o, p)
            \/ FromTcp(o, p) \/ AssignTcp(o, p)

SocketsSpec == SocketsInit /\ [][SocketsNext]_svars

-----------------------------------------------------------------------------
(* Properties.                                                             *)

Messages == [from : Names, asked : Names \cup {NoName}]

Options == Reuse \cup {"nodelay", "add_membership"}

Domains == {"none", "inet", "inet6"}

SocketStates ==
  [type : {"none", "file", "udp", "tcp"}, domain : Domains,
   state : {"new", "bound", "listening", "connected"},
   opts : SUBSET Options, queue : Seq(Messages)]

\* Every variable has its type; an object has a class exactly while it is
\* alive, calls are outstanding only on such an object, and the kernel keeps
\* a socket or a file exactly for the open descriptors.
SocketsTypeOK ==
  /\ TypeOK
  /\ kind \in [Objects -> Kinds \cup {"none"}]
  /\ todo \in [Objects -> Seq({"nodelay", "assigned_nodelay", "bind", "connect"})]
  /\ sock \in [FDs -> SocketStates]
  /\ lost \subseteq open
  /\ \A o \in Objects : kind[o] = "none" <=> o \notin Alive
  /\ \A o \in Objects : todo[o] # <<>> => kind[o] \in SocketKinds
  /\ \A d \in FDs : sock[d].type = "none" <=> d \notin open

\* The abstract specification: descriptors and unique_fd objects.  To it, a
\* connection that a throwing accept gave up is one that a caller holds and
\* never closes.
Descriptors == INSTANCE UniqueFd WITH raw <- raw \cup lost

\* Whatever the sockets do to descriptors, through all constructors,
\* assignments and exceptions, is a sequence of unique_fd operations.
OwnsLikeUniqueFd == Descriptors!Spec

\* A descriptor becomes unreachable only when it is overwritten by a move
\* assignment, or when accept throws after the connection was accepted; no
\* exception thrown by a constructor loses one.
LeaksOnlyByMoveAssignOrAccept ==
  [][\A d \in Leaked' \ Leaked :
       \/ d \in lost'
       \/ \E o, p \in Objects : fd[o] = d /\ MoveAssign(o, p)]_svars

\* Every name that accept and recv report, because its length is the one they
\* compare with, leads back to the peer that connected or sent, and an answer
\* to a datagram comes from the peer the caller asked for: no caller is given
\* a name cut off by its sockaddr_in, and byte orders agree over an exchange.
NamesLeadBack ==
  \A d \in {e \in FDs : NameFits(e)} : \A i \in 1..Len(sock[d].queue) :
    LET m        == sock[d].queue[i]
        reported == parse_sockaddr(Written(d, m.from))
    IN  /\ NameIn(make_sockaddr(reported)) = m.from
        /\ m.asked \in {NoName, reported}

\* Every TCP socket a tcp_datagram_socket holds once its constructor or
\* assignment has ended has Nagle's algorithm off, whichever way it came to
\* be held: created, taken over from a tcp_socket, moved or swapped.
NodelayIsSet ==
  \A o \in Objects :
    kind[o] = "tcp_datagram" /\ todo[o] = <<>> /\ IsTcp(fd[o])
      => "nodelay" \in sock[fd[o]].opts
==============================================================================
