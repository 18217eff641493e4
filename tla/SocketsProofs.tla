---------------------------- MODULE SocketsProofs ----------------------------
(***************************************************************************)
(* Proofs about UniqueFd and about Sockets, which extends it.              *)
(*                                                                         *)
(* In UniqueFd every descriptor has one owner and what is owned is open,   *)
(* for any number of objects and descriptors.  The two facts and the types *)
(* are inductive together: that a close hits no other holder needs unique  *)
(* ownership, and that a new descriptor has no holder needs that holders'  *)
(* descriptors are open.                                                   *)
(*                                                                         *)
(* In Sockets every step does to the descriptors what one unique_fd        *)
(* operation does, or nothing, or opens a descriptor for an accept that    *)
(* throws (StepKinds). The invariant of UniqueFd therefore carries over,   *)
(* and with it that nobody holds a lost descriptor (Holders), which is     *)
(* what the refinement of UniqueFd needs: a close by a holder must not hit *)
(* a lost descriptor.                                                      *)
(***************************************************************************)
EXTENDS Sockets, TLAPS

-----------------------------------------------------------------------------
(* UniqueFd.                                                               *)

Inv == TypeOK /\ UniqueOwnership

LEMMA InitInv == Init => Inv
  BY DistinctAssumption
  DEF Init, Inv, TypeOK, UniqueOwnership, Owned, DistinctAssumption

\* One operation at a time.
LEMMA StepInv == Inv /\ [Next]_vars => Inv'
<1> SUFFICES ASSUME Inv, [Next]_vars
             PROVE  Inv'
  OBVIOUS
<1> USE DistinctAssumption
    DEF Inv, TypeOK, UniqueOwnership, Owned, Alive, DistinctAssumption
<1>1. CASE UNCHANGED vars
  BY <1>1 DEF vars
<1>2. ASSUME NEW d \in FDs, Open(d)
      PROVE  Inv'
  BY <1>2 DEF Open
<1>3. ASSUME NEW d \in FDs, CloseRaw(d)
      PROVE  Inv'
  BY <1>3 DEF CloseRaw
<1>4. ASSUME NEW o \in Objects, Release(o)
      PROVE  Inv'
  BY <1>4 DEF Release
<1>5. ASSUME NEW o \in Objects, Destroy(o)
      PROVE  Inv'
  BY <1>5 DEF Destroy, CloseOld
<1>6. ASSUME NEW o \in Objects, NEW d \in FDs \cup {closed_fd}, Construct(o, d)
      PROVE  Inv'
  BY <1>6 DEF Construct
<1>7. ASSUME NEW o \in Objects, NEW d \in FDs \cup {closed_fd}, Reset(o, d)
      PROVE  Inv'
  BY <1>7 DEF Reset, CloseOld
<1>8. ASSUME NEW o \in Objects, NEW p \in Objects, MoveConstruct(o, p)
      PROVE  Inv'
  BY <1>8 DEF MoveConstruct
<1>9. ASSUME NEW o \in Objects, NEW p \in Objects, MoveAssign(o, p)
      PROVE  Inv'
  BY <1>9 DEF MoveAssign
<1>10. ASSUME NEW o \in Objects, NEW p \in Objects, Swap(o, p)
       PROVE  Inv'
  BY <1>10 DEF Swap
<1>11. ASSUME NEW o \in Objects, NEW d \in FDs, ConstructOpened(o, d)
       PROVE  Inv'
  BY <1>11 DEF ConstructOpened
<1> QED
  BY <1>1, <1>2, <1>3, <1>4, <1>5, <1>6, <1>7, <1>8, <1>9, <1>10, <1>11 DEF Next

LEMMA Invariance == Spec => []Inv
<1> QED
  BY InitInv, StepInv, PTL DEF Spec

\* The members of unique_fd objects, the open descriptors and the callers'
\* plain descriptors keep their types.
THEOREM OwnersTypeCorrect == Spec => []TypeOK
<1>1. Inv => TypeOK
  BY DEF Inv
<1> QED
  BY <1>1, Invariance, PTL

\* No sequence of moves, swaps, releases and resets gives a descriptor two
\* owners, and whatever a unique_fd or a caller holds is open, so that no
\* close hits a descriptor that is closed already or is another's.
THEOREM OneOwner == Spec => []UniqueOwnership
<1>1. Inv => UniqueOwnership
  BY DEF Inv
<1> QED
  BY <1>1, Invariance, PTL

\* A step other than a move assignment gives up no descriptor.
LEMMA StepKeepsReachable ==
  ASSUME Inv, [Next]_vars, ~ \E o, p \in Objects : MoveAssign(o, p)
  PROVE  Leaked' \subseteq Leaked
<1> USE DistinctAssumption
    DEF Inv, TypeOK, UniqueOwnership, Owned, Alive, Leaked, DistinctAssumption
<1>1. CASE UNCHANGED vars
  BY <1>1 DEF vars
<1>2. ASSUME NEW d \in FDs, Open(d) \/ CloseRaw(d)
      PROVE  Leaked' \subseteq Leaked
  BY <1>2 DEF Open, CloseRaw
<1>3. ASSUME NEW o \in Objects, Release(o)
      PROVE  Leaked' \subseteq Leaked
  BY <1>3 DEF Release
<1>4. ASSUME NEW o \in Objects, Destroy(o)
      PROVE  Leaked' \subseteq Leaked
  BY <1>4 DEF Destroy, CloseOld
<1>5. ASSUME NEW o \in Objects, NEW d \in FDs \cup {closed_fd}, Construct(o, d)
      PROVE  Leaked' \subseteq Leaked
  BY <1>5 DEF Construct
<1>6. ASSUME NEW o \in Objects, NEW d \in FDs \cup {closed_fd}, Reset(o, d)
      PROVE  Leaked' \subseteq Leaked
  BY <1>6 DEF Reset, CloseOld
<1>7. ASSUME NEW o \in Objects, NEW p \in Objects, MoveConstruct(o, p)
      PROVE  Leaked' \subseteq Leaked
  BY <1>7 DEF MoveConstruct
<1>8. ASSUME NEW o \in Objects, NEW p \in Objects, Swap(o, p)
      PROVE  Leaked' \subseteq Leaked
  BY <1>8 DEF Swap
<1>9. ASSUME NEW o \in Objects, NEW d \in FDs, ConstructOpened(o, d)
      PROVE  Leaked' \subseteq Leaked
  BY <1>9 DEF ConstructOpened
<1> QED
  BY <1>1, <1>2, <1>3, <1>4, <1>5, <1>6, <1>7, <1>8, <1>9 DEF Next

\* The defaulted move assignment is the only member function that can leave
\* an open descriptor without an owner.
THEOREM OnlyMoveAssignLeaks == Spec => LeaksOnlyByMoveAssign
<1>1. Inv /\ [Next]_vars
        => [~ (Leaked' \subseteq Leaked) => \E o, p \in Objects : MoveAssign(o, p)]_vars
  BY StepKeepsReachable
<1> QED
  BY <1>1, Invariance, PTL DEF Spec, LeaksOnlyByMoveAssign

-----------------------------------------------------------------------------
(* Sockets: the kinds of steps.                                            *)

\* The connection of an accept that throws.
GiveUp(c) ==
  /\ c \in FDs \ open
  /\ open' = open \cup {c}
  /\ lost' = lost \cup {c}
  /\ UNCHANGED <<fd, raw>>

LEMMA StepKinds ==
  ASSUME SocketsNext
  PROVE  \/ UNCHANGED <<vars, lost>>
         \/ Next /\ UNCHANGED lost
         \/ \E c \in FDs : GiveUp(c)
<1> USE DEF vars, kernel
<1>1. ASSUME NEW d \in FDs, OpenFile(d) \/ CloseFile(d)
      PROVE  Next /\ UNCHANGED lost
  BY <1>1 DEF OpenFile, CloseFile, ForgetClosed, Next
<1>2. ASSUME NEW d \in FDs, NEW n \in Names, PeerCalls(d, n)
      PROVE  UNCHANGED <<vars, lost>>
  BY <1>2 DEF PeerCalls
<1>3. ASSUME NEW o \in Objects, ReleaseFd(o) \/ DestroySocket(o)
      PROVE  Next /\ UNCHANGED lost
  BY <1>3 DEF ReleaseFd, DestroySocket, ForgetClosed, Next
<1>4. ASSUME NEW o \in Objects, Close(o)
      PROVE  Next /\ UNCHANGED lost
  <2>1. closed_fd \in FDs \cup {closed_fd}
    OBVIOUS
  <2> QED
    BY <1>4, <2>1 DEF Close, ForgetClosed, Next
<1>5. ASSUME NEW o \in Objects, BodyNodelay(o) \/ BodyBind(o) \/ BodyConnect(o)
      PROVE  UNCHANGED <<vars, lost>>
  BY <1>5 DEF BodyNodelay, BodyBind, BodyConnect
<1>6. ASSUME NEW o \in Objects, ConstructorThrows(o)
      PROVE  Next /\ UNCHANGED lost
  BY <1>6 DEF ConstructorThrows, ForgetClosed, Next
<1>7. ASSUME NEW o \in Objects,
             \/ AssignmentThrows(o) \/ JoinGroup(o) \/ Listen(o) \/ Shutdown(o)
             \/ Recv(o) \/ RecvThrows(o)
      PROVE  UNCHANGED <<vars, lost>>
  BY <1>7 DEF AssignmentThrows, JoinGroup, Listen, Shutdown, Recv, RecvThrows
<1>8. ASSUME NEW o \in Objects, NEW k \in Kinds, DefaultConstruct(o, k)
      PROVE  Next /\ UNCHANGED lost
  <2>1. closed_fd \in FDs \cup {closed_fd}
    OBVIOUS
  <2> QED
    BY <1>8, <2>1 DEF DefaultConstruct, Next
<1>9. ASSUME NEW o \in Objects, NEW d \in FDs \cup {closed_fd}, ResetFd(o, d)
      PROVE  Next /\ UNCHANGED lost
  BY <1>9 DEF ResetFd, ForgetClosed, Next
<1>10. ASSUME NEW o \in Objects, NEW d \in FDs, Accept(o, d)
       PROVE  Next /\ UNCHANGED lost
  BY <1>10 DEF Accept, Next
<1>11. ASSUME NEW o \in Objects, NEW d \in FDs, AcceptThrows(o, d)
       PROVE  GiveUp(d)
  BY <1>11 DEF AcceptThrows, GiveUp
<1>12. ASSUME NEW o \in Objects, NEW d \in FDs, NEW k \in {"unique_fd", "tcp"},
              Adopt(o, k, d)
       PROVE  Next /\ UNCHANGED lost
  BY <1>12 DEF Adopt, Next
<1>13. ASSUME NEW o \in Objects, NEW d \in FDs, NEW k \in SocketKinds,
              NEW domain \in {"inet", "inet6"}, NewSocket(o, k, domain, d)
       PROVE  Next /\ UNCHANGED lost
  BY <1>13 DEF NewSocket, Next
<1>14. ASSUME NEW o \in Objects, NEW opts \in OptionsOf(o), Bind(o, opts) \/ BindFails(o, opts)
       PROVE  UNCHANGED <<vars, lost>>
  BY <1>14 DEF Bind, BindFails
<1>15. ASSUME NEW o \in Objects, NEW n \in Names, Connect(o, n) \/ Send(o, n)
       PROVE  UNCHANGED <<vars, lost>>
  BY <1>15 DEF Connect, Send
<1>16. ASSUME NEW o \in Objects, NEW p \in Objects,
              \/ MoveConstructSocket(o, p) \/ MoveAssignSocket(o, p) \/ SwapSockets(o, p)
              \/ FromTcp(o, p) \/ AssignTcp(o, p)
       PROVE  Next /\ UNCHANGED lost
  BY <1>16 DEF MoveConstructSocket, MoveAssignSocket, SwapSockets, FromTcp, AssignTcp, Next
<1> QED
  BY <1>1, <1>2, <1>3, <1>4, <1>5, <1>6, <1>7, <1>8, <1>9, <1>10, <1>11, <1>12,
     <1>13, <1>14, <1>15, <1>16
  DEF SocketsNext

-----------------------------------------------------------------------------
(* Who holds what.                                                         *)

\* Nobody holds a lost descriptor, and it stays open.
LostIsNobodys == lost \subseteq open /\ lost \cap (raw \cup Owned) = {}

Holders == Inv /\ LostIsNobodys

\* A unique_fd operation closes only what somebody holds, and lets nobody
\* hold an open descriptor that nobody held.
LEMMA OperationsActOnHeld ==
  ASSUME Inv, Next
  PROVE  /\ open \ open' \subseteq raw \cup Owned
         /\ (raw' \cup Owned') \cap open \subseteq raw \cup Owned
<1> USE DistinctAssumption
    DEF Inv, TypeOK, UniqueOwnership, Owned, Alive, DistinctAssumption
<1> DEFINE G == /\ open \ open' \subseteq raw \cup Owned
                /\ (raw' \cup Owned') \cap open \subseteq raw \cup Owned
<1>1. ASSUME NEW d \in FDs, Open(d) \/ CloseRaw(d)
      PROVE  G
  BY <1>1 DEF Open, CloseRaw
<1>2. ASSUME NEW o \in Objects, Release(o)
      PROVE  G
  BY <1>2 DEF Release
<1>3. ASSUME NEW o \in Objects, Destroy(o)
      PROVE  G
  BY <1>3 DEF Destroy, CloseOld
<1>4. ASSUME NEW o \in Objects, NEW d \in FDs \cup {closed_fd}, Construct(o, d)
      PROVE  G
  BY <1>4 DEF Construct
<1>5. ASSUME NEW o \in Objects, NEW d \in FDs \cup {closed_fd}, Reset(o, d)
      PROVE  G
  BY <1>5 DEF Reset, CloseOld
<1>6. ASSUME NEW o \in Objects, NEW d \in FDs, ConstructOpened(o, d)
      PROVE  G
  BY <1>6 DEF ConstructOpened
<1>7. ASSUME NEW o \in Objects, NEW p \in Objects, MoveConstruct(o, p) \/ MoveAssign(o, p)
      PROVE  G
  BY <1>7 DEF MoveConstruct, MoveAssign
<1>8. ASSUME NEW o \in Objects, NEW p \in Objects, Swap(o, p)
      PROVE  G
  BY <1>8 DEF Swap
<1> QED
  BY <1>1, <1>2, <1>3, <1>4, <1>5, <1>6, <1>7, <1>8 DEF Next

LEMMA InitHolders == SocketsInit => Holders
  BY InitInv DEF SocketsInit, Init, Holders, LostIsNobodys

LEMMA StepHolders == Holders /\ [SocketsNext]_svars => Holders'
<1> SUFFICES ASSUME Holders, [SocketsNext]_svars
             PROVE  Holders'
  OBVIOUS
<1> USE DEF Holders
<1>1. CASE UNCHANGED <<vars, lost>>
  <2>1. Inv'
    BY <1>1, StepInv
  <2> QED
    BY <1>1, <2>1 DEF vars, LostIsNobodys, Owned
<1>2. CASE Next /\ UNCHANGED lost
  <2>1. Inv'
    BY <1>2, StepInv
  <2> QED
    BY <1>2, <2>1, OperationsActOnHeld DEF LostIsNobodys
<1>3. ASSUME NEW c \in FDs, GiveUp(c)
      PROVE  Holders'
  BY <1>3 DEF GiveUp, LostIsNobodys, Inv, TypeOK, UniqueOwnership, Owned
<1>4. CASE UNCHANGED svars
  BY <1>1, <1>4 DEF svars, kernel
<1> QED
  BY <1>1, <1>2, <1>3, <1>4, StepKinds

LEMMA HoldersInvariant == SocketsSpec => []Holders
<1> QED
  BY InitHolders, StepHolders, PTL DEF SocketsSpec

\* Through all constructors, assignments and exceptions of the socket
\* classes, every descriptor has one owner, and what is owned is open.
THEOREM SocketsOwnUniquely == SocketsSpec => []UniqueOwnership
<1>1. Holders => UniqueOwnership
  BY DEF Holders, Inv
<1> QED
  BY <1>1, HoldersInvariant, PTL

-----------------------------------------------------------------------------
(* The sockets implement UniqueFd.                                         *)

LEMMA InitRefines == SocketsInit => Descriptors!Init
  BY DEF SocketsInit, Init, Descriptors!Init

\* One operation at a time; closing needs that no holder's descriptor is a
\* lost one.
LEMMA OperationRefines ==
  ASSUME Holders, Next, UNCHANGED lost
  PROVE  Descriptors!Next
<1> USE DistinctAssumption
    DEF Holders, LostIsNobodys, Inv, TypeOK, UniqueOwnership, Owned, Alive,
        Descriptors!Alive, DistinctAssumption
<1>1. ASSUME NEW d \in FDs, Open(d)
      PROVE  Descriptors!Open(d)
  BY <1>1 DEF Open, Descriptors!Open
<1>2. ASSUME NEW d \in FDs, CloseRaw(d)
      PROVE  Descriptors!CloseRaw(d)
  BY <1>2 DEF CloseRaw, Descriptors!CloseRaw
<1>3. ASSUME NEW o \in Objects, Release(o)
      PROVE  Descriptors!Release(o)
  BY <1>3 DEF Release, Descriptors!Release
<1>4. ASSUME NEW o \in Objects, Destroy(o)
      PROVE  Descriptors!Destroy(o)
  BY <1>4 DEF Destroy, CloseOld, Descriptors!Destroy, Descriptors!CloseOld
<1>5. ASSUME NEW o \in Objects, NEW d \in FDs \cup {closed_fd}, Construct(o, d)
      PROVE  Descriptors!Construct(o, d)
  BY <1>5 DEF Construct, Descriptors!Construct
<1>6. ASSUME NEW o \in Objects, NEW d \in FDs \cup {closed_fd}, Reset(o, d)
      PROVE  Descriptors!Reset(o, d)
  BY <1>6 DEF Reset, CloseOld, Descriptors!Reset, Descriptors!CloseOld
<1>7. ASSUME NEW o \in Objects, NEW d \in FDs, ConstructOpened(o, d)
      PROVE  Descriptors!ConstructOpened(o, d)
  BY <1>7 DEF ConstructOpened, Descriptors!ConstructOpened
<1>8. ASSUME NEW o \in Objects, NEW p \in Objects, MoveConstruct(o, p)
      PROVE  Descriptors!MoveConstruct(o, p)
  BY <1>8 DEF MoveConstruct, Descriptors!MoveConstruct
<1>9. ASSUME NEW o \in Objects, NEW p \in Objects, MoveAssign(o, p)
      PROVE  Descriptors!MoveAssign(o, p)
  BY <1>9 DEF MoveAssign, Descriptors!MoveAssign
<1>10. ASSUME NEW o \in Objects, NEW p \in Objects, Swap(o, p)
       PROVE  Descriptors!Swap(o, p)
  BY <1>10 DEF Swap, Descriptors!Swap
<1> QED
  BY <1>1, <1>2, <1>3, <1>4, <1>5, <1>6, <1>7, <1>8, <1>9, <1>10
  DEF Next, Descriptors!Next

LEMMA StepRefines ==
  Holders /\ [SocketsNext]_svars => [Descriptors!Next]_(Descriptors!vars)
<1> SUFFICES ASSUME Holders, [SocketsNext]_svars
             PROVE  [Descriptors!Next]_(Descriptors!vars)
  OBVIOUS
<1>1. CASE UNCHANGED <<vars, lost>>
  BY <1>1 DEF vars, Descriptors!vars
<1>2. CASE Next /\ UNCHANGED lost
  BY <1>2, OperationRefines
<1>3. ASSUME NEW c \in FDs, GiveUp(c)
      PROVE  Descriptors!Next
  <2>1. Descriptors!Open(c)
    BY <1>3 DEF GiveUp, Descriptors!Open
  <2> QED
    BY <2>1 DEF Descriptors!Next
<1>4. CASE UNCHANGED svars
  BY <1>1, <1>4 DEF svars, kernel
<1> QED
  BY <1>1, <1>2, <1>3, <1>4, StepKinds

\* What the socket classes do to descriptors is what unique_fd objects and
\* their callers may do, a connection lost by accept being one that a caller
\* keeps.
THEOREM SocketsImplementUniqueFd == SocketsSpec => OwnsLikeUniqueFd
<1> QED
  BY InitRefines, StepRefines, HoldersInvariant, PTL
  DEF SocketsSpec, OwnsLikeUniqueFd, Descriptors!Spec

-----------------------------------------------------------------------------
(* Leaks.                                                                  *)

LEMMA MoveAssignLeaks ==
  ASSUME Inv, NEW o \in Objects, NEW p \in Objects, MoveAssign(o, p)
  PROVE  Leaked' \subseteq Leaked \cup {fd[o]}
  BY DistinctAssumption
  DEF Inv, TypeOK, UniqueOwnership, Owned, Alive, Leaked, MoveAssign, DistinctAssumption

\* No exception thrown by a constructor, an assignment or a call loses a
\* descriptor, except that of an accept that got the connection.
THEOREM SocketsLeak == SocketsSpec => LeaksOnlyByMoveAssignOrAccept
<1> DEFINE A == \A d \in Leaked' \ Leaked :
                  \/ d \in lost'
                  \/ \E o, p \in Objects : fd[o] = d /\ MoveAssign(o, p)
<1>1. Holders /\ [SocketsNext]_svars => A
  <2> SUFFICES ASSUME Holders, [SocketsNext]_svars
               PROVE  A
    OBVIOUS
  <2>1. CASE UNCHANGED <<vars, lost>>
    BY <2>1 DEF vars, Leaked, Owned
  <2>2. CASE Next /\ ~ \E o, p \in Objects : MoveAssign(o, p)
    BY <2>2, StepKeepsReachable DEF Holders
  <2>3. ASSUME NEW o \in Objects, NEW p \in Objects, MoveAssign(o, p)
        PROVE  A
    BY <2>3, MoveAssignLeaks DEF Holders
  <2>4. ASSUME NEW c \in FDs, GiveUp(c)
        PROVE  A
    BY <2>4 DEF GiveUp, Leaked, Owned
  <2>5. CASE UNCHANGED svars
    BY <2>1, <2>5 DEF svars, kernel
  <2> QED
    BY <2>1, <2>2, <2>3, <2>4, <2>5, StepKinds
<1> QED
  BY <1>1, HoldersInvariant, PTL DEF SocketsSpec, LeaksOnlyByMoveAssignOrAccept

-----------------------------------------------------------------------------
(* Types.  The ones of unique_fd and of the lost descriptors are part of   *)
(* Holders; what is left is about the objects and the kernel's sockets.    *)

Calls == {"nodelay", "assigned_nodelay", "bind", "connect"}

\* bind and connect are called on the descriptor the constructor opened.
ObjectTypes ==
  /\ kind \in [Objects -> Kinds \cup {"none"}]
  /\ todo \in [Objects -> Seq(Calls)]
  /\ \A o \in Objects : kind[o] = "none" <=> o \notin Alive
  /\ \A o \in Objects : todo[o] # <<>> => kind[o] \in SocketKinds
  /\ \A o \in Objects :
       todo[o] # <<>> /\ Head(todo[o]) \in {"bind", "connect"} => fd[o] \in FDs

\* Messages whose sender is the one that was asked, if any was.
Exchanged == {m \in Messages : m.asked \in {NoName, m.from}}

Records ==
  {r \in [type : {"none", "file", "udp", "tcp"}, domain : Domains,
          state : {"new", "bound", "listening", "connected"},
          opts : SUBSET Options, queue : Seq(Exchanged)] :
     r.type \in {"udp", "tcp"} => r.domain # "none"}

KernelTypes ==
  /\ sock \in [FDs -> Records]
  /\ \A d \in FDs : sock[d].type = "none" <=> d \notin open

LEMMA TypesAreParts ==
  Holders /\ ObjectTypes /\ KernelTypes => SocketsTypeOK
<1>1. Seq(Exchanged) \subseteq Seq(Messages)
  BY DEF Exchanged
<1>2. Records \subseteq SocketStates
  BY <1>1 DEF Records, SocketStates
<1> QED
  BY <1>2
  DEF Holders, Inv, LostIsNobodys, SocketsTypeOK, ObjectTypes, KernelTypes, Calls

LEMMA FreshTypes ==
  /\ NoSocket \in Records /\ NoSocket.type = "none"
  /\ Fresh("file", "none") \in Records /\ Fresh("file", "none").type = "file"
  /\ \A t \in {"udp", "tcp"}, dom \in {"inet", "inet6"} :
       Fresh(t, dom) \in Records /\ Fresh(t, dom).type = t
<1>1. <<>> \in Seq(Exchanged)
  OBVIOUS
<1> QED
  BY <1>1 DEF Fresh, NoSocket, Records, Domains

LEMMA BodiesTypes ==
  \A k \in SocketKinds, dom \in {"inet", "inet6"} : Bodies(k, dom) \subseteq Seq(Calls)
<1> SUFFICES ASSUME NEW k \in SocketKinds, NEW dom \in {"inet", "inet6"}
             PROVE  Bodies(k, dom) \subseteq Seq(Calls)
  OBVIOUS
<1>1. /\ <<>> \in Seq(Calls) /\ <<"bind">> \in Seq(Calls)
      /\ <<"connect">> \in Seq(Calls) /\ <<"nodelay">> \in Seq(Calls)
  BY DEF Calls
<1>2. \A c \in Seq(Calls) : <<"nodelay">> \o c \in Seq(Calls)
  BY <1>1
<1> QED
  BY <1>1, <1>2 DEF Bodies

\* What the name in a sockaddr_in is to the kernel.
LEMMA NamesRoundTrip ==
  ASSUME NEW n \in Names
  PROVE  /\ NameIn(make_sockaddr(n)) = n
         /\ parse_sockaddr(SockaddrOf(n)) = n
<1>1. /\ n \in [addr : [1..4 -> 0..255], port : [1..2 -> 0..255]]
      /\ Len(n.addr) = 4 /\ Len(n.port) = 2
      /\ n.addr \in [1..4 -> 0..255] /\ n.port \in [1..2 -> 0..255]
  BY NamesAssumption DEF NamesAssumption
<1>2. ASSUME NEW k \in Nat, NEW v \in [1..k -> 0..255], Len(v) = k
      PROVE  Reverse(Reverse(v)) = v
  <2> DEFINE r == [i \in 1..k |-> v[(k - i) + 1]]
  <2>1. Reverse(v) = r
    BY <1>2 DEF Reverse
  <2>2. r \in Seq(0..255) /\ Len(r) = k
    OBVIOUS
  <2>3. Reverse(r) = [i \in 1..k |-> r[(k - i) + 1]]
    BY <2>2 DEF Reverse
  <2>4. \A i \in 1..k : r[(k - i) + 1] = v[i]
    OBVIOUS
  <2>5. Reverse(r) = v
    BY <2>3, <2>4
  <2> QED
    BY <2>1, <2>5
<1>3. Reverse(Reverse(n.addr)) = n.addr
  BY <1>1, <1>2
<1>4. Reverse(Reverse(n.port)) = n.port
  BY <1>1, <1>2
<1>5. n = [addr |-> n.addr, port |-> n.port]
  BY <1>1
<1> QED
  BY <1>3, <1>4, <1>5
  DEF NameIn, make_sockaddr, parse_sockaddr, SockaddrOf, Memory, htons, htonl, ntohs, ntohl

LEMMA InitTypes == SocketsInit => ObjectTypes /\ KernelTypes
<1>1. <<>> \in Seq(Calls)
  OBVIOUS
<1> QED
  BY <1>1, FreshTypes, DistinctAssumption
  DEF SocketsInit, Init, ObjectTypes, KernelTypes, NoSocket, Fresh, Alive, DistinctAssumption

\* What every step does to the kernel's sockets: the ones of descriptors
\* that stay open keep type and domain, and lose no option.
Kept ==
  /\ sock' \in [FDs -> Records]
  /\ \A e \in FDs \ open' : sock'[e].type = "none"
  /\ \A e \in open' \ open : sock'[e].type # "none"
  /\ \A e \in open \cap open' : /\ sock'[e].type = sock[e].type
                                /\ sock'[e].domain = sock[e].domain
                                /\ sock[e].opts \subseteq sock'[e].opts

LEMMA ForgetKeeps ==
  ASSUME KernelTypes, ForgetClosed, open' \subseteq open, open \subseteq FDs
  PROVE  Kept
  BY FreshTypes DEF KernelTypes, ForgetClosed, Kept

LEMMA UnchangedKeeps ==
  ASSUME KernelTypes, UNCHANGED <<sock, open>>, open \subseteq FDs
  PROVE  Kept
  BY DEF KernelTypes, Kept

\* A new record r for one open descriptor.
LEMMA UpdateKeeps ==
  ASSUME KernelTypes, open \subseteq FDs, UNCHANGED open,
         NEW d \in open, NEW r \in Records,
         r.type = sock[d].type, r.domain = sock[d].domain,
         sock[d].opts \subseteq r.opts,
         sock' = [sock EXCEPT ![d] = r]
  PROVE  Kept
  BY DEF KernelTypes, Kept

\* A record for a descriptor that the step opens.
LEMMA OpenKeeps ==
  ASSUME KernelTypes, open \subseteq FDs, NEW c \in FDs \ open, open' = open \cup {c},
         NEW r \in Records, r.type # "none", sock' = [sock EXCEPT ![c] = r]
  PROVE  Kept
  BY DEF KernelTypes, Kept

\* The socket an object owns is open.
LEMMA SdIsOpen ==
  ASSUME Holders, NEW o \in Objects, NEW ks, NEW d \in Sd(o, ks)
  PROVE  d \in open /\ d \in FDs /\ d = fd[o]
  BY DEF Holders, Inv, TypeOK, UniqueOwnership, Owned, Sd

LEMMA SetOptsKeeps ==
  ASSUME KernelTypes, open \subseteq FDs, UNCHANGED open,
         NEW d \in open, NEW opts \in SUBSET Options, SetOpts(d, opts)
  PROVE  Kept
<1> DEFINE r == [sock[d] EXCEPT !.opts = @ \cup opts]
<1>1. sock[d] \in Records
  BY DEF KernelTypes
<1>2. /\ r \in Records /\ r.type = sock[d].type /\ r.domain = sock[d].domain
      /\ sock[d].opts \subseteq r.opts
  BY <1>1 DEF Records
<1>3. sock' = [sock EXCEPT ![d] = r]
  BY DEF SetOpts
<1> HIDE DEF r
<1> QED
  BY <1>2, <1>3, UpdateKeeps

LEMMA SetStateKeeps ==
  ASSUME KernelTypes, open \subseteq FDs, UNCHANGED open,
         NEW d \in open, NEW opts \in SUBSET Options,
         NEW st \in {"new", "bound", "listening", "connected"},
         sock' = [sock EXCEPT ![d].opts = @ \cup opts, ![d].state = st]
  PROVE  Kept
<1> DEFINE r == [sock[d] EXCEPT !.opts = @ \cup opts, !.state = st]
<1>1. sock[d] \in Records /\ sock \in [FDs -> Records]
  BY DEF KernelTypes
<1>2. /\ r \in Records /\ r.type = sock[d].type /\ r.domain = sock[d].domain
      /\ sock[d].opts \subseteq r.opts
  BY <1>1 DEF Records
<1>3. sock' = [sock EXCEPT ![d] = r]
  BY <1>1 DEF Records
<1> HIDE DEF r
<1> QED
  BY <1>2, <1>3, UpdateKeeps

LEMMA SetQueueKeeps ==
  ASSUME KernelTypes, open \subseteq FDs, UNCHANGED open,
         NEW d \in open, NEW q \in Seq(Exchanged),
         sock' = [sock EXCEPT ![d].queue = q]
  PROVE  Kept
<1> DEFINE r == [sock[d] EXCEPT !.queue = q]
<1>1. sock[d] \in Records /\ sock \in [FDs -> Records]
  BY DEF KernelTypes
<1>2. /\ r \in Records /\ r.type = sock[d].type /\ r.domain = sock[d].domain
      /\ sock[d].opts \subseteq r.opts
  BY <1>1 DEF Records
<1>3. sock' = [sock EXCEPT ![d] = r]
  BY <1>1
<1> HIDE DEF r
<1> QED
  BY <1>2, <1>3, UpdateKeeps

\* accept4 takes a connection off the queue of d and opens c for it.
LEMMA Accept4Keeps ==
  ASSUME KernelTypes, open \subseteq FDs, NEW d \in open, NEW c \in FDs \ open,
         Accept4(d, c), open' = open \cup {c}
  PROVE  Kept
<1> DEFINE r == [sock[d] EXCEPT !.queue = Tail(@)]
<1>1. sock[d] \in Records /\ sock \in [FDs -> Records] /\ sock[d].queue \in Seq(Exchanged)
  BY DEF KernelTypes, Records
<1>2. Tail(sock[d].queue) \in Seq(Exchanged)
  BY <1>1 DEF Accept4
<1>3. r \in Records /\ r.type = sock[d].type /\ r.domain = sock[d].domain /\ r.opts = sock[d].opts
  BY <1>1, <1>2 DEF Records
<1>4. Connection(d) \in Records /\ Connection(d).type = "tcp"
  <2>1. <<>> \in Seq(Exchanged)
    OBVIOUS
  <2> QED
    BY <1>1, <2>1 DEF Connection, Fresh, Records, Accept4, IsTcp
<1>5. sock' = [sock EXCEPT ![d] = r, ![c] = Connection(d)]
  BY <1>1 DEF Accept4
<1> HIDE DEF r
<1> QED
  BY <1>1, <1>3, <1>4, <1>5 DEF KernelTypes, Kept

LEMMA KernelStep ==
  ASSUME Holders, ObjectTypes, KernelTypes, SocketsNext
  PROVE  Kept
<1>a. open \subseteq FDs
  BY DEF Holders, Inv, TypeOK
<1>b. /\ {} \in SUBSET Options /\ {"nodelay"} \in SUBSET Options
      /\ {"add_membership"} \in SUBSET Options
      /\ \A o \in Objects : OptionsOf(o) \subseteq SUBSET Options
  BY BoundsAssumption DEF Options, OptionsOf, BoundsAssumption
<1>c. \A d \in FDs : sock[d] \in Records
  BY DEF KernelTypes
<1>d. \A o \in Objects : fd[o] \in FDs => fd[o] \in open
  BY DEF Holders, Inv, UniqueOwnership, Owned
<1>e. \A d \in FDs : /\ sock[d].queue \in Seq(Exchanged)
                     /\ sock[d].queue # <<>> => Tail(sock[d].queue) \in Seq(Exchanged)
  BY <1>c DEF Records
<1>f. \A d \in FDs : sock[d] = [sock[d] EXCEPT !.opts = @ \cup {}]
  BY <1>c DEF Records
<1>1. ASSUME NEW d \in FDs, OpenFile(d)
      PROVE  Kept
  BY <1>1, <1>a, FreshTypes, OpenKeeps DEF OpenFile, Open
<1>2. ASSUME NEW d \in FDs, CloseFile(d)
      PROVE  Kept
  BY <1>2, <1>a, ForgetKeeps DEF CloseFile, CloseRaw
<1>3. ASSUME NEW d \in FDs, NEW n \in Names, PeerCalls(d, n)
      PROVE  Kept
  <2> DEFINE m == [from |-> n, asked |-> NoName]
  <2>1. d \in open
    BY <1>3 DEF PeerCalls, KernelTypes
  <2>2. m \in Exchanged
    BY DEF Exchanged, Messages
  <2>3. Append(sock[d].queue, m) \in Seq(Exchanged)
    BY <1>e, <2>2
  <2>4. sock' = [sock EXCEPT ![d].queue = Append(sock[d].queue, m)]
    BY <1>3 DEF PeerCalls
  <2>5. UNCHANGED open
    BY <1>3 DEF PeerCalls, vars
  <2> HIDE DEF m
  <2> QED
    BY <1>a, <1>c, <2>1, <2>3, <2>4, <2>5, SetQueueKeeps
<1>4. ASSUME NEW o \in Objects, ReleaseFd(o)
      PROVE  Kept
  BY <1>4, <1>a, UnchangedKeeps DEF ReleaseFd, Release, kernel
<1>5. ASSUME NEW o \in Objects, Close(o)
      PROVE  Kept
  BY <1>5, <1>a, ForgetKeeps DEF Close, Reset, CloseOld
<1>6. ASSUME NEW o \in Objects, DestroySocket(o)
      PROVE  Kept
  BY <1>6, <1>a, ForgetKeeps DEF DestroySocket, Destroy, CloseOld
<1>7. ASSUME NEW o \in Objects, BodyNodelay(o)
      PROVE  Kept
  BY <1>7, <1>a, <1>b, <1>d, SetOptsKeeps DEF BodyNodelay, IsTcp, vars
<1>8. ASSUME NEW d \in open, NEW opts \in SUBSET Options,
             BindTo(d, opts), UNCHANGED vars
      PROVE  Kept
  BY <1>8, <1>a, SetStateKeeps DEF BindTo, vars
<1>9. ASSUME NEW d \in open, NEW st \in {"bound", "listening", "connected"},
             sock' = [sock EXCEPT ![d].state = st], UNCHANGED vars
      PROVE  Kept
  <2>1. sock \in [FDs -> Records] /\ d \in FDs
    BY <1>a DEF KernelTypes
  <2>2. sock' = [sock EXCEPT ![d].opts = @ \cup {}, ![d].state = st]
    BY <1>9, <1>f, <2>1 DEF Records
  <2> QED
    BY <1>9, <1>a, <1>b, <2>2, SetStateKeeps DEF vars
<1>10. ASSUME NEW o \in Objects, BodyBind(o)
       PROVE  Kept
  BY <1>10, <1>8, <1>b, <1>d DEF BodyBind, ObjectTypes
<1>11. ASSUME NEW o \in Objects, BodyConnect(o)
       PROVE  Kept
  BY <1>11, <1>9, <1>d DEF BodyConnect, ConnectTo, ObjectTypes
<1>12. ASSUME NEW o \in Objects, ConstructorThrows(o)
       PROVE  Kept
  BY <1>12, <1>a, ForgetKeeps DEF ConstructorThrows, Destroy, CloseOld
<1>13. ASSUME NEW o \in Objects, AssignmentThrows(o)
       PROVE  Kept
  BY <1>13, <1>a, UnchangedKeeps DEF AssignmentThrows, kernel, vars
<1>14. ASSUME NEW o \in Objects, JoinGroup(o)
       PROVE  Kept
  BY <1>14, <1>a, <1>b, SdIsOpen, SetOptsKeeps DEF JoinGroup, vars
<1>15. ASSUME NEW o \in Objects, Listen(o)
       PROVE  Kept
  BY <1>15, <1>9, SdIsOpen DEF Listen
<1>16. ASSUME NEW o \in Objects, Recv(o) \/ RecvThrows(o)
       PROVE  Kept
  <2>1. PICK d \in Sd(o, {"udp"}) :
          /\ sock[d].queue # <<>>
          /\ sock' = [sock EXCEPT ![d].queue = Tail(sock[d].queue)]
    BY <1>16 DEF Recv, RecvThrows, Recvfrom
  <2>2. d \in open /\ d \in FDs
    BY SdIsOpen
  <2>3. UNCHANGED open
    BY <1>16 DEF Recv, RecvThrows, vars
  <2> QED
    BY <1>a, <1>e, <2>1, <2>2, <2>3, SetQueueKeeps
<1>17. ASSUME NEW o \in Objects, NEW k \in Kinds, DefaultConstruct(o, k)
       PROVE  Kept
  BY <1>17, <1>a, UnchangedKeeps DEF DefaultConstruct, Construct, kernel
<1>18. ASSUME NEW o \in Objects, NEW d \in FDs \cup {closed_fd}, ResetFd(o, d)
       PROVE  Kept
  BY <1>18, <1>a, ForgetKeeps DEF ResetFd, Reset, CloseOld
<1>19. ASSUME NEW o \in Objects, NEW c \in FDs, Accept(o, c)
       PROVE  Kept
  BY <1>19, <1>a, <1>c, SdIsOpen, Accept4Keeps DEF Accept, Open
<1>20. ASSUME NEW o \in Objects, NEW c \in FDs, AcceptThrows(o, c)
       PROVE  Kept
  BY <1>20, <1>a, SdIsOpen, Accept4Keeps DEF AcceptThrows
<1>21. ASSUME NEW o \in Objects, NEW d \in FDs, NEW k \in {"unique_fd", "tcp"},
              Adopt(o, k, d)
       PROVE  Kept
  BY <1>21, <1>a, UnchangedKeeps DEF Adopt, Construct, kernel
<1>22. ASSUME NEW o \in Objects, NEW d \in FDs, NEW k \in SocketKinds,
              NEW domain \in {"inet", "inet6"}, NewSocket(o, k, domain, d)
       PROVE  Kept
  <2>1. TypeOf(k) \in {"udp", "tcp"}
    BY DEF TypeOf
  <2> QED
    BY <1>22, <1>a, <2>1, FreshTypes, OpenKeeps DEF NewSocket, ConstructOpened
<1>23. ASSUME NEW o \in Objects, NEW opts \in OptionsOf(o), Bind(o, opts)
       PROVE  Kept
  BY <1>23, <1>8, <1>b, SdIsOpen DEF Bind
<1>24. ASSUME NEW o \in Objects, NEW opts \in OptionsOf(o), BindFails(o, opts)
       PROVE  Kept
  BY <1>24, <1>a, <1>b, SdIsOpen, SetOptsKeeps DEF BindFails, vars
<1>25. ASSUME NEW o \in Objects, NEW n \in Names, Connect(o, n)
       PROVE  Kept
  BY <1>25, <1>9, SdIsOpen DEF Connect, ConnectTo
<1>26. ASSUME NEW o \in Objects, NEW n \in Names, Send(o, n)
       PROVE  Kept
  <2> DEFINE m == [from |-> n, asked |-> n]
             bound(d) == [sock[d] EXCEPT !.state = "bound"]
             filled(d) == [bound(d) EXCEPT !.queue = Append(@, m)]
  <2>1. PICK d \in Sd(o, {"udp"}) :
          \/ sock' = [sock EXCEPT ![d] = bound(d)]
          \/ sock' = [sock EXCEPT ![d] = filled(d)]
    BY <1>26, NamesRoundTrip DEF Send, Sendto
  <2>2. d \in open /\ d \in FDs
    BY SdIsOpen
  <2>3. sock[d] \in Records /\ Append(sock[d].queue, m) \in Seq(Exchanged)
    BY <1>c, <1>e, <2>2 DEF Exchanged, Messages
  <2>4. bound(d) \in Records /\ filled(d) \in Records
    BY <2>3 DEF Records
  <2>5. /\ bound(d).type = sock[d].type /\ bound(d).domain = sock[d].domain
        /\ bound(d).opts = sock[d].opts
        /\ filled(d).type = sock[d].type /\ filled(d).domain = sock[d].domain
        /\ filled(d).opts = sock[d].opts
    BY <2>3 DEF Records
  <2>6. UNCHANGED open
    BY <1>26 DEF Send, vars
  <2> HIDE DEF bound, filled
  <2> QED
    BY <1>a, <1>c, <2>1, <2>2, <2>4, <2>5, <2>6, UpdateKeeps
<1>27. ASSUME NEW o \in Objects, NEW p \in Objects,
              \/ MoveConstructSocket(o, p) \/ MoveAssignSocket(o, p) \/ SwapSockets(o, p)
              \/ FromTcp(o, p) \/ AssignTcp(o, p)
       PROVE  Kept
  BY <1>27, <1>a, UnchangedKeeps
  DEF MoveConstructSocket, MoveAssignSocket, SwapSockets, FromTcp, AssignTcp,
      MoveConstruct, MoveAssign, Swap, kernel
<1>28. ASSUME NEW o \in Objects, Shutdown(o)
       PROVE  Kept
  <2>1. PICK d \in Sd(o, TcpKinds), state \in {"new", "bound"} :
          sock' = [sock EXCEPT ![d].state = state, ![d].queue = <<>>]
    BY <1>28 DEF Shutdown
  <2> DEFINE r == [sock[d] EXCEPT !.state = state, !.queue = <<>>]
  <2>2. d \in open /\ d \in FDs
    BY SdIsOpen
  <2>3. sock[d] \in Records /\ sock \in [FDs -> Records] /\ <<>> \in Seq(Exchanged)
    BY <2>2 DEF KernelTypes
  <2>4. /\ r \in Records /\ r.type = sock[d].type /\ r.domain = sock[d].domain
        /\ sock[d].opts \subseteq r.opts
    BY <2>3 DEF Records
  <2>5. sock' = [sock EXCEPT ![d] = r]
    BY <2>1, <2>2, <2>3 DEF Records
  <2>6. UNCHANGED open
    BY <1>28 DEF Shutdown, vars
  <2> HIDE DEF r
  <2> QED
    BY <1>a, <2>2, <2>4, <2>5, <2>6, UpdateKeeps
<1> QED
  BY <1>1, <1>2, <1>3, <1>4, <1>5, <1>6, <1>7, <1>10, <1>11, <1>12, <1>13, <1>14,
     <1>15, <1>16, <1>17, <1>18, <1>19, <1>20, <1>21, <1>22, <1>23, <1>24, <1>25,
     <1>26, <1>27, <1>28
  DEF SocketsNext

\* One operation at a time: only constructors, assignments and destructors
\* change the class of an object or what it has yet to call.
LEMMA ObjectStep ==
  ASSUME Holders, ObjectTypes, SocketsNext
  PROVE  ObjectTypes'
<1> USE DistinctAssumption
    DEF ObjectTypes, Alive, SetKind, SetTodo, DistinctAssumption
<1>a. fd \in [Objects -> FDs \cup {closed_fd, NotAlive}]
  BY DEF Holders, Inv, TypeOK
<1>b. \A o \in Objects : todo[o] # <<>> => Tail(todo[o]) \in Seq(Calls)
  OBVIOUS
<1>c. <<>> \in Seq(Calls)
  OBVIOUS
<1>1. ASSUME UNCHANGED <<fd, kind, todo>>
      PROVE  ObjectTypes'
  BY <1>1
<1>2. ASSUME NEW d \in FDs, OpenFile(d) \/ CloseFile(d) \/ \E n \in Names : PeerCalls(d, n)
      PROVE  ObjectTypes'
  BY <1>1, <1>2 DEF OpenFile, CloseFile, PeerCalls, Open, CloseRaw, vars
<1>3. ASSUME NEW o \in Objects, ReleaseFd(o)
      PROVE  ObjectTypes'
  BY <1>3, <1>a DEF ReleaseFd, Release, SocketKinds, Kinds
<1>4. ASSUME NEW o \in Objects, Close(o)
      PROVE  ObjectTypes'
  BY <1>4, <1>a DEF Close, Reset, Idle
<1>5. ASSUME NEW o \in Objects, DestroySocket(o)
      PROVE  ObjectTypes'
  BY <1>5, <1>a DEF DestroySocket, Destroy, Idle
<1>6. ASSUME NEW o \in Objects, BodyNodelay(o) \/ BodyBind(o) \/ BodyConnect(o)
      PROVE  ObjectTypes'
  <2>1. todo' = [todo EXCEPT ![o] = Tail(todo[o])] /\ todo[o] # <<>>
    BY <1>6 DEF BodyNodelay, BodyBind, BodyConnect
  <2>2. fd[o] \in FDs
    BY <1>6 DEF BodyNodelay, BodyBind, BodyConnect, IsTcp
  <2>3. UNCHANGED <<fd, kind>>
    BY <1>6 DEF BodyNodelay, BodyBind, BodyConnect, vars
  <2> QED
    BY <1>b, <2>1, <2>2, <2>3
<1>7. ASSUME NEW o \in Objects, ConstructorThrows(o)
      PROVE  ObjectTypes'
  BY <1>7, <1>a, <1>c DEF ConstructorThrows, Destroy
<1>8. ASSUME NEW o \in Objects, AssignmentThrows(o)
      PROVE  ObjectTypes'
  BY <1>8, <1>c DEF AssignmentThrows, vars
<1>9. ASSUME NEW o \in Objects,
             JoinGroup(o) \/ Listen(o) \/ Shutdown(o) \/ Recv(o) \/ RecvThrows(o)
      PROVE  ObjectTypes'
  BY <1>1, <1>9 DEF JoinGroup, Listen, Shutdown, Recv, RecvThrows, vars
<1>10. ASSUME NEW o \in Objects, NEW k \in Kinds, DefaultConstruct(o, k)
       PROVE  ObjectTypes'
  BY <1>10, <1>a DEF DefaultConstruct, Construct, SocketKinds, Kinds
<1>11. ASSUME NEW o \in Objects, NEW d \in FDs \cup {closed_fd}, ResetFd(o, d)
       PROVE  ObjectTypes'
  BY <1>11, <1>a DEF ResetFd, Reset, SocketKinds, Kinds
<1>12. ASSUME NEW o \in Objects, NEW c \in FDs, Accept(o, c) \/ AcceptThrows(o, c)
       PROVE  ObjectTypes'
  BY <1>1, <1>12 DEF Accept, AcceptThrows, Open
<1>13. ASSUME NEW o \in Objects, NEW d \in FDs, NEW k \in {"unique_fd", "tcp"},
              Adopt(o, k, d)
       PROVE  ObjectTypes'
  BY <1>13, <1>a DEF Adopt, Construct, SocketKinds, Kinds
<1>14. ASSUME NEW o \in Objects, NEW d \in FDs, NEW k \in SocketKinds,
              NEW domain \in {"inet", "inet6"}, NewSocket(o, k, domain, d)
       PROVE  ObjectTypes'
  <2>1. PICK body \in Seq(Calls) : todo' = [todo EXCEPT ![o] = body]
    BY <1>14, BodiesTypes DEF NewSocket
  <2>2. k \in Kinds /\ k # "none"
    BY DEF SocketKinds, Kinds
  <2> QED
    BY <1>14, <1>a, <2>1, <2>2 DEF NewSocket, ConstructOpened
<1>15. ASSUME NEW o \in Objects, NEW opts \in OptionsOf(o), Bind(o, opts) \/ BindFails(o, opts)
       PROVE  ObjectTypes'
  BY <1>1, <1>15 DEF Bind, BindFails, vars
<1>16. ASSUME NEW o \in Objects, NEW n \in Names, Connect(o, n) \/ Send(o, n)
       PROVE  ObjectTypes'
  BY <1>1, <1>16 DEF Connect, Send, vars
<1>17. ASSUME NEW o \in Objects, NEW p \in Objects, MoveConstructSocket(o, p)
       PROVE  ObjectTypes'
  BY <1>17, <1>a DEF MoveConstructSocket, MoveConstruct, Idle, SocketKinds, Kinds
<1>18. ASSUME NEW o \in Objects, NEW p \in Objects, MoveAssignSocket(o, p) \/ SwapSockets(o, p)
       PROVE  ObjectTypes'
  BY <1>18, <1>a DEF MoveAssignSocket, MoveAssign, SwapSockets, Swap, Idle
<1>19. <<"nodelay">> \in Seq(Calls) /\ <<"assigned_nodelay">> \in Seq(Calls)
  BY DEF Calls
<1>20. ASSUME NEW o \in Objects, NEW p \in Objects, FromTcp(o, p)
       PROVE  ObjectTypes'
  BY <1>20, <1>19, <1>a DEF FromTcp, MoveConstruct, Idle, SocketKinds, Kinds
<1>21. ASSUME NEW o \in Objects, NEW p \in Objects, AssignTcp(o, p)
       PROVE  ObjectTypes'
  BY <1>21, <1>19, <1>a DEF AssignTcp, MoveAssign, Idle, SocketKinds, Kinds
<1> QED
  BY <1>2, <1>3, <1>4, <1>5, <1>6, <1>7, <1>8, <1>9, <1>10, <1>11, <1>12, <1>13, <1>14,
     <1>15, <1>16, <1>17, <1>18, <1>20, <1>21
  DEF SocketsNext

Types == Holders /\ ObjectTypes /\ KernelTypes

LEMMA StepTypes == Types /\ [SocketsNext]_svars => Types'
<1> SUFFICES ASSUME Types, [SocketsNext]_svars
             PROVE  Types'
  OBVIOUS
<1>1. Holders'
  BY StepHolders DEF Types
<1>2. CASE SocketsNext
  <2>1. ObjectTypes'
    BY <1>2, ObjectStep DEF Types
  <2>2. KernelTypes'
    <3>1. Kept /\ open' \subseteq FDs
      BY <1>1, <1>2, KernelStep DEF Types, Holders, Inv, TypeOK
    <3> QED
      BY <3>1 DEF Types, KernelTypes, Kept, Holders, Inv, TypeOK
  <2> QED
    BY <1>1, <2>1, <2>2 DEF Types
<1>3. CASE UNCHANGED svars
  BY <1>1, <1>3
  DEF svars, vars, kernel, Types, ObjectTypes, KernelTypes, Alive
<1> QED
  BY <1>2, <1>3

LEMMA TypesInvariant == SocketsSpec => []Types
<1>1. SocketsInit => Types
  BY InitHolders, InitTypes DEF Types
<1> QED
  BY <1>1, StepTypes, PTL DEF SocketsSpec

\* The objects' classes and outstanding calls and the kernel's sockets keep
\* their types, and agree with the descriptors that are owned and open.
THEOREM SocketsTypeCorrect == SocketsSpec => []SocketsTypeOK
<1>1. Types => SocketsTypeOK
  BY TypesAreParts DEF Types
<1> QED
  BY <1>1, TypesInvariant, PTL

-----------------------------------------------------------------------------
(* Messages and options.                                                   *)

\* A name whose length passes the comparison of accept and recv is a whole
\* IPv4 name, reported so that it leads back to the peer, and an answer under
\* the name asked.
THEOREM NamesAreRight == SocketsSpec => []NamesLeadBack
<1>1. Types => NamesLeadBack
  <2> SUFFICES ASSUME Types, NEW d \in FDs, NameFits(d), NEW i \in 1..Len(sock[d].queue)
               PROVE  LET m        == sock[d].queue[i]
                          reported == parse_sockaddr(Written(d, m.from))
                      IN  /\ NameIn(make_sockaddr(reported)) = m.from
                          /\ m.asked \in {NoName, reported}
    BY DEF NamesLeadBack
  <2> DEFINE m == sock[d].queue[i]
  <2>1. sock[d].queue \in Seq(Exchanged)
    BY DEF Types, KernelTypes, Records
  <2>2. m \in Exchanged
    BY <2>1
  <2>3. m.from \in Names /\ m.asked \in {NoName, m.from}
    BY <2>2 DEF Exchanged, Messages
  <2>4. sock[d].domain = "inet"
    BY DEF NameFits, NameLength, SizeofSockaddrIn, SizeofSockaddrIn6
  <2> HIDE DEF m
  <2>5. Written(d, m.from) = SockaddrOf(m.from)
    BY <2>4 DEF Written
  <2>6. parse_sockaddr(SockaddrOf(m.from)) = m.from /\ NameIn(make_sockaddr(m.from)) = m.from
    BY <2>3, NamesRoundTrip
  <2> QED
    BY <2>3, <2>5, <2>6 DEF m
<1> QED
  BY <1>1, TypesInvariant, PTL

\* A tcp_datagram_socket that is past setting the option; it may still have
\* to bind or connect.
Settled(o) ==
  /\ kind[o] = "tcp_datagram"
  /\ todo[o] = <<>> \/ Head(todo[o]) \in {"bind", "connect"}

SettledHaveNodelay ==
  \A o \in Objects : Settled(o) /\ IsTcp(fd[o]) => "nodelay" \in sock[fd[o]].opts

LEMMA BodiesSetNodelay ==
  ASSUME NEW domain, NEW body \in Bodies("tcp_datagram", domain)
  PROVE  body # <<>> /\ Head(body) = "nodelay"
<1>1. PICK c \in {<<>>, <<"bind">>, <<"connect">>} : body = <<"nodelay">> \o c
  BY DEF Bodies
<1> QED
  BY <1>1

\* What a settled object owns, a settled object owned before, unless the
\* step has just set the option.
LEMMA SettledStep ==
  ASSUME Types, SocketsNext, NEW q \in Objects, Settled(q)', IsTcp(fd[q])', ~ BodyNodelay(q)
  PROVE  \E p \in Objects : Settled(p) /\ fd[p] = fd'[q]
<1> USE DistinctAssumption
    DEF Settled, Alive, SetKind, SetTodo, DistinctAssumption
<1> DEFINE G == \E p \in Objects : Settled(p) /\ fd[p] = fd'[q]
<1>a. /\ fd \in [Objects -> FDs \cup {closed_fd, NotAlive}]
      /\ kind \in [Objects -> Kinds \cup {"none"}]
      /\ todo \in [Objects -> Seq(Calls)]
  BY DEF Types, ObjectTypes, Holders, Inv, TypeOK
<1>b. fd'[q] \in FDs
  BY DEF IsTcp
<1>1. ASSUME fd'[q] = fd[q], kind'[q] = kind[q], todo'[q] = todo[q]
      PROVE  G
  BY <1>1
<1>2. ASSUME NEW d \in FDs, OpenFile(d) \/ CloseFile(d) \/ \E n \in Names : PeerCalls(d, n)
      PROVE  G
  BY <1>1, <1>2 DEF OpenFile, CloseFile, PeerCalls, Open, CloseRaw, vars
<1>3. ASSUME NEW o \in Objects, ReleaseFd(o)
      PROVE  G
  BY <1>1, <1>3, <1>a, <1>b DEF ReleaseFd, Release
<1>4. ASSUME NEW o \in Objects, Close(o)
      PROVE  G
  BY <1>1, <1>4, <1>a, <1>b DEF Close, Reset
<1>5. ASSUME NEW o \in Objects, DestroySocket(o)
      PROVE  G
  BY <1>1, <1>5, <1>a, <1>b DEF DestroySocket, Destroy
<1>6. ASSUME NEW o \in Objects, BodyNodelay(o)
      PROVE  G
  BY <1>1, <1>6, <1>a, <1>b DEF BodyNodelay, vars
<1>7. ASSUME NEW o \in Objects, BodyBind(o) \/ BodyConnect(o)
      PROVE  G
  BY <1>1, <1>7, <1>a, <1>b DEF BodyBind, BodyConnect, vars
<1>8. ASSUME NEW o \in Objects, ConstructorThrows(o)
      PROVE  G
  BY <1>1, <1>8, <1>a, <1>b DEF ConstructorThrows, Destroy
<1>9. ASSUME NEW o \in Objects,
             JoinGroup(o) \/ Listen(o) \/ Shutdown(o) \/ Recv(o) \/ RecvThrows(o)
      PROVE  G
  BY <1>1, <1>9 DEF JoinGroup, Listen, Shutdown, Recv, RecvThrows, vars
<1>10. ASSUME NEW o \in Objects, NEW k \in Kinds, DefaultConstruct(o, k)
       PROVE  G
  BY <1>1, <1>10, <1>a, <1>b DEF DefaultConstruct, Construct
<1>11. ASSUME NEW o \in Objects, NEW d \in FDs \cup {closed_fd}, ResetFd(o, d)
       PROVE  G
  BY <1>1, <1>11, <1>a, <1>b DEF ResetFd, Reset
<1>12. ASSUME NEW o \in Objects, NEW c \in FDs, Accept(o, c) \/ AcceptThrows(o, c)
       PROVE  G
  BY <1>1, <1>12 DEF Accept, AcceptThrows, Open
<1>13. ASSUME NEW o \in Objects, NEW d \in FDs, NEW k \in {"unique_fd", "tcp"},
              Adopt(o, k, d)
       PROVE  G
  BY <1>1, <1>13, <1>a, <1>b DEF Adopt, Construct
<1>14. ASSUME NEW o \in Objects, NEW d \in FDs, NEW k \in SocketKinds,
              NEW domain \in {"inet", "inet6"}, NewSocket(o, k, domain, d)
       PROVE  G
  <2>1. PICK body \in Bodies(k, domain) : todo' = [todo EXCEPT ![o] = body]
    BY <1>14 DEF NewSocket
  <2>2. k = "tcp_datagram" => body # <<>> /\ Head(body) = "nodelay"
    BY BodiesSetNodelay
  <2>3. o # q
    BY <1>14, <1>a, <2>1, <2>2 DEF NewSocket
  <2> QED
    BY <1>1, <1>14, <1>a, <2>1, <2>3 DEF NewSocket, ConstructOpened
<1>15. ASSUME NEW o \in Objects, NEW opts \in OptionsOf(o), Bind(o, opts) \/ BindFails(o, opts)
       PROVE  G
  BY <1>1, <1>15 DEF Bind, BindFails, vars
<1>16. ASSUME NEW o \in Objects, NEW n \in Names, Connect(o, n) \/ Send(o, n)
       PROVE  G
  BY <1>1, <1>16 DEF Connect, Send, vars
<1>17. ASSUME NEW o \in Objects, NEW p \in Objects, MoveConstructSocket(o, p)
       PROVE  G
  BY <1>1, <1>17, <1>a, <1>b DEF MoveConstructSocket, MoveConstruct, Idle
<1>18. ASSUME NEW o \in Objects, NEW p \in Objects, MoveAssignSocket(o, p)
       PROVE  G
  BY <1>1, <1>18, <1>a, <1>b DEF MoveAssignSocket, MoveAssign, Idle
<1>19. ASSUME NEW o \in Objects, NEW p \in Objects, SwapSockets(o, p)
       PROVE  G
  BY <1>1, <1>19, <1>a, <1>b DEF SwapSockets, Swap, Idle
<1>20. ASSUME NEW o \in Objects, NEW p \in Objects, FromTcp(o, p) \/ AssignTcp(o, p)
       PROVE  G
  <2>1. /\ <<"nodelay">> # <<>> /\ Head(<<"nodelay">>) = "nodelay"
        /\ <<"assigned_nodelay">> # <<>> /\ Head(<<"assigned_nodelay">>) = "assigned_nodelay"
    OBVIOUS
  <2>2. o # q
    BY <1>20, <1>a, <2>1 DEF FromTcp, AssignTcp
  <2> QED
    BY <1>1, <1>20, <1>a, <2>2 DEF FromTcp, AssignTcp, MoveConstruct, MoveAssign
<1>21. ASSUME NEW o \in Objects, AssignmentThrows(o)
       PROVE  G
  BY <1>1, <1>21, <1>a DEF AssignmentThrows, CallFails, IsTcp, vars, kernel
<1> QED
  BY <1>2, <1>3, <1>4, <1>5, <1>6, <1>7, <1>8, <1>9, <1>10, <1>11, <1>12, <1>13, <1>14,
     <1>15, <1>16, <1>17, <1>18, <1>19, <1>20, <1>21
  DEF SocketsNext

\* However a tcp_datagram_socket came to hold a TCP socket, once its
\* constructor or assignment has ended the option is set on it.
THEOREM DatagramSocketsHaveNodelay == SocketsSpec => []NodelayIsSet
<1>1. SocketsInit => SettledHaveNodelay
  BY DEF SocketsInit, SettledHaveNodelay, Settled
<1>2. Types /\ Types' /\ SettledHaveNodelay /\ [SocketsNext]_svars => SettledHaveNodelay'
  <2>1. ASSUME SettledHaveNodelay, UNCHANGED svars
        PROVE  SettledHaveNodelay'
    BY <2>1 DEF svars, vars, kernel, SettledHaveNodelay, Settled, IsTcp
  <2>2. ASSUME Types, Types', SettledHaveNodelay, SocketsNext,
               NEW q \in Objects, Settled(q)', IsTcp(fd[q])'
        PROVE  "nodelay" \in sock'[fd'[q]].opts
    <3>1. CASE BodyNodelay(q)
      BY <2>2, <3>1 DEF BodyNodelay, SetOpts, IsTcp, vars, Types, KernelTypes, Records
    <3>2. CASE ~ BodyNodelay(q)
      <4>1. PICK p \in Objects : Settled(p) /\ fd[p] = fd'[q]
        BY <2>2, <3>2, SettledStep
      <4>2. fd[p] \in FDs /\ fd[p] \in open
        BY <2>2, <4>1 DEF IsTcp, Types, Holders, Inv, UniqueOwnership, Owned
      <4>3. fd[p] \in open'
        BY <2>2, <4>1, <4>2 DEF IsTcp, Types, KernelTypes
      <4>4. sock'[fd[p]].type = sock[fd[p]].type /\ sock[fd[p]].opts \subseteq sock'[fd[p]].opts
        BY <2>2, <4>2, <4>3, KernelStep DEF Types, Kept
      <4> QED
        BY <2>2, <4>1, <4>2, <4>4 DEF SettledHaveNodelay, IsTcp
    <3> QED
      BY <3>1, <3>2
  <2>3. ASSUME Types, Types', SettledHaveNodelay, SocketsNext
        PROVE  SettledHaveNodelay'
    BY <2>2, <2>3 DEF SettledHaveNodelay
  <2> QED
    BY <2>1, <2>3
<1>3. SettledHaveNodelay => NodelayIsSet
  BY DEF SettledHaveNodelay, Settled, NodelayIsSet
<1> QED
  BY <1>1, <1>2, <1>3, TypesInvariant, PTL DEF SocketsSpec
==============================================================================
