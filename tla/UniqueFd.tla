------------------------------ MODULE UniqueFd ------------------------------
(***************************************************************************)
(* Ownership of descriptors by linuxpp::unique_fd                          *)
(* (src/include/liblinuxpp/unique_fd.hpp), whose member is an              *)
(* int_descriptor (int_descriptor.hpp) and whose default closer calls      *)
(* close.  A descriptor number is held by a unique_fd, or by a caller as a *)
(* plain int (it was just opened, or released); callers hand only          *)
(* descriptors they hold to a unique_fd.  The kernel reuses numbers.       *)
(***************************************************************************)
EXTENDS Naturals

CONSTANTS
  Objects,      \* places where a unique_fd may live
  FDs,          \* descriptor numbers
  closed_fd,    \* linuxpp::closed_fd, the invalid value
  NotAlive      \* a place that holds no object

ASSUME DistinctAssumption ==
  /\ closed_fd \notin FDs
  /\ NotAlive \notin FDs \cup {closed_fd}

VARIABLES
  fd,           \* place -> the member of the unique_fd that lives there
  open,         \* open descriptors of the process
  raw           \* descriptors a caller holds as an int

vars == <<fd, open, raw>>

Alive == {o \in Objects : fd[o] # NotAlive}

Init ==
  /\ fd = [o \in Objects |-> NotAlive]
  /\ open = {}
  /\ raw = {}

-----------------------------------------------------------------------------
(* The kernel, as callers use it.                                          *)

Open(d) ==
  /\ d \in FDs \ open
  /\ open' = open \cup {d}
  /\ raw' = raw \cup {d}
  /\ UNCHANGED fd

CloseRaw(d) ==
  /\ d \in raw
  /\ open' = open \ {d}
  /\ raw' = raw \ {d}
  /\ UNCHANGED fd

-----------------------------------------------------------------------------
(* The member functions.                                                   *)

\* unique_fd() and unique_fd(fd); the latter takes over what the caller holds.
Construct(o, d) ==
  /\ fd[o] = NotAlive
  /\ d \in raw \cup {closed_fd}
  /\ fd' = [fd EXCEPT ![o] = d]
  /\ raw' = raw \ {d}
  /\ UNCHANGED open

\* A unique_fd around the call that opens the descriptor: no caller ever
\* holds it as an int.
ConstructOpened(o, d) ==
  /\ fd[o] = NotAlive
  /\ d \in FDs \ open
  /\ fd' = [fd EXCEPT ![o] = d]
  /\ open' = open \cup {d}
  /\ UNCHANGED raw

\* Mutant: the source keeps its descriptor.
MoveConstruct_KeepsSource(o, src) ==
  /\ fd[o] = NotAlive
  /\ src \in Alive
  /\ fd' = [fd EXCEPT ![o] = fd[src]]
  /\ UNCHANGED <<open, raw>>

MoveConstruct(o, src) ==
  /\ fd[o] = NotAlive
  /\ src \in Alive
  /\ fd' = [fd EXCEPT ![o] = fd[src], ![src] = closed_fd]
  /\ UNCHANGED <<open, raw>>

\* The defaulted assignment assigns the members: what the target owned is
\* overwritten, and a self-assignment leaves the invalid value.
MoveAssign(o, src) ==
  /\ o \in Alive /\ src \in Alive
  /\ fd' = [fd EXCEPT ![o] = fd[src], ![src] = closed_fd]
  /\ UNCHANGED <<open, raw>>

Swap(o, p) ==
  /\ o \in Alive /\ p \in Alive
  /\ fd' = [fd EXCEPT ![o] = fd[p], ![p] = fd[o]]
  /\ UNCHANGED <<open, raw>>

\* Mutant: the invalid value is handed out like a descriptor.
Release_Unchecked(o) ==
  /\ o \in Alive
  /\ fd' = [fd EXCEPT ![o] = closed_fd]
  /\ raw' = raw \cup {fd[o]}
  /\ UNCHANGED open

Release(o) ==
  /\ o \in Alive
  /\ fd' = [fd EXCEPT ![o] = closed_fd]
  /\ raw' = raw \cup ({fd[o]} \ {closed_fd})
  /\ UNCHANGED open

\* The closer is called on the old value, unless that was the invalid value
\* (which is no member of open).
CloseOld(o) == open' = open \ {fd[o]}

Reset(o, d) ==
  /\ o \in Alive
  /\ d \in raw \cup {closed_fd}
  /\ fd' = [fd EXCEPT ![o] = d]
  /\ CloseOld(o)
  /\ raw' = raw \ {d}

\* The destructor resets to the invalid value.
Destroy(o) ==
  /\ o \in Alive
  /\ fd' = [fd EXCEPT ![o] = NotAlive]
  /\ CloseOld(o)
  /\ UNCHANGED raw

-----------------------------------------------------------------------------

Next ==
  \/ \E d \in FDs : Open(d) \/ CloseRaw(d)
  \/ \E o \in Objects :
       \/ Release(o) \/ Destroy(o)
       \/ \E d \in FDs \cup {closed_fd} : Construct(o, d) \/ Reset(o, d)
       \/ \E d \in FDs : ConstructOpened(o, d)
       \/ \E p \in Objects : MoveConstruct(o, p) \/ MoveAssign(o, p) \/ Swap(o, p)

Spec == Init /\ [][Next]_vars

-----------------------------------------------------------------------------
(* Properties.                                                             *)

\* Every variable has its type.
TypeOK ==
  /\ fd \in [Objects -> FDs \cup {closed_fd, NotAlive}]
  /\ open \subseteq FDs
  /\ raw \subseteq FDs

Owned == {fd[o] : o \in Objects} \cap FDs

\* A descriptor has one owner: no two unique_fd hold the same number, and
\* none holds a number that a caller holds too, through any sequence of
\* moves, swaps, releases and resets.  What is owned is open: nothing is
\* closed twice, or closed while another holds it, although numbers are
\* reused as soon as they are closed.
UniqueOwnership ==
  /\ \A o, p \in Objects : fd[o] \in FDs /\ fd[o] = fd[p] => o = p
  /\ Owned \cap raw = {}
  /\ Owned \cup raw \subseteq open

\* Open descriptors that nobody can close any more.
Leaked == open \ (Owned \cup raw)

\* Move assignment is the one operation that leaks.
LeaksOnlyByMoveAssign ==
  [][~ (Leaked' \subseteq Leaked)
       => \E o, p \in Objects : MoveAssign(o, p)]_vars
=============================================================================
