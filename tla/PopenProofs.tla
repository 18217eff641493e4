---------------------------- MODULE PopenProofs ----------------------------
(***************************************************************************)
(* Theorems about Popen, for any number of threads, any descriptors and    *)
(* any requests that give a parent's end away once (RequestsAssumption).   *)
(***************************************************************************)
EXTENDS Popen, TLAPS, WellFoundedInduction

-----------------------------------------------------------------------------
(* Types.                                                                  *)

\* The initial values of a child and of an object have their types.
LEMMA InitialValues == NoChild \in Children /\ NoStatus \in Statuses /\ Empty \in PopenObjects
BY PopenAssumption
   DEF NoChild, Children, Entries, Masks, Hows, Empty, PopenObjects, NoStatus, Statuses

\* What a move leaves behind holds no pid and no stream.
LEMMA MovedFromHoldsNothing ==
  ASSUME popen \in [Threads -> PopenObjects], NEW o \in Threads, NEW p \in Threads
  PROVE  /\ MovedFrom(o, p) \in PopenObjects
         /\ MovedFrom(o, p).pid = invalid_pid
         /\ \A i \in Std : MovedFrom(o, p).stream[i] = closed_fd
<1> DEFINE s == IF o = p THEN popen[o].status ELSE NoStatus
<1>1. s \in Statuses
  BY InitialValues DEF PopenObjects
<1> HIDE DEF s
<1>2. Empty \in PopenObjects /\ Empty.pid = invalid_pid /\ \A i \in Std : Empty.stream[i] = closed_fd
  BY InitialValues DEF Empty
<1>3. [Empty EXCEPT !.status = s] = [pid |-> Empty.pid, stream |-> Empty.stream, status |-> s]
  BY DEF Empty
<1>4. MovedFrom(o, p) = [pid |-> Empty.pid, stream |-> Empty.stream, status |-> s]
  BY <1>3 DEF MovedFrom, s
<1> QED
  BY <1>1, <1>2, <1>4 DEF PopenObjects

\* A child that dies keeps its type and leaves the others alone.
LEMMA DiesTypes ==
  ASSUME child \in [Threads -> Children], NEW t \in Threads,
         NEW status \in {"0", "errno"}, NEW how \in Hows, Dies(t, status, how)
  PROVE  /\ child' \in [Threads -> Children]
         /\ child'[t].state = "zombie"
         /\ \A u \in Threads : u # t => child'[u] = child[u]
<1> DEFINE c == [NoChild EXCEPT !.state = "zombie", !.status = status, !.how = how]
<1>1. c \in Children /\ c.state = "zombie"
  BY InitialValues DEF Children
<1> QED
  BY <1>1 DEF Dies

\* So does one that is reaped.
LEMMA ReapTypes ==
  ASSUME child \in [Threads -> Children], NEW t \in Threads, Reap(t)
  PROVE  /\ child' \in [Threads -> Children]
         /\ child'[t].state = "reaped"
         /\ \A u \in Threads : u # t => child'[u] = child[u]
<1> DEFINE c == [NoChild EXCEPT !.state = "reaped"]
<1>1. c \in Children /\ c.state = "reaped"
  BY InitialValues DEF Children
<1> QED
  BY <1>1 DEF Reap

\* A non-empty set of numbers has a least one.
LEMMA LeastNumber ==
  ASSUME NEW S, S \subseteq Nat, S # {}
  PROVE  \E f \in S : \A g \in S : f <= g
<1>1. \E f \in S : \A g \in S : ~ (<<g, f>> \in OpToRel(<, Nat))
  BY NatLessThanWellFounded, WFMin
<1>2. \A f, g \in Nat : ~ (<<g, f>> \in OpToRel(<, Nat)) => f <= g
  BY DEF OpToRel
<1> QED
  BY <1>1, <1>2

\* The lowest of a set of descriptors is one of them.
LEMMA LowestIn ==
  ASSUME NEW S \in SUBSET FDs, S # {}
  PROVE  Lowest(S) \in S
<1>1. \E f \in S : \A g \in S : f <= g
  <2>1. S \subseteq Nat
    BY PopenAssumption DEF FDs
  <2> QED
    BY <2>1, LeastNumber
<1> QED
  BY <1>1 DEF Lowest

\* An end that popen opens has the type of an entry.
LEMMA EndTypes ==
  ASSUME NEW t \in Threads, NEW i \in Std, NEW side \in {"r", "w", "rw"}, NEW b \in BOOLEAN
  PROVE  [file |-> [by |-> t, stream |-> i, side |-> side], cloexec |-> b] \in Entries
BY PopenAssumption DEF Entries, Files, FDs, Std

\* Opening a path keeps the types.
LEMMA OpenPathTypes ==
  ASSUME TypeOK, NEW t \in Threads, NEW i \in Std, OpenPath(t, i)
  PROVE  fds' \in [FDs -> Entries] /\ sd' \in [Threads -> [Std -> Descriptors]]
<1>1. Free \in SUBSET FDs /\ Free # {}
  BY DEF OpenPath, Free
<1>2. PICK f \in FDs :
        /\ fds' = [fds EXCEPT ![f] =
                     [file |-> [by |-> t, stream |-> i, side |-> "rw"], cloexec |-> FALSE]]
        /\ sd' = [sd EXCEPT ![t][i] = [read |-> f, write |-> f]]
  BY <1>1, LowestIn DEF OpenPath
<1>3. [read |-> f, write |-> f] \in Descriptors
  BY DEF Descriptors
<1> QED
  BY <1>2, <1>3, EndTypes DEF TypeOK

\* So does opening a pipe.
LEMMA OpenPipeTypes ==
  ASSUME TypeOK, NEW t \in Threads, NEW i \in Std, OpenPipe(t, i)
  PROVE  fds' \in [FDs -> Entries] /\ sd' \in [Threads -> [Std -> Descriptors]]
<1> DEFINE lo == Lowest(Free)
           hi == Lowest(Free \ {lo})
           end(side) == [file |-> [by |-> t, stream |-> i, side |-> side],
                         cloexec |-> PipeCloexec]
<1>1. Free \in SUBSET FDs /\ Free # {} /\ Free \ {lo} # {}
  BY DEF OpenPipe, Free
<1>2. lo \in FDs
  BY <1>1, LowestIn
<1>3. hi \in FDs
  BY <1>1, LowestIn
<1>4. end("r") \in Entries /\ end("w") \in Entries
  BY EndTypes DEF PipeCloexec
<1>5. [read |-> lo, write |-> hi] \in Descriptors
  BY <1>2, <1>3 DEF Descriptors
<1>6. /\ fds' = [fds EXCEPT ![lo] = end("r"), ![hi] = end("w")]
      /\ sd' = [sd EXCEPT ![t][i] = [read |-> lo, write |-> hi]]
  BY DEF OpenPipe
<1> HIDE DEF lo, hi, end
<1> QED
  BY <1>2, <1>3, <1>4, <1>5, <1>6 DEF TypeOK

\* So does taking the caller's descriptors.
LEMMA UseFdsTypes ==
  ASSUME TypeOK, NEW t \in Threads, NEW i \in Std, streams[t][i].kind = "fd", UseFds(t, i)
  PROVE  fds' \in [FDs -> Entries] /\ sd' \in [Threads -> [Std -> Descriptors]]
<1>1. streams[t][i] \in Streams
  BY DEF TypeOK
<1>2. [read |-> streams[t][i].read, write |-> streams[t][i].write] \in Descriptors
  BY <1>1 DEF Streams, Descriptors
<1> QED
  BY <1>2 DEF TypeOK, UseFds

\* The ends of a stream that is set are descriptors.
LEMMA EndsAreFds ==
  ASSUME NEW d \in Descriptors, IsSet(d), NEW i \in Std
  PROVE  ChildFd(d, i) \in FDs /\ ParentFd(d, i) \in FDs
BY DEF Descriptors, IsSet, ChildFd, ParentFd

\* So do the steps of a child on its way to exec.
LEMMA UpdatedChild ==
  ASSUME NEW c \in Children, NEW n \in 0..4, NEW m \in Masks, NEW table \in [FDs -> Entries]
  PROVE  /\ [c EXCEPT !.k = n] \in Children
         /\ [c EXCEPT !.k = n].state = c.state
         /\ [c EXCEPT !.k = n, !.fds = table] \in Children
         /\ [c EXCEPT !.k = n, !.fds = table].state = c.state
         /\ [c EXCEPT !.k = n, !.mask = m, !.fds = table] \in Children
         /\ [c EXCEPT !.k = n, !.mask = m, !.fds = table].state = c.state
BY DEF Children

\* Setting one stream of one object keeps the types.
LEMMA StreamTypes ==
  ASSUME popen \in [Threads -> PopenObjects], NEW o \in Threads, NEW i \in Std,
         NEW f \in FDs \cup {closed_fd}, popen' = [popen EXCEPT ![o].stream[i] = f]
  PROVE  popen' \in [Threads -> PopenObjects]
<1>1. popen[o].stream \in [Std -> FDs \cup {closed_fd}] /\ popen[o] \in PopenObjects
  BY DEF PopenObjects
<1>2. [popen[o].stream EXCEPT ![i] = f] \in [Std -> FDs \cup {closed_fd}]
  BY <1>1
<1>3. [popen[o] EXCEPT !.stream = [popen[o].stream EXCEPT ![i] = f]] \in PopenObjects
  BY <1>1, <1>2 DEF PopenObjects
<1> QED
  BY <1>3

\* What handle_child_stream leaves is a table of descriptors.
LEMMA SetUpTable ==
  ASSUME NEW d \in Descriptors, IsSet(d), NEW i \in Std, NEW tbl \in [FDs -> Entries],
         OtherClosed(d, i, tbl)[ChildFd(d, i)] # Closed
  PROVE  [Dup2(d, i, OtherClosed(d, i, tbl)) EXCEPT ![ChildFd(d, i)] = Closed]
           \in [FDs -> Entries]
<1>1. ChildFd(d, i) \in FDs /\ ParentFd(d, i) \in FDs /\ Closed \in Entries /\ i \in FDs
  BY PopenAssumption, EndsAreFds DEF Entries, FDs, Std
<1>2. OtherClosed(d, i, tbl) \in [FDs -> Entries]
  BY <1>1 DEF OtherClosed
<1>3. [file |-> OtherClosed(d, i, tbl)[ChildFd(d, i)].file, cloexec |-> FALSE] \in Entries
  BY <1>1, <1>2 DEF Entries
<1>4. Dup2(d, i, OtherClosed(d, i, tbl)) \in [FDs -> Entries]
  BY <1>1, <1>2, <1>3 DEF Dup2
<1> QED
  BY <1>1, <1>4

\* Every step keeps the types.
LEMMA TypeStep ==
  ASSUME TypeOK, NEW t \in Threads,
         Call(t) \/ CallStep(t) \/ ChildStep(t) \/ ChildEnds(t) \/ Use(t)
  PROVE  TypeOK'
<1> USE DEF PCs
<1>1. CASE Call(t)
  <2>1. streams' \in [Threads -> [Std -> Streams]]
    BY <1>1, PopenAssumption DEF Call, TypeOK
  <2> QED
    BY <1>1, <2>1 DEF Call, Goto, TypeOK

<1>2. CASE LockClone(t)
  BY <1>2 DEF LockClone, Goto, TypeOK

<1>3. CASE LockSignals(t)
  BY <1>3 DEF LockSignals, Goto, TypeOK, Masks

<1>4. CASE OpenStream(t)
  <2>1. fds' \in [FDs -> Entries] /\ sd' \in [Threads -> [Std -> Descriptors]]
    BY <1>4, OpenPathTypes, OpenPipeTypes, UseFdsTypes DEF OpenStream, TypeOK
  <2>2. k' \in [Threads -> 0..3]
    BY <1>4 DEF OpenStream, TypeOK, Std
  <2> QED
    BY <1>4, <2>1, <2>2 DEF OpenStream, TypeOK

<1>5. CASE OpenFails(t)
  BY <1>5 DEF OpenFails, Throw, Goto, TypeOK

<1>6. CASE Clone(t)
  <2>1. [NoChild EXCEPT !.state = "setup", !.fds = fds, !.mask = mask[t]] \in Children
    BY InitialValues DEF Children, TypeOK
  <2> QED
    BY <1>6, <2>1 DEF Clone, Goto, TypeOK

<1>7. CASE CloneFails(t)
  BY <1>7 DEF CloneFails, Throw, Goto, TypeOK

<1>8. CASE SetUpFailed(t)
  <2>1. child' \in [Threads -> Children]
    BY <1>8, ReapTypes DEF SetUpFailed, TypeOK
  <2> QED
    BY <1>8, <2>1 DEF SetUpFailed, Throw, Goto, TypeOK

<1>9. CASE Started(t)
  BY <1>9 DEF Started, Goto, TypeOK

<1>10. CASE HandleParentStream(t)
  <2> DEFINE i == k[t]
             d == sd[t][i]
  <2>1. i \in Std /\ d \in Descriptors /\ Closed \in Entries
    BY <1>10 DEF HandleParentStream, TypeOK, Entries
  <2>2. k' \in [Threads -> 0..3]
    BY <1>10 DEF HandleParentStream, TypeOK, Std
  <2>3. CASE IsSet(d)
    <3>1. ChildFd(d, i) \in FDs /\ Kept(t, i) \in FDs \cup {closed_fd}
      BY <2>1, <2>3, EndsAreFds DEF Kept
    <3>2. fds' \in [FDs -> Entries]
      BY <1>10, <2>1, <2>3, <3>1 DEF HandleParentStream, CloseChildFd, TypeOK
    <3>3. popen' = [popen EXCEPT ![t].stream[i] = Kept(t, i)]
      BY <1>10, <2>3 DEF HandleParentStream
    <3>4. popen' \in [Threads -> PopenObjects]
      BY <2>1, <3>1, <3>3, StreamTypes DEF TypeOK
    <3> QED
      BY <1>10, <2>2, <3>2, <3>4 DEF HandleParentStream, TypeOK
  <2>4. CASE ~ IsSet(d)
    BY <1>10, <2>2, <2>4 DEF HandleParentStream, TypeOK
  <2> QED
    BY <2>3, <2>4

<1>11. CASE Return(t)
  BY <1>11 DEF Return, Goto, TypeOK

<1>12. CASE UnlockSignals(t)
  BY <1>12 DEF UnlockSignals, Goto, TypeOK

<1>13. CASE UnlockClone(t)
  BY <1>13 DEF UnlockClone, Goto, TypeOK

<1>14. CASE EndCall(t)
  <2>1. popen' \in [Threads -> PopenObjects]
    BY <1>14 DEF EndCall, TypeOK, PopenObjects
  <2> QED
    BY <1>14, <2>1 DEF EndCall, Goto, TypeOK

<1>15. CASE HandleChildStream(t)
  <2> DEFINE c == child[t]
             d == sd[t][c.k]
             table == OtherClosed(d, c.k, c.fds)
  <2>1. c \in Children /\ c.k \in Std /\ d \in Descriptors /\ Closed \in Entries
    BY <1>15 DEF HandleChildStream, TypeOK, Entries
  <2>2. c.k + 1 \in 0..4 /\ c.fds \in [FDs -> Entries]
    BY <2>1 DEF Children, Std
  <2>3. CASE ~ IsSet(d)
    <3>1. [c EXCEPT !.k = c.k + 1] \in Children
      BY <2>1, <2>2 DEF Children
    <3>2. child' \in [Threads -> Children]
      BY <1>15, <2>3, <3>1 DEF HandleChildStream, TypeOK
    <3> QED
      BY <1>15, <3>2 DEF HandleChildStream, call, TypeOK
  <2>4. CASE IsSet(d)
    <3> DEFINE new == [Dup2(d, c.k, table) EXCEPT ![ChildFd(d, c.k)] = Closed]
    <3>1. new \in [FDs -> Entries]
      BY <1>15, <2>1, <2>2, <2>4, SetUpTable DEF HandleChildStream
    <3>2. child' = [child EXCEPT ![t] = [c EXCEPT !.k = c.k + 1, !.fds = new]]
      BY <1>15, <2>4 DEF HandleChildStream
    <3>3. child' \in [Threads -> Children]
      <4> HIDE DEF new
      <4>1. [c EXCEPT !.k = c.k + 1, !.fds = new] \in Children
        BY <2>1, <2>2, <3>1 DEF Children
      <4> QED
        BY <3>2, <4>1 DEF TypeOK
    <3> QED
      BY <1>15, <3>3 DEF HandleChildStream, call, TypeOK
  <2> QED
    BY <2>3, <2>4

<1>16. CASE ChildStreamFails(t)
  <2>1. child' \in [Threads -> Children]
    BY <1>16, DiesTypes DEF ChildStreamFails, TypeOK, Hows
  <2> QED
    BY <1>16, <2>1 DEF ChildStreamFails, call, TypeOK

<1>17. CASE ChildCloses(t)
  <2>1. PICK last \in {MaxFd + 1} \cup Limits :
          child' = [child EXCEPT ![t] =
                      [child[t] EXCEPT
                         !.k = 4, !.mask = NoSignals,
                         !.fds = [f \in FDs |->
                                    IF f > 2 /\ f < last THEN Closed ELSE child[t].fds[f]]]]
    BY <1>17 DEF ChildCloses
  <2> DEFINE new == [f \in FDs |-> IF f > 2 /\ f < last THEN Closed ELSE child[t].fds[f]]
  <2>2. new \in [FDs -> Entries] /\ child[t] \in Children
    BY DEF TypeOK, Children, Entries
  <2>3. 4 \in 0..4 /\ NoSignals \in Masks
    BY DEF Masks
  <2>4. child' = [child EXCEPT ![t] =
                    [child[t] EXCEPT !.k = 4, !.mask = NoSignals, !.fds = new]]
    BY <2>1
  <2> HIDE DEF new
  <2>5. [child[t] EXCEPT !.k = 4, !.mask = NoSignals, !.fds = new] \in Children
    BY <2>2, <2>3, UpdatedChild
  <2>6. child' \in [Threads -> Children]
    BY <2>4, <2>5 DEF TypeOK
  <2> QED
    BY <1>17, <2>6 DEF ChildCloses, call, TypeOK

<1>18. CASE ChildExec(t)
  <2> DEFINE new == [f \in FDs |-> IF child[t].fds[f] # Closed /\ child[t].fds[f].cloexec
                                   THEN Closed ELSE child[t].fds[f]]
  <2>1. new \in [FDs -> Entries] /\ child[t] \in Children
    BY DEF TypeOK, Children, Entries
  <2>2. child' = [child EXCEPT ![t] = [child[t] EXCEPT !.state = "running", !.fds = new]]
    BY <1>18 DEF ChildExec
  <2>3. child' \in [Threads -> Children]
    <3> HIDE DEF new
    <3>1. [child[t] EXCEPT !.state = "running", !.fds = new] \in Children
      BY <2>1 DEF Children
    <3> QED
      BY <2>2, <3>1 DEF TypeOK
  <2> QED
    BY <1>18, <2>3 DEF ChildExec, call, TypeOK

<1>19. CASE ChildFails(t)
  <2>1. child' \in [Threads -> Children]
    BY <1>19, DiesTypes DEF ChildFails, TypeOK, Hows
  <2> QED
    BY <1>19, <2>1 DEF ChildFails, call, TypeOK

<1>20. CASE ChildEnds(t)
  <2>1. child' \in [Threads -> Children]
    BY <1>20, DiesTypes DEF ChildEnds, TypeOK, Hows
  <2> QED
    BY <1>20, <2>1 DEF ChildEnds, call, TypeOK

<1>21. CASE Wait(t)
  <2>1. popen[t].pid \in Threads
    BY <1>21 DEF Wait, TypeOK, PopenObjects
  <2>2. child' \in [Threads -> Children]
    BY <1>21, <2>1, ReapTypes DEF Wait, TypeOK
  <2>3. StatusOf(child[popen[t].pid].how) \in Statuses
    BY DEF StatusOf, Statuses
  <2>4. popen' \in [Threads -> PopenObjects]
    BY <1>21, <2>3 DEF Wait, TypeOK, PopenObjects
  <2> QED
    BY <1>21, <2>2, <2>4 DEF Wait, call, TypeOK

<1>22. CASE Signal(t)
  <2>1. popen[t].pid \in Threads
    BY <1>22 DEF Signal, TypeOK, PopenObjects
  <2>2. child' \in [Threads -> Children]
    BY <1>22, <2>1, DiesTypes DEF Signal, TypeOK, Hows
  <2> QED
    BY <1>22, <2>2 DEF Signal, call, TypeOK

<1>23. CASE Destroy(t)
  <2>1. fds' \in [FDs -> Entries]
    BY <1>23 DEF Destroy, TypeOK, Entries
  <2> QED
    BY <1>23, <2>1, InitialValues DEF Destroy, call, TypeOK

<1>24. CASE \E i \in Std : ResetStream(t, i)
  <2>1. PICK i \in Std : ResetStream(t, i)
    BY <1>24
  <2>2. popen' \in [Threads -> PopenObjects]
    BY <2>1, StreamTypes DEF ResetStream, TypeOK
  <2>3. fds' \in [FDs -> Entries]
    BY <2>1 DEF ResetStream, TypeOK, Entries
  <2> QED
    BY <2>1, <2>2, <2>3 DEF ResetStream, call, TypeOK

<1>25. CASE \E p \in Threads : MoveAssign(t, p)
  <2>1. PICK p \in Threads : MoveAssign(t, p)
    BY <1>25
  <2>2. MovedFrom(t, p) \in PopenObjects
    BY MovedFromHoldsNothing DEF TypeOK
  <2> QED
    BY <2>1, <2>2 DEF MoveAssign, call, TypeOK

<1>26. CASE \E p \in Threads : Swap(t, p)
  BY <1>26 DEF Swap, call, TypeOK

<1> QED
  BY <1>1, <1>2, <1>3, <1>4, <1>5, <1>6, <1>7, <1>8, <1>9, <1>10, <1>11, <1>12, <1>13, <1>14, <1>15, <1>16, <1>17, <1>18, <1>19, <1>20, <1>21, <1>22, <1>23, <1>24, <1>25, <1>26 DEF Next, CallStep, ChildStep, Use

\* popen's variables have their types, in every reachable state.
THEOREM TypeCorrect == Spec => []TypeOK
<1>1. Init => TypeOK
  <2> SUFFICES ASSUME Init PROVE TypeOK
    OBVIOUS
  <2>1. fds \in [FDs -> Entries]
    BY PopenAssumption DEF Init, Entries, Files
  <2>2. /\ [kind |-> "none"] \in Streams
        /\ NotSet \in Descriptors
    BY DEF Streams, NotSet, Descriptors
  <2> QED
    BY <2>1, <2>2, InitialValues DEF Init, TypeOK, Masks, PCs
<1>2. TypeOK /\ [Next]_vars => TypeOK'
  <2> SUFFICES ASSUME TypeOK, [Next]_vars PROVE TypeOK'
    OBVIOUS
  <2>1. CASE Next
    BY <2>1, TypeStep DEF Next
  <2>2. CASE UNCHANGED vars
    BY <2>2 DEF vars, call, TypeOK
  <2> QED
    BY <2>1, <2>2
<1> QED
  BY <1>1, <1>2, PTL DEF Spec

-----------------------------------------------------------------------------
(* The two locks.                                                          *)

\* Between lock and unlock of clone_mutex.
Critical ==
  {"lock_signals", "open", "vfork", "hand_over", "unlock_signals", "unlock_clone"}

\* Where a call has its mask in prev_sigset_.
Saved == {"open", "vfork", "hand_over", "unlock_signals"}

\* Whoever is between the locks owns the mutex, has its mask in prev_sigset_
\* while it is not in place, and waits while its child is on the stack.
Locking ==
  \A t \in Threads :
    /\ pc[t] \in Critical => clone_mutex = t
    /\ pc[t] \in Saved => prev_sigset = t
    /\ pc[t] \notin Saved => mask[t] = t
    /\ child[t].state = "setup" => pc[t] = "vfork"

\* Steps of a child before exec concern no other child.
LEMMA ChildGoesOn ==
  ASSUME TypeOK, NEW t \in Threads,
         HandleChildStream(t) \/ ChildCloses(t) \/ ChildExec(t)
  PROVE  /\ child[t].state = "setup"
         /\ child'[t].state \in {"setup", "running"}
         /\ \A u \in Threads : u # t => child'[u] = child[u]
         /\ UNCHANGED <<fds, call, popen>>
<1>1. child[t] \in Children
  BY DEF TypeOK
<1>2. CASE HandleChildStream(t)
  <2>1. child[t].state = "setup" /\ UNCHANGED <<fds, call, popen>>
    BY <1>2 DEF HandleChildStream
  <2>2. PICK n, table :
          \/ child' = [child EXCEPT ![t] = [child[t] EXCEPT !.k = n]]
          \/ child' = [child EXCEPT ![t] = [child[t] EXCEPT !.k = n, !.fds = table]]
    BY <1>2, Zenon DEF HandleChildStream
  <2>3. /\ [child[t] EXCEPT !.k = n].state = "setup"
        /\ [child[t] EXCEPT !.k = n, !.fds = table].state = "setup"
    BY <1>1, <2>1 DEF Children
  <2> QED
    BY <2>1, <2>2, <2>3 DEF TypeOK
<1>3. CASE ChildCloses(t)
  <2>1. child[t].state = "setup" /\ UNCHANGED <<fds, call, popen>>
    BY <1>3 DEF ChildCloses
  <2>2. \E n, m, table :
          child' = [child EXCEPT ![t] = [child[t] EXCEPT !.k = n, !.mask = m, !.fds = table]]
    BY <1>3, Zenon DEF ChildCloses
  <2> QED
    BY <1>1, <2>1, <2>2 DEF TypeOK, Children
<1>4. CASE ChildExec(t)
  BY <1>1, <1>4 DEF ChildExec, TypeOK, Children
<1> QED
  BY <1>2, <1>3, <1>4

\* Nor do those with which it ends.
LEMMA ChildStops ==
  ASSUME TypeOK, NEW t \in Threads,
         ChildStreamFails(t) \/ ChildFails(t) \/ ChildEnds(t)
  PROVE  /\ child[t].state \in {"setup", "running"}
         /\ child'[t].state = "zombie"
         /\ \A u \in Threads : u # t => child'[u] = child[u]
         /\ UNCHANGED <<fds, call, popen>>
<1>1. child \in [Threads -> Children]
  BY DEF TypeOK
<1>2. CASE ChildStreamFails(t)
  BY <1>1, <1>2, DiesTypes DEF ChildStreamFails, Hows
<1>3. CASE ChildFails(t)
  BY <1>1, <1>3, DiesTypes DEF ChildFails, Hows
<1>4. CASE ChildEnds(t)
  BY <1>1, <1>4, DiesTypes DEF ChildEnds, Hows
<1> QED
  BY <1>2, <1>3, <1>4

\* clone makes one child.
LEMMA Cloned ==
  ASSUME TypeOK, NEW t \in Threads, Clone(t)
  PROVE  /\ child'[t].state = "setup"
         /\ \A u \in Threads : u # t => child'[u] = child[u]
BY InitialValues DEF Clone, TypeOK, Children

\* Every step keeps Locking.
LEMMA LockingStep ==
  ASSUME TypeOK, Locking, NEW t \in Threads,
         Call(t) \/ CallStep(t) \/ ChildStep(t) \/ ChildEnds(t) \/ Use(t)
  PROVE  Locking'
<1> USE DEF Critical, Saved
<1>0. /\ pc \in [Threads -> PCs] /\ mask \in [Threads -> Masks]
      /\ child \in [Threads -> Children] /\ NoThread \notin Threads
  BY PopenAssumption DEF TypeOK
<1>1. CASE Call(t)
  BY <1>1, <1>0 DEF Call, Goto, Locking
<1>2. CASE LockClone(t)
  BY <1>2, <1>0 DEF LockClone, Goto, Locking
<1>3. CASE LockSignals(t)
  BY <1>3, <1>0 DEF LockSignals, Goto, Locking
<1>4. CASE OpenStream(t)
  BY <1>4, <1>0 DEF OpenStream, Goto, Locking
<1>5. CASE OpenFails(t)
  BY <1>5, <1>0 DEF OpenFails, Throw, Goto, Locking
<1>6. CASE Clone(t)
  BY <1>6, <1>0, Cloned DEF Clone, Goto, Locking
<1>7. CASE CloneFails(t)
  BY <1>7, <1>0 DEF CloneFails, Throw, Goto, Locking
<1>8. CASE SetUpFailed(t)
  <2>1. child'[t].state = "reaped" /\ \A u \in Threads : u # t => child'[u] = child[u]
    BY <1>8, <1>0, ReapTypes DEF SetUpFailed
  <2> QED
    BY <1>8, <1>0, <2>1 DEF SetUpFailed, Throw, Goto, Locking
<1>9. CASE Started(t)
  BY <1>9, <1>0 DEF Started, Goto, Locking
<1>10. CASE HandleParentStream(t)
  BY <1>10, <1>0 DEF HandleParentStream, Goto, Locking
<1>11. CASE Return(t)
  BY <1>11, <1>0 DEF Return, Goto, Locking
<1>12. CASE UnlockSignals(t)
  BY <1>12, <1>0 DEF UnlockSignals, Goto, Locking
<1>13. CASE UnlockClone(t)
  BY <1>13, <1>0 DEF UnlockClone, Goto, Locking
<1>14. CASE EndCall(t)
  BY <1>14, <1>0 DEF EndCall, Goto, Locking
<1>15. CASE HandleChildStream(t)
  BY <1>15, <1>0, ChildGoesOn DEF call, Locking
<1>16. CASE ChildStreamFails(t)
  BY <1>16, <1>0, ChildStops DEF call, Locking
<1>17. CASE ChildCloses(t)
  BY <1>17, <1>0, ChildGoesOn DEF call, Locking
<1>18. CASE ChildExec(t)
  BY <1>18, <1>0, ChildGoesOn DEF call, Locking
<1>19. CASE ChildFails(t)
  BY <1>19, <1>0, ChildStops DEF call, Locking
<1>20. CASE ChildEnds(t)
  BY <1>20, <1>0, ChildStops DEF call, Locking
<1>21. CASE Wait(t)
  <2>1. popen[t].pid \in Threads
    BY <1>21 DEF Wait, TypeOK, PopenObjects
  <2>2. \A u \in Threads : child'[u].state = "setup" => child[u].state = "setup"
    BY <1>21, <1>0, <2>1, ReapTypes DEF Wait, Hows
  <2> QED
    BY <1>21, <2>2 DEF Wait, call, Locking
<1>22. CASE Signal(t)
  <2>1. popen[t].pid \in Threads
    BY <1>22 DEF Signal, TypeOK, PopenObjects
  <2>2. \A u \in Threads : child'[u].state = "setup" => child[u].state = "setup"
    BY <1>22, <1>0, <2>1, DiesTypes DEF Signal, Hows
  <2> QED
    BY <1>22, <2>2 DEF Signal, call, Locking
<1>23. CASE Destroy(t)
  BY <1>23 DEF Destroy, call, Locking
<1>24. CASE \E i \in Std : ResetStream(t, i)
  BY <1>24 DEF ResetStream, call, Locking
<1>25. CASE \E p \in Threads : MoveAssign(t, p)
  BY <1>25 DEF MoveAssign, call, Locking
<1>26. CASE \E p \in Threads : Swap(t, p)
  BY <1>26 DEF Swap, call, Locking
<1> QED
  BY <1>1, <1>2, <1>3, <1>4, <1>5, <1>6, <1>7, <1>8, <1>9, <1>10, <1>11, <1>12, <1>13, <1>14, <1>15, <1>16, <1>17, <1>18, <1>19, <1>20, <1>21, <1>22, <1>23, <1>24, <1>25, <1>26 DEF CallStep, ChildStep, Use

\* Locking holds in every reachable state.
LEMMA LockingHolds == Spec => []Locking
<1>1. Init => Locking
  <2>1. NoChild.state = "none"
    BY DEF NoChild
  <2> QED
    BY <2>1 DEF Init, Locking, Critical, Saved
<1>2. TypeOK /\ Locking /\ [Next]_vars => Locking'
  <2> SUFFICES ASSUME TypeOK, Locking, [Next]_vars PROVE Locking'
    OBVIOUS
  <2>1. CASE Next
    BY <2>1, LockingStep DEF Next
  <2>2. CASE UNCHANGED vars
    BY <2>2 DEF vars, call, Locking
  <2> QED
    BY <2>1, <2>2
<1> QED
  BY <1>1, <1>2, TypeCorrect, PTL DEF Spec

\* However many threads construct a popen at the same time, no two of their
\* children are on child_stack together.
THEOREM StackIsExclusive == Spec => []OneChildOnTheStack
<1>1. Locking => OneChildOnTheStack
  BY DEF Locking, OneChildOnTheStack, Critical
<1> QED
  BY <1>1, LockingHolds, PTL

\* Every thread has its own signal mask back when it leaves popen::clone, by
\* return or by exception, although prev_sigset_ is shared.
THEOREM MasksComeBack == Spec => []MasksAreRestored
<1>1. Locking => MasksAreRestored
  BY DEF Locking, MasksAreRestored, Saved
<1> QED
  BY <1>1, LockingHolds, PTL

-----------------------------------------------------------------------------
(* Pids.                                                                   *)

\* A child that is there to be waited for.
Alive == {"running", "zombie"}

\* A pid in an object is that of a child whose call is over and that has not
\* been reaped; a child is not reaped either on its way from exec to the
\* constructor's end.
PidInv ==
  /\ \A t \in Threads :
       /\ pc[t] = "vfork" => child[t].state \in {"setup"} \cup Alive
       /\ pc[t] \in {"hand_over", "unlock_signals", "unlock_clone", "store_pid"} /\ ~ failed[t]
            => child[t].state \in Alive
       /\ pc[t] \in {"lock_clone", "lock_signals", "open", "vfork", "hand_over"} => ~ failed[t]
       /\ pc[t] = "idle" => ~ failed[t]
  /\ \A o \in Threads : popen[o].pid # invalid_pid =>
       /\ pc[popen[o].pid] = "done"
       /\ child[popen[o].pid].state \in Alive
       /\ \A p \in Threads : popen[p].pid = popen[o].pid => p = o

\* No object's pid changes when only a stream does.
LEMMA StreamKeepsPids ==
  ASSUME TypeOK, NEW o \in Threads, NEW i \in Std, NEW f,
         popen' = [popen EXCEPT ![o].stream[i] = f]
  PROVE  \A p \in Threads : popen'[p].pid = popen[p].pid
BY DEF TypeOK, PopenObjects

\* Every step keeps PidInv.
LEMMA PidStep ==
  ASSUME TypeOK, Locking, PidInv, NEW t \in Threads,
         Call(t) \/ CallStep(t) \/ ChildStep(t) \/ ChildEnds(t) \/ Use(t)
  PROVE  PidInv'
<1> USE DEF Alive
<1>0. /\ pc \in [Threads -> PCs] /\ failed \in [Threads -> BOOLEAN]
      /\ child \in [Threads -> Children] /\ popen \in [Threads -> PopenObjects]
      /\ \A o \in Threads : popen[o].pid \in Threads \cup {invalid_pid}
      /\ invalid_pid \notin Threads
  BY PopenAssumption DEF TypeOK, PopenObjects
<1>1. CASE Call(t)
  BY <1>1, <1>0 DEF Call, Goto, PidInv
<1>2. CASE LockClone(t)
  BY <1>2, <1>0 DEF LockClone, Goto, PidInv
<1>3. CASE LockSignals(t)
  BY <1>3, <1>0 DEF LockSignals, Goto, PidInv
<1>4. CASE OpenStream(t)
  BY <1>4, <1>0 DEF OpenStream, Goto, PidInv
<1>5. CASE OpenFails(t)
  BY <1>5, <1>0 DEF OpenFails, Throw, Goto, PidInv
<1>6. CASE Clone(t)
  <2>1. /\ child'[t].state = "setup"
        /\ \A u \in Threads : u # t => child'[u] = child[u]
    BY <1>6, Cloned
  <2>2. /\ pc[t] = "open" /\ pc'[t] = "vfork" /\ failed' = failed /\ popen' = popen
        /\ \A u \in Threads : u # t => pc'[u] = pc[u]
    BY <1>6, <1>0 DEF Clone, Goto
  <2> QED
    BY <1>0, <2>1, <2>2 DEF PidInv
<1>7. CASE CloneFails(t)
  BY <1>7, <1>0 DEF CloneFails, Throw, Goto, PidInv
<1>8. CASE SetUpFailed(t)
  <2>1. child'[t].state = "reaped" /\ \A u \in Threads : u # t => child'[u] = child[u]
    BY <1>8, <1>0, ReapTypes DEF SetUpFailed
  <2> QED
    BY <1>8, <1>0, <2>1 DEF SetUpFailed, Throw, Goto, PidInv
<1>9. CASE Started(t)
  BY <1>9, <1>0 DEF Started, Goto, PidInv
<1>10. CASE HandleParentStream(t)
  <2>1. \A p \in Threads : popen'[p].pid = popen[p].pid
    BY <1>10, StreamKeepsPids DEF HandleParentStream
  <2> QED
    BY <1>10, <1>0, <2>1 DEF HandleParentStream, PidInv
<1>11. CASE Return(t)
  BY <1>11, <1>0 DEF Return, Goto, PidInv
<1>12. CASE UnlockSignals(t)
  BY <1>12, <1>0 DEF UnlockSignals, Goto, PidInv
<1>13. CASE UnlockClone(t)
  BY <1>13, <1>0 DEF UnlockClone, Goto, PidInv
<1>14. CASE EndCall(t)
  <2>1. CASE failed[t]
    BY <1>14, <1>0, <2>1 DEF EndCall, Goto, PidInv
  <2>2. CASE ~ failed[t]
    <3>1. /\ popen'[t].pid = t
          /\ \A p \in Threads : p # t => popen'[p] = popen[p]
      BY <1>14, <1>0, <2>2 DEF EndCall, PopenObjects
    <3> QED
      BY <1>14, <1>0, <2>2, <3>1 DEF EndCall, Goto, PidInv
  <2> QED
    BY <2>1, <2>2
<1>15. CASE HandleChildStream(t)
  BY <1>15, <1>0, ChildGoesOn DEF call, PidInv, Locking
<1>16. CASE ChildStreamFails(t)
  BY <1>16, <1>0, ChildStops DEF call, PidInv, Locking
<1>17. CASE ChildCloses(t)
  BY <1>17, <1>0, ChildGoesOn DEF call, PidInv, Locking
<1>18. CASE ChildExec(t)
  BY <1>18, <1>0, ChildGoesOn DEF call, PidInv, Locking
<1>19. CASE ChildFails(t)
  BY <1>19, <1>0, ChildStops DEF call, PidInv, Locking
<1>20. CASE ChildEnds(t)
  BY <1>20, <1>0, ChildStops DEF call, PidInv, Locking
<1>21. CASE Wait(t)
  <2> DEFINE c == popen[t].pid
  <2>1. c \in Threads /\ pc[c] = "done"
    BY <1>21, <1>0 DEF Wait, PidInv
  <2>2. \A u \in Threads : u # c => child'[u] = child[u]
    BY <1>21, <1>0, <2>1, ReapTypes DEF Wait
  <2>3. popen'[t].pid = invalid_pid /\ \A p \in Threads : p # t => popen'[p] = popen[p]
    BY <1>21, <1>0 DEF Wait, PopenObjects
  <2>4. pc' = pc /\ failed' = failed
    BY <1>21 DEF Wait, call
  <2>5. \A p \in Threads : p # t => popen[p].pid # c
    BY <1>0, <2>1 DEF PidInv
  <2> QED
    BY <1>0, <2>1, <2>2, <2>3, <2>4, <2>5 DEF PidInv
<1>22. CASE Signal(t)
  <2> DEFINE c == popen[t].pid
  <2>1. c \in Threads /\ pc[c] = "done"
    BY <1>22, <1>0 DEF Signal, PidInv
  <2>2. child'[c].state = "zombie" /\ \A u \in Threads : u # c => child'[u] = child[u]
    BY <1>22, <1>0, <2>1, DiesTypes DEF Signal, Hows
  <2>3. pc' = pc /\ failed' = failed /\ popen' = popen
    BY <1>22 DEF Signal, call
  <2> QED
    BY <1>0, <2>1, <2>2, <2>3 DEF PidInv
<1>23. CASE Destroy(t)
  <2>1. popen'[t].pid = popen[t].pid /\ \A p \in Threads : p # t => popen'[p] = popen[p]
    BY <1>23, <1>0 DEF Destroy, Empty
  <2> QED
    BY <1>23, <1>0, <2>1 DEF Destroy, call, PidInv
<1>24. CASE \E i \in Std : ResetStream(t, i)
  <2>1. \A p \in Threads : popen'[p].pid = popen[p].pid
    BY <1>24, StreamKeepsPids DEF ResetStream
  <2> QED
    BY <1>24, <1>0, <2>1 DEF ResetStream, call, PidInv
<1>25. CASE \E p \in Threads : MoveAssign(t, p)
  <2>1. PICK p \in Threads : popen' = [popen EXCEPT ![t] = popen[p], ![p] = MovedFrom(t, p)]
    BY <1>25 DEF MoveAssign
  <2>2. MovedFrom(t, p).pid = invalid_pid
    BY <1>0, MovedFromHoldsNothing
  <2>3. pc' = pc /\ failed' = failed /\ child' = child
    BY <1>25 DEF MoveAssign, call
  <2> QED
    BY <1>0, <2>1, <2>2, <2>3 DEF PidInv
<1>26. CASE \E p \in Threads : Swap(t, p)
  <2>1. PICK p \in Threads : popen' = [popen EXCEPT ![t] = popen[p], ![p] = popen[t]]
    BY <1>26 DEF Swap
  <2>2. pc' = pc /\ failed' = failed /\ child' = child
    BY <1>26 DEF Swap, call
  <2> QED
    BY <1>0, <2>1, <2>2 DEF PidInv
<1> QED
  BY <1>1, <1>2, <1>3, <1>4, <1>5, <1>6, <1>7, <1>8, <1>9, <1>10, <1>11, <1>12, <1>13, <1>14, <1>15, <1>16, <1>17, <1>18, <1>19, <1>20, <1>21, <1>22, <1>23, <1>24, <1>25, <1>26 DEF CallStep, ChildStep, Use

\* PidInv holds in every reachable state.
LEMMA PidInvHolds == Spec => []PidInv
<1>1. Init => PidInv
  BY DEF Init, PidInv, Empty
<1>2. TypeOK /\ Locking /\ PidInv /\ [Next]_vars => PidInv'
  <2> SUFFICES ASSUME TypeOK, Locking, PidInv, [Next]_vars PROVE PidInv'
    OBVIOUS
  <2>1. CASE Next
    BY <2>1, PidStep DEF Next
  <2>2. CASE UNCHANGED vars
    BY <2>2 DEF vars, call, PidInv
  <2> QED
    BY <2>1, <2>2
<1> QED
  BY <1>1, <1>2, TypeCorrect, LockingHolds, PTL DEF Spec

\* wait and signal only ever meet pids of children that have not been reaped,
\* and each child's pid is in one object, through all moves and swaps.
THEOREM PidsAreCurrent == Spec => []PidsAreOfChildren
<1>1. PidInv => PidsAreOfChildren
  BY DEF PidInv, PidsAreOfChildren, Alive
<1> QED
  BY <1>1, PidInvHolds, PTL

-----------------------------------------------------------------------------
(* The descriptors.                                                        *)

\* Before the streams are opened.
Early == {"idle", "lock_clone", "lock_signals"}
\* Where a call has what it named still open.
Unhanded == {"lock_clone", "lock_signals", "open", "vfork"}
\* From the clone on.
PastOpen == {"vfork", "hand_over", "unlock_signals", "unlock_clone", "store_pid", "done"}

\* t's call has opened its stream i and not handed it over.
Holds(t, i) ==
  \/ pc[t] = "open" /\ i < k[t]
  \/ pc[t] = "vfork"
  \/ pc[t] = "hand_over" /\ i >= k[t]

\* The numbers that stream s was given.
Shape(s, d) ==
  /\ s.kind = "none" => d = NotSet
  /\ s.kind = "path" => d.read \in FDs /\ d.write = d.read
  /\ s.kind = "pipe" => d.read \in FDs /\ d.write \in FDs /\ d.read # d.write
  /\ s.kind = "fd" => d.read = s.read /\ d.write = s.write

\* The entry of an end that popen opened.
End(t, i, side, cloexec) ==
  [file |-> [by |-> t, stream |-> i, side |-> side], cloexec |-> cloexec]

\* A stream in hand is open on the numbers that open returned for it.
InHandOK(t, i) ==
  LET d == sd[t][i] IN
  /\ Shape(streams[t][i], d)
  /\ streams[t][i].kind = "path" => fds[d.read] = End(t, i, "rw", FALSE)
  /\ streams[t][i].kind = "pipe" =>
       fds[d.read] = End(t, i, "r", TRUE) /\ fds[d.write] = End(t, i, "w", TRUE)

\* What t's call has opened so far, and that the rest is not set.
CallOK(t) ==
  /\ pc[t] # "idle" => streams[t] \in Requests
  /\ pc[t] \in Early => k[t] = 0
  /\ \A i \in Std :
       /\ pc[t] \in Early \/ (pc[t] = "open" /\ i >= k[t]) => sd[t][i] = NotSet
       /\ Holds(t, i) => InHandOK(t, i)

\* Every call knows its descriptors.
CallsOK == \A t \in Threads : CallOK(t)

\* An end that popen opened is on the number its call knows it by; one without
\* O_CLOEXEC is either in hand or left behind by a call that failed.
OwnFile(f) ==
  LET u == fds[f].file.by
      i == fds[f].file.stream
  IN
  /\ u \in Threads /\ i \in Std
  /\ f \in {sd[u][i].read, sd[u][i].write}
  /\ fds[f].cloexec \/ failed[u] \/ Holds(u, i)

\* Every open number has an owner.
TableOK ==
  \A f \in FDs :
    fds[f] # Closed =>
      IF fds[f].file.by = User
      THEN fds[f].file = [by |-> User, stream |-> f, side |-> "rw"]
      ELSE OwnFile(f)

\* The descriptors that a stream of the caller's names.
Ends(s) == {s.read, s.write} \ {closed_fd}

\* No two calls name the same descriptor.
NamesApart ==
  \A t, u \in Threads : t # u => Named(streams[t]) \cap Named(streams[u]) = {}

\* What a call names is the caller's and open until the hand-over.
NamedOpen(t) ==
  pc[t] \in Unhanded =>
    \A f \in Named(streams[t]) : fds[f] # Closed /\ fds[f].file.by = User

\* Two streams may name the same child's end; the first that is handed over
\* closes it.
ToHandOver(t, i) ==
  LET s == streams[t][i] IN
  (pc[t] = "hand_over" /\ i >= k[t] /\ s.kind = "fd") =>
    /\ \A f \in Ends(s) : fds[f] = Closed \/ fds[f].file.by = User
    /\ IsSet(s) /\ ParentFd(s, i) # ChildFd(s, i) => fds[ParentFd(s, i)] # Closed

\* The callers' descriptors are where the calls expect them.
NamesOK ==
  /\ NamesApart
  /\ \A t \in Threads : NamedOpen(t) /\ \A i \in Std : ToHandOver(t, i)

\* t's call may still close f or put it in its object.
Claims(t, f) ==
  \/ pc[t] \in Unhanded /\ f \in Named(streams[t])
  \/ /\ pc[t] = "hand_over"
     /\ \E i \in Std : /\ i >= k[t] /\ streams[t][i].kind = "fd" /\ IsSet(streams[t][i])
                       /\ f \in Ends(streams[t][i])

\* f is the parent's end of stream i of a call that has handed it over.
KeptFile(f, i) ==
  LET u == fds[f].file.by IN
  /\ fds[f] # Closed
  /\ u = User => \E v \in Threads : pc[v] # "idle" /\ f \in Named(streams[v]) /\ ~ Claims(v, f)
  /\ u # User =>
       /\ fds[f].file.stream = i
       /\ fds[f].file.side = IF i = 0 THEN "w" ELSE "r"
       /\ pc[u] \notin Early /\ ~ InHand(u, i)

\* It is in the object of its child, which may be under construction.
KeptOK(o, i) ==
  LET f == popen[o].stream[i]
      u == fds[f].file.by
  IN
  /\ KeptFile(f, i)
  /\ u # User => popen[o].pid \in {u, invalid_pid}
  /\ pc[o] \notin {"idle", "done"} =>
       /\ pc[o] \notin Unhanded /\ (pc[o] = "hand_over" => i < k[o])
       /\ u \in {o, User}

\* No two streams of objects share a number.
ObjectsApart ==
  \A o, p \in Threads, i, j \in Std :
    popen[o].stream[i] # closed_fd /\ popen[o].stream[i] = popen[p].stream[j] => o = p /\ i = j

\* An object's members belong together; one under construction has no pid.
ObjectOK(o) ==
  /\ popen[o].pid # invalid_pid => popen[o].status = NoStatus
  /\ pc[o] \notin {"idle", "done"} => popen[o].pid = invalid_pid /\ popen[o].status = NoStatus
  /\ \A i \in Std : popen[o].stream[i] # closed_fd => KeptOK(o, i)

\* All objects are in order.
ObjectsOK == ObjectsApart /\ \A o \in Threads : ObjectOK(o)

\* f is an end of a stream that t's child has yet to put in its place.
Unprocessed(t, f) ==
  \E i \in Std : /\ i >= child[t].k /\ IsSet(sd[t][i])
                 /\ f \in {sd[t][i].read, sd[t][i].write}

\* What is on number f of the table of t's child.
FileInSetUp(t, f) ==
  LET e == child[t].fds[f] IN
  e # Closed =>
    /\ e.file.by \notin {t, User} => e.cloexec \/ failed[e.file.by]
    /\ e.file.by = t => f \in Std \/ Unprocessed(t, f)
    /\ Unprocessed(t, f) => e.file.by \in {t, User}

\* Stream i is in its place, or still on the number on which it was opened.
StreamInSetUp(t, i) ==
  LET table == child[t].fds
      f == ChildFd(sd[t][i], i)
  IN
  IsSet(sd[t][i]) =>
    IF i < child[t].k
    THEN table[i] # Closed /\ ~ table[i].cloexec /\ Asked(t, i, table[i].file)
    ELSE table[f] # Closed => Asked(t, i, table[f].file)

\* t's child on its way to exec.
SetUpOK(t) ==
  /\ \A f \in FDs : FileInSetUp(t, f)
  /\ NoneIsStandard(t) => \A i \in Std : StreamInSetUp(t, i)
  /\ child[t].k = 4 => child[t].mask = NoSignals

\* t's child once it runs its program.
RunsOK(t) ==
  /\ child[t].mask = NoSignals
  /\ NoneIsStandard(t) =>
       \A i \in Std :
         IsSet(sd[t][i]) => child[t].fds[i] # Closed /\ Asked(t, i, child[t].fds[i].file)
  /\ \A f \in FDs :
       child[t].fds[f] # Closed =>
         LET u == child[t].fds[f].file.by IN
         u = User \/ (u = t /\ f \in Std) \/ (u # t /\ failed[u])

\* t's child, from the clone to its end.
ChildOK(t) ==
  /\ child[t].state # "none" => pc[t] \in PastOpen
  /\ child[t].state = "setup" => SetUpOK(t)
  /\ child[t].state = "running" => RunsOK(t)

\* All children are in order.
ChildrenOK == \A t \in Threads : ChildOK(t)

-----------------------------------------------------------------------------

\* A request names the ends of its streams that are descriptors.
LEMMA NamedIs ==
  ASSUME NEW s \in [Std -> Streams]
  PROVE  \A f : f \in Named(s) <=> \E i \in Std : s[i].kind = "fd" /\ f \in Ends(s[i])
<1> TAKE f
<1> DEFINE J == {j \in Std : s[j].kind = "fd"}
           E == {{s[i].read, s[i].write} : i \in J}
<1>1. f \in Named(s) <=> f # closed_fd /\ \E e \in E : f \in e
  BY DEF Named
<1>2. (\E e \in E : f \in e) <=> \E i \in J : f \in {s[i].read, s[i].write}
  OBVIOUS
<1> QED
  BY <1>1, <1>2 DEF Ends

\* A step of t's leaves the calls of the others alone.
LEMMA OtherCalls ==
  ASSUME TypeOK, NEW t \in Threads,
         Call(t) \/ CallStep(t) \/ ChildStep(t) \/ ChildEnds(t) \/ Use(t)
  PROVE  \A u \in Threads \ {t} :
           /\ pc'[u] = pc[u] /\ k'[u] = k[u] /\ streams'[u] = streams[u]
           /\ sd'[u] = sd[u] /\ failed'[u] = failed[u]
<1>0. /\ pc \in [Threads -> PCs] /\ k \in [Threads -> 0..3]
      /\ streams \in [Threads -> [Std -> Streams]] /\ sd \in [Threads -> [Std -> Descriptors]]
      /\ failed \in [Threads -> BOOLEAN]
  BY DEF TypeOK
<1>1. CASE Call(t)
  BY <1>0, <1>1 DEF Call, Goto
<1>2. CASE OpenStream(t)
  BY <1>0, <1>2 DEF OpenStream, OpenPath, OpenPipe, UseFds
<1>3. CASE CallStep(t) /\ ~ OpenStream(t)
  BY <1>0, <1>3 DEF CallStep, LockClone, LockSignals, OpenFails, Clone, CloneFails,
     SetUpFailed, Started, HandleParentStream, Return, UnlockSignals, UnlockClone, EndCall,
     Throw, Goto
<1>4. CASE ChildStep(t) \/ ChildEnds(t) \/ Use(t)
  <2>1. UNCHANGED call
    BY <1>4 DEF ChildStep, HandleChildStream, ChildStreamFails, ChildCloses, ChildExec,
      ChildFails, ChildEnds, Use, Wait, Signal, Destroy, ResetStream, MoveAssign, Swap
  <2> QED
    BY <2>1 DEF call
<1> QED
  BY <1>1, <1>2, <1>3, <1>4

\* The numbers that open and pipe2 return for stream i of t.
Opens(t, i, r, w) ==
  /\ fds[r] = Closed /\ fds[w] = Closed
  /\ \A g \in FDs \ {r, w} : fds'[g] = fds[g]
  /\ sd' = [sd EXCEPT ![t][i] = [read |-> r, write |-> w]]
  /\ \/ streams[t][i].kind = "path" /\ r = w /\ fds'[r] = End(t, i, "rw", FALSE)
     \/ /\ streams[t][i].kind = "pipe" /\ r # w
        /\ fds'[r] = End(t, i, "r", TRUE) /\ fds'[w] = End(t, i, "w", TRUE)

\* Opening a path takes one free number.
LEMMA PathOpens ==
  ASSUME TypeOK, NEW t \in Threads, NEW i \in Std, streams[t][i].kind = "path", OpenPath(t, i)
  PROVE  \E r, w \in FDs : Opens(t, i, r, w)
<1> DEFINE f == Lowest(Free)
<1>1. f \in Free /\ f \in FDs /\ fds[f] = Closed
  BY LowestIn DEF OpenPath, Free
<1>2. /\ fds' = [fds EXCEPT ![f] = End(t, i, "rw", FALSE)]
      /\ sd' = [sd EXCEPT ![t][i] = [read |-> f, write |-> f]]
  BY DEF OpenPath, End
<1> HIDE DEF f
<1>3. Opens(t, i, f, f)
  BY <1>1, <1>2 DEF Opens, TypeOK
<1> QED
  BY <1>1, <1>3

\* Opening a pipe takes two.
LEMMA PipeOpens ==
  ASSUME TypeOK, NEW t \in Threads, NEW i \in Std, streams[t][i].kind = "pipe", OpenPipe(t, i)
  PROVE  \E r, w \in FDs : Opens(t, i, r, w)
<1> DEFINE r == Lowest(Free)
           w == Lowest(Free \ {r})
<1>1. Free \in SUBSET FDs /\ Free # {} /\ Free \ {r} # {} /\ Free \ {r} \in SUBSET FDs
  BY DEF OpenPipe, Free
<1>2. r \in Free
  BY <1>1, LowestIn
<1>3. w \in Free \ {r}
  BY <1>1, LowestIn
<1>4. /\ fds' = [fds EXCEPT ![r] = End(t, i, "r", TRUE), ![w] = End(t, i, "w", TRUE)]
      /\ sd' = [sd EXCEPT ![t][i] = [read |-> r, write |-> w]]
  BY DEF OpenPipe, End, PipeCloexec
<1>5. r \in FDs /\ w \in FDs /\ fds[r] = Closed /\ fds[w] = Closed /\ r # w
  BY <1>2, <1>3 DEF Free
<1> HIDE DEF r, w
<1>6. Opens(t, i, r, w)
  BY <1>4, <1>5 DEF Opens, TypeOK
<1> QED
  BY <1>5, <1>6

\* What OpenStream does: nothing, opening, or taking the caller's numbers.
LEMMA OpenStreamKinds ==
  ASSUME TypeOK, NEW t \in Threads, OpenStream(t)
  PROVE  /\ k[t] \in Std /\ pc[t] = "open" /\ k'[t] = k[t] + 1
         /\ UNCHANGED <<clone_mutex, prev_sigset, mask, pc, streams, failed, child, popen>>
         /\ \/ streams[t][k[t]].kind = "none" /\ UNCHANGED <<fds, sd>>
            \/ \E r, w \in FDs : Opens(t, k[t], r, w)
            \/ /\ streams[t][k[t]].kind = "fd"
               /\ UseFds(t, k[t])
<1>1. k[t] \in Std
  BY DEF OpenStream
<1>2. OpenPath(t, k[t]) /\ streams[t][k[t]].kind = "path" => \E r, w \in FDs : Opens(t, k[t], r, w)
  BY <1>1, PathOpens
<1>3. OpenPipe(t, k[t]) /\ streams[t][k[t]].kind = "pipe" => \E r, w \in FDs : Opens(t, k[t], r, w)
  BY <1>1, PipeOpens
<1>4. k'[t] = k[t] + 1
  BY DEF OpenStream, TypeOK
<1> QED
  BY <1>1, <1>2, <1>3, <1>4 DEF OpenStream

\* The types of what a call has asked for and got.
LEMMA StreamTypesOf ==
  ASSUME TypeOK, NEW t \in Threads, NEW i \in Std
  PROVE  /\ streams[t] \in [Std -> Streams] /\ sd[t] \in [Std -> Descriptors]
         /\ sd[t][i] \in Descriptors
         /\ sd[t][i].read \in FDs \cup {closed_fd} /\ sd[t][i].write \in FDs \cup {closed_fd}
         /\ streams[t][i].kind \in {"none", "path", "pipe", "fd"}
         /\ streams[t][i].kind = "fd" =>
              /\ streams[t][i].read \in FDs \cup {closed_fd}
              /\ streams[t][i].write \in FDs \cup {closed_fd}
         /\ pc[t] \in PCs /\ k[t] \in 0..3 /\ failed[t] \in BOOLEAN
         /\ closed_fd \notin FDs
<1>1. streams[t] \in [Std -> Streams] /\ sd[t] \in [Std -> Descriptors] /\ closed_fd \notin FDs
  BY PopenAssumption DEF TypeOK
<1>2. pc[t] \in PCs /\ k[t] \in 0..3 /\ failed[t] \in BOOLEAN
  BY DEF TypeOK
<1>3. streams[t][i] \in Streams /\ sd[t][i] \in Descriptors
  BY <1>1
<1> QED
  BY <1>1, <1>2, <1>3 DEF Streams, Descriptors

\* What an open number holds.
LEMMA EntryTypes ==
  ASSUME NEW e \in Entries, e # Closed
  PROVE  /\ e.file \in Files /\ e.cloexec \in BOOLEAN
         /\ e.file.by \in Threads \cup {User} /\ e.file.stream \in FDs
BY DEF Entries, Files

\* What an end that popen opened holds.
EndIs(e, t, i, side, cloexec) ==
  /\ e # Closed /\ e.file = [by |-> t, stream |-> i, side |-> side]
  /\ e.file.by = t /\ e.file.stream = i /\ e.file.side = side
  /\ e.cloexec <=> cloexec

\* The fields of such an entry.
LEMMA EndOf ==
  ASSUME NEW t \in Threads, NEW i \in Std, NEW side \in {"r", "w", "rw"}
  PROVE  /\ EndIs(End(t, i, side, TRUE), t, i, side, TRUE)
         /\ EndIs(End(t, i, side, FALSE), t, i, side, FALSE)
<1>1. [by |-> t, stream |-> i, side |-> side] \in Files
  BY PopenAssumption DEF Files, FDs, Std
<1>2. /\ End(t, i, side, TRUE) \in [file : Files, cloexec : BOOLEAN]
      /\ End(t, i, side, FALSE) \in [file : Files, cloexec : BOOLEAN]
  BY <1>1 DEF End
<1>3. End(t, i, side, TRUE) # Closed /\ End(t, i, side, FALSE) # Closed
  BY <1>2, PopenAssumption
<1> QED
  BY <1>3 DEF End, EndIs

\* The ends of a stream that is about to be handed over.
LEMMA EndsInHand ==
  ASSUME TypeOK, CallsOK, NamesOK, NEW t \in Threads, NEW i \in Std,
         pc[t] = "hand_over", i >= k[t], IsSet(sd[t][i])
  PROVE  LET c == ChildFd(sd[t][i], i)
             p == ParentFd(sd[t][i], i)
         IN
         /\ c \in FDs /\ p \in FDs
         /\ \/ /\ streams[t][i].kind \in {"path", "pipe"}
               /\ fds[c] # Closed /\ fds[c].file.by = t /\ fds[c].file.stream = i
               /\ p # c => /\ fds[p] # Closed /\ fds[p].file.by = t /\ fds[p].file.stream = i
                           /\ fds[p].file.side = (IF i = 0 THEN "w" ELSE "r")
            \/ /\ streams[t][i].kind = "fd" /\ IsSet(streams[t][i])
               /\ c = ChildFd(streams[t][i], i) /\ p = ParentFd(streams[t][i], i)
               /\ c \in Ends(streams[t][i]) /\ p \in Ends(streams[t][i])
               /\ fds[c] = Closed \/ fds[c].file.by = User
               /\ p # c => fds[p] # Closed /\ fds[p].file.by = User
<1> DEFINE d == sd[t][i]
<1>1. InHandOK(t, i)
  BY DEF CallsOK, CallOK, Holds
<1>2. ChildFd(d, i) \in FDs /\ ParentFd(d, i) \in FDs
  BY StreamTypesOf, EndsAreFds
<1>3. streams[t][i].kind \in {"none", "path", "pipe", "fd"} /\ closed_fd \notin FDs
  BY StreamTypesOf
<1>4. CASE streams[t][i].kind = "none"
  BY <1>1, <1>4 DEF InHandOK, Shape, IsSet, NotSet
<1>5. CASE streams[t][i].kind = "path"
  <2>1. d.read \in FDs /\ d.write = d.read /\ fds[d.read] = End(t, i, "rw", FALSE)
    BY <1>1, <1>5 DEF InHandOK, Shape
  <2>2. fds[d.read] # Closed /\ fds[d.read].file.by = t /\ fds[d.read].file.stream = i
    <3>1. EndIs(fds[d.read], t, i, "rw", FALSE)
      BY <2>1, EndOf
    <3> QED
      BY <3>1 DEF EndIs
  <2> QED
    BY <1>2, <1>5, <2>1, <2>2 DEF ChildFd, ParentFd
<1>6. CASE streams[t][i].kind = "pipe"
  <2>1. /\ d.read \in FDs /\ d.write \in FDs /\ d.read # d.write
        /\ fds[d.read] = End(t, i, "r", TRUE) /\ fds[d.write] = End(t, i, "w", TRUE)
    BY <1>1, <1>6 DEF InHandOK, Shape
  <2>2. /\ fds[d.read] # Closed /\ fds[d.read].file.by = t /\ fds[d.read].file.stream = i
        /\ fds[d.read].file.side = "r"
    <3>1. EndIs(fds[d.read], t, i, "r", TRUE)
      BY <2>1, EndOf
    <3> QED
      BY <3>1 DEF EndIs
  <2>3. /\ fds[d.write] # Closed /\ fds[d.write].file.by = t /\ fds[d.write].file.stream = i
        /\ fds[d.write].file.side = "w"
    <3>1. EndIs(fds[d.write], t, i, "w", TRUE)
      BY <2>1, EndOf
    <3> QED
      BY <3>1 DEF EndIs
  <2> QED
    BY <1>2, <1>6, <2>2, <2>3 DEF ChildFd, ParentFd
<1>7. CASE streams[t][i].kind = "fd"
  <2> DEFINE s == streams[t][i]
  <2>1. d.read = s.read /\ d.write = s.write
    BY <1>1, <1>7 DEF InHandOK, Shape
  <2>2. /\ IsSet(s) /\ ChildFd(d, i) = ChildFd(s, i) /\ ParentFd(d, i) = ParentFd(s, i)
    BY <2>1 DEF IsSet, ChildFd, ParentFd
  <2>3. ChildFd(d, i) \in Ends(s) /\ ParentFd(d, i) \in Ends(s)
    BY <1>2, <1>3, <2>1 DEF Ends, ChildFd, ParentFd
  <2>4. \A f \in Ends(s) : fds[f] = Closed \/ fds[f].file.by = User
    BY <1>7 DEF NamesOK, ToHandOver
  <2>5. ParentFd(s, i) # ChildFd(s, i) => fds[ParentFd(s, i)] # Closed
    BY <1>7, <2>2 DEF NamesOK, ToHandOver
  <2> QED
    BY <1>2, <1>7, <2>2, <2>3, <2>4, <2>5
<1> QED
  BY <1>3, <1>4, <1>5, <1>6, <1>7

\* What is known about types, locks and pids.
Base == TypeOK /\ Locking /\ PidInv

\* What is known about descriptors.
Desc == CallsOK /\ TableOK /\ NamesOK /\ ObjectsOK

\* A step of thread t, its child, or its object's owner.
Step(t) == Call(t) \/ CallStep(t) \/ ChildStep(t) \/ ChildEnds(t) \/ Use(t)

\* Closing f is done for one of the streams of t's object.
ClosesKept(t) ==
  /\ Usable(t) /\ UNCHANGED call
  /\ \A f \in FDs :
       fds'[f] = fds[f] \/ (fds'[f] = Closed /\ \E j \in Std : popen[t].stream[j] = f)

\* The table of the process changes by opening a stream, by handing one over
\* and by closing those of an object.
LEMMA FdsStep ==
  ASSUME TypeOK, NEW t \in Threads, Step(t)
  PROVE  \/ fds' = fds
         \/ OpenStream(t) /\ \E r, w \in FDs : Opens(t, k[t], r, w)
         \/ /\ HandleParentStream(t) /\ IsSet(sd[t][k[t]])
            /\ fds' = [fds EXCEPT ![ChildFd(sd[t][k[t]], k[t])] = Closed]
         \/ ClosesKept(t)
<1>1. CASE OpenStream(t)
  BY <1>1, OpenStreamKinds DEF UseFds
<1>2. CASE HandleParentStream(t)
  BY <1>2 DEF HandleParentStream, CloseChildFd
<1>3. CASE \E i \in Std : ResetStream(t, i)
  BY <1>3 DEF ResetStream, ClosesKept, TypeOK
<1>4. CASE Destroy(t)
  BY <1>4 DEF Destroy, ClosesKept
<1>5. CASE ChildStep(t) \/ ChildEnds(t)
  BY <1>5 DEF ChildStep, HandleChildStream, ChildStreamFails, ChildCloses, ChildExec,
      ChildFails, ChildEnds
<1>6. CASE Wait(t) \/ Signal(t) \/ \E p \in Threads : MoveAssign(t, p) \/ Swap(t, p)
  BY <1>6 DEF Wait, Signal, MoveAssign, Swap
<1>7. CASE Call(t)
  BY <1>7 DEF Call
<1>8. CASE CallStep(t) /\ ~ OpenStream(t) /\ ~ HandleParentStream(t)
  BY <1>8 DEF CallStep, LockClone, LockSignals, OpenFails, Clone, CloneFails,
     SetUpFailed, Started, Return, UnlockSignals, UnlockClone, EndCall
<1> QED
  BY <1>1, <1>2, <1>3, <1>4, <1>5, <1>6, <1>7, <1>8 DEF Step, Use

\* An object's streams in terms of KeptOK.
LEMMA KeptIs ==
  ASSUME Base, Desc, NEW o \in Threads, NEW i \in Std, popen[o].stream[i] # closed_fd
  PROVE  KeptOK(o, i) /\ popen[o].stream[i] \in FDs
BY DEF Base, TypeOK, PopenObjects, Desc, ObjectsOK, ObjectOK

\* No two calls are between the locks.
LEMMA OneCritical ==
  ASSUME Locking, NEW t \in Threads, NEW u \in Threads, pc[t] \in Critical, pc[u] \in Critical
  PROVE  t = u
BY DEF Locking

\* A step changes nothing about a stream that a call has in hand, except for
\* handing it over.
LEMMA InHandUntouched ==
  ASSUME Base, Desc, NEW t \in Threads, Step(t), NEW u \in Threads, NEW i \in Std,
         Holds(u, i), ~ (HandleParentStream(t) /\ u = t /\ i = k[t]),
         NEW f \in FDs, fds[f] # Closed, fds[f].file.by = u, fds[f].file.stream = i
  PROVE  fds'[f] = fds[f]
<1>0. TypeOK /\ Locking /\ CallsOK /\ NamesOK /\ fds \in [FDs -> Entries] /\ User \notin Threads
  BY PopenAssumption DEF Base, Desc, TypeOK
<1>1. CASE OpenStream(t) /\ \E r, w \in FDs : Opens(t, k[t], r, w)
  BY <1>1 DEF Opens
<1>2. CASE /\ HandleParentStream(t) /\ IsSet(sd[t][k[t]])
           /\ fds' = [fds EXCEPT ![ChildFd(sd[t][k[t]], k[t])] = Closed]
  <2> DEFINE j == k[t]
             c == ChildFd(sd[t][j], j)
  <2>1. pc[t] = "hand_over" /\ j \in Std /\ j >= k[t]
    BY <1>2 DEF HandleParentStream, Std
  <2>2. u = t
    BY <1>0, <2>1, OneCritical DEF Holds, Critical
  <2>3. i # j
    BY <1>2, <2>2
  <2>4. \/ fds[c] = Closed \/ fds[c].file.by = User
        \/ fds[c].file.stream = j
    BY <1>0, <1>2, <2>1, EndsInHand
  <2>5. f # c
    BY <1>0, <2>3, <2>4
  <2> QED
    BY <1>0, <1>2, <2>5
<1>3. CASE ClosesKept(t)
  <2> SUFFICES ASSUME fds'[f] # fds[f] PROVE FALSE
    OBVIOUS
  <2>1. PICK j \in Std : popen[t].stream[j] = f
    BY <1>3 DEF ClosesKept
  <2>2. KeptOK(t, j)
    BY <1>0, <2>1, KeptIs, PopenAssumption
  <2>3. j = i /\ ~ InHand(u, i)
    BY <1>0, <2>1, <2>2 DEF KeptOK, KeptFile
  <2> QED
    BY <2>3 DEF Holds, InHand
<1> QED
  BY <1>0, <1>1, <1>2, <1>3, FdsStep

\* So a stream in hand stays as it is.
LEMMA InHandKept ==
  ASSUME Base, Desc, NEW t \in Threads, Step(t), NEW u \in Threads, NEW i \in Std,
         Holds(u, i), ~ (HandleParentStream(t) /\ u = t /\ i = k[t]),
         streams'[u] = streams[u], sd'[u][i] = sd[u][i]
  PROVE  InHandOK(u, i)'
<1>1. InHandOK(u, i)
  BY DEF Desc, CallsOK, CallOK
<1>2. \A f \in FDs :
        (fds[f] # Closed /\ fds[f].file.by = u /\ fds[f].file.stream = i) => fds'[f] = fds[f]
  BY InHandUntouched
<1>3. \A f \in FDs : EndIs(fds[f], u, i, "rw", FALSE) => fds'[f] = fds[f]
  BY <1>2 DEF EndIs
<1>4. \A f \in FDs : EndIs(fds[f], u, i, "r", TRUE) => fds'[f] = fds[f]
  BY <1>2 DEF EndIs
<1>5. \A f \in FDs : EndIs(fds[f], u, i, "w", TRUE) => fds'[f] = fds[f]
  BY <1>2 DEF EndIs
<1>6. CASE streams[u][i].kind = "path"
  <2>1. sd[u][i].read \in FDs /\ fds[sd[u][i].read] = End(u, i, "rw", FALSE)
    BY <1>1, <1>6 DEF InHandOK, Shape
  <2>2. fds'[sd[u][i].read] = fds[sd[u][i].read]
    BY <1>3, <2>1, EndOf
  <2> QED
    BY <1>1, <1>6, <2>1, <2>2 DEF InHandOK, Shape
<1>7. CASE streams[u][i].kind = "pipe"
  <2>1. /\ sd[u][i].read \in FDs /\ fds[sd[u][i].read] = End(u, i, "r", TRUE)
        /\ sd[u][i].write \in FDs /\ fds[sd[u][i].write] = End(u, i, "w", TRUE)
    BY <1>1, <1>7 DEF InHandOK, Shape
  <2>2. fds'[sd[u][i].read] = fds[sd[u][i].read]
    BY <1>4, <2>1, EndOf
  <2>3. fds'[sd[u][i].write] = fds[sd[u][i].write]
    BY <1>5, <2>1, EndOf
  <2> QED
    BY <1>1, <1>7, <2>1, <2>2, <2>3 DEF InHandOK, Shape
<1>8. CASE streams[u][i].kind \notin {"path", "pipe"}
  BY <1>1, <1>8 DEF InHandOK, Shape
<1> QED
  BY <1>6, <1>7, <1>8

\* A call whose variables a step leaves alone stays as it is.
LEMMA CallKept ==
  ASSUME Base, Desc, NEW t \in Threads, Step(t), NEW u \in Threads,
         pc'[u] = pc[u], k'[u] = k[u], streams'[u] = streams[u], sd'[u] = sd[u]
  PROVE  CallOK(u)'
<1>1. CallOK(u)
  BY DEF Desc, CallsOK
<1>2. \A i \in Std : Holds(u, i)' <=> Holds(u, i)
  BY DEF Holds
<1>3. ~ (HandleParentStream(t) /\ u = t)
  <2>1. k \in [Threads -> 0..3] /\ k[t] + 1 # k[t]
    BY DEF Base, TypeOK
  <2> QED
    BY <2>1 DEF HandleParentStream
<1>4. \A i \in Std : Holds(u, i) => InHandOK(u, i)'
  BY <1>3, InHandKept
<1> QED
  BY <1>1, <1>2, <1>4 DEF CallOK

\* Every step keeps CallsOK.
LEMMA CallsStep ==
  ASSUME Base, Desc, NEW t \in Threads, Step(t)
  PROVE  CallsOK'
<1>0. /\ TypeOK /\ CallOK(t) /\ CallsOK /\ pc \in [Threads -> PCs] /\ k \in [Threads -> 0..3]
      /\ k[t] \in 0..3
      /\ streams \in [Threads -> [Std -> Streams]] /\ sd \in [Threads -> [Std -> Descriptors]]
  BY DEF Base, Desc, TypeOK, CallsOK
<1>1. \A u \in Threads \ {t} : CallOK(u)'
  BY <1>0, OtherCalls, CallKept DEF Step
<1> SUFFICES CallOK(t)'
  BY <1>1 DEF CallsOK
<1>2. CASE ChildStep(t) \/ ChildEnds(t) \/ Use(t)
  <2>1. UNCHANGED call
    BY <1>2 DEF ChildStep, HandleChildStream, ChildStreamFails, ChildCloses, ChildExec,
      ChildFails, ChildEnds, Use, Wait, Signal, Destroy, ResetStream, MoveAssign, Swap
  <2> QED
    BY <2>1, CallKept DEF call
<1>3. CASE Call(t)
  BY <1>0, <1>3 DEF Call, Goto, CallOK, Early, Holds
<1>4. CASE LockClone(t)
  BY <1>0, <1>4 DEF LockClone, Goto, CallOK, Early, Holds
<1>5. CASE LockSignals(t)
  BY <1>0, <1>5 DEF LockSignals, Goto, CallOK, Early, Holds, Std
<1>6. CASE OpenStream(t)
  <2>0. PICK j \in Std : j = k[t]
    BY <1>6 DEF OpenStream
  <2>1. /\ k[t] \in Std /\ pc[t] = "open" /\ k'[t] = k[t] + 1 /\ pc' = pc /\ streams' = streams
        /\ \/ streams[t][k[t]].kind = "none" /\ UNCHANGED <<fds, sd>>
           \/ \E r, w \in FDs : Opens(t, k[t], r, w)
           \/ streams[t][k[t]].kind = "fd" /\ UseFds(t, k[t])
    BY <1>0, <1>6, OpenStreamKinds
  <2>2. \A i \in Std : i # j => sd'[t][i] = sd[t][i]
    BY <1>0, <2>0, <2>1 DEF Opens, UseFds
  <2>3. InHandOK(t, j)'
    <3>1. CASE streams[t][j].kind = "none" /\ UNCHANGED <<fds, sd>>
      BY <1>0, <2>0, <2>1, <3>1 DEF CallOK, InHandOK, Shape, Std
    <3>2. CASE \E r, w \in FDs : Opens(t, j, r, w)
      <4>1. PICK r, w \in FDs : Opens(t, j, r, w)
        BY <3>2
      <4>2. sd'[t][j].read = r /\ sd'[t][j].write = w
        BY <1>0, <2>0, <2>1, <4>1 DEF Opens
      <4> QED
        BY <2>0, <2>1, <4>1, <4>2 DEF Opens, InHandOK, Shape
    <3>3. CASE streams[t][j].kind = "fd" /\ UseFds(t, j)
      BY <1>0, <2>0, <2>1, <3>3 DEF UseFds, InHandOK, Shape
    <3> QED
      BY <2>0, <2>1, <3>1, <3>2, <3>3
  <2>4. \A i \in Std : i < j => InHandOK(t, i)'
    <3> SUFFICES ASSUME NEW i \in Std, i < j PROVE InHandOK(t, i)'
      OBVIOUS
    <3>1. Holds(t, i) /\ i # j
      BY <2>0, <2>1 DEF Holds, Std
    <3>2. ~ HandleParentStream(t)
      BY <2>0, <2>1 DEF HandleParentStream
    <3> QED
      BY <2>0, <2>1, <2>2, <3>1, <3>2, InHandKept
  <2>5. \A i \in Std : i >= j + 1 => sd'[t][i] = NotSet
    BY <1>0, <2>0, <2>1, <2>2 DEF CallOK, Std
  <2>6. \A i \in Std : i < j + 1 => InHandOK(t, i)'
    <3>1. \A i \in Std : i < j + 1 => i < j \/ i = j
      BY <2>0, <2>1 DEF Std
    <3> QED
      BY <2>3, <2>4, <3>1
  <2>7. pc'[t] = "open" /\ streams'[t] \in Requests
    BY <1>0, <2>0, <2>1 DEF CallOK
  <2> QED
    BY <2>0, <2>1, <2>5, <2>6, <2>7 DEF CallOK, Holds, Early
<1>7. CASE OpenFails(t) \/ CloneFails(t) \/ SetUpFailed(t)
  BY <1>0, <1>7 DEF OpenFails, CloneFails, SetUpFailed, Throw, Goto, CallOK, Early, Holds
<1>8. CASE Clone(t) \/ Started(t)
  <2>1. /\ streams' = streams /\ sd' = sd /\ pc[t] \in {"open", "vfork"}
        /\ pc'[t] \in {"vfork", "hand_over"}
        /\ ~ HandleParentStream(t)
        /\ \A i \in Std : Holds(t, i)
    BY <1>0, <1>8 DEF Clone, Started, Goto, HandleParentStream, Holds, Std
  <2>2. \A i \in Std : InHandOK(t, i)'
    BY <2>1, InHandKept
  <2> QED
    BY <1>0, <2>1, <2>2 DEF CallOK, Early
<1>9. CASE HandleParentStream(t)
  <2>1. /\ streams' = streams /\ sd' = sd /\ pc' = pc /\ pc[t] = "hand_over" /\ k[t] \in Std
        /\ k'[t] = k[t] + 1
    BY <1>0, <1>9 DEF HandleParentStream
  <2>2. \A i \in Std : i >= k[t] + 1 => Holds(t, i) /\ i # k[t]
    BY <2>1 DEF Holds, Std
  <2>3. \A i \in Std : i >= k[t] + 1 => InHandOK(t, i)'
    BY <2>1, <2>2, InHandKept
  <2> QED
    BY <1>0, <2>1, <2>3 DEF CallOK, Holds, Early
<1>10. CASE Return(t) \/ UnlockSignals(t) \/ UnlockClone(t) \/ EndCall(t)
  BY <1>0, <1>10 DEF Return, UnlockSignals, UnlockClone, EndCall, Goto, CallOK, Early, Holds
<1> QED
  BY <1>2, <1>3, <1>4, <1>5, <1>6, <1>7, <1>8, <1>9, <1>10 DEF Step, CallStep

\* How a step changes a call's streams in hand.
LEMMA HoldsStep ==
  ASSUME Base, NEW t \in Threads, Step(t), NEW u \in Threads, NEW i \in Std
  PROVE  /\ failed[u] => failed'[u]
         /\ sd'[u][i] = sd[u][i] \/ (OpenStream(t) /\ u = t /\ i = k[t])
         /\ Holds(u, i) => \/ Holds(u, i)' \/ failed'[u]
                           \/ HandleParentStream(t) /\ u = t /\ i = k[t]
<1>0. /\ TypeOK /\ pc \in [Threads -> PCs] /\ k \in [Threads -> 0..3] /\ k[t] \in 0..3
      /\ failed \in [Threads -> BOOLEAN] /\ sd \in [Threads -> [Std -> Descriptors]]
  BY DEF Base, TypeOK
<1>1. CASE u # t
  BY <1>0, <1>1, OtherCalls DEF Step, Holds
<1>2. CASE u = t /\ UNCHANGED <<failed, sd, pc, k>>
  BY <1>2 DEF Holds
<1>3. CASE u = t /\ OpenStream(t)
  <2>1. failed' = failed /\ pc' = pc /\ pc[t] = "open" /\ k'[t] = k[t] + 1
    BY <1>0, <1>3, OpenStreamKinds
  <2>2. i # k[t] => sd'[u][i] = sd[u][i]
    <3>1. PICK j \in Std : j = k[t]
      BY <1>3 DEF OpenStream
    <3>2. sd' = sd \/ \E d : sd' = [sd EXCEPT ![t][j] = d]
      BY <1>0, <1>3, <3>1, OpenStreamKinds DEF Opens, UseFds
    <3> QED
      BY <1>0, <1>3, <3>1, <3>2
  <2> QED
    BY <1>0, <1>3, <2>1, <2>2 DEF Holds, Std
<1>4. CASE u = t /\ HandleParentStream(t)
  BY <1>0, <1>4 DEF HandleParentStream, Holds, Std
<1>5. CASE u = t /\ (OpenFails(t) \/ CloneFails(t) \/ SetUpFailed(t))
  BY <1>0, <1>5 DEF OpenFails, CloneFails, SetUpFailed, Throw
<1>6. CASE u = t /\ (Call(t) \/ LockClone(t) \/ LockSignals(t) \/ Clone(t) \/ Started(t))
  BY <1>0, <1>6 DEF Call, LockClone, LockSignals, Clone, Started, Goto, Holds, Std
<1>7. CASE u = t /\ (Return(t) \/ UnlockSignals(t) \/ UnlockClone(t) \/ EndCall(t))
  BY <1>0, <1>7 DEF Return, UnlockSignals, UnlockClone, EndCall, Goto, Holds, Std
<1>8. CASE ChildStep(t) \/ ChildEnds(t) \/ Use(t)
  <2>1. UNCHANGED call
    BY <1>8 DEF ChildStep, HandleChildStream, ChildStreamFails, ChildCloses, ChildExec,
      ChildFails, ChildEnds, Use, Wait, Signal, Destroy, ResetStream, MoveAssign, Swap
  <2> QED
    BY <1>1, <1>2, <2>1 DEF call
<1> QED
  BY <1>1, <1>3, <1>4, <1>5, <1>6, <1>7, <1>8 DEF Step, CallStep

\* An end that popen opened without O_CLOEXEC is gone when its stream has been
\* handed over.
LEMMA HandedOverIsClosed ==
  ASSUME Base, Desc, NEW t \in Threads, HandleParentStream(t), NEW f \in FDs,
         fds[f] # Closed, fds[f].file.by = t,
         f \in {sd[t][k[t]].read, sd[t][k[t]].write}
  PROVE  fds[f].cloexec \/ fds'[f] = Closed
<1>0. /\ TypeOK /\ CallsOK /\ NamesOK /\ User \notin Threads /\ fds \in [FDs -> Entries]
      /\ closed_fd \notin FDs
  BY PopenAssumption DEF Base, Desc, TypeOK
<1>1. PICK i \in Std : i = k[t]
  BY DEF HandleParentStream
<1>2. pc[t] = "hand_over" /\ InHandOK(t, i)
  BY <1>0, <1>1 DEF HandleParentStream, CallsOK, CallOK, Holds, Std
<1>3. CASE streams[t][i].kind = "path"
  <2>1. sd[t][i].read \in FDs /\ sd[t][i].write = sd[t][i].read /\ IsSet(sd[t][i])
    BY <1>0, <1>2, <1>3 DEF InHandOK, Shape, IsSet
  <2>2. ChildFd(sd[t][i], i) = f
    BY <1>1, <2>1 DEF ChildFd
  <2> QED
    BY <1>0, <1>1, <2>1, <2>2 DEF HandleParentStream, CloseChildFd
<1>4. CASE streams[t][i].kind = "pipe"
  <2>1. fds[f] = End(t, i, "r", TRUE) \/ fds[f] = End(t, i, "w", TRUE)
    BY <1>1, <1>2, <1>4 DEF InHandOK
  <2>2. EndIs(fds[f], t, i, "r", TRUE) \/ EndIs(fds[f], t, i, "w", TRUE)
    BY <2>1, EndOf
  <2> QED
    BY <2>2 DEF EndIs
<1>5. CASE streams[t][i].kind = "fd"
  <2>1. f \in Ends(streams[t][i])
    BY <1>0, <1>1, <1>2, <1>5 DEF InHandOK, Shape, Ends
  <2>2. fds[f].file.by = User
    BY <1>1, <1>2, <1>5, <2>1, <1>0 DEF NamesOK, ToHandOver, Std
  <2> QED
    BY <1>0, <2>2
<1>6. CASE streams[t][i].kind = "none"
  BY <1>0, <1>1, <1>2, <1>6 DEF InHandOK, Shape, NotSet
<1> QED
  BY <1>0, <1>3, <1>4, <1>5, <1>6, StreamTypesOf

\* Every step keeps TableOK.
LEMMA TableStep ==
  ASSUME Base, Desc, NEW t \in Threads, Step(t)
  PROVE  TableOK'
<1>0. /\ TypeOK /\ TypeOK' /\ CallsOK /\ User \notin Threads /\ closed_fd \notin FDs
      /\ fds \in [FDs -> Entries] /\ Closed \notin [file : Files, cloexec : BOOLEAN]
      /\ sd \in [Threads -> [Std -> Descriptors]]
  BY PopenAssumption, TypeStep DEF Base, Desc, TypeOK, Step
<1> SUFFICES ASSUME NEW f \in FDs, fds'[f] # Closed
             PROVE  IF fds'[f].file.by = User
                    THEN fds'[f].file = [by |-> User, stream |-> f, side |-> "rw"]
                    ELSE OwnFile(f)'
  BY DEF TableOK
<1>1. CASE fds'[f] = fds[f]
  <2>1. CASE fds[f].file.by = User
    BY <1>1, <2>1 DEF Desc, TableOK
  <2>2. CASE fds[f].file.by # User
    <3>1. OwnFile(f)
      BY <1>1, <2>2 DEF Desc, TableOK
    <3>2. PICK u \in Threads, i \in Std : u = fds[f].file.by /\ i = fds[f].file.stream
      BY <3>1 DEF OwnFile
    <3>3. f \in {sd[u][i].read, sd[u][i].write} /\ (fds[f].cloexec \/ failed[u] \/ Holds(u, i))
      BY <3>1, <3>2 DEF OwnFile
    <3>4. sd'[u][i] = sd[u][i]
      <4>1. SUFFICES ASSUME OpenStream(t), u = t, i = k[t] PROVE FALSE
        BY HoldsStep
      <4>2. sd[u][i] = NotSet
        BY <1>0, <4>1 DEF OpenStream, CallsOK, CallOK, Std
      <4> QED
        BY <1>0, <3>3, <4>2 DEF NotSet
    <3>5. fds[f].cloexec \/ failed'[u] \/ Holds(u, i)'
      <4>1. CASE HandleParentStream(t) /\ u = t /\ i = k[t]
        BY <1>1, <3>2, <3>3, <4>1, HandedOverIsClosed
      <4> QED
        BY <3>3, <4>1, HoldsStep
    <3>6. OwnFile(f)'
      BY <1>1, <3>2, <3>3, <3>4, <3>5 DEF OwnFile
    <3> QED
      BY <1>1, <2>2, <3>6
  <2> QED
    BY <2>1, <2>2
<1>2. CASE fds'[f] # fds[f]
  <2>1. PICK r, w \in FDs : OpenStream(t) /\ Opens(t, k[t], r, w)
    BY <1>0, <1>2, FdsStep DEF ClosesKept
  <2>2. PICK i \in Std : i = k[t]
    BY <2>1 DEF OpenStream
  <2>3. pc' = pc /\ pc[t] = "open" /\ k'[t] = k[t] + 1
    BY <1>0, <2>1, OpenStreamKinds
  <2>4. f \in {r, w} /\ sd'[t][i] = [read |-> r, write |-> w]
    BY <1>0, <1>2, <2>1, <2>2 DEF Opens
  <2>5. EndIs(fds'[f], t, i, "rw", FALSE) \/ EndIs(fds'[f], t, i, "r", TRUE)
        \/ EndIs(fds'[f], t, i, "w", TRUE)
    BY <2>1, <2>2, <2>4, EndOf DEF Opens
  <2>6. fds'[f].file.by = t /\ fds'[f].file.stream = i
    BY <2>5 DEF EndIs
  <2>7. Holds(t, i)'
    BY <2>2, <2>3 DEF Holds, Std
  <2>8. OwnFile(f)'
    BY <2>4, <2>6, <2>7 DEF OwnFile
  <2> QED
    BY <1>0, <2>6, <2>8
<1> QED
  BY <1>1, <1>2

\* A descriptor of the caller's that an object keeps is claimed by no call.
LEMMA KeptUnclaimed ==
  ASSUME Base, Desc, NEW o \in Threads, NEW i \in Std, popen[o].stream[i] # closed_fd,
         fds[popen[o].stream[i]].file.by = User,
         NEW u \in Threads, popen[o].stream[i] \in Named(streams[u])
  PROVE  ~ Claims(u, popen[o].stream[i])
<1>1. KeptFile(popen[o].stream[i], i)
  BY KeptIs DEF KeptOK
<1>2. PICK v \in Threads :
        popen[o].stream[i] \in Named(streams[v]) /\ ~ Claims(v, popen[o].stream[i])
  BY <1>1 DEF KeptFile
<1>3. u = v
  BY <1>2 DEF Desc, NamesOK, NamesApart
<1> QED
  BY <1>2, <1>3

\* Closing an object's streams closes nothing that a call claims.
LEMMA ClaimedUntouched ==
  ASSUME Base, Desc, NEW t \in Threads, ClosesKept(t), NEW u \in Threads, NEW f \in FDs,
         fds[f] # Closed, fds[f].file.by = User, f \in Named(streams[u]), Claims(u, f)
  PROVE  fds'[f] = fds[f]
<1> SUFFICES ASSUME fds'[f] # fds[f] PROVE FALSE
  OBVIOUS
<1>1. PICK j \in Std : popen[t].stream[j] = f
  BY DEF ClosesKept
<1>2. f # closed_fd
  BY PopenAssumption
<1> QED
  BY <1>1, <1>2, KeptUnclaimed

\* Every step but the constructor's call leaves requests alone, and none goes
\* back to before the hand-over.
LEMMA RequestsStep ==
  ASSUME Base, NEW t \in Threads, Step(t), NEW u \in Threads
  PROVE  /\ streams'[u] = streams[u] \/ (Call(t) /\ u = t)
         /\ pc'[u] \in Unhanded => pc[u] \in Unhanded \/ (Call(t) /\ u = t)
         /\ pc'[u] = "hand_over" => \/ pc[u] = "hand_over" /\ k'[u] >= k[u]
                                    \/ pc[u] = "vfork"
         /\ pc'[u] \in Early => pc[u] \in Early
         /\ pc'[u] = "idle" => pc[u] = "idle"
         /\ pc'[u] = "vfork" => pc[u] \in {"open", "vfork"}
         /\ pc'[u] = "open" => pc[u] \in {"lock_signals", "open"}
         /\ pc'[u] \notin {"idle", "done"} =>
              pc[u] \notin {"idle", "done"} \/ (Call(t) /\ u = t)
         /\ ~ (Call(t) /\ u = t /\ pc[u] # "idle")
<1>0. /\ TypeOK /\ pc \in [Threads -> PCs] /\ k \in [Threads -> 0..3] /\ k[t] \in 0..3
      /\ k[u] \in 0..3
  BY DEF Base, TypeOK
<1> USE DEF Unhanded, Early
<1>1. CASE u # t
  BY <1>0, <1>1, OtherCalls DEF Step
<1>2. CASE u = t /\ (Call(t) \/ LockClone(t) \/ LockSignals(t) \/ Clone(t) \/ Started(t))
  BY <1>0, <1>2 DEF Call, LockClone, LockSignals, Clone, Started, Goto
<1>3. CASE u = t /\ OpenStream(t)
  BY <1>0, <1>3 DEF OpenStream, Call
<1>4. CASE u = t /\ HandleParentStream(t)
  BY <1>0, <1>4 DEF HandleParentStream, Std, Call
<1>5. CASE u = t /\ (OpenFails(t) \/ CloneFails(t) \/ SetUpFailed(t))
  BY <1>0, <1>5 DEF OpenFails, CloneFails, SetUpFailed, Throw, Goto, Call
<1>6. CASE u = t /\ (Return(t) \/ UnlockSignals(t) \/ UnlockClone(t) \/ EndCall(t))
  BY <1>0, <1>6 DEF Return, UnlockSignals, UnlockClone, EndCall, Goto, Call
<1>7. CASE ChildStep(t) \/ ChildEnds(t) \/ Use(t)
  <2>1. UNCHANGED call
    BY <1>7 DEF ChildStep, HandleChildStream, ChildStreamFails, ChildCloses, ChildExec,
      ChildFails, ChildEnds, Use, Wait, Signal, Destroy, ResetStream, MoveAssign, Swap
  <2> QED
    BY <1>0, <2>1 DEF call, Call
<1> QED
  BY <1>1, <1>2, <1>3, <1>4, <1>5, <1>6, <1>7 DEF Step, CallStep

\* Every step keeps open what calls name.
LEMMA NamedStep ==
  ASSUME Base, Desc, NEW t \in Threads, Step(t), NEW u \in Threads
  PROVE  NamedOpen(u)'
<1> SUFFICES ASSUME pc'[u] \in Unhanded, NEW f \in Named(streams'[u])
             PROVE  fds'[f] # Closed /\ fds'[f].file.by = User
  BY DEF NamedOpen, Named
<1>0. /\ TypeOK /\ Locking /\ CallsOK /\ NamesOK /\ fds \in [FDs -> Entries]
      /\ User \notin Threads /\ closed_fd \notin FDs
  BY PopenAssumption DEF Base, Desc, TypeOK
<1>1. CASE Call(t) /\ u = t
  BY <1>0, <1>1 DEF Call, TypeOK
<1>2. CASE ~ (Call(t) /\ u = t)
  <2>1. streams'[u] = streams[u] /\ pc[u] \in Unhanded
    BY <1>2, RequestsStep
  <2>2. f \in Named(streams[u]) /\ fds[f] # Closed /\ fds[f].file.by = User /\ Claims(u, f)
    BY <1>0, <2>1 DEF NamesOK, NamedOpen, Claims
  <2>3. f \in FDs
    <3>1. streams[u] \in [Std -> Streams]
      BY <1>0 DEF TypeOK
    <3>2. PICK i \in Std : streams[u][i].kind = "fd" /\ f \in Ends(streams[u][i])
      BY <2>2, <3>1, NamedIs
    <3> QED
      BY <1>0, <3>2, StreamTypesOf DEF Ends
  <2>4. fds'[f] = fds[f]
    <3>1. CASE OpenStream(t) /\ \E r, w \in FDs : Opens(t, k[t], r, w)
      BY <2>2, <2>3, <3>1 DEF Opens
    <3>2. CASE /\ HandleParentStream(t) /\ IsSet(sd[t][k[t]])
               /\ fds' = [fds EXCEPT ![ChildFd(sd[t][k[t]], k[t])] = Closed]
      <4>1. PICK j \in Std : j = k[t]
        BY <3>2 DEF HandleParentStream
      <4> DEFINE c == ChildFd(sd[t][j], j)
      <4>2. pc[t] = "hand_over" /\ j >= k[t] /\ u # t
        BY <2>1, <3>2, <4>1 DEF HandleParentStream, Unhanded, Std
      <4>3. \/ fds[c].file.by = t
            \/ streams[t][j].kind = "fd" /\ c \in Ends(streams[t][j])
        BY <1>0, <3>2, <4>1, <4>2, EndsInHand
      <4>4. streams[t] \in [Std -> Streams]
        BY <1>0 DEF TypeOK
      <4>5. fds[c].file.by = t \/ c \in Named(streams[t])
        BY <4>3, <4>4, NamedIs
      <4>6. c # f
        BY <1>0, <2>2, <4>2, <4>5 DEF NamesOK, NamesApart
      <4> QED
        BY <1>0, <2>3, <3>2, <4>1, <4>6
    <3>3. CASE ClosesKept(t)
      BY <2>2, <2>3, <3>3, ClaimedUntouched
    <3> QED
      BY <1>0, <3>1, <3>2, <3>3, FdsStep
  <2> QED
    BY <2>2, <2>4
<1> QED
  BY <1>1, <1>2

\* The ends of a caller's stream are named by its request.
LEMMA EndsAreNamed ==
  ASSUME TypeOK, NEW t \in Threads, NEW i \in Std, streams[t][i].kind = "fd",
         NEW f \in Ends(streams[t][i])
  PROVE  f \in Named(streams[t]) /\ f \in FDs
<1>1. streams[t] \in [Std -> Streams]
  BY DEF TypeOK
<1> QED
  BY <1>1, NamedIs, StreamTypesOf DEF Ends

\* The ends of a stream that is set are numbers.
LEMMA EndsOfStream ==
  ASSUME TypeOK, NEW t \in Threads, NEW i \in Std, streams[t][i].kind = "fd",
         IsSet(streams[t][i])
  PROVE  /\ ParentFd(streams[t][i], i) \in Ends(streams[t][i])
         /\ ChildFd(streams[t][i], i) \in Ends(streams[t][i])
         /\ Ends(streams[t][i]) = {streams[t][i].read, streams[t][i].write}
BY DEF IsSet, ParentFd, ChildFd, Ends

\* Every step keeps what is yet to be handed over.
LEMMA ToHandOverStep ==
  ASSUME Base, Desc, NEW t \in Threads, Step(t), NEW u \in Threads, NEW i \in Std
  PROVE  ToHandOver(u, i)'
<1>0. /\ TypeOK /\ Locking /\ CallsOK /\ NamesOK /\ fds \in [FDs -> Entries]
      /\ User \notin Threads /\ closed_fd \notin FDs /\ k[u] \in 0..3 /\ k[t] \in 0..3
  BY PopenAssumption DEF Base, Desc, TypeOK
<1> DEFINE s == streams[u][i]
           p == ParentFd(s, i)
<1> SUFFICES ASSUME pc'[u] = "hand_over", i >= k'[u], streams'[u][i].kind = "fd"
             PROVE  /\ \A f \in Ends(streams'[u][i]) : fds'[f] = Closed \/ fds'[f].file.by = User
                    /\ IsSet(streams'[u][i])
                       /\ ParentFd(streams'[u][i], i) # ChildFd(streams'[u][i], i)
                         => fds'[ParentFd(streams'[u][i], i)] # Closed
  BY DEF ToHandOver, Ends, IsSet, ParentFd, ChildFd
<1>1. ~ (Call(t) /\ u = t)
  BY <1>0 DEF Call, Goto, TypeOK
<1>2. streams'[u] = streams[u] /\ s.kind = "fd"
  BY <1>1, RequestsStep
<1>3. \A f \in Ends(s) : f \in FDs /\ f \in Named(streams[u])
  BY <1>0, <1>2, EndsAreNamed
<1>4. CASE pc[u] = "vfork"
  <2>1. \A f \in Ends(s) : fds[f] # Closed /\ fds[f].file.by = User
    BY <1>0, <1>3, <1>4 DEF NamesOK, NamedOpen, Unhanded
  <2>2. u = t /\ Started(t)
    <3>1. u = t
      BY <1>0, <1>4, OtherCalls DEF Step
    <3>2. ~ (ChildStep(t) \/ ChildEnds(t) \/ Use(t))
      <4>1. ChildStep(t) \/ ChildEnds(t) \/ Use(t) => UNCHANGED call
        BY DEF ChildStep, HandleChildStream, ChildStreamFails, ChildCloses, ChildExec,
          ChildFails, ChildEnds, Use, Wait, Signal, Destroy, ResetStream, MoveAssign, Swap
      <4> QED
        BY <1>4, <4>1 DEF call
    <3> QED
      BY <1>0, <1>1, <1>4, <3>1, <3>2 DEF Step, CallStep, LockClone, LockSignals, OpenStream,
        OpenFails, Clone, CloneFails, SetUpFailed, Throw, HandleParentStream, Return,
        UnlockSignals, UnlockClone, EndCall, Goto, TypeOK
  <2>3. fds' = fds
    BY <2>2 DEF Started
  <2>4. IsSet(s) => p \in Ends(s)
    BY <1>0, <1>2, EndsOfStream
  <2> QED
    BY <1>2, <2>1, <2>3, <2>4
<1>5. CASE pc[u] = "hand_over" /\ k'[u] >= k[u]
  <2>0. i >= k[u]
    <3>1. k'[u] \in 0..3
      BY TypeStep DEF Base, Step, TypeOK
    <3> QED
      BY <1>0, <1>5, <3>1 DEF Std
  <2>1. /\ \A f \in Ends(s) : fds[f] = Closed \/ fds[f].file.by = User
        /\ IsSet(s) /\ p # ChildFd(s, i) => fds[p] # Closed
    BY <1>0, <1>2, <1>5, <2>0 DEF NamesOK, ToHandOver
  <2>2. IsSet(s) => p \in Ends(s) /\ Ends(s) = {s.read, s.write}
    BY <1>0, <1>2, EndsOfStream
  <2>3. CASE fds' = fds
    BY <1>2, <2>1, <2>3
  <2>4. CASE OpenStream(t)
    <3>1. u = t
      BY <1>0, <1>5, <2>4, OneCritical DEF OpenStream, Critical
    <3> QED
      BY <1>5, <2>4, <3>1 DEF OpenStream
  <2>5. CASE /\ HandleParentStream(t) /\ IsSet(sd[t][k[t]])
             /\ fds' = [fds EXCEPT ![ChildFd(sd[t][k[t]], k[t])] = Closed]
    <3>1. PICK j \in Std : j = k[t]
      BY <2>5 DEF HandleParentStream
    <3> DEFINE c == ChildFd(sd[t][j], j)
    <3>2. pc[t] = "hand_over" /\ j >= k[t] /\ u = t
      BY <1>0, <1>5, <2>5, <3>1, OneCritical DEF HandleParentStream, Critical, Std
    <3>3. k'[t] = j + 1 /\ i # j
      BY <1>0, <2>5, <3>1, <3>2 DEF HandleParentStream, TypeOK, Std
    <3>4. \/ fds[c] # Closed /\ fds[c].file.by = t
          \/ streams[t][j].kind = "fd" /\ IsSet(streams[t][j]) /\ c \in Ends(streams[t][j])
      BY <1>0, <2>5, <3>1, <3>2, EndsInHand
    <3>5. IsSet(s) /\ p # ChildFd(s, i) => p # c
      <4>1. SUFFICES ASSUME IsSet(s), p # ChildFd(s, i), p = c PROVE FALSE
        OBVIOUS
      <4>2. fds[p] # Closed /\ fds[p].file.by = User
        BY <2>1, <2>2, <4>1
      <4>3. streams[t][j].kind = "fd" /\ IsSet(streams[t][j]) /\ c \in Ends(streams[t][j])
        BY <1>0, <3>4, <4>1, <4>2
      <4>4. streams[t] \in Requests
        BY <1>0, <3>2 DEF CallsOK, CallOK
      <4>5. ParentFd(s, i) \notin {streams[t][j].read, streams[t][j].write}
        BY <1>2, <3>2, <3>3, <4>1, <4>3, <4>4, RequestsAssumption
      <4> QED
        BY <4>1, <4>3, <4>5 DEF Ends
    <3>6. \A f \in FDs : fds'[f] = fds[f] \/ fds'[f] = Closed
      BY <1>0, <2>5, <3>1
    <3>7. \A f \in FDs : f # c => fds'[f] = fds[f]
      BY <1>0, <2>5, <3>1
    <3>8. \A f \in Ends(s) : fds'[f] = Closed \/ fds'[f].file.by = User
      BY <1>3, <2>1, <3>6
    <3>9. IsSet(s) /\ p # ChildFd(s, i) => fds'[p] # Closed
      BY <1>3, <2>1, <2>2, <3>5, <3>7
    <3> QED
      BY <1>2, <3>8, <3>9
  <2>6. CASE ClosesKept(t)
    <3>1. \A f \in Ends(s) : fds'[f] = Closed \/ fds'[f].file.by = User
      BY <1>3, <2>1, <2>6 DEF ClosesKept
    <3>2. IsSet(s) /\ p # ChildFd(s, i) => fds'[p] # Closed
      <4>1. SUFFICES ASSUME IsSet(s), p # ChildFd(s, i) PROVE fds'[p] # Closed
        OBVIOUS
      <4>2. p \in FDs /\ fds[p] # Closed /\ fds[p].file.by = User /\ p \in Named(streams[u])
        BY <1>3, <2>1, <2>2, <4>1
      <4>3. Claims(u, p)
        BY <1>2, <1>5, <2>0, <2>2, <4>1 DEF Claims
      <4> QED
        BY <2>6, <4>2, <4>3, ClaimedUntouched
    <3> QED
      BY <1>2, <3>1, <3>2
  <2> QED
    BY <1>0, <2>3, <2>4, <2>5, <2>6, FdsStep
<1> QED
  BY <1>4, <1>5, RequestsStep

\* Every step keeps NamesOK.
LEMMA NamesStep ==
  ASSUME Base, Desc, NEW t \in Threads, Step(t)
  PROVE  NamesOK'
<1>1. NamesApart'
  <2>0. NamesApart /\ TypeOK
    BY DEF Base, Desc, NamesOK
  <2>1. CASE Call(t)
    <3>1. PICK s \in Requests :
            /\ \A f \in Named(s), u \in Threads : f \notin Named(streams[u])
            /\ streams' = [streams EXCEPT ![t] = s]
      BY <2>1 DEF Call
    <3>2. streams'[t] = s /\ \A u \in Threads \ {t} : streams'[u] = streams[u]
      BY <2>0, <3>1 DEF TypeOK
    <3>3. \A x, y \in Threads : x # y => Named(streams'[x]) \cap Named(streams'[y]) = {}
      BY <2>0, <3>1, <3>2 DEF NamesApart
    <3> QED
      BY <3>3 DEF NamesApart, Named
  <2>2. CASE ~ Call(t)
    <3>1. \A u \in Threads : streams'[u] = streams[u]
      BY <2>2, RequestsStep
    <3>3. \A x, y \in Threads : x # y => Named(streams'[x]) \cap Named(streams'[y]) = {}
      BY <2>0, <3>1 DEF NamesApart
    <3> QED
      BY <3>3 DEF NamesApart, Named
  <2> QED
    BY <2>1, <2>2
<1> QED
  BY <1>1, NamedStep, ToHandOverStep DEF NamesOK

\* A parent's end that has been handed over stays one, as long as its entry does.
LEMMA KeptFileStays ==
  ASSUME Base, Desc, NEW t \in Threads, Step(t), NEW f \in FDs, NEW i \in Std,
         KeptFile(f, i), fds'[f] = fds[f]
  PROVE  KeptFile(f, i)'
<1>0. /\ TypeOK /\ fds[f] \in Entries /\ fds[f] # Closed
      /\ \A u \in Threads : k[u] \in 0..3 /\ k'[u] \in 0..3
  BY TypeStep DEF Base, TypeOK, KeptFile, Step
<1> DEFINE u == fds[f].file.by
<1>1. u \in Threads \cup {User}
  BY <1>0, EntryTypes
<1>2. ASSUME u = User
      PROVE  \E v \in Threads : pc'[v] # "idle" /\ f \in Named(streams'[v]) /\ ~ Claims(v, f)'
  <2>1. PICK v \in Threads : pc[v] # "idle" /\ f \in Named(streams[v]) /\ ~ Claims(v, f)
    BY <1>2 DEF KeptFile
  <2>2. ~ (Call(t) /\ v = t)
    BY <2>1, RequestsStep
  <2>3. pc'[v] # "idle" /\ streams'[v] = streams[v]
    BY <2>1, <2>2, RequestsStep
  <2>4. ~ Claims(v, f)'
    <3>1. pc[v] \notin Unhanded
      BY <2>1 DEF Claims
    <3>2. pc'[v] \notin Unhanded
      BY <2>2, <3>1, RequestsStep
    <3>3. pc'[v] = "hand_over" => pc[v] = "hand_over" /\ k'[v] >= k[v]
      BY <3>1, RequestsStep DEF Unhanded
    <3>4. \A j \in Std : j >= k'[v] /\ k'[v] >= k[v] => j >= k[v]
      BY <1>0 DEF Std
    <3>5. \A j \in Std :
            pc'[v] = "hand_over" /\ j >= k'[v] /\ streams[v][j].kind = "fd" /\ IsSet(streams[v][j])
              => f \notin Ends(streams[v][j])
      BY <2>1, <3>3, <3>4 DEF Claims
    <3> QED
      BY <2>3, <3>2, <3>5 DEF Claims, Ends, IsSet
  <2> QED
    BY <2>1, <2>3, <2>4
<1>3. ASSUME u # User
      PROVE  pc'[u] \notin Early /\ ~ InHand(u, i)'
  <2>1. u \in Threads /\ pc[u] \notin Early /\ ~ InHand(u, i)
    BY <1>1, <1>3 DEF KeptFile
  <2>2. PICK v \in Threads : v = u
    BY <2>1
  <2>3. pc'[v] \notin Early
    BY <2>1, <2>2, RequestsStep
  <2>4. pc'[v] \notin {"open", "vfork"}
    BY <2>1, <2>2, RequestsStep DEF InHand, Early
  <2>5. pc'[v] = "hand_over" => pc[v] = "hand_over" /\ k'[v] >= k[v]
    BY <2>1, <2>2, RequestsStep DEF InHand
  <2>6. ~ (pc'[v] = "hand_over" /\ i >= k'[v])
    BY <1>0, <2>1, <2>2, <2>5 DEF InHand, Std
  <2>7. ~ InHand(v, i)'
    BY <2>4, <2>6 DEF InHand
  <2>8. fds'[f].file.by = v
    BY <2>2
  <2> QED
    BY <2>2, <2>3, <2>7, <2>8 DEF InHand
<1>4. /\ fds'[f] # Closed
      /\ u # User => /\ fds'[f].file.stream = i
                     /\ fds'[f].file.side = IF i = 0 THEN "w" ELSE "r"
  BY <1>0 DEF KeptFile
<1> QED
  BY <1>2, <1>3, <1>4 DEF KeptFile, InHand

\* A step closes no stream of an object that is not its own.
LEMMA KeptUntouched ==
  ASSUME Base, Desc, NEW t \in Threads, Step(t), NEW o \in Threads, NEW i \in Std,
         popen[o].stream[i] # closed_fd
  PROVE  \/ fds'[popen[o].stream[i]] = fds[popen[o].stream[i]]
         \/ o = t /\ ClosesKept(t)
<1> DEFINE f == popen[o].stream[i]
<1>0. /\ TypeOK /\ CallsOK /\ NamesOK /\ fds \in [FDs -> Entries] /\ User \notin Threads
  BY PopenAssumption DEF Base, Desc, TypeOK
<1>1. f \in FDs /\ KeptFile(f, i) /\ fds[f] # Closed
  BY KeptIs DEF KeptOK, KeptFile
<1>2. CASE OpenStream(t) /\ \E r, w \in FDs : Opens(t, k[t], r, w)
  BY <1>1, <1>2 DEF Opens
<1>3. CASE /\ HandleParentStream(t) /\ IsSet(sd[t][k[t]])
           /\ fds' = [fds EXCEPT ![ChildFd(sd[t][k[t]], k[t])] = Closed]
  <2>1. PICK j \in Std : j = k[t]
    BY <1>3 DEF HandleParentStream
  <2> DEFINE c == ChildFd(sd[t][j], j)
  <2>2. pc[t] = "hand_over" /\ j >= k[t]
    BY <1>3, <2>1 DEF HandleParentStream, Std
  <2>3. \/ fds[c].file.by = t /\ fds[c].file.stream = j
        \/ /\ streams[t][j].kind = "fd" /\ IsSet(streams[t][j]) /\ c \in Ends(streams[t][j])
           /\ fds[c] = Closed \/ fds[c].file.by = User
    BY <1>0, <1>3, <2>1, <2>2, EndsInHand
  <2>4. f # c
    <3>1. CASE fds[c].file.by = t /\ fds[c].file.stream = j
      <4>1. InHand(t, j)
        BY <2>2 DEF InHand
      <4> QED
        BY <1>0, <1>1, <3>1, <4>1 DEF KeptFile
    <3>2. CASE /\ streams[t][j].kind = "fd" /\ IsSet(streams[t][j]) /\ c \in Ends(streams[t][j])
               /\ fds[c] = Closed \/ fds[c].file.by = User
      <4>1. Claims(t, c)
        BY <2>2, <3>2 DEF Claims
      <4>2. c \in Named(streams[t])
        BY <1>0, <3>2, EndsAreNamed
      <4> QED
        BY <1>1, <3>2, <4>1, <4>2, KeptUnclaimed
    <3> QED
      BY <2>3, <3>1, <3>2
  <2> QED
    BY <1>0, <1>1, <1>3, <2>1, <2>4
<1>4. CASE ClosesKept(t) /\ o # t
  <2> SUFFICES ASSUME fds'[f] # fds[f] PROVE FALSE
    OBVIOUS
  <2>1. PICK j \in Std : popen[t].stream[j] = f
    BY <1>1, <1>4 DEF ClosesKept
  <2> QED
    BY <1>4, <2>1 DEF Desc, ObjectsOK, ObjectsApart
<1> QED
  BY <1>0, <1>2, <1>3, <1>4, FdsStep

\* A stream that stays open in an object, or moves to another, is still as it
\* should be.
LEMMA SlotStays ==
  ASSUME Base, Desc, NEW t \in Threads, Step(t),
         NEW q \in Threads, NEW o \in Threads, NEW i \in Std,
         popen[q].stream[i] # closed_fd, popen'[o].stream[i] = popen[q].stream[i],
         fds'[popen[q].stream[i]] = fds[popen[q].stream[i]],
         \/ popen'[o].pid \in {popen[q].pid, invalid_pid}
         \/ popen'[o].pid = o /\ o = q /\ pc[o] \notin {"idle", "done"},
         o = q \/ pc'[o] \in {"idle", "done"}
  PROVE  KeptOK(o, i)'
<1>0. PICK f \in FDs : f = popen[q].stream[i]
  BY KeptIs
<1> DEFINE u == fds[f].file.by
<1>1. KeptOK(q, i) /\ KeptFile(f, i)
  BY <1>0, KeptIs DEF KeptOK
<1>2. KeptFile(f, i)'
  BY <1>0, <1>1, KeptFileStays
<1>3. u # User => popen'[o].pid \in {u, invalid_pid}
  BY <1>0, <1>1 DEF KeptOK
<1>4. pc'[o] \notin {"idle", "done"} =>
        /\ pc'[o] \notin Unhanded /\ (pc'[o] = "hand_over" => i < k'[o])
        /\ u \in {o, User}
  <2>1. SUFFICES ASSUME pc'[o] \notin {"idle", "done"}
                 PROVE  /\ pc'[o] \notin Unhanded /\ (pc'[o] = "hand_over" => i < k'[o])
                        /\ u \in {o, User}
    OBVIOUS
  <2>2. ~ (Call(t) /\ o = t)
    <3>1. Call(t) /\ o = t => popen[q].stream[i] = closed_fd
      BY <2>1 DEF Call, Empty
    <3> QED
      BY <3>1
  <2>3. o = q /\ pc[o] \notin {"idle", "done"}
    BY <2>1, <2>2, RequestsStep
  <2>4. pc[o] \notin Unhanded /\ (pc[o] = "hand_over" => i < k[o]) /\ u \in {o, User}
    BY <1>0, <1>1, <2>3 DEF KeptOK
  <2>5. pc'[o] \notin Unhanded
    BY <2>2, <2>4, RequestsStep
  <2>6. pc'[o] = "hand_over" => pc[o] = "hand_over" /\ k'[o] >= k[o]
    BY <2>4, RequestsStep DEF Unhanded
  <2>7. k[o] \in 0..3 /\ k'[o] \in 0..3
    BY TypeStep DEF Base, TypeOK, Step
  <2> QED
    BY <2>4, <2>5, <2>6, <2>7 DEF Std
<1>5. popen'[o].stream[i] = f /\ fds'[f].file.by = u
  BY <1>0
<1> HIDE DEF u
<1>6. KeptFile(popen[o].stream[i], i)'
  BY <1>2, <1>5 DEF KeptFile, InHand, Claims
<1> QED
  BY <1>3, <1>4, <1>5, <1>6 DEF KeptOK

\* An object that a step does not change stays in order.
LEMMA ObjectStays ==
  ASSUME Base, Desc, NEW t \in Threads, Step(t), NEW o \in Threads, popen'[o] = popen[o],
         o = t => fds' = fds \/ ~ ClosesKept(t)
  PROVE  ObjectOK(o)'
<1>1. ObjectOK(o)
  BY DEF Desc, ObjectsOK
<1>2. popen'[o].pid # invalid_pid => popen'[o].status = NoStatus
  BY <1>1 DEF ObjectOK
<1>3. pc'[o] \notin {"idle", "done"} => popen'[o].pid = invalid_pid /\ popen'[o].status = NoStatus
  <2>1. CASE Call(t) /\ o = t
    BY <2>1 DEF Call, Empty
  <2>2. CASE ~ (Call(t) /\ o = t)
    BY <1>1, <2>2, RequestsStep DEF ObjectOK
  <2> QED
    BY <2>1, <2>2
<1>4. \A i \in Std : popen'[o].stream[i] # closed_fd => KeptOK(o, i)'
  <2> SUFFICES ASSUME NEW i \in Std, popen[o].stream[i] # closed_fd PROVE KeptOK(o, i)'
    OBVIOUS
  <2>1. fds'[popen[o].stream[i]] = fds[popen[o].stream[i]]
    BY KeptUntouched
  <2> QED
    BY <2>1, SlotStays
<1> QED
  BY <1>2, <1>3, <1>4 DEF ObjectOK

\* handle_parent_stream gives the object the other end, which nobody else has.
LEMMA HandOverObjects ==
  ASSUME Base, Desc, NEW t \in Threads, HandleParentStream(t)
  PROVE  ObjectsOK'
<1>0. /\ TypeOK /\ CallsOK /\ NamesOK /\ Step(t) /\ fds \in [FDs -> Entries]
      /\ popen \in [Threads -> PopenObjects] /\ User \notin Threads /\ closed_fd \notin FDs
      /\ k \in [Threads -> 0..3]
  BY PopenAssumption DEF Base, Desc, TypeOK, Step, CallStep
<1>1. PICK i \in Std : i = k[t]
  BY DEF HandleParentStream
<1>2. /\ pc[t] = "hand_over" /\ i >= k[t] /\ k' = [k EXCEPT ![t] = i + 1]
      /\ UNCHANGED <<pc, streams, sd>> /\ ~ ClosesKept(t)
  BY <1>1 DEF HandleParentStream, ClosesKept, Usable, Std
<1>3. \A o \in Threads, j \in Std :
        popen[o].stream[j] # closed_fd => fds'[popen[o].stream[j]] = fds[popen[o].stream[j]]
  BY <1>0, <1>2, KeptUntouched
<1>4. CASE ~ IsSet(sd[t][i])
  <2>1. popen' = popen
    BY <1>1, <1>4 DEF HandleParentStream
  <2>2. \A o \in Threads : ObjectOK(o)'
    BY <1>0, <1>2, <2>1, ObjectStays
  <2> QED
    BY <2>1, <2>2 DEF Desc, ObjectsOK, ObjectsApart
<1>5. CASE IsSet(sd[t][i])
  <2>1. PICK p, c \in FDs : p = ParentFd(sd[t][i], i) /\ c = ChildFd(sd[t][i], i)
    BY <1>0, <1>2, <1>5, EndsInHand
  <2>2. PICK x : x = Kept(t, i) /\ x = IF p # c THEN p ELSE closed_fd
    BY <2>1 DEF Kept
  <2>3. popen' = [popen EXCEPT ![t].stream[i] = x] /\ fds' = [fds EXCEPT ![c] = Closed]
    BY <1>1, <1>5, <2>1, <2>2 DEF HandleParentStream, CloseChildFd
  <2>4. /\ \A o \in Threads : o # t => popen'[o] = popen[o]
        /\ popen'[t].stream[i] = x /\ popen'[t].pid = popen[t].pid
        /\ popen'[t].status = popen[t].status
        /\ \A j \in Std : j # i => popen'[t].stream[j] = popen[t].stream[j]
    BY <1>0, <2>3 DEF PopenObjects
  <2>5. ObjectOK(t)
    BY DEF Desc, ObjectsOK
  <2>6. \A o \in Threads, j \in Std : popen[o].stream[j] # c
    <3> SUFFICES ASSUME NEW o \in Threads, NEW j \in Std, popen[o].stream[j] = c PROVE FALSE
      OBVIOUS
    <3>1. fds[c] # Closed /\ fds'[c] = Closed
      BY <1>0, <1>3, <2>3, KeptIs DEF KeptOK, KeptFile
    <3> QED
      BY <1>0, <1>3, <3>1
  <2>7. ASSUME p # c
        PROVE  /\ KeptFile(p, i)' /\ fds'[p].file.by \in {t, User}
               /\ \A o \in Threads, j \in Std : popen[o].stream[j] # p
    <3>1. fds'[p] = fds[p] /\ i + 1 > i /\ k'[t] = i + 1
      BY <1>0, <1>2, <2>3, <2>7 DEF Std
    <3>2. CASE /\ streams[t][i].kind \in {"path", "pipe"}
               /\ fds[p] # Closed /\ fds[p].file.by = t /\ fds[p].file.stream = i
               /\ fds[p].file.side = (IF i = 0 THEN "w" ELSE "r")
      <4>1. ~ InHand(t, i)' /\ pc'[t] \notin Early
        BY <1>2, <3>1 DEF InHand, Early, Std
      <4>2. KeptFile(p, i)'
        BY <1>0, <3>1, <3>2, <4>1 DEF KeptFile, InHand
      <4>3. ASSUME NEW o \in Threads, NEW j \in Std, popen[o].stream[j] = p PROVE FALSE
        <5>1. KeptFile(p, j)
          BY <1>0, <4>3, KeptIs DEF KeptOK
        <5>2. InHand(t, i)
          BY <1>2 DEF InHand
        <5> QED
          BY <1>0, <3>2, <5>1, <5>2 DEF KeptFile
      <4> QED
        BY <3>1, <3>2, <4>2, <4>3
    <3>3. CASE /\ streams[t][i].kind = "fd" /\ IsSet(streams[t][i])
               /\ p = ParentFd(streams[t][i], i) /\ c = ChildFd(streams[t][i], i)
               /\ p \in Ends(streams[t][i])
               /\ fds[p] # Closed /\ fds[p].file.by = User
      <4>1. p \in Named(streams[t]) /\ Claims(t, p)
        BY <1>0, <1>2, <3>3, EndsAreNamed DEF Claims
      <4>2. ASSUME NEW o \in Threads, NEW j \in Std, popen[o].stream[j] = p PROVE FALSE
        BY <1>0, <3>3, <4>1, <4>2, KeptUnclaimed
      <4>3. \A j \in Std : (j >= i + 1 /\ streams[t][j].kind = "fd" /\ IsSet(streams[t][j]))
                             => p \notin Ends(streams[t][j])
        <5> SUFFICES ASSUME NEW j \in Std, j >= i + 1, streams[t][j].kind = "fd",
                            IsSet(streams[t][j])
                     PROVE  p \notin Ends(streams[t][j])
          OBVIOUS
        <5>1. streams[t] \in Requests /\ i # j
          BY <1>0, <1>2 DEF CallsOK, CallOK, Std
        <5>2. p \notin {streams[t][j].read, streams[t][j].write}
          BY <2>7, <3>3, <5>1, RequestsAssumption
        <5> QED
          BY <5>2 DEF Ends
      <4>4. ~ Claims(t, p)'
        BY <1>2, <3>1, <4>3 DEF Claims, Unhanded, Ends, IsSet
      <4>5. KeptFile(p, i)'
        BY <1>0, <1>2, <3>1, <3>3, <4>1, <4>4 DEF KeptFile
      <4> QED
        BY <3>1, <3>3, <4>2, <4>5
    <3> QED
      BY <1>0, <1>2, <1>5, <2>1, <2>7, <3>2, <3>3, EndsInHand
  <2>8. ObjectOK(t)'
    <3>1. popen'[t].pid = invalid_pid /\ popen'[t].status = NoStatus
      BY <1>2, <2>4, <2>5 DEF ObjectOK
    <3>2. ASSUME NEW j \in Std, j # i, popen'[t].stream[j] # closed_fd PROVE KeptOK(t, j)'
      <4>1. popen'[t].stream[j] = popen[t].stream[j]
        BY <2>4, <3>2
      <4> QED
        BY <1>0, <1>3, <2>4, <3>2, <4>1, SlotStays
    <3>3. ASSUME x # closed_fd PROVE KeptOK(t, i)'
      <4>1. x = p /\ p # c
        BY <2>2, <3>3
      <4>2. KeptFile(p, i)' /\ fds'[p].file.by \in {t, User}
        BY <2>7, <4>1
      <4>3. popen'[t].stream[i] = p
        BY <2>4, <4>1
      <4>4. KeptFile(popen[t].stream[i], i)'
        BY <4>2, <4>3 DEF KeptFile, InHand, Claims
      <4>5. i < k'[t] /\ pc'[t] = "hand_over"
        BY <1>0, <1>2 DEF Std
      <4> QED
        BY <3>1, <4>2, <4>3, <4>4, <4>5 DEF KeptOK, Unhanded
    <3> QED
      BY <2>4, <3>1, <3>2, <3>3 DEF ObjectOK
  <2>9. \A o \in Threads : ObjectOK(o)'
    BY <1>0, <2>4, <2>8, ObjectStays
  <2>10. ObjectsApart'
    <3>1. x # closed_fd => \A o \in Threads, j \in Std : popen[o].stream[j] # x
      BY <2>2, <2>7
    <3>2. ObjectsApart
      BY DEF Desc, ObjectsOK
    <3>3. \A o \in Threads, j \in Std :
            popen'[o].stream[j] = IF o = t /\ j = i THEN x ELSE popen[o].stream[j]
      BY <2>4
    <3> QED
      BY <3>1, <3>2, <3>3 DEF ObjectsApart
  <2> QED
    BY <2>9, <2>10 DEF ObjectsOK
<1> QED
  BY <1>4, <1>5

\* An object without a pid and without streams.
HoldsNothing(x) == x.pid = invalid_pid /\ \A i \in Std : x.stream[i] = closed_fd

\* Moving and swapping objects takes their streams along.
LEMMA MovedObjects ==
  ASSUME Base, Desc, NEW t \in Threads, Step(t), UNCHANGED <<fds, call>>,
         NEW from \in [Threads -> Threads \cup {NoThread}],
         \A o, p \in Threads : from[o] = from[p] /\ from[o] # NoThread => o = p,
         \A o \in Threads :
           /\ IF from[o] = NoThread THEN HoldsNothing(popen'[o]) ELSE popen'[o] = popen[from[o]]
           /\ from[o] = o \/ pc[o] \in {"idle", "done"}
  PROVE  ObjectsOK'
<1>0. /\ NoThread \notin Threads
      /\ \A o \in Threads :
           from[o] = NoThread => /\ popen'[o].pid = invalid_pid
                                 /\ \A i \in Std : popen'[o].stream[i] = closed_fd
  BY PopenAssumption DEF HoldsNothing
<1>1. ASSUME NEW o \in Threads
      PROVE  ObjectOK(o)'
  <2>1. CASE from[o] = NoThread
    <3>1. pc'[o] \in {"idle", "done"}
      BY <1>0, <1>1, <2>1 DEF call
    <3> QED
      BY <1>0, <2>1, <3>1 DEF ObjectOK
  <2>2. CASE from[o] # NoThread
    <3>1. PICK q \in Threads : q = from[o]
      BY <2>2
    <3>2. popen'[o] = popen[q] /\ (q = o \/ pc'[o] \in {"idle", "done"}) /\ pc' = pc
      BY <1>1, <2>2, <3>1 DEF call
    <3>3. ObjectOK(q)
      BY DEF Desc, ObjectsOK
    <3>4. \A i \in Std : popen'[o].stream[i] # closed_fd => KeptOK(o, i)'
      BY <3>2, SlotStays
    <3> QED
      BY <3>2, <3>3, <3>4 DEF ObjectOK
  <2> QED
    BY <2>1, <2>2
<1>2. ObjectsApart'
  <2>1. ObjectsApart
    BY DEF Desc, ObjectsOK
  <2>2. ASSUME NEW o \in Threads, NEW p \in Threads, NEW i \in Std, NEW j \in Std,
               popen'[o].stream[i] # closed_fd, popen'[o].stream[i] = popen'[p].stream[j]
        PROVE  o = p /\ i = j
    <3>1. from[o] # NoThread /\ from[p] # NoThread
      BY <1>0, <2>2
    <3>2. from[o] \in Threads /\ from[p] \in Threads
      BY <3>1
    <3>3. popen'[o] = popen[from[o]] /\ popen'[p] = popen[from[p]]
      BY <3>1
    <3>4. from[o] = from[p] /\ i = j
      BY <2>1, <2>2, <3>2, <3>3 DEF ObjectsApart
    <3> QED
      BY <3>1, <3>4
  <2> QED
    BY <2>2 DEF ObjectsApart
<1> QED
  BY <1>1, <1>2 DEF ObjectsOK

\* Streams only leave objects.
LEMMA FewerStreams ==
  ASSUME ObjectsApart,
         \A o \in Threads, i \in Std : popen'[o].stream[i] \in {popen[o].stream[i], closed_fd}
  PROVE  ObjectsApart'
BY DEF ObjectsApart

\* Every step keeps the objects' streams what they should be.
LEMMA ObjectsStep ==
  ASSUME Base, Desc, NEW t \in Threads, Step(t)
  PROVE  ObjectsOK'
<1>0. /\ TypeOK /\ ObjectsApart /\ ObjectOK(t) /\ popen \in [Threads -> PopenObjects]
      /\ popen[t] \in PopenObjects /\ fds \in [FDs -> Entries]
      /\ NoThread \notin Threads /\ invalid_pid \notin Threads
  BY PopenAssumption DEF Base, Desc, ObjectsOK, TypeOK
<1>1. CASE HandleParentStream(t)
  BY <1>1, HandOverObjects
<1>2. CASE popen' = popen /\ (fds' = fds \/ ~ ClosesKept(t))
  <2>1. \A o \in Threads : ObjectOK(o)'
    BY <1>2, ObjectStays
  <2> QED
    BY <1>0, <1>2, <2>1 DEF ObjectsOK, ObjectsApart
<1>3. CASE EndCall(t) /\ ~ failed[t]
  <2>1. /\ popen'[t].pid = t /\ popen'[t].stream = popen[t].stream
        /\ popen'[t].status = popen[t].status
        /\ \A o \in Threads \ {t} : popen'[o] = popen[o]
        /\ fds' = fds /\ pc[t] = "store_pid" /\ pc'[t] = "done"
    BY <1>0, <1>3 DEF EndCall, PopenObjects, Goto, TypeOK
  <2>2. \A o \in Threads \ {t} : ObjectOK(o)'
    BY <2>1, ObjectStays
  <2>3. ObjectOK(t)'
    <3>1. \A i \in Std : popen'[t].stream[i] # closed_fd => KeptOK(t, i)'
      BY <2>1, SlotStays
    <3> QED
      BY <1>0, <2>1, <3>1 DEF ObjectOK
  <2>4. ObjectsApart'
    BY <1>0, <2>1, FewerStreams
  <2> QED
    BY <2>2, <2>3, <2>4 DEF ObjectsOK
<1>4. CASE Wait(t)
  <2>1. /\ popen'[t].pid = invalid_pid /\ popen'[t].stream = popen[t].stream
        /\ \A o \in Threads \ {t} : popen'[o] = popen[o]
        /\ fds' = fds /\ pc' = pc /\ pc[t] \in {"idle", "done"}
    BY <1>0, <1>4 DEF Wait, PopenObjects, call, Usable
  <2>2. \A o \in Threads \ {t} : ObjectOK(o)'
    BY <2>1, ObjectStays
  <2>3. ObjectOK(t)'
    <3>1. \A i \in Std : popen'[t].stream[i] # closed_fd => KeptOK(t, i)'
      BY <2>1, SlotStays
    <3> QED
      BY <2>1, <3>1 DEF ObjectOK
  <2>4. ObjectsApart'
    BY <1>0, <2>1, FewerStreams
  <2> QED
    BY <2>2, <2>3, <2>4 DEF ObjectsOK
<1>5. CASE \E i \in Std : ResetStream(t, i)
  <2>1. PICK i \in Std : ResetStream(t, i)
    BY <1>5
  <2>2. /\ popen'[t].pid = popen[t].pid /\ popen'[t].status = popen[t].status
        /\ popen'[t].stream[i] = closed_fd
        /\ \A j \in Std : j # i => popen'[t].stream[j] = popen[t].stream[j]
        /\ \A o \in Threads \ {t} : popen'[o] = popen[o]
        /\ pc' = pc /\ pc[t] \in {"idle", "done"}
    BY <1>0, <2>1 DEF ResetStream, PopenObjects, call, Usable
  <2>3. \A o \in Threads \ {t} : ObjectOK(o)'
    BY <2>2, ObjectStays
  <2>4. ASSUME NEW j \in Std, popen'[t].stream[j] # closed_fd PROVE KeptOK(t, j)'
    <3>1. j # i /\ popen'[t].stream[j] = popen[t].stream[j]
      BY <2>2, <2>4
    <3>2. popen[t].stream[i] # popen[t].stream[j] /\ popen[t].stream[j] \in FDs
      BY <1>0, <2>4, <3>1 DEF ObjectsApart, PopenObjects
    <3>3. fds'[popen[t].stream[j]] = fds[popen[t].stream[j]]
      BY <1>0, <2>1, <3>2 DEF ResetStream
    <3> QED
      BY <2>2, <2>4, <3>1, <3>3, SlotStays
  <2>5. ObjectOK(t)'
    BY <1>0, <2>2, <2>4 DEF ObjectOK
  <2>6. ObjectsApart'
    BY <1>0, <2>2, FewerStreams
  <2> QED
    BY <2>3, <2>5, <2>6 DEF ObjectsOK
<1>6. CASE Destroy(t)
  <2>1. /\ popen'[t] = Empty /\ \A o \in Threads \ {t} : popen'[o] = popen[o]
        /\ pc' = pc /\ pc[t] \in {"idle", "done"}
    BY <1>0, <1>6 DEF Destroy, call, Usable
  <2>2. Empty.pid = invalid_pid /\ \A i \in Std : Empty.stream[i] = closed_fd
    BY DEF Empty
  <2>3. \A o \in Threads \ {t} : ObjectOK(o)'
    BY <2>1, ObjectStays
  <2>4. ObjectOK(t)'
    BY <2>1, <2>2 DEF ObjectOK
  <2>5. ObjectsApart'
    BY <1>0, <2>1, <2>2, FewerStreams
  <2> QED
    BY <2>3, <2>4, <2>5 DEF ObjectsOK
<1>7. CASE \E p \in Threads : MoveAssign(t, p)
  <2>1. PICK p \in Threads : MoveAssign(t, p)
    BY <1>7
  <2> DEFINE from == [o \in Threads |-> IF o = p THEN NoThread ELSE IF o = t THEN p ELSE o]
  <2>2. /\ popen' = [popen EXCEPT ![t] = popen[p], ![p] = MovedFrom(t, p)]
        /\ HoldsNothing(MovedFrom(t, p))
        /\ pc[t] \in {"idle", "done"} /\ pc[p] \in {"idle", "done"} /\ UNCHANGED <<fds, call>>
    BY <1>0, <2>1, MovedFromHoldsNothing DEF MoveAssign, Usable, HoldsNothing
  <2>3. /\ from \in [Threads -> Threads \cup {NoThread}]
        /\ \A o, q \in Threads : from[o] = from[q] /\ from[o] # NoThread => o = q
    BY <1>0
  <2>4. \A o \in Threads :
          /\ IF from[o] = NoThread THEN HoldsNothing(popen'[o]) ELSE popen'[o] = popen[from[o]]
          /\ from[o] = o \/ pc[o] \in {"idle", "done"}
    BY <1>0, <2>2
  <2> HIDE DEF from
  <2> QED
    BY <2>2, <2>3, <2>4, MovedObjects
<1>8. CASE \E p \in Threads : Swap(t, p)
  <2>1. PICK p \in Threads : Swap(t, p)
    BY <1>8
  <2> DEFINE from == [o \in Threads |-> IF o = p THEN t ELSE IF o = t THEN p ELSE o]
  <2>2. /\ popen' = [popen EXCEPT ![t] = popen[p], ![p] = popen[t]]
        /\ pc[t] \in {"idle", "done"} /\ pc[p] \in {"idle", "done"} /\ UNCHANGED <<fds, call>>
    BY <2>1 DEF Swap, Usable
  <2>3. /\ from \in [Threads -> Threads \cup {NoThread}]
        /\ \A o, q \in Threads : from[o] = from[q] /\ from[o] # NoThread => o = q
    BY <1>0
  <2>4. \A o \in Threads :
          /\ IF from[o] = NoThread THEN HoldsNothing(popen'[o]) ELSE popen'[o] = popen[from[o]]
          /\ from[o] = o \/ pc[o] \in {"idle", "done"}
    BY <1>0, <2>2
  <2> HIDE DEF from
  <2> QED
    BY <2>2, <2>3, <2>4, MovedObjects
<1>9. CASE Call(t) \/ (CallStep(t) /\ ~ HandleParentStream(t) /\ ~ (EndCall(t) /\ ~ failed[t]))
  <2>1. CASE OpenStream(t)
    BY <1>2, <2>1 DEF OpenStream, ClosesKept, Usable
  <2>2. CASE ~ OpenStream(t)
    BY <1>2, <1>9, <2>2 DEF Call, CallStep, LockClone, LockSignals, OpenFails, Clone, CloneFails,
     SetUpFailed, Started, Return, UnlockSignals, UnlockClone, EndCall
  <2> QED
    BY <2>1, <2>2
<1>10. CASE ChildStep(t) \/ ChildEnds(t) \/ Signal(t)
  BY <1>2, <1>10 DEF ChildStep, HandleChildStream, ChildStreamFails, ChildCloses, ChildExec,
      ChildFails, ChildEnds, Signal
<1> QED
  BY <1>1, <1>3, <1>4, <1>5, <1>6, <1>7, <1>8, <1>9, <1>10 DEF Step, Use

\* It holds in the beginning.
LEMMA DescInit == Init => Desc
<1> SUFFICES ASSUME Init PROVE Desc
  OBVIOUS
<1>0. /\ Empty.pid = invalid_pid /\ \A i \in Std : Empty.stream[i] = closed_fd
      /\ Closed \notin [file : Files, cloexec : BOOLEAN] /\ User \notin Threads
  BY PopenAssumption DEF Empty
<1>1. CallsOK
  BY DEF Init, CallsOK, CallOK, Early, Holds
<1>2. TableOK
  BY <1>0 DEF Init, TableOK
<1>3. NamesOK
  <2>1. \A t \in Threads : Named(streams[t]) = {}
    <3> SUFFICES ASSUME NEW t \in Threads PROVE Named(streams[t]) = {}
      OBVIOUS
    <3>1. streams[t] \in [Std -> Streams] /\ \A i \in Std : streams[t][i].kind = "none"
      BY DEF Init, Streams
    <3> QED
      BY <3>1, NamedIs
  <2> QED
    BY <2>1 DEF Init, NamesOK, NamesApart, NamedOpen, ToHandOver, Unhanded
<1>4. ObjectsOK
  BY <1>0 DEF Init, ObjectsOK, ObjectsApart, ObjectOK
<1> QED
  BY <1>1, <1>2, <1>3, <1>4 DEF Desc

\* The invariant about descriptors holds in every reachable state.
LEMMA DescHolds == Spec => [](Base /\ Desc)
<1>1. Base /\ Desc /\ [Next]_vars => Desc'
  <2> SUFFICES ASSUME Base, Desc, [Next]_vars PROVE Desc'
    OBVIOUS
  <2>1. ASSUME NEW t \in Threads, Step(t) PROVE Desc'
    BY <2>1, CallsStep, TableStep, NamesStep, ObjectsStep DEF Desc
  <2>2. CASE UNCHANGED vars
    <3> USE <2>2 DEF vars, call
    <3>1. CallsOK'
      BY DEF Desc, CallsOK, CallOK, Holds, InHandOK
    <3>2. TableOK'
      BY DEF Desc, TableOK, OwnFile, Holds
    <3>3. NamesOK'
      BY DEF Desc, NamesOK, NamesApart, NamedOpen, ToHandOver
    <3>4. ObjectsOK'
      <4>1. \A v \in Threads : \A f : Claims(v, f)' <=> Claims(v, f)
        BY DEF Claims
      <4>2. \A f : \A i \in Std : KeptFile(f, i) => KeptFile(f, i)'
        BY <4>1 DEF KeptFile, InHand
      <4>3. \A o \in Threads, i \in Std : KeptOK(o, i) => KeptOK(o, i)'
        BY <4>2 DEF KeptOK
      <4>4. \A o \in Threads : ObjectOK(o)'
        BY <4>3 DEF Desc, ObjectsOK, ObjectOK
      <4> QED
        BY <4>4 DEF Desc, ObjectsOK, ObjectsApart
    <3> QED
      BY <3>1, <3>2, <3>3, <3>4 DEF Desc
  <2> QED
    BY <2>1, <2>2 DEF Next, Step
<1> QED
  BY <1>1, DescInit, TypeCorrect, LockingHolds, PidInvHolds, PTL DEF Spec, Base

\* An object's pid, status and streams belong together, through construction
\* next to other threads', waits, moves and swaps.
THEOREM ObjectsBelongTogether == Spec => []ObjectsAreConsistent
<1>1. Base /\ Desc => ObjectsAreConsistent
  <2> SUFFICES ASSUME Base, Desc, NEW o \in Threads
               PROVE  /\ popen[o].pid # invalid_pid => popen[o].status = NoStatus
                      /\ \A i \in Std :
                           popen[o].stream[i] # closed_fd =>
                             LET f == popen[o].stream[i] IN
                             /\ fds[f] # Closed
                             /\ \/ fds[f].file.by = User
                                \/ /\ fds[f].file.stream = i
                                   /\ fds[f].file.side = IF i = 0 THEN "w" ELSE "r"
                                   /\ popen[o].pid \in {fds[f].file.by, invalid_pid}
    BY DEF ObjectsAreConsistent
  <2>1. popen[o].pid # invalid_pid => popen[o].status = NoStatus
    BY DEF Desc, ObjectsOK, ObjectOK
  <2>2. \A i \in Std : popen[o].stream[i] # closed_fd => KeptOK(o, i)
    BY KeptIs
  <2> QED
    BY <2>1, <2>2 DEF KeptOK, KeptFile
<1> QED
  BY <1>1, DescHolds, PTL

-----------------------------------------------------------------------------
(* The child's table.                                                      *)

\* The ends of a stream as the child finds them.
LEMMA EndsAtClone ==
  ASSUME Base, Desc, NEW t \in Threads, NEW i \in Std, pc[t] = "open", i < k[t]
  PROVE  /\ IsSet(sd[t][i]) =>
              /\ \A f \in {sd[t][i].read, sd[t][i].write} :
                   f \in FDs /\ fds[f] # Closed /\ fds[f].file.by \in {t, User}
              /\ Asked(t, i, fds[ChildFd(sd[t][i], i)].file)
         /\ \A f \in FDs \cap {sd[t][i].read, sd[t][i].write} :
              IsSet(sd[t][i]) \/ fds[f].file.by # t
<1> DEFINE d == sd[t][i]
           s == streams[t][i]
<1>0. /\ TypeOK /\ CallsOK /\ NamesOK /\ User \notin Threads /\ closed_fd \notin FDs
      /\ InHandOK(t, i) /\ s.kind \in {"none", "path", "pipe", "fd"}
  BY PopenAssumption, StreamTypesOf DEF Base, Desc, CallsOK, CallOK, Holds
<1>1. CASE s.kind = "none"
  BY <1>0, <1>1 DEF InHandOK, Shape, NotSet, IsSet
<1>2. CASE s.kind = "path"
  <2>1. d.read \in FDs /\ d.write = d.read /\ IsSet(d) /\ ChildFd(d, i) = d.read
    BY <1>0, <1>2 DEF InHandOK, Shape, IsSet, ChildFd
  <2>2. EndIs(fds[d.read], t, i, "rw", FALSE)
    BY <1>0, <1>2, EndOf DEF InHandOK
  <2>3. /\ fds[d.read] # Closed /\ fds[d.read].file.by = t
        /\ fds[d.read].file = [by |-> t, stream |-> i, side |-> "rw"]
    BY <2>2 DEF EndIs
  <2> QED
    BY <1>2, <2>1, <2>3 DEF Asked
<1>3. CASE s.kind = "pipe"
  <2>1. d.read \in FDs /\ d.write \in FDs /\ IsSet(d)
    BY <1>0, <1>3 DEF InHandOK, Shape, IsSet
  <2>2. EndIs(fds[d.read], t, i, "r", TRUE)
    BY <1>0, <1>3, EndOf DEF InHandOK
  <2>3. EndIs(fds[d.write], t, i, "w", TRUE)
    BY <1>0, <1>3, EndOf DEF InHandOK
  <2>4. /\ fds[d.read] # Closed /\ fds[d.read].file.by = t
        /\ fds[d.read].file = [by |-> t, stream |-> i, side |-> "r"]
    BY <2>2 DEF EndIs
  <2>5. /\ fds[d.write] # Closed /\ fds[d.write].file.by = t
        /\ fds[d.write].file = [by |-> t, stream |-> i, side |-> "w"]
    BY <2>3 DEF EndIs
  <2>6. Asked(t, i, fds[ChildFd(d, i)].file)
    BY <1>3, <2>4, <2>5 DEF Asked, ChildFd
  <2> QED
    BY <2>1, <2>4, <2>5, <2>6
<1>4. CASE s.kind = "fd"
  <2>1. d.read = s.read /\ d.write = s.write /\ ChildFd(d, i) = ChildFd(s, i)
    BY <1>0, <1>4 DEF InHandOK, Shape, ChildFd
  <2>2. \A f \in Ends(s) : f \in FDs /\ fds[f] # Closed /\ fds[f].file.by = User
    BY <1>0, <1>4, EndsAreNamed DEF NamesOK, NamedOpen, Unhanded
  <2>3. \A f \in FDs \cap {d.read, d.write} : f \in Ends(s)
    BY <1>0, <2>1 DEF Ends
  <2>4. IsSet(d) => Ends(s) = {d.read, d.write} /\ ChildFd(d, i) \in Ends(s)
    BY <2>1 DEF IsSet, Ends, ChildFd
  <2>5. IsSet(d) => fds[ChildFd(d, i)].file = [by |-> User, stream |-> ChildFd(s, i), side |-> "rw"]
    BY <2>1, <2>2, <2>4 DEF Desc, TableOK
  <2>6. IsSet(d) => Asked(t, i, fds[ChildFd(d, i)].file)
    BY <1>4, <2>5 DEF Asked
  <2> QED
    BY <1>0, <2>2, <2>3, <2>4, <2>6
<1> QED
  BY <1>0, <1>1, <1>2, <1>3, <1>4

\* A child starts with a table in order.
LEMMA CloneSetUp ==
  ASSUME Base, Desc, NEW t \in Threads, Clone(t)
  PROVE  SetUpOK(t)'
<1>0. /\ TypeOK /\ Locking /\ User \notin Threads /\ closed_fd \notin FDs
      /\ fds \in [FDs -> Entries] /\ pc[t] = "open" /\ k[t] = 3
      /\ UNCHANGED <<fds, sd, streams, failed>>
  BY PopenAssumption DEF Base, Clone, TypeOK, Std
<1>1. child'[t].k = 0 /\ child'[t].fds = fds
  BY <1>0, InitialValues DEF Clone, TypeOK, Children, NoChild
<1>2. \A i \in Std : i < k[t] /\ i >= 0 /\ ~ (i < 0)
  BY <1>0 DEF Std
<1>3. ASSUME NEW f \in FDs, fds[f] # Closed
      PROVE  /\ fds[f].file.by \notin {t, User} => fds[f].cloexec \/ failed[fds[f].file.by]
             /\ fds[f].file.by = t => Unprocessed(t, f)'
             /\ Unprocessed(t, f)' => fds[f].file.by \in {t, User}
  <2>1. fds[f].file.by # User => OwnFile(f)
    BY <1>3 DEF Desc, TableOK
  <2>2. ASSUME fds[f].file.by \notin {t, User}
        PROVE  fds[f].cloexec \/ failed[fds[f].file.by]
    <3>1. OwnFile(f)
      BY <2>1, <2>2
    <3>2. fds[f].file.by \in Threads
      BY <3>1 DEF OwnFile
    <3>3. ~ Holds(fds[f].file.by, fds[f].file.stream)
      BY <1>0, <2>2, <3>2, OneCritical DEF Holds, Critical
    <3> QED
      BY <3>1, <3>3 DEF OwnFile
  <2>3. ASSUME fds[f].file.by = t
        PROVE  Unprocessed(t, f)'
    <3>1. OwnFile(f)
      BY <1>0, <2>1, <2>3
    <3>2. PICK i \in Std : f \in {sd[t][i].read, sd[t][i].write}
      BY <2>3, <3>1 DEF OwnFile
    <3>3. IsSet(sd[t][i])
      BY <1>0, <1>2, <2>3, <3>2, EndsAtClone
    <3> QED
      BY <1>0, <1>1, <1>2, <3>2, <3>3 DEF Unprocessed, IsSet
  <2>4. ASSUME Unprocessed(t, f)'
        PROVE  fds[f].file.by \in {t, User}
    <3>1. PICK i \in Std : IsSet(sd[t][i]) /\ f \in {sd[t][i].read, sd[t][i].write}
      BY <1>0, <2>4 DEF Unprocessed, IsSet
    <3> QED
      BY <1>0, <1>2, <3>1, EndsAtClone
  <2> QED
    BY <2>2, <2>3, <2>4
<1>4. \A f \in FDs : FileInSetUp(t, f)'
  BY <1>0, <1>1, <1>3 DEF FileInSetUp, Unprocessed, IsSet
<1>5. ASSUME NEW i \in Std PROVE StreamInSetUp(t, i)'
  <2>1. IsSet(sd[t][i]) => Asked(t, i, fds[ChildFd(sd[t][i], i)].file)
    BY <1>0, <1>2, EndsAtClone
  <2> QED
    BY <1>0, <1>1, <1>2, <2>1 DEF StreamInSetUp, Asked, IsSet, ChildFd
<1> QED
  BY <1>1, <1>4, <1>5 DEF SetUpOK

\* What handle_child_stream makes of the child's table: the child's end is on
\* number i and nowhere else, and the parent's end is closed.
LEMMA SetUpEntries ==
  ASSUME NEW d \in Descriptors, IsSet(d), NEW i \in Std, NEW tbl \in [FDs -> Entries],
         OtherClosed(d, i, tbl)[ChildFd(d, i)] # Closed
  PROVE  LET q == ChildFd(d, i)
             p == ParentFd(d, i)
             new == [Dup2(d, i, OtherClosed(d, i, tbl)) EXCEPT ![q] = Closed]
         IN
         /\ q \in FDs /\ p \in FDs /\ {q, p} = {d.read, d.write}
         /\ tbl[q] # Closed /\ new[q] = Closed
         /\ i # q => new[i] # Closed /\ ~ new[i].cloexec /\ new[i].file = tbl[q].file
         /\ \A f \in FDs \ {q, i} : new[f] = Closed \/ (f # p /\ new[f] = tbl[f])
         /\ \A f \in FDs \ {q, p, i} : new[f] = tbl[f]
<1> DEFINE q == ChildFd(d, i)
           p == ParentFd(d, i)
           other == OtherClosed(d, i, tbl)
           dup == Dup2(d, i, other)
           e == [file |-> tbl[q].file, cloexec |-> FALSE]
<1>1. q \in FDs /\ p \in FDs /\ Closed \in Entries /\ i \in FDs /\ {q, p} = {d.read, d.write}
  BY PopenAssumption, EndsAreFds DEF Entries, FDs, Std, ChildFd, ParentFd
<1>2. /\ other \in [FDs -> Entries] /\ other[q] = tbl[q] /\ tbl[q] # Closed
      /\ p # q => other[p] = Closed
      /\ \A f \in FDs \ {p} : other[f] = tbl[f]
  BY <1>1 DEF OtherClosed
<1>3. e # Closed /\ e \in Entries /\ e.file = tbl[q].file /\ ~ e.cloexec
  <2>1. tbl[q].file \in Files
    BY <1>1, <1>2, EntryTypes
  <2>2. e \in [file : Files, cloexec : BOOLEAN]
    BY <2>1
  <2>3. e \in Entries /\ e # Closed
    BY <2>2, PopenAssumption DEF Entries
  <2> QED
    BY <2>3
<1>4. dup = IF q = i THEN other ELSE [other EXCEPT ![i] = e]
  BY <1>2 DEF Dup2
<1>5. /\ dup \in [FDs -> Entries]
      /\ i # q => dup[i] = e
      /\ \A f \in FDs \ {i} : dup[f] = other[f]
  <2> HIDE DEF dup, e, other
  <2> QED
    BY <1>1, <1>2, <1>3, <1>4
<1> HIDE DEF q, p, other, dup, e
<1>6. \A f \in FDs \ {q} : [dup EXCEPT ![q] = Closed][f] = dup[f]
  BY <1>5
<1>7. [dup EXCEPT ![q] = Closed][q] = Closed
  BY <1>1, <1>5
<1>8. \A f \in FDs \ {q, i} :
        dup[f] = Closed \/ (f # p /\ dup[f] = tbl[f])
  BY <1>2, <1>5
<1>9. \A f \in FDs \ {q, p, i} : dup[f] = tbl[f]
  BY <1>2, <1>5
<1> QED
  BY <1>1, <1>2, <1>3, <1>5, <1>6, <1>7, <1>8, <1>9 DEF q, p, other, dup

\* The child after a stream that was asked for.
LEMMA ChildStreamIs ==
  ASSUME TypeOK, NEW t \in Threads, HandleChildStream(t)
  PROVE  /\ child[t].state = "setup" /\ child[t].k \in Std /\ child'[t].k = child[t].k + 1
         /\ child'[t].state = "setup" /\ child'[t].mask = child[t].mask
         /\ UNCHANGED <<fds, call, popen>>
         /\ ~ IsSet(sd[t][child[t].k]) => child'[t].fds = child[t].fds
         /\ IsSet(sd[t][child[t].k]) =>
              LET i == child[t].k
                  d == sd[t][i]
                  table == OtherClosed(d, i, child[t].fds)
              IN  /\ table[ChildFd(d, i)] # Closed
                  /\ child'[t].fds = [Dup2(d, i, table) EXCEPT ![ChildFd(d, i)] = Closed]
<1> DEFINE c == child[t]
           i == c.k
           d == sd[t][i]
           table == OtherClosed(d, i, c.fds)
           new == [Dup2(d, i, table) EXCEPT ![ChildFd(d, i)] = Closed]
<1>1. c \in Children /\ child \in [Threads -> Children] /\ i \in Std /\ c.state = "setup"
  BY DEF TypeOK, HandleChildStream
<1>2. /\ ~ IsSet(d) => child' = [child EXCEPT ![t] = [c EXCEPT !.k = i + 1]]
      /\ IsSet(d) => /\ table[ChildFd(d, i)] # Closed
                     /\ child' = [child EXCEPT ![t] = [c EXCEPT !.k = i + 1, !.fds = new]]
      /\ UNCHANGED <<fds, call, popen>>
  BY DEF HandleChildStream
<1> HIDE DEF new, table, d
<1>4. /\ ~ IsSet(d) => child'[t] = [c EXCEPT !.k = i + 1]
      /\ IsSet(d) => child'[t] = [c EXCEPT !.k = i + 1, !.fds = new]
  BY <1>1, <1>2
<1>5. /\ child'[t].k = i + 1 /\ child'[t].state = "setup" /\ child'[t].mask = c.mask
      /\ ~ IsSet(d) => child'[t].fds = c.fds
      /\ IsSet(d) => child'[t].fds = new
  <2> DEFINE n == i + 1
  <2> HIDE DEF c, n
  <2>1. child'[t] = [c EXCEPT !.k = n] \/ child'[t] = [c EXCEPT !.k = n, !.fds = new]
    BY <1>4 DEF n
  <2>2. child'[t].k = n /\ child'[t].state = "setup" /\ child'[t].mask = c.mask
    BY <1>1, <2>1 DEF Children
  <2>3. ~ IsSet(d) => child'[t].fds = c.fds
    BY <1>1, <1>4 DEF Children
  <2>4. IsSet(d) => child'[t].fds = new
    BY <1>1, <1>4 DEF Children
  <2> QED
    BY <2>2, <2>3, <2>4 DEF n
<1>6. /\ IsSet(sd[t][child[t].k]) <=> IsSet(d)
      /\ IsSet(d) =>
           LET n == child[t].k
               e == sd[t][n]
               tab == OtherClosed(e, n, child[t].fds)
           IN  /\ tab[ChildFd(e, n)] # Closed
               /\ child'[t].fds = [Dup2(e, n, tab) EXCEPT ![ChildFd(e, n)] = Closed]
  BY <1>2, <1>5 DEF new, table, d
<1> HIDE DEF c
<1>7. child[t].k = i /\ child[t].mask = c.mask /\ child[t].fds = c.fds /\ child[t].state = c.state
  BY DEF c
<1> QED
  BY <1>1, <1>2, <1>5, <1>6, <1>7

\* So it stays in order when the next stream is put in its place.
LEMMA ChildStreamSetUp ==
  ASSUME TypeOK, NEW t \in Threads, SetUpOK(t), HandleChildStream(t)
  PROVE  SetUpOK(t)'
<1> DEFINE tbl == child[t].fds
           new == child'[t].fds
<1>0. PICK i \in Std : i = child[t].k
  BY ChildStreamIs
<1> DEFINE d == sd[t][i]
           q == ChildFd(d, i)
           p == ParentFd(d, i)
<1>1. /\ tbl \in [FDs -> Entries] /\ d \in Descriptors /\ child'[t].k = i + 1
      /\ streams' = streams /\ sd' = sd /\ failed' = failed
      /\ i \in FDs /\ i + 1 # 4
  <2>1. child[t] \in Children /\ d \in Descriptors
    BY DEF TypeOK
  <2>2. i \in FDs /\ i + 1 # 4
    BY PopenAssumption DEF FDs, Std
  <2>3. streams' = streams /\ sd' = sd /\ failed' = failed
    BY ChildStreamIs DEF call
  <2>4. child'[t].k = i + 1
    BY <1>0, ChildStreamIs
  <2> QED
    BY <2>1, <2>2, <2>3, <2>4 DEF Children
<1>2. \A f : Unprocessed(t, f)' => Unprocessed(t, f)
  BY <1>0, <1>1 DEF Unprocessed, IsSet, Std
<1>3. \A f : Unprocessed(t, f) /\ ~ (IsSet(d) /\ f \in {d.read, d.write}) => Unprocessed(t, f)'
  BY <1>0, <1>1 DEF Unprocessed, IsSet, Std
<1>4. CASE ~ IsSet(d)
  <2>1. new = tbl
    BY <1>0, <1>4, ChildStreamIs
  <2>2. \A f \in FDs : FileInSetUp(t, f)'
    BY <1>1, <1>2, <1>3, <1>4, <2>1 DEF SetUpOK, FileInSetUp
  <2>3. ASSUME NEW j \in Std, StreamInSetUp(t, j) PROVE StreamInSetUp(t, j)'
    <3>1. IsSet(sd[t][j]) => (j < i + 1 <=> j < i)
      BY <1>4 DEF Std
    <3> QED
      BY <1>0, <1>1, <2>1, <2>3, <3>1 DEF StreamInSetUp, Asked, IsSet, ChildFd
  <2> QED
    BY <1>1, <2>2, <2>3 DEF SetUpOK, NoneIsStandard, IsSet
<1>5. CASE IsSet(d)
  <2>1. /\ q \in FDs /\ p \in FDs /\ {q, p} = {d.read, d.write}
        /\ tbl[q] # Closed /\ new[q] = Closed
        /\ i # q => new[i] # Closed /\ ~ new[i].cloexec /\ new[i].file = tbl[q].file
        /\ \A f \in FDs \ {q, i} : new[f] = Closed \/ (f # p /\ new[f] = tbl[f])
        /\ \A f \in FDs \ {q, p, i} : new[f] = tbl[f]
    <3>1. /\ OtherClosed(d, i, tbl)[q] # Closed
          /\ new = [Dup2(d, i, OtherClosed(d, i, tbl)) EXCEPT ![q] = Closed]
      BY <1>0, <1>5, ChildStreamIs
    <3> QED
      BY <1>1, <1>5, <3>1, SetUpEntries
  <2> HIDE DEF q, p, new, tbl, d
  <2>2. ASSUME NEW f \in FDs, new[f] # Closed
        PROVE  /\ new[f].file.by \notin {t, User} => new[f].cloexec \/ failed[new[f].file.by]
               /\ new[f].file.by = t => f \in Std \/ Unprocessed(t, f)'
               /\ Unprocessed(t, f)' => new[f].file.by \in {t, User}
    <3>1. FileInSetUp(t, q) /\ FileInSetUp(t, f)
      BY <2>1 DEF SetUpOK
    <3>2. CASE f = i
      <4>1. Unprocessed(t, q)
        BY <1>0, <1>1, <1>5, <2>1 DEF Unprocessed, d, Std
      <4>2. tbl[q].file.by \in {t, User}
        BY <2>1, <3>1, <4>1 DEF FileInSetUp, tbl
      <4>3. i # q
        BY <2>1, <2>2, <3>2
      <4> QED
        BY <2>1, <3>2, <4>2, <4>3
    <3>3. CASE f # i
      <4>1. f # q /\ f # p /\ new[f] = tbl[f]
        BY <2>1, <2>2, <3>3
      <4>2. ~ (f \in {d.read, d.write})
        BY <2>1, <4>1
      <4> QED
        BY <1>2, <1>3, <2>2, <3>1, <4>1, <4>2 DEF FileInSetUp, tbl
    <3> QED
      BY <3>2, <3>3
  <2>3. \A f \in FDs : FileInSetUp(t, f)'
    BY <1>1, <2>2 DEF FileInSetUp, new
  <2>4. ASSUME NoneIsStandard(t), NEW j \in Std, StreamInSetUp(t, j), IsSet(sd[t][j]), 
               NEW f, f = ChildFd(sd[t][j], j)
        PROVE  IF j < i + 1
               THEN new[j] # Closed /\ ~ new[j].cloexec /\ Asked(t, j, new[j].file)
               ELSE new[f] # Closed => Asked(t, j, new[f].file)
    <3>1. /\ q \notin Std /\ p \notin Std /\ f \notin Std /\ f \in FDs /\ j \in FDs
      <4>1. {d.read, d.write} \cap Std = {} /\ {sd[t][j].read, sd[t][j].write} \cap Std = {}
        BY <1>5, <2>4 DEF NoneIsStandard, d
      <4>2. f \in {sd[t][j].read, sd[t][j].write} /\ j \in FDs
        BY <2>4, PopenAssumption DEF ChildFd, FDs, Std
      <4>3. f \in FDs
        BY <2>4, StreamTypesOf DEF IsSet, ChildFd
      <4> QED
        BY <2>1, <4>1, <4>2, <4>3
    <3>2. CASE j = i
      <4>1. Asked(t, i, tbl[q].file)
        BY <1>0, <2>1, <2>4, <3>2 DEF StreamInSetUp, tbl, d, q, Std
      <4> QED
        BY <2>1, <3>1, <3>2, <4>1 DEF Std
    <3>3. CASE j < i
      <4>1. new[j] = tbl[j]
        BY <2>1, <3>1, <3>3 DEF Std
      <4> QED
        BY <1>0, <2>4, <3>3, <4>1 DEF StreamInSetUp, tbl, Std
    <3>4. CASE j > i
      <4>1. new[f] = Closed \/ new[f] = tbl[f]
        BY <2>1, <3>1
      <4>2. tbl[f] # Closed => Asked(t, j, tbl[f].file)
        BY <1>0, <2>4, <3>4 DEF StreamInSetUp, tbl, Std
      <4> QED
        BY <3>4, <4>1, <4>2 DEF Std
    <3> QED
      BY <3>2, <3>3, <3>4 DEF Std
  <2>5. NoneIsStandard(t) => \A j \in Std : StreamInSetUp(t, j) => StreamInSetUp(t, j)'
    BY <1>1, <2>4 DEF StreamInSetUp, Asked, IsSet, ChildFd, new
  <2> QED
    BY <1>1, <2>3, <2>5 DEF SetUpOK, NoneIsStandard, IsSet
<1> QED
  BY <1>4, <1>5

\* Closing what is left keeps what is on 0, 1 and 2.
LEMMA ChildClosesSetUp ==
  ASSUME TypeOK, NEW t \in Threads, SetUpOK(t), ChildCloses(t)
  PROVE  SetUpOK(t)'
<1> DEFINE c == child[t]
<1>1. c \in Children /\ c.k = 3 /\ streams' = streams /\ sd' = sd /\ failed' = failed
  BY DEF TypeOK, ChildCloses, call
<1>2. PICK last \in {MaxFd + 1} \cup Limits :
        child' = [child EXCEPT ![t] =
                    [c EXCEPT !.k = 4, !.mask = NoSignals,
                              !.fds = [f \in FDs |-> IF f > 2 /\ f < last THEN Closed ELSE c.fds[f]]]]
  BY DEF ChildCloses
<1> DEFINE new == [f \in FDs |-> IF f > 2 /\ f < last THEN Closed ELSE c.fds[f]]
<1>3. \A f \in FDs : new[f] = c.fds[f] \/ (new[f] = Closed /\ f \notin Std)
  BY DEF Std
<1> HIDE DEF new
<1>4. child'[t] = [c EXCEPT !.k = 4, !.mask = NoSignals, !.fds = new]
  BY <1>2 DEF TypeOK, new
<1>5. child'[t].k = 4 /\ child'[t].mask = NoSignals /\ child'[t].fds = new
  BY <1>1, <1>4 DEF Children
<1>6. \A f : ~ Unprocessed(t, f) /\ ~ Unprocessed(t, f)'
  BY <1>1, <1>5 DEF Unprocessed, Std
<1>7. \A f \in FDs : FileInSetUp(t, f)'
  BY <1>1, <1>3, <1>5, <1>6 DEF SetUpOK, FileInSetUp
<1>8. ASSUME NEW j \in Std, StreamInSetUp(t, j) PROVE StreamInSetUp(t, j)'
  <2>1. j < 3 /\ j < 4 /\ j \in FDs
    BY PopenAssumption DEF Std, FDs
  <2>2. new[j] = c.fds[j]
    BY <1>3, <2>1
  <2> QED
    BY <1>1, <1>5, <1>8, <2>1, <2>2 DEF StreamInSetUp, Asked, IsSet, ChildFd
<1> QED
  BY <1>1, <1>5, <1>7, <1>8 DEF SetUpOK, NoneIsStandard, IsSet

\* The program starts with what the set-up has arranged, without the
\* descriptors marked close-on-exec.
LEMMA ExecRuns ==
  ASSUME TypeOK, NEW t \in Threads, SetUpOK(t), ChildExec(t)
  PROVE  RunsOK(t)'
<1> DEFINE c == child[t]
           new == [f \in FDs |-> IF c.fds[f] # Closed /\ c.fds[f].cloexec
                                 THEN Closed ELSE c.fds[f]]
<1>1. c \in Children /\ c.k = 4 /\ streams' = streams /\ sd' = sd /\ failed' = failed
  BY DEF TypeOK, ChildExec, call
<1>2. child'[t] = [c EXCEPT !.state = "running", !.fds = new]
  BY DEF TypeOK, ChildExec
<1>3. \A f \in FDs : /\ new[f] # Closed => new[f] = c.fds[f] /\ ~ c.fds[f].cloexec
                     /\ c.fds[f] # Closed /\ ~ c.fds[f].cloexec => new[f] = c.fds[f]
  OBVIOUS
<1> HIDE DEF new
<1>4. child'[t].mask = c.mask /\ child'[t].fds = new /\ c.mask = NoSignals
  BY <1>1, <1>2 DEF Children, SetUpOK
<1>5. \A f : ~ Unprocessed(t, f)
  BY <1>1 DEF Unprocessed, Std
<1>6. ASSUME NEW f \in FDs, new[f] # Closed, NEW u, u = new[f].file.by
      PROVE  u = User \/ (u = t /\ f \in Std) \/ (u # t /\ failed[u])
  BY <1>3, <1>5, <1>6 DEF SetUpOK, FileInSetUp
<1>7. ASSUME NEW i \in Std, NoneIsStandard(t), IsSet(sd[t][i])
      PROVE  new[i] # Closed /\ Asked(t, i, new[i].file)
  <2>1. i < 4 /\ i \in FDs
    BY PopenAssumption DEF Std, FDs
  <2> QED
    BY <1>1, <1>3, <1>7, <2>1 DEF SetUpOK, StreamInSetUp
<1> QED
  BY <1>1, <1>4, <1>6, <1>7 DEF RunsOK, NoneIsStandard, IsSet, Asked

\* A child that a step does not touch stays as it is: its call is over with
\* opening streams.
LEMMA ChildKept ==
  ASSUME Base, NEW t \in Threads, Step(t), NEW u \in Threads, ChildOK(u),
         child'[u] = child[u]
  PROVE  ChildOK(u)'
<1>1. CASE child[u].state = "none"
  BY <1>1 DEF ChildOK
<1>2. CASE child[u].state # "none"
  <2>1. pc[u] \in PastOpen /\ TypeOK
    BY <1>2 DEF ChildOK, Base
  <2>2. pc'[u] \in PastOpen
    <3>1. pc[u] \in PCs /\ pc'[u] \in PCs
      BY <2>1, TypeStep DEF Step, TypeOK
    <3> QED
      BY <2>1, <3>1, RequestsStep DEF PastOpen, PCs, Early
  <2>3. sd'[u] = sd[u] /\ streams'[u] = streams[u]
    <3>1. \A i \in Std : sd'[u][i] = sd[u][i]
      BY <2>1, HoldsStep DEF OpenStream, PastOpen
    <3>2. sd[u] \in [Std -> Descriptors] /\ sd'[u] \in [Std -> Descriptors]
      BY <2>1, TypeStep DEF Step, TypeOK
    <3>3. streams'[u] = streams[u]
      BY <2>1, RequestsStep DEF PastOpen
    <3> QED
      BY <3>1, <3>2, <3>3
  <2>4. \A v \in Threads : failed[v] => failed'[v]
    BY <2>1, HoldsStep DEF Std
  <2>5. NoneIsStandard(u)' => NoneIsStandard(u)
    BY <2>3 DEF NoneIsStandard, IsSet
  <2>6. \A i \in Std : \A file : Asked(u, i, file) => Asked(u, i, file)'
    BY <2>3 DEF Asked, ChildFd
  <2>7. \A f \in FDs : child[u].fds[f] # Closed => child[u].fds[f].file.by \in Threads \cup {User}
    <3>1. child[u] \in Children
      BY <2>1 DEF TypeOK
    <3> QED
      BY <3>1, EntryTypes DEF Children
  <2>8. \A f : Unprocessed(u, f)' <=> Unprocessed(u, f)
    BY <2>3 DEF Unprocessed, IsSet
  <2>9. SetUpOK(u) => SetUpOK(u)'
    <3>1. \A f \in FDs : FileInSetUp(u, f) => FileInSetUp(u, f)'
      BY <2>4, <2>7, <2>8 DEF FileInSetUp
    <3>2. \A i \in Std : StreamInSetUp(u, i) => StreamInSetUp(u, i)'
      BY <2>3, <2>6 DEF StreamInSetUp, IsSet, ChildFd
    <3> QED
      BY <2>5, <3>1, <3>2 DEF SetUpOK
  <2>10. RunsOK(u) => RunsOK(u)'
    <3>1. ASSUME NEW f \in FDs, child[u].fds[f] # Closed, NEW v, v = child[u].fds[f].file.by,
                 v = User \/ (v = u /\ f \in Std) \/ (v # u /\ failed[v])
          PROVE  v = User \/ (v = u /\ f \in Std) \/ (v # u /\ failed'[v])
      BY <2>4, <2>7, <3>1
    <3>2. ASSUME RunsOK(u), NoneIsStandard(u)', NEW i \in Std, IsSet(sd[u][i])
          PROVE  child[u].fds[i] # Closed /\ Asked(u, i, child[u].fds[i].file)'
      BY <2>5, <2>6, <3>2 DEF RunsOK
    <3> QED
      BY <2>3, <3>1, <3>2 DEF RunsOK, IsSet
  <2> QED
    BY <2>2, <2>9, <2>10 DEF ChildOK
<1> QED
  BY <1>1, <1>2

\* Every step keeps the children in order.
LEMMA ChildrenStep ==
  ASSUME Base, Desc, ChildrenOK, NEW t \in Threads, Step(t)
  PROVE  ChildrenOK'
<1> SUFFICES ASSUME NEW u \in Threads PROVE ChildOK(u)'
  BY DEF ChildrenOK
<1>0. /\ TypeOK /\ Locking /\ ChildOK(u) /\ ChildOK(t)
      /\ child \in [Threads -> Children] /\ pc \in [Threads -> PCs]
  BY DEF Base, ChildrenOK, TypeOK
<1>1. CASE child'[u] = child[u]
  BY <1>0, <1>1, ChildKept
<1>2. CASE child'[u].state \in {"zombie", "reaped"} /\ child[u].state # "none"
  <2>1. pc[u] \in PastOpen /\ pc'[u] \in PCs
    BY <1>0, <1>2, TypeStep DEF ChildOK, Step, TypeOK
  <2>2. pc'[u] \in PastOpen
    BY <2>1, RequestsStep DEF PastOpen, PCs, Early
  <2> QED
    BY <1>2, <2>2 DEF ChildOK
<1>3. CASE HandleChildStream(t) \/ ChildCloses(t)
  <2>1. child[t].state = "setup" /\ UNCHANGED call /\ (u # t => child'[u] = child[u])
    BY <1>0, <1>3, ChildGoesOn
  <2>2. child'[t].state = "setup"
    <3>1. CASE HandleChildStream(t)
      BY <1>0, <3>1, ChildStreamIs
    <3>2. CASE ChildCloses(t)
      <4>1. child[t] \in Children
        BY <1>0
      <4>2. \E n, m, table :
              child' = [child EXCEPT ![t] = [child[t] EXCEPT !.k = n, !.mask = m, !.fds = table]]
        BY <3>2, Zenon DEF ChildCloses
      <4> QED
        BY <1>0, <2>1, <4>1, <4>2 DEF Children
    <3> QED
      BY <1>3, <3>1, <3>2
  <2>3. SetUpOK(t)'
    BY <1>0, <1>3, <2>1, ChildStreamSetUp, ChildClosesSetUp DEF ChildOK
  <2>4. ChildOK(t)'
    BY <1>0, <2>1, <2>2, <2>3 DEF ChildOK, call
  <2> QED
    BY <1>1, <2>1, <2>4
<1>4. CASE ChildExec(t)
  <2>1. child[t].state = "setup" /\ UNCHANGED call /\ (u # t => child'[u] = child[u])
    BY <1>0, <1>4, ChildGoesOn
  <2>2. child'[t].state = "running"
    BY <1>0, <1>4 DEF ChildExec, Children
  <2>3. RunsOK(t)'
    BY <1>0, <1>4, <2>1, ExecRuns DEF ChildOK
  <2>4. ChildOK(t)'
    BY <1>0, <2>1, <2>2, <2>3 DEF ChildOK, call
  <2> QED
    BY <1>1, <2>1, <2>4
<1>5. CASE ChildStreamFails(t) \/ ChildFails(t) \/ ChildEnds(t)
  BY <1>0, <1>1, <1>2, <1>5, ChildStops
<1>6. CASE Clone(t)
  <2>1. child'[t].state = "setup" /\ (u # t => child'[u] = child[u])
    BY <1>0, <1>6, Cloned
  <2>2. pc'[t] = "vfork"
    BY <1>0, <1>6 DEF Clone, Goto
  <2>3. ChildOK(t)'
    BY <1>6, <2>1, <2>2, CloneSetUp DEF ChildOK, PastOpen
  <2> QED
    BY <1>1, <2>1, <2>3
<1>7. CASE SetUpFailed(t)
  <2>1. child'[t].state = "reaped" /\ (u # t => child'[u] = child[u])
    BY <1>0, <1>7, ReapTypes DEF SetUpFailed
  <2>2. child[t].state # "none"
    BY <1>7 DEF SetUpFailed, Base, PidInv, Alive
  <2> QED
    BY <1>1, <1>2, <2>1, <2>2
<1>8. CASE Wait(t) \/ Signal(t)
  <2>1. popen[t].pid \in Threads
    BY <1>0, <1>8 DEF Wait, Signal, TypeOK, PopenObjects
  <2>2. PICK p \in Threads : p = popen[t].pid
    BY <2>1
  <2>3. Reap(p) \/ \E how \in Hows : Dies(p, "0", how)
    BY <1>8, <2>2 DEF Wait, Signal, Hows
  <2>4. child[p].state \in {"running", "zombie"}
    BY <1>8, <2>2 DEF Wait, Signal
  <2>5. child'[p].state \in {"zombie", "reaped"} /\ (u # p => child'[u] = child[u])
    BY <1>0, <2>3, ReapTypes, DiesTypes
  <2> QED
    BY <1>1, <1>2, <2>4, <2>5
<1>9. CASE UNCHANGED child
  BY <1>1, <1>9
<1>10. CASE CallStep(t) /\ ~ Clone(t) /\ ~ SetUpFailed(t)
  BY <1>9, <1>10 DEF CallStep, LockClone, LockSignals, OpenStream, OpenFails, CloneFails,
     Started, HandleParentStream, Return, UnlockSignals, UnlockClone, EndCall
<1>11. CASE Use(t) /\ ~ Wait(t) /\ ~ Signal(t)
  BY <1>9, <1>11 DEF Use, Destroy, ResetStream, MoveAssign, Swap
<1> QED
  BY <1>3, <1>4, <1>5, <1>6, <1>7, <1>8, <1>9, <1>10, <1>11 DEF Step, ChildStep, Call

\* So they are in every reachable state.
LEMMA ChildrenHolds == Spec => []ChildrenOK
<1>1. Init => ChildrenOK
  <2>1. NoChild.state = "none"
    BY DEF NoChild
  <2> QED
    BY <2>1 DEF Init, ChildrenOK, ChildOK
<1>2. Base /\ Desc /\ ChildrenOK /\ [Next]_vars => ChildrenOK'
  <2> SUFFICES ASSUME Base, Desc, ChildrenOK, [Next]_vars PROVE ChildrenOK'
    OBVIOUS
  <2>1. ASSUME NEW t \in Threads, Step(t) PROVE ChildrenOK'
    BY <2>1, ChildrenStep
  <2>2. CASE UNCHANGED vars
    <3> USE <2>2 DEF vars, call
    <3>1. \A t \in Threads : SetUpOK(t) => SetUpOK(t)'
      <4>1. \A t \in Threads, f \in FDs : FileInSetUp(t, f) => FileInSetUp(t, f)'
        BY DEF FileInSetUp, Unprocessed
      <4>2. \A t \in Threads, i \in Std : StreamInSetUp(t, i) => StreamInSetUp(t, i)'
        BY DEF StreamInSetUp, Asked
      <4> QED
        BY <4>1, <4>2 DEF SetUpOK, NoneIsStandard
    <3>2. \A t \in Threads : RunsOK(t) => RunsOK(t)'
      BY DEF RunsOK, NoneIsStandard, Asked
    <3> QED
      BY <3>1, <3>2 DEF ChildrenOK, ChildOK
  <2> QED
    BY <2>1, <2>2 DEF Next, Step
<1> QED
  BY <1>1, <1>2, DescHolds, PTL DEF Spec

\* A program starts with the streams its caller asked for on 0, 1 and 2, with
\* no signal blocked, and with nothing else that popen opened, whatever the
\* other threads open and start meanwhile.
THEOREM ProgramsAreSetUp == Spec => []ProgramsGetTheirStreams
<1>1. ChildrenOK => ProgramsGetTheirStreams
  BY DEF ChildrenOK, ChildOK, RunsOK, ProgramsGetTheirStreams
<1> QED
  BY <1>1, ChildrenHolds, PTL

-----------------------------------------------------------------------------
(* What gets lost.                                                         *)

\* The steps that change an object.
LEMMA ObjectsOfStep ==
  ASSUME NEW t \in Threads, Step(t)
  PROVE  \/ popen' = popen
         \/ HandleParentStream(t) \/ EndCall(t) \/ Wait(t) \/ Destroy(t)
         \/ \E i \in Std : ResetStream(t, i)
         \/ \E p \in Threads : MoveAssign(t, p) \/ Swap(t, p)
<1>1. CASE Call(t) \/ CallStep(t)
  BY <1>1 DEF Call, CallStep, LockClone, LockSignals, OpenStream, OpenFails, Clone, CloneFails,
     SetUpFailed, Started, Return, UnlockSignals, UnlockClone
<1>2. CASE ChildStep(t) \/ ChildEnds(t) \/ Signal(t)
  BY <1>2 DEF ChildStep, HandleChildStream, ChildStreamFails, ChildCloses, ChildExec,
      ChildFails, ChildEnds, Signal
<1> QED
  BY <1>1, <1>2 DEF Step, Use

\* A stream that an object owns stays owned, unless it is closed, replaced in
\* the hand-over or overwritten by a move.
LEMMA StreamsMove ==
  ASSUME TypeOK, NEW t \in Threads, Step(t), NEW v \in Threads, NEW i \in Std,
         NEW f \in FDs, popen[v].stream[i] = f
  PROVE  \/ \E w \in Threads, j \in Std : popen'[w].stream[j] = f
         \/ fds'[f] = Closed
         \/ HandleParentStream(t) /\ v = t /\ i = k[t]
         \/ \E p \in Threads : MoveAssign(t, p) /\ popen[t] # Empty
<1>0. /\ popen \in [Threads -> PopenObjects] /\ fds \in [FDs -> Entries]
      /\ \A o \in Threads : popen[o] \in PopenObjects
      /\ f # closed_fd
  BY PopenAssumption DEF TypeOK
<1>1. CASE HandleParentStream(t)
  <2>1. PICK n \in Std : n = k[t]
    BY <1>1 DEF HandleParentStream
  <2>2. popen' = popen \/ popen' = [popen EXCEPT ![t].stream[n] = Kept(t, n)]
    BY <1>1, <2>1 DEF HandleParentStream
  <2>3. ~ (v = t /\ i = n) => popen'[v].stream[i] = f
    BY <1>0, <2>2 DEF PopenObjects
  <2> QED
    BY <1>1, <2>1, <2>3
<1>2. CASE EndCall(t)
  <2>1. popen' = popen \/ popen' = [popen EXCEPT ![t].pid = t]
    BY <1>2 DEF EndCall
  <2>2. popen'[v].stream = popen[v].stream
    BY <1>0, <2>1 DEF PopenObjects
  <2> QED
    BY <2>2
<1>3. CASE Wait(t)
  <2>1. PICK s : popen' = [popen EXCEPT ![t].pid = invalid_pid, ![t].status = s]
    BY <1>3 DEF Wait
  <2>2. popen'[v].stream = popen[v].stream
    BY <1>0, <2>1 DEF PopenObjects
  <2> QED
    BY <2>2
<1>4. CASE Destroy(t)
  <2>1. v # t => popen'[v] = popen[v]
    BY <1>0, <1>4 DEF Destroy
  <2>2. v = t => fds'[f] = Closed
    BY <1>4 DEF Destroy
  <2> QED
    BY <2>1, <2>2
<1>5. ASSUME NEW n \in Std, ResetStream(t, n) PROVE popen'[v].stream[i] = f \/ fds'[f] = Closed
  <2>1. popen' = [popen EXCEPT ![t].stream[n] = closed_fd]
    BY <1>5 DEF ResetStream
  <2>2. ~ (v = t /\ i = n) => popen'[v].stream[i] = f
    BY <1>0, <2>1 DEF PopenObjects
  <2>3. v = t /\ i = n => fds'[f] = Closed
    BY <1>0, <1>5 DEF ResetStream
  <2> QED
    BY <2>2, <2>3
<1>6. ASSUME NEW p \in Threads, MoveAssign(t, p)
      PROVE  (\E w \in Threads : popen'[w].stream[i] = f) \/ popen[t] # Empty
  <2>1. popen' = [popen EXCEPT ![t] = popen[p], ![p] = MovedFrom(t, p)]
    BY <1>6 DEF MoveAssign
  <2>2. v = t => popen[t] # Empty
    BY <1>0 DEF Empty
  <2>3. v = p /\ p # t => popen'[t].stream[i] = f
    BY <1>0, <2>1
  <2>4. v # t /\ v # p => popen'[v].stream[i] = f
    BY <1>0, <2>1
  <2> QED
    BY <2>2, <2>3, <2>4
<1>7. ASSUME NEW p \in Threads, Swap(t, p) PROVE \E w \in Threads : popen'[w].stream[i] = f
  <2>1. popen' = [popen EXCEPT ![t] = popen[p], ![p] = popen[t]]
    BY <1>7 DEF Swap
  <2>2. \E w \in Threads : popen'[w] = popen[v]
    BY <1>0, <2>1
  <2> QED
    BY <2>2
<1> QED
  BY <1>1, <1>2, <1>3, <1>4, <1>5, <1>6, <1>7, ObjectsOfStep

\* So does a pid, unless it is waited for or overwritten.
LEMMA PidsMove ==
  ASSUME TypeOK, NEW t \in Threads, Step(t), NEW v \in Threads,
         NEW u \in Threads, popen[v].pid = u
  PROVE  \/ \E w \in Threads : popen'[w].pid = u
         \/ Wait(t) /\ v = t
         \/ EndCall(t) /\ v = t
         \/ \E p \in Threads : MoveAssign(t, p) /\ popen[t].pid # invalid_pid
<1>0. /\ popen \in [Threads -> PopenObjects] /\ u # invalid_pid
      /\ \A o \in Threads : popen[o] \in PopenObjects
  BY PopenAssumption DEF TypeOK
<1>1. CASE HandleParentStream(t)
  <2>1. popen' = popen \/ \E n \in Std : \E g : popen' = [popen EXCEPT ![t].stream[n] = g]
    BY <1>1 DEF HandleParentStream
  <2> QED
    BY <2>1, StreamKeepsPids
<1>2. CASE EndCall(t)
  BY <1>0, <1>2 DEF EndCall, PopenObjects
<1>3. CASE Wait(t)
  <2>1. PICK s : popen' = [popen EXCEPT ![t].pid = invalid_pid, ![t].status = s]
    BY <1>3 DEF Wait
  <2>2. v # t => popen'[v] = popen[v]
    BY <1>0, <2>1
  <2> QED
    BY <1>3, <2>2
<1>4. CASE Destroy(t)
  BY <1>0, <1>4 DEF Destroy
<1>5. ASSUME NEW n \in Std, ResetStream(t, n) PROVE popen'[v].pid = u
  BY <1>5, StreamKeepsPids DEF ResetStream
<1>6. ASSUME NEW p \in Threads, MoveAssign(t, p)
      PROVE  (\E w \in Threads : popen'[w].pid = u) \/ popen[t].pid # invalid_pid
  <2>1. popen' = [popen EXCEPT ![t] = popen[p], ![p] = MovedFrom(t, p)]
    BY <1>6 DEF MoveAssign
  <2> QED
    BY <1>0, <2>1
<1>7. ASSUME NEW p \in Threads, Swap(t, p) PROVE \E w \in Threads : popen'[w].pid = u
  <2>1. popen' = [popen EXCEPT ![t] = popen[p], ![p] = popen[t]]
    BY <1>7 DEF Swap
  <2>2. \E w \in Threads : popen'[w] = popen[v]
    BY <1>0, <2>1
  <2> QED
    BY <2>2
<1> QED
  BY <1>1, <1>2, <1>3, <1>4, <1>5, <1>6, <1>7, ObjectsOfStep

\* An end that popen opened and a call has in hand stays held, unless the call
\* fails: the end that is not kept is closed in the hand-over.
LEMMA InHandStaysHeld ==
  ASSUME Base, Desc, NEW t \in Threads, Step(t), NEW v \in Threads, NEW i \in Std,
         NEW f \in FDs, InHand(v, i), f \in {sd[v][i].read, sd[v][i].write},
         fds[f] # Closed, fds[f].file.by # User, fds'[f] # Closed
  PROVE  f \in Held' \/ (failed'[v] /\ ~ failed[v])
<1>0. /\ TypeOK /\ CallsOK /\ NamesOK /\ k \in [Threads -> 0..3] /\ fds \in [FDs -> Entries]
      /\ popen \in [Threads -> PopenObjects] /\ closed_fd \notin FDs
  BY PopenAssumption DEF Base, Desc, TypeOK
<1>1. Holds(v, i)
  <2>1. pc[v] = "open" /\ i >= k[v] => sd[v][i] = NotSet
    BY <1>0 DEF CallsOK, CallOK
  <2>2. NotSet.read = closed_fd /\ NotSet.write = closed_fd
    BY DEF NotSet
  <2>3. k[v] \in 0..3
    BY <1>0
  <2> QED
    BY <1>0, <2>1, <2>2, <2>3 DEF InHand, Holds, Std
<1>2. ~ failed[v]
  BY <1>1 DEF Holds, Base, PidInv
<1>3. CASE Holds(v, i)'
  <2>1. sd'[v][i] = sd[v][i]
    <3>1. ~ (OpenStream(t) /\ v = t /\ i = k[t])
      BY <1>0, <1>1 DEF Holds, OpenStream, Std
    <3> QED
      BY <3>1, HoldsStep
  <2>2. InHand(v, i)'
    BY <1>3 DEF Holds, InHand
  <2> QED
    BY <2>1, <2>2 DEF Held
<1>4. CASE HandleParentStream(t) /\ v = t /\ i = k[t]
  <2>1. pc[t] = "hand_over" /\ i >= k[t]
    BY <1>4 DEF HandleParentStream, Std
  <2> DEFINE d == sd[t][i]
             s == streams[t][i]
             c == ChildFd(d, i)
             p == ParentFd(d, i)
  <2>2. f = c \/ f = p
    BY <1>4 DEF ChildFd, ParentFd
  <2>3. CASE IsSet(d)
    <3>1. fds' = [fds EXCEPT ![c] = Closed]
      BY <1>4, <2>3 DEF HandleParentStream, CloseChildFd
    <3>2. c \in FDs /\ p \in FDs
      BY <1>0, <2>1, <2>3, EndsInHand
    <3>3. f = p /\ p # c
      BY <1>0, <2>2, <3>1, <3>2
    <3>4. popen' = [popen EXCEPT ![t].stream[i] = f]
      BY <1>4, <2>3, <3>3 DEF HandleParentStream, Kept
    <3>5. popen'[t].stream[i] = f
      <4>1. popen[t] \in PopenObjects
        BY <1>0
      <4> HIDE DEF d, c, p
      <4> QED
        BY <1>0, <3>4, <4>1 DEF PopenObjects
    <3> QED
      BY <3>5 DEF Held
  <2>4. CASE ~ IsSet(d)
    <3>1. InHandOK(t, i) /\ s.kind \in {"none", "path", "pipe", "fd"}
      BY <1>0, <1>1, <1>4, StreamTypesOf DEF CallsOK, CallOK
    <3>2. s.kind = "fd" /\ d.read = s.read /\ d.write = s.write
      BY <1>0, <1>4, <2>4, <3>1 DEF InHandOK, Shape, IsSet, NotSet
    <3>3. f \in Ends(s)
      BY <1>0, <1>4, <3>2 DEF Ends
    <3>4. fds[f] = Closed \/ fds[f].file.by = User
      BY <1>0, <2>1, <3>2, <3>3 DEF NamesOK, ToHandOver
    <3> QED
      BY <3>4
  <2> QED
    BY <2>3, <2>4
<1> QED
  BY <1>1, <1>2, <1>3, <1>4, HoldsStep

\* A step that leaks a descriptor fails a call or overwrites an object.
LEMMA LeakStep ==
  ASSUME Base, Desc, NEW t \in Threads, Step(t), NEW f \in Leaked', f \notin Leaked
  PROVE  \/ \E v \in Threads : failed'[v] /\ ~ failed[v]
         \/ \E o, p \in Threads : MoveAssign(o, p) /\ popen[o] # Empty
<1>0. /\ TypeOK /\ f \in FDs /\ fds'[f] # Closed /\ fds'[f].file.by # User /\ f \notin Held'
      /\ fds \in [FDs -> Entries] /\ closed_fd \notin FDs
  BY PopenAssumption DEF Base, Leaked, TypeOK
<1>1. fds'[f] = fds[f]
  <2>1. CASE OpenStream(t) /\ \E r, w \in FDs : Opens(t, k[t], r, w)
    <3>1. PICK i \in Std : i = k[t]
      BY <2>1 DEF OpenStream
    <3>2. PICK r, w \in FDs : Opens(t, i, r, w)
      BY <2>1, <3>1
    <3>3. sd'[t][i] = [read |-> r, write |-> w]
      BY <1>0, <3>2 DEF Opens, TypeOK
    <3>4. InHand(t, i)'
      BY <2>1 DEF OpenStream, InHand
    <3>5. f \notin {r, w}
      BY <1>0, <3>3, <3>4 DEF Held
    <3> QED
      BY <1>0, <3>2, <3>5 DEF Opens
  <2>2. CASE /\ HandleParentStream(t) /\ IsSet(sd[t][k[t]])
             /\ fds' = [fds EXCEPT ![ChildFd(sd[t][k[t]], k[t])] = Closed]
    BY <1>0, <2>2
  <2>3. CASE ClosesKept(t)
    BY <1>0, <2>3 DEF ClosesKept
  <2> QED
    BY <1>0, <2>1, <2>2, <2>3, FdsStep
<1>2. f \in Held
  BY <1>0, <1>1 DEF Leaked
<1>3. PICK v \in Threads, i \in Std :
        \/ popen[v].stream[i] = f
        \/ InHand(v, i) /\ f \in {sd[v][i].read, sd[v][i].write}
  BY <1>2 DEF Held
<1>4. CASE popen[v].stream[i] = f
  <2>1. ~ (HandleParentStream(t) /\ v = t /\ i = k[t])
    <3>1. KeptOK(v, i)
      BY <1>0, <1>4, KeptIs
    <3> QED
      BY <1>0, <3>1 DEF KeptOK, HandleParentStream, Std
  <2>2. ~ \E w \in Threads, j \in Std : popen'[w].stream[j] = f
    BY <1>0 DEF Held
  <2> QED
    BY <1>0, <1>4, <2>1, <2>2, StreamsMove
<1>5. CASE InHand(v, i) /\ f \in {sd[v][i].read, sd[v][i].write}
  BY <1>0, <1>1, <1>5, InHandStaysHeld
<1> QED
  BY <1>3, <1>4, <1>5

\* How a child comes to be running or ended.
LEMMA AliveStep ==
  ASSUME Base, NEW t \in Threads, Step(t), NEW u \in Threads, child'[u].state \in Alive
  PROVE  child[u].state \in Alive \/ (child[u].state = "setup" /\ UNCHANGED call)
<1> USE DEF Alive
<1>0. TypeOK /\ child \in [Threads -> Children]
  BY DEF Base, TypeOK
<1>1. CASE child'[u] = child[u]
  BY <1>1
<1>2. CASE HandleChildStream(t) \/ ChildCloses(t) \/ ChildExec(t)
  BY <1>0, <1>1, <1>2, ChildGoesOn
<1>3. CASE ChildStreamFails(t) \/ ChildFails(t) \/ ChildEnds(t)
  BY <1>0, <1>1, <1>3, ChildStops
<1>4. CASE Clone(t)
  BY <1>0, <1>1, <1>4, Cloned
<1>5. CASE SetUpFailed(t)
  BY <1>0, <1>1, <1>5, ReapTypes DEF SetUpFailed
<1>6. CASE Wait(t) \/ Signal(t)
  <2>1. PICK p \in Threads : p = popen[t].pid
    BY <1>0, <1>6 DEF Wait, Signal, TypeOK, PopenObjects
  <2>2. CASE Wait(t)
    BY <1>0, <1>1, <2>1, <2>2, ReapTypes DEF Wait
  <2>3. CASE Signal(t)
    <3>1. child[p].state = "running" /\ \E how \in Hows : Dies(p, "0", how)
      BY <2>1, <2>3 DEF Signal, Hows
    <3> QED
      BY <1>0, <1>1, <3>1, DiesTypes
  <2> QED
    BY <1>6, <2>2, <2>3
<1>7. CASE UNCHANGED child
  BY <1>7
<1>8. CASE CallStep(t) /\ ~ Clone(t) /\ ~ SetUpFailed(t)
  BY <1>7, <1>8 DEF CallStep, LockClone, LockSignals, OpenStream, OpenFails, CloneFails,
     Started, HandleParentStream, Return, UnlockSignals, UnlockClone, EndCall
<1>9. CASE Use(t) /\ ~ Wait(t) /\ ~ Signal(t)
  BY <1>7, <1>9 DEF Use, Destroy, ResetStream, MoveAssign, Swap
<1> QED
  BY <1>2, <1>3, <1>4, <1>5, <1>6, <1>7, <1>8, <1>9 DEF Step, ChildStep, Call

\* Where a call ends, and where it fails.
LEMMA OverStep ==
  ASSUME Base, NEW t \in Threads, Step(t), NEW u \in Threads, pc'[u] = "done" \/ failed'[u]
  PROVE  \/ pc[u] = "done" \/ failed[u]
         \/ u = t /\ EndCall(t) /\ popen'[t].pid = t
         \/ u = t /\ pc[t] = "open" /\ child' = child
         \/ u = t /\ child'[t].state = "reaped"
<1>0. /\ TypeOK /\ pc \in [Threads -> PCs] /\ failed \in [Threads -> BOOLEAN]
      /\ child \in [Threads -> Children] /\ popen \in [Threads -> PopenObjects]
  BY DEF Base, TypeOK
<1>1. CASE u # t
  BY <1>0, <1>1, OtherCalls DEF Step
<1>2. CASE u = t /\ EndCall(t)
  <2>1. CASE failed[t]
    BY <1>2, <2>1
  <2>2. CASE ~ failed[t]
    <3>1. popen' = [popen EXCEPT ![t].pid = t]
      BY <1>2, <2>2 DEF EndCall
    <3>2. popen'[t].pid = t
      BY <1>0, <3>1 DEF PopenObjects
    <3> QED
      BY <1>2, <3>2
  <2> QED
    BY <2>1, <2>2
<1>3. CASE u = t /\ (OpenFails(t) \/ CloneFails(t))
  BY <1>3 DEF OpenFails, CloneFails
<1>4. CASE u = t /\ SetUpFailed(t)
  BY <1>0, <1>4, ReapTypes DEF SetUpFailed
<1>5. CASE u = t /\ (Call(t) \/ LockClone(t) \/ LockSignals(t) \/ Clone(t) \/ Started(t))
  BY <1>0, <1>5 DEF Call, LockClone, LockSignals, Clone, Started, Goto
<1>6. CASE u = t /\ (OpenStream(t) \/ HandleParentStream(t))
  BY <1>0, <1>6 DEF OpenStream, HandleParentStream
<1>7. CASE u = t /\ (Return(t) \/ UnlockSignals(t) \/ UnlockClone(t))
  BY <1>0, <1>7 DEF Return, UnlockSignals, UnlockClone, Goto
<1>8. CASE ChildStep(t) \/ ChildEnds(t) \/ Use(t)
  <2>1. UNCHANGED call
    BY <1>8 DEF ChildStep, HandleChildStream, ChildStreamFails, ChildCloses, ChildExec,
      ChildFails, ChildEnds, Use, Wait, Signal, Destroy, ResetStream, MoveAssign, Swap
  <2> QED
    BY <2>1 DEF call
<1> QED
  BY <1>1, <1>2, <1>3, <1>4, <1>5, <1>6, <1>7, <1>8 DEF Step, CallStep

\* A step that abandons a child moves over its pid.
LEMMA AbandonStep ==
  ASSUME Base, Desc, ChildrenOK, NEW t \in Threads, Step(t),
         NEW u \in Abandoned', u \notin Abandoned
  PROVE  \E o, p \in Threads : MoveAssign(o, p) /\ popen[o].pid # invalid_pid
<1>0. /\ TypeOK /\ Locking /\ u \in Threads /\ child'[u].state \in Alive
      /\ pc'[u] = "done" \/ failed'[u]
      /\ \A o \in Threads : popen'[o].pid # u
      /\ invalid_pid \notin Threads
      /\ child \in [Threads -> Children] /\ popen \in [Threads -> PopenObjects]
  BY PopenAssumption DEF Base, Abandoned, Alive, TypeOK
<1>1. child[u].state \in Alive
  <2>1. child[u].state = "setup" => pc[u] = "vfork" /\ ~ failed[u]
    BY <1>0 DEF Base, Locking, PidInv
  <2> QED
    BY <1>0, <2>1, AliveStep DEF call
<1>2. pc[u] = "done" \/ failed[u]
  <2>1. pc[u] # "open"
    BY <1>0, <1>1 DEF ChildrenOK, ChildOK, PastOpen, Alive
  <2> QED
    BY <1>0, <2>1, OverStep DEF Alive
<1>3. PICK v \in Threads : popen[v].pid = u
  BY <1>0, <1>1, <1>2 DEF Abandoned, Alive
<1>4. ~ (Wait(t) /\ v = t)
  <2> SUFFICES ASSUME Wait(t), v = t PROVE FALSE
    OBVIOUS
  <2>1. Reap(u)
    BY <1>3 DEF Wait
  <2> QED
    BY <1>0, <2>1, ReapTypes DEF Alive
<1>5. ~ (EndCall(t) /\ v = t)
  BY <1>0, <1>3 DEF EndCall, Desc, ObjectsOK, ObjectOK
<1> QED
  BY <1>0, <1>3, <1>4, <1>5, PidsMove

\* Nothing but a constructor that throws, or a move over an object in use,
\* leaks a descriptor that popen opened, and nothing but such a move abandons
\* a child.
THEOREM LostOtherwiseNever == Spec => LostOnlyByFailureOrMove
<1>1. ASSUME Base, Desc, ChildrenOK, [Next]_vars
      PROVE  [/\ ~ (Leaked' \subseteq Leaked) =>
                   \/ \E t \in Threads : failed'[t] /\ ~ failed[t]
                   \/ \E o, p \in Threads : MoveAssign(o, p) /\ popen[o] # Empty
              /\ ~ (Abandoned' \subseteq Abandoned) =>
                   \E o, p \in Threads : MoveAssign(o, p) /\ popen[o].pid # invalid_pid]_vars
  <2>1. ASSUME NEW t \in Threads, Step(t)
        PROVE  /\ ~ (Leaked' \subseteq Leaked) =>
                    \/ \E v \in Threads : failed'[v] /\ ~ failed[v]
                    \/ \E o, p \in Threads : MoveAssign(o, p) /\ popen[o] # Empty
               /\ ~ (Abandoned' \subseteq Abandoned) =>
                    \E o, p \in Threads : MoveAssign(o, p) /\ popen[o].pid # invalid_pid
    <3>1. \A f \in Leaked' : f \in Leaked \/ \/ \E v \in Threads : failed'[v] /\ ~ failed[v]
                                             \/ \E o, p \in Threads :
                                                  MoveAssign(o, p) /\ popen[o] # Empty
      BY <1>1, <2>1, LeakStep
    <3>2. \A u \in Abandoned' :
            u \in Abandoned \/ \E o, p \in Threads : MoveAssign(o, p) /\ popen[o].pid # invalid_pid
      BY <1>1, <2>1, AbandonStep
    <3> QED
      BY <3>1, <3>2, Zenon
  <2>2. CASE Next
    BY <2>1, <2>2, Zenon DEF Next, Step
  <2>3. CASE UNCHANGED vars
    BY <2>3
  <2> QED
    BY <1>1, <2>2, <2>3
<1> QED
  BY <1>1, DescHolds, ChildrenHolds, PTL DEF Spec, LostOnlyByFailureOrMove
=============================================================================
