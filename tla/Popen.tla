------------------------------- MODULE Popen -------------------------------
(***************************************************************************)
(* subprocess::popen (src/src/subprocess/popen.cpp): threads that start    *)
(* children at the same time, each child's steps between clone and exec,   *)
(* and what owners do with popen objects afterwards.  The streams are      *)
(* opened by *_stream::open (pipe.cpp, open.cpp); signals are blocked by a *)
(* signal_mutex that all threads share.  Each thread calls the constructor *)
(* once, and its name also names the object's place and the child.         *)
(***************************************************************************)
EXTENDS Naturals

CONSTANTS
  Threads,      \* threads that construct a popen
  MaxFd,        \* the last descriptor number of the process
  closed_fd,    \* linuxpp::closed_fd, the invalid value
  invalid_pid,  \* linuxpp::invalid_pid
  NoThread,     \* the mutex is free
  User,         \* the one who opened what the process started with
  AllSignals,   \* the mask that blocks everything
  NoSignals,    \* the mask that blocks nothing
  Closed,       \* a number that is not open
  Requests,     \* what callers ask for: stream number -> stream
  Inherited,    \* sets of descriptors that may be open at the start
  Limits        \* soft limits of RLIMIT_NOFILE; 0 stands for RLIM_INFINITY

FDs == 0..MaxFd
Std == 0..2     \* stdin, stdout, stderr

\* A stream object: absent, a path or /dev/null, a pipe, or descriptors the
\* caller has open.
Streams ==
  [kind : {"none", "path", "pipe"}]
    \cup [kind : {"fd"}, read : FDs \cup {closed_fd}, write : FDs \cup {closed_fd}]

\* An open file: who opened it, for which stream, and which end it is.
Files == [by : Threads \cup {User}, stream : FDs, side : {"r", "w", "rw"}]
Entries == [file : Files, cloexec : BOOLEAN] \cup {Closed}
Masks == Threads \cup {AllSignals, NoSignals}   \* a thread's own mask is its name

ASSUME PopenAssumption ==
  /\ MaxFd \in Nat /\ MaxFd > 2
  /\ Requests \subseteq [Std -> Streams]
  /\ Inherited \subseteq SUBSET FDs
  /\ Limits \subseteq Nat
  /\ closed_fd \notin FDs /\ Closed \notin [file : Files, cloexec : BOOLEAN]
  /\ invalid_pid \notin Threads /\ NoThread \notin Threads /\ User \notin Threads
  /\ AllSignals \notin Threads /\ NoSignals \notin Threads \cup {AllSignals}

VARIABLES
  fds,          \* the process's descriptors
  clone_mutex,  \* who holds it
  prev_sigset,  \* signal_mutex::prev_sigset_, shared by all threads
  mask,         \* thread -> its signal mask
  pc,           \* thread -> where in popen::clone it is
  k,            \* thread -> the stream it opens or hands over next
  streams,      \* thread -> what it asks for
  sd,           \* thread -> stream number -> its stream_descriptors
  failed,       \* thread -> the constructor threw
  child,        \* thread -> the child it cloned
  popen         \* place -> the members of the popen object there

call == <<clone_mutex, prev_sigset, mask, pc, k, streams, sd, failed>>
vars == <<fds, call, child, popen>>

NotSet == [read |-> closed_fd, write |-> closed_fd]
NoStatus == [exited |-> FALSE, called_exit |-> FALSE, signaled |-> FALSE, dumped |-> FALSE]
Empty == [pid |-> invalid_pid, stream |-> [i \in Std |-> closed_fd], status |-> NoStatus]
NoChild == [state |-> "none", k |-> 0, fds |-> [f \in FDs |-> Closed],
            mask |-> AllSignals, status |-> "0", how |-> "none"]

Init ==
  /\ \E open \in Inherited :
       fds = [f \in FDs |->
                IF f \in open
                THEN [file |-> [by |-> User, stream |-> f, side |-> "rw"], cloexec |-> FALSE]
                ELSE Closed]
  /\ clone_mutex = NoThread
  /\ prev_sigset = NoSignals
  /\ mask = [t \in Threads |-> t]
  /\ pc = [t \in Threads |-> "idle"]
  /\ k = [t \in Threads |-> 0]
  /\ streams = [t \in Threads |-> [i \in Std |-> [kind |-> "none"]]]
  /\ sd = [t \in Threads |-> [i \in Std |-> NotSet]]
  /\ failed = [t \in Threads |-> FALSE]
  /\ child = [t \in Threads |-> NoChild]
  /\ popen = [t \in Threads |-> Empty]

-----------------------------------------------------------------------------
(* The kernel's part in the end of a process.                              *)

\* The child ends, with child_status as it stored it; its descriptors go.
Dies(t, status, how) ==
  child' = [child EXCEPT ![t] =
              [NoChild EXCEPT !.state = "zombie", !.status = status, !.how = how]]

\* waitid
Reap(t) == child' = [child EXCEPT ![t] = [NoChild EXCEPT !.state = "reaped"]]

-----------------------------------------------------------------------------
(* The parent's side of popen::clone.                                      *)

Goto(t, p) == pc' = [pc EXCEPT ![t] = p]

\* The descriptors of the caller that a request names.
Named(s) ==
  (UNION {{s[i].read, s[i].write} : i \in {j \in Std : s[j].kind = "fd"}}) \ {closed_fd}

\* The constructor is called.  A caller names descriptors of its own that are
\* open, and no two callers the same.
Call(t) ==
  /\ pc[t] = "idle"
  /\ popen[t] = Empty
  /\ \E s \in Requests :
       /\ \A f \in Named(s) :
            /\ fds[f] # Closed /\ fds[f].file.by = User
            /\ \A u \in Threads : f \notin Named(streams[u])
       /\ streams' = [streams EXCEPT ![t] = s]
  /\ Goto(t, "lock_clone")
  /\ UNCHANGED <<fds, clone_mutex, prev_sigset, mask, k, sd, failed, child, popen>>

\* Mutant: the lock is not taken.
LockClone_NotTaken(t) ==
  /\ pc[t] = "lock_clone"
  /\ Goto(t, "lock_signals")
  /\ UNCHANGED <<fds, clone_mutex, prev_sigset, mask, k, streams, sd, failed, child, popen>>

LockClone(t) ==
  /\ pc[t] = "lock_clone"
  /\ clone_mutex = NoThread
  /\ clone_mutex' = t
  /\ Goto(t, "lock_signals")
  /\ UNCHANGED <<fds, prev_sigset, mask, k, streams, sd, failed, child, popen>>

\* signal_mutex::lock
LockSignals(t) ==
  /\ pc[t] = "lock_signals"
  /\ prev_sigset' = mask[t]
  /\ mask' = [mask EXCEPT ![t] = AllSignals]
  /\ Goto(t, "open")
  /\ UNCHANGED <<fds, clone_mutex, k, streams, sd, failed, child, popen>>

\* An exception: the lock guards' destructors come next.
Throw(t) ==
  /\ failed' = [failed EXCEPT ![t] = TRUE]
  /\ Goto(t, "unlock_signals")

\* The kernel hands out the lowest free numbers.
Free == {f \in FDs : fds[f] = Closed}
Lowest(S) == CHOOSE f \in S : \A g \in S : f <= g

\* Mutant: pipe_fd forgets the flag.
PipeCloexec_Forgotten == FALSE

\* linuxpp::pipe_fd(flags) adds O_CLOEXEC; path_stream and null_stream open
\* with nocloexec.
PipeCloexec == TRUE

OpenPath(t, i) ==
  LET f == Lowest(Free) IN
  /\ Free # {}
  /\ fds' = [fds EXCEPT ![f] =
               [file |-> [by |-> t, stream |-> i, side |-> "rw"], cloexec |-> FALSE]]
  /\ sd' = [sd EXCEPT ![t][i] = [read |-> f, write |-> f]]

OpenPipe(t, i) ==
  LET r == Lowest(Free)
      w == Lowest(Free \ {r})
      end(side) == [file |-> [by |-> t, stream |-> i, side |-> side], cloexec |-> PipeCloexec]
  IN
  /\ \E f, g \in Free : f # g
  /\ fds' = [fds EXCEPT ![r] = end("r"), ![w] = end("w")]
  /\ sd' = [sd EXCEPT ![t][i] = [read |-> r, write |-> w]]

\* fd_stream::open
UseFds(t, i) ==
  /\ sd' = [sd EXCEPT ![t][i] = [read |-> streams[t][i].read, write |-> streams[t][i].write]]
  /\ UNCHANGED fds

\* stream->open() for the next of stdin, stdout and stderr.
OpenStream(t) ==
  LET i == k[t] IN
  /\ pc[t] = "open" /\ i \in Std
  /\ \/ streams[t][i].kind = "none" /\ UNCHANGED <<fds, sd>>
     \/ streams[t][i].kind = "path" /\ OpenPath(t, i)
     \/ streams[t][i].kind = "pipe" /\ OpenPipe(t, i)
     \/ streams[t][i].kind = "fd" /\ UseFds(t, i)
  /\ k' = [k EXCEPT ![t] = i + 1]
  /\ UNCHANGED <<clone_mutex, prev_sigset, mask, pc, streams, failed, child, popen>>

\* open or pipe2 fails, and the descriptors of the streams before stay open.
OpenFails(t) ==
  /\ pc[t] = "open" /\ k[t] \in Std
  /\ streams[t][k[t]].kind \in {"path", "pipe"}
  /\ Throw(t)
  /\ UNCHANGED <<fds, clone_mutex, prev_sigset, mask, k, streams, sd, child, popen>>

\* The child gets a copy of the descriptors and the signal mask, and runs on
\* child_stack; CLONE_VFORK stops the thread.
Clone(t) ==
  /\ pc[t] = "open" /\ k[t] \notin Std
  /\ child' = [child EXCEPT ![t] =
                 [NoChild EXCEPT !.state = "setup", !.fds = fds, !.mask = mask[t]]]
  /\ Goto(t, "vfork")
  /\ UNCHANGED <<fds, clone_mutex, prev_sigset, mask, k, streams, sd, failed, popen>>

CloneFails(t) ==
  /\ pc[t] = "open" /\ k[t] \notin Std
  /\ Throw(t)
  /\ UNCHANGED <<fds, clone_mutex, prev_sigset, mask, k, streams, sd, child, popen>>

\* child_status holds an error: waitid, then throw.
SetUpFailed(t) ==
  /\ pc[t] = "vfork"
  /\ child[t].state # "setup"
  /\ child[t].status # "0"
  /\ Reap(t)
  /\ Throw(t)
  /\ UNCHANGED <<fds, clone_mutex, prev_sigset, mask, k, streams, sd, popen>>

\* child_status is 0: the child called exec, or died without a word.
Started(t) ==
  /\ pc[t] = "vfork"
  /\ child[t].state # "setup"
  /\ child[t].status = "0"
  /\ k' = [k EXCEPT ![t] = 0]
  /\ Goto(t, "hand_over")
  /\ UNCHANGED <<fds, clone_mutex, prev_sigset, mask, streams, sd, failed, child, popen>>

\* stream_descriptors::operator bool
IsSet(d) == d.read # closed_fd /\ d.write # closed_fd

\* stdin is read by the child, stdout and stderr are written by it.
ChildFd(d, i) == IF i = 0 THEN d.read ELSE d.write

ParentFd(d, i) == IF i = 0 THEN d.write ELSE d.read

\* Mutant: the child's end stays open in the parent.
CloseChildFd_Skipped(t, i) == UNCHANGED fds

CloseChildFd(t, i) == fds' = [fds EXCEPT ![ChildFd(sd[t][i], i)] = Closed]

\* What the object keeps: the other end, if there is one.
Kept(t, i) ==
  IF ParentFd(sd[t][i], i) # ChildFd(sd[t][i], i)
  THEN ParentFd(sd[t][i], i)
  ELSE closed_fd

\* A caller that names an end which the object will keep gives it away, and
\* names it for no other stream of the same call.
ASSUME RequestsAssumption ==
  \A s \in Requests : \A i, j \in Std :
    /\ i # j
    /\ s[i].kind = "fd" /\ IsSet(s[i]) /\ ParentFd(s[i], i) # ChildFd(s[i], i)
    /\ s[j].kind = "fd" /\ IsSet(s[j])
    => ParentFd(s[i], i) \notin {s[j].read, s[j].write}

\* handle_parent_stream, and the reset of the object's stream.
HandleParentStream(t) ==
  LET i == k[t] IN
  /\ pc[t] = "hand_over" /\ i \in Std
  /\ IF IsSet(sd[t][i])
     THEN /\ CloseChildFd(t, i)
          /\ popen' = [popen EXCEPT ![t].stream[i] = Kept(t, i)]
     ELSE UNCHANGED <<fds, popen>>
  /\ k' = [k EXCEPT ![t] = i + 1]
  /\ UNCHANGED <<clone_mutex, prev_sigset, mask, pc, streams, sd, failed, child>>

\* clone returns the pid; the constructor stores it after the lock guards are
\* gone, and nobody sees the object before that.
Return(t) ==
  /\ pc[t] = "hand_over" /\ k[t] \notin Std
  /\ Goto(t, "unlock_signals")
  /\ UNCHANGED <<fds, clone_mutex, prev_sigset, mask, k, streams, sd, failed, child, popen>>

\* Mutant: an exception goes past the unlock.
UnlockSignals_NotWhenThrown(t) ==
  /\ pc[t] = "unlock_signals"
  /\ mask' = [mask EXCEPT ![t] = IF failed[t] THEN @ ELSE prev_sigset]
  /\ Goto(t, "unlock_clone")
  /\ UNCHANGED <<fds, clone_mutex, prev_sigset, k, streams, sd, failed, child, popen>>

\* signal_mutex::unlock
UnlockSignals(t) ==
  /\ pc[t] = "unlock_signals"
  /\ mask' = [mask EXCEPT ![t] = prev_sigset]
  /\ Goto(t, "unlock_clone")
  /\ UNCHANGED <<fds, clone_mutex, prev_sigset, k, streams, sd, failed, child, popen>>

\* Mutant: an exception goes past the unlock.
UnlockClone_NotWhenThrown(t) ==
  /\ pc[t] = "unlock_clone"
  /\ clone_mutex' = IF failed[t] THEN clone_mutex ELSE NoThread
  /\ Goto(t, "store_pid")
  /\ UNCHANGED <<fds, prev_sigset, mask, k, streams, sd, failed, child, popen>>

UnlockClone(t) ==
  /\ pc[t] = "unlock_clone"
  /\ clone_mutex' = NoThread
  /\ Goto(t, "store_pid")
  /\ UNCHANGED <<fds, prev_sigset, mask, k, streams, sd, failed, child, popen>>

\* The constructor stores what clone returned, or the exception leaves it.
EndCall(t) ==
  /\ pc[t] = "store_pid"
  /\ popen' = IF failed[t] THEN popen ELSE [popen EXCEPT ![t].pid = t]
  /\ Goto(t, "done")
  /\ UNCHANGED <<fds, clone_mutex, prev_sigset, mask, k, streams, sd, failed, child>>

CallStep(t) ==
  \/ LockClone(t) \/ LockSignals(t)
  \/ OpenStream(t) \/ OpenFails(t)
  \/ Clone(t) \/ CloneFails(t)
  \/ SetUpFailed(t) \/ Started(t)
  \/ HandleParentStream(t) \/ Return(t)
  \/ UnlockSignals(t) \/ UnlockClone(t) \/ EndCall(t)

-----------------------------------------------------------------------------
(* The child: clone_handler, up to exec.                                   *)

\* The descriptors after handle_child_stream closed the other end.
OtherClosed(d, i, table) ==
  IF ParentFd(d, i) # ChildFd(d, i)
  THEN [table EXCEPT ![ParentFd(d, i)] = Closed]
  ELSE table

\* dup2 does nothing when both numbers are the same.
Dup2(d, i, table) ==
  IF ChildFd(d, i) = i
  THEN table
  ELSE [table EXCEPT ![i] = [file |-> table[ChildFd(d, i)].file, cloexec |-> FALSE]]

\* handle_child_stream for the next stream, or nothing for one not asked for.
HandleChildStream(t) ==
  LET c == child[t]
      d == sd[t][c.k]
      table == OtherClosed(d, c.k, c.fds)
  IN
  /\ c.state = "setup" /\ c.k \in Std
  /\ IF ~ IsSet(d)
     THEN child' = [child EXCEPT ![t] = [c EXCEPT !.k = c.k + 1]]
     ELSE /\ table[ChildFd(d, c.k)] # Closed
          /\ child' = [child EXCEPT ![t] =
                         [c EXCEPT !.k = c.k + 1,
                                   !.fds = [Dup2(d, c.k, table) EXCEPT ![ChildFd(d, c.k)] = Closed]]]
  /\ UNCHANGED <<fds, call, popen>>

\* dup2 answers EBADF; the child stores that and exits.
ChildStreamFails(t) ==
  LET c == child[t]
      d == sd[t][c.k]
  IN
  /\ c.state = "setup" /\ c.k \in Std
  /\ IsSet(d)
  /\ OtherClosed(d, c.k, c.fds)[ChildFd(d, c.k)] = Closed
  /\ Dies(t, "errno", "exited")
  /\ UNCHANGED <<fds, call, popen>>

\* All other descriptors are closed, by the list in /proc/self/fd or else up
\* to the limit, and all signals unblocked.
ChildCloses(t) ==
  LET c == child[t] IN
  /\ c.state = "setup" /\ c.k = 3
  /\ \E last \in {MaxFd + 1} \cup Limits :
       child' = [child EXCEPT ![t] =
                   [c EXCEPT !.k = 4, !.mask = NoSignals,
                             !.fds = [f \in FDs |-> IF f > 2 /\ f < last THEN Closed ELSE c.fds[f]]]]
  /\ UNCHANGED <<fds, call, popen>>

\* exec closes what is marked.
ChildExec(t) ==
  LET c == child[t] IN
  /\ c.state = "setup" /\ c.k = 4
  /\ child' = [child EXCEPT ![t] =
                 [c EXCEPT !.state = "running",
                           !.fds = [f \in FDs |->
                                      IF c.fds[f] # Closed /\ c.fds[f].cloexec
                                      THEN Closed ELSE c.fds[f]]]]
  /\ UNCHANGED <<fds, call, popen>>

\* getrlimit, pthread_sigmask or execve fails.
ChildFails(t) ==
  /\ child[t].state = "setup" /\ child[t].k \in {3, 4}
  /\ Dies(t, "errno", "exited")
  /\ UNCHANGED <<fds, call, popen>>

ChildStep(t) ==
  \/ HandleChildStream(t) \/ ChildStreamFails(t)
  \/ ChildCloses(t) \/ ChildExec(t) \/ ChildFails(t)

\* SIGKILL reaches the child before exec; the program ends later on.
ChildEnds(t) ==
  /\ \/ child[t].state = "setup" /\ Dies(t, "0", "killed")
     \/ child[t].state = "running" /\ Dies(t, "0", "exited")
  /\ UNCHANGED <<fds, call, popen>>

-----------------------------------------------------------------------------
(* What owners do with popen objects.                                      *)

\* Nobody uses an object that is under construction.
Usable(o) == pc[o] \in {"idle", "done"}

\* status::status(siginfo)
StatusOf(how) ==
  [exited |-> TRUE, called_exit |-> how = "exited",
   signaled |-> how \in {"killed", "dumped"}, dumped |-> how = "dumped"]

\* Mutant: the pid is kept.
Wait_KeepsPid(o) ==
  /\ Usable(o)
  /\ popen[o].pid # invalid_pid
  /\ child[popen[o].pid].state = "zombie"
  /\ Reap(popen[o].pid)
  /\ popen' = [popen EXCEPT ![o].status = StatusOf(child[popen[o].pid].how)]
  /\ UNCHANGED <<fds, call>>

\* wait returns, or poll finds the child ended; without a pid, and for a
\* child that runs, they change nothing.
Wait(o) ==
  /\ Usable(o)
  /\ popen[o].pid # invalid_pid
  /\ child[popen[o].pid].state = "zombie"
  /\ Reap(popen[o].pid)
  /\ popen' = [popen EXCEPT ![o].pid = invalid_pid,
                            ![o].status = StatusOf(child[popen[o].pid].how)]
  /\ UNCHANGED <<fds, call>>

\* A signal that ends the child.
Signal(o) ==
  /\ Usable(o)
  /\ popen[o].pid # invalid_pid
  /\ child[popen[o].pid].state = "running"
  /\ \E how \in {"killed", "dumped"} : Dies(popen[o].pid, "0", how)
  /\ UNCHANGED <<fds, call, popen>>

\* stdin().reset() and the like.
ResetStream(o, i) ==
  /\ Usable(o)
  /\ popen[o].stream[i] # closed_fd
  /\ fds' = [fds EXCEPT ![popen[o].stream[i]] = Closed]
  /\ popen' = [popen EXCEPT ![o].stream[i] = closed_fd]
  /\ UNCHANGED <<call, child>>

\* What a move leaves behind: only the status tests for self-assignment.
MovedFrom(o, src) ==
  [Empty EXCEPT !.status = IF o = src THEN popen[o].status ELSE NoStatus]

\* The defaulted move: the members are assigned one by one, and what the
\* target held is overwritten.  With an empty target it is the constructor.
MoveAssign(o, src) ==
  /\ Usable(o) /\ Usable(src) /\ popen[src] # Empty
  /\ popen' = [popen EXCEPT ![o] = popen[src], ![src] = MovedFrom(o, src)]
  /\ UNCHANGED <<fds, call, child>>

\* Mutant: the streams are left out.
Swap_NotStreams(o, p) ==
  /\ Usable(o) /\ Usable(p)
  /\ popen' = [popen EXCEPT ![o] = [popen[p] EXCEPT !.stream = popen[o].stream],
                            ![p] = [popen[o] EXCEPT !.stream = popen[p].stream]]
  /\ UNCHANGED <<fds, call, child>>

Swap(o, p) ==
  /\ Usable(o) /\ Usable(p)
  /\ popen' = [popen EXCEPT ![o] = popen[p], ![p] = popen[o]]
  /\ UNCHANGED <<fds, call, child>>

\* The destructor; with a pid it would call std::terminate.
Destroy(o) ==
  /\ Usable(o)
  /\ popen[o].pid = invalid_pid
  /\ popen[o] # Empty
  /\ fds' = [f \in FDs |-> IF \E i \in Std : popen[o].stream[i] = f THEN Closed ELSE fds[f]]
  /\ popen' = [popen EXCEPT ![o] = Empty]
  /\ UNCHANGED <<call, child>>

Use(o) ==
  \/ Wait(o) \/ Signal(o) \/ Destroy(o)
  \/ \E i \in Std : ResetStream(o, i)
  \/ \E p \in Threads : MoveAssign(o, p) \/ Swap(o, p)

-----------------------------------------------------------------------------

Next == \E t \in Threads : Call(t) \/ CallStep(t) \/ ChildStep(t) \/ ChildEnds(t) \/ Use(t)

Spec ==
  /\ Init
  /\ [][Next]_vars
  /\ \A t \in Threads : WF_vars(CallStep(t)) /\ WF_vars(ChildStep(t))

-----------------------------------------------------------------------------
(* Properties.                                                             *)

PCs == {"idle", "lock_clone", "lock_signals", "open", "vfork", "hand_over",
        "unlock_signals", "unlock_clone", "store_pid", "done"}

Descriptors == [read : FDs \cup {closed_fd}, write : FDs \cup {closed_fd}]

Hows == {"none", "exited", "killed", "dumped"}

Children ==
  [state : {"none", "setup", "running", "zombie", "reaped"}, k : 0..4,
   fds : [FDs -> Entries], mask : Masks, status : {"0", "errno"}, how : Hows]

Statuses == [exited : BOOLEAN, called_exit : BOOLEAN, signaled : BOOLEAN, dumped : BOOLEAN]

PopenObjects ==
  [pid : Threads \cup {invalid_pid}, stream : [Std -> FDs \cup {closed_fd}], status : Statuses]

\* Every variable has its type.
TypeOK ==
  /\ fds \in [FDs -> Entries]
  /\ clone_mutex \in Threads \cup {NoThread}
  /\ prev_sigset \in Masks
  /\ mask \in [Threads -> Masks]
  /\ pc \in [Threads -> PCs]
  /\ k \in [Threads -> 0..3]
  /\ streams \in [Threads -> [Std -> Streams]]
  /\ sd \in [Threads -> [Std -> Descriptors]]
  /\ failed \in [Threads -> BOOLEAN]
  /\ child \in [Threads -> Children]
  /\ popen \in [Threads -> PopenObjects]

\* child_stack is shared by all calls: no two children are on it at the same
\* time, whatever threads construct a popen.
OneChildOnTheStack ==
  \A t, u \in Threads : child[t].state = "setup" /\ child[u].state = "setup" => t = u

\* A thread that is not within popen::clone has its own signal mask, although
\* all calls save theirs in the same prev_sigset_, and also after exceptions.
MasksAreRestored ==
  \A t \in Threads :
    pc[t] \in {"idle", "lock_clone", "unlock_clone", "store_pid", "done"} => mask[t] = t

\* The descriptors of t's streams are above the standard ones.
NoneIsStandard(t) ==
  \A i \in Std : IsSet(sd[t][i]) => {sd[t][i].read, sd[t][i].write} \cap Std = {}

\* The end of stream i that t asked for.
Asked(t, i, file) ==
  CASE streams[t][i].kind = "path" -> file = [by |-> t, stream |-> i, side |-> "rw"]
    [] streams[t][i].kind = "pipe" ->
         file = [by |-> t, stream |-> i, side |-> IF i = 0 THEN "r" ELSE "w"]
    [] streams[t][i].kind = "fd" ->
         file = [by |-> User, stream |-> ChildFd(streams[t][i], i), side |-> "rw"]
    [] OTHER -> TRUE

\* A child that runs its program has on 0, 1 and 2 the ends of the streams it
\* was asked to have, and no signal is blocked in it, as long as the parent had
\* its streams on other numbers (handle_child_stream closes a descriptor that
\* is already in its place).  Nothing else that popen opened reaches it: not the
\* parent's ends, nor the streams of other threads' calls, even when the child
\* cannot close everything (except what a call that failed left open).
ProgramsGetTheirStreams ==
  \A t \in Threads :
    child[t].state = "running" =>
      /\ child[t].mask = NoSignals
      /\ NoneIsStandard(t) =>
           \A i \in Std :
             IsSet(sd[t][i]) =>
               child[t].fds[i] # Closed /\ Asked(t, i, child[t].fds[i].file)
      /\ \A f \in FDs :
           child[t].fds[f] # Closed =>
             LET file == child[t].fds[f].file IN
             \/ file.by = User
             \/ file.by = t /\ f \in Std
             \/ file.by # t /\ failed[file.by]

\* t's call has yet to hand over its stream i.
InHand(t, i) == pc[t] \in {"open", "vfork"} \/ (pc[t] = "hand_over" /\ i >= k[t])

\* Descriptors that an object or a call under way holds.
Held ==
  {f \in FDs : \E t \in Threads, i \in Std :
     \/ popen[t].stream[i] = f
     \/ InHand(t, i) /\ f \in {sd[t][i].read, sd[t][i].write}}

\* Open descriptors that popen opened and nobody can close any more.
Leaked == {f \in FDs \ Held : fds[f] # Closed /\ fds[f].file.by # User}

\* An object's members belong together, through all moves and swaps: its
\* streams are the parent's ends of the child it has the pid of and of no
\* other object, and it has either a pid or a status.
ObjectsAreConsistent ==
  \A o \in Threads :
    /\ popen[o].pid # invalid_pid => popen[o].status = NoStatus
    /\ \A i \in Std :
         LET f == popen[o].stream[i] IN
         f # closed_fd =>
           /\ fds[f] # Closed
           /\ \/ fds[f].file.by = User
              \/ /\ fds[f].file.stream = i
                 /\ fds[f].file.side = IF i = 0 THEN "w" ELSE "r"
                 /\ popen[o].pid \in {fds[f].file.by, invalid_pid}

\* A pid that an object holds is that of a child that has not been reaped, so
\* wait and signal never meet a pid that the kernel may have given away; no
\* two objects hold the same.
PidsAreOfChildren ==
  \A o \in Threads :
    popen[o].pid # invalid_pid =>
      /\ child[popen[o].pid].state \in {"running", "zombie"}
      /\ \A p \in Threads : popen[p].pid = popen[o].pid => p = o

\* Children nobody will wait for: no object has the pid, and the call that
\* will store it is over.
Abandoned ==
  {t \in Threads : /\ child[t].state \in {"running", "zombie"}
                   /\ pc[t] = "done" \/ failed[t]
                   /\ \A o \in Threads : popen[o].pid # t}

\* Descriptors are leaked by a constructor that throws and by move assignment
\* to an object that owns streams, and by nothing else; a child is abandoned by
\* move assignment over its pid alone: one whose set-up failed is reaped before
\* the constructor throws.
LostOnlyByFailureOrMove ==
  [][/\ ~ (Leaked' \subseteq Leaked) =>
          \/ \E t \in Threads : failed'[t] /\ ~ failed[t]
          \/ \E o, p \in Threads : MoveAssign(o, p) /\ popen[o] # Empty
     /\ ~ (Abandoned' \subseteq Abandoned) =>
          \E o, p \in Threads : MoveAssign(o, p) /\ popen[o].pid # invalid_pid]_vars

\* Every call of the constructor ends.
CallsEnd == \A t \in Threads : pc[t] = "lock_clone" ~> pc[t] = "done"
=============================================================================
