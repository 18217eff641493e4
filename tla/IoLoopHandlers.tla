-------------------------- MODULE IoLoopHandlers --------------------------
(***************************************************************************)
(* File descriptor handlers of linuxpp::ioloop: add_handler,               *)
(* remove_handler and the event loop of start (src/src/ioloop.cpp), with   *)
(* linuxpp::epoll (src/src/epoll.cpp) and the kernel's epoll instance.     *)
(*                                                                         *)
(* User code runs on the loop thread: outside start(), in a handler, or in *)
(* a callback or timeout that one of the loop's own descriptors starts.    *)
(* It opens and closes descriptors, adds and removes handlers, returns or  *)
(* throws out of start(), after which start() may be called again.  Other  *)
(* threads open files, which reuses closed descriptor numbers.             *)
(*                                                                         *)
(* A handler is identified by the handlers_ node it is stored in, whose    *)
(* address epoll keeps as user data.  Nodes and open files are numbered    *)
(* and never reused, 0 stands for none.                                    *)
(***************************************************************************)
EXTENDS Naturals, Sequences, FiniteSets

CONSTANTS
  FDs,          \* descriptor numbers user code works with
  MaxFiles,     \* bound on the files ever opened
  MaxNodes,     \* bound on the handlers ever added
  MaxRemovals   \* bound on the removals put off at a time

ASSUME BoundsAssumption ==
  /\ IsFiniteSet(FDs)
  /\ MaxFiles \in Nat /\ MaxNodes \in Nat /\ MaxRemovals \in Nat

VARIABLES
  \* the kernel: file behind a descriptor, and the epoll interest list with
  \* the node registered for a descriptor
  file, epoll,
  files,        \* files opened so far
  \* members of ioloop; size_events is a member of its epoll
  handlers, processing_handlers, removed_handlers, size_events,
  nodes,        \* nodes allocated so far
  \* the loop thread: where it is in start(), the events still to be
  \* dispatched, the handler being called, the removals pruned
  pc, batch, calling, pruned,
  \* history: the file a handler was added for, whether user code wants a
  \* descriptor handled, start() was left by an exception, and an epoll
  \* deletion failed
  added_for, wanted, interrupted, del_failed

kernel   == <<file, epoll, files>>
members  == <<handlers, processing_handlers, removed_handlers, size_events, nodes>>
looping  == <<pc, batch, calling, pruned>>
history  == <<added_for, wanted, interrupted, del_failed>>
vars     == <<kernel, members, looping, history>>

\* The node of the loop's own eventfds and timerfds, which stays for good.
Own   == MaxNodes + 1
Nodes == 1..MaxNodes

Init ==
  /\ file = [fd \in FDs |-> 0]
  /\ epoll = [fd \in FDs |-> 0]
  /\ files = 0
  /\ handlers = [fd \in FDs |-> 0]
  /\ processing_handlers = FALSE
  /\ removed_handlers = <<>>
  /\ size_events = 0
  /\ nodes = 0
  /\ pc = "idle"
  /\ batch = {}
  /\ calling = 0
  /\ pruned = 0
  /\ added_for = [fd \in FDs |-> 0]
  /\ wanted = [fd \in FDs |-> FALSE]
  /\ interrupted = FALSE
  /\ del_failed = FALSE

-----------------------------------------------------------------------------
(* The kernel.                                                             *)

\* Some thread opens a file and gets a free descriptor number.
OpenFd(fd) ==
  /\ file[fd] = 0
  /\ files < MaxFiles
  /\ files' = files + 1
  /\ file' = [file EXCEPT ![fd] = files + 1]
  /\ UNCHANGED <<epoll, members, looping, history>>

UserCode == pc = "idle" \/ calling # 0

\* Closing the only descriptor of a file takes it off the interest list.
CloseFd(fd) ==
  /\ UserCode
  /\ file[fd] # 0
  /\ file' = [file EXCEPT ![fd] = 0]
  /\ epoll' = [epoll EXCEPT ![fd] = 0]
  /\ UNCHANGED <<files, members, looping, history>>

\* What epoll_ctl(EPOLL_CTL_DEL) answers.
DelError(fd) ==
  CASE file[fd] = 0                   -> "EBADF"
    [] file[fd] # 0 /\ epoll[fd] = 0  -> "ENOENT"
    [] file[fd] # 0 /\ epoll[fd] # 0  -> "none"

\* epoll::add, of a descriptor the kernel accepts.
EpollAdd(fd, node) ==
  /\ epoll' = [epoll EXCEPT ![fd] = node]
  /\ size_events' = size_events + 1

\* Mutant: the number of events is decremented before the result is known.
EpollDel_AlwaysCounts(fd) ==
  /\ epoll' = [epoll EXCEPT ![fd] = 0]
  /\ size_events' = size_events - 1

\* epoll::del: the number of events is decremented on success only.
EpollDel(fd) ==
  /\ epoll' = [epoll EXCEPT ![fd] = 0]
  /\ size_events' = IF DelError(fd) = "none" THEN size_events - 1 ELSE size_events

-----------------------------------------------------------------------------
(* add_handler and remove_handler.                                         *)

\* A handled descriptor, or one epoll refuses (a closed one), makes
\* add_handler throw and leaves everything as it was.
AddHandler(fd) ==
  /\ UserCode
  /\ handlers[fd] = 0
  /\ file[fd] # 0 /\ epoll[fd] = 0
  /\ nodes < MaxNodes
  /\ nodes' = nodes + 1
  /\ handlers' = [handlers EXCEPT ![fd] = nodes + 1]
  /\ EpollAdd(fd, nodes + 1)
  /\ added_for' = [added_for EXCEPT ![fd] = file[fd]]
  /\ wanted' = [wanted EXCEPT ![fd] = TRUE]
  /\ UNCHANGED <<file, files, processing_handlers, removed_handlers, looping,
                 interrupted, del_failed>>

\* Mutant: the handler is erased at once.
PostponeRemoval_Erases(fd) ==
  /\ handlers' = [handlers EXCEPT ![fd] = 0]
  /\ EpollDel(fd)
  /\ UNCHANGED <<removed_handlers, del_failed>>

\* While handlers are processed the removal is put off.
PostponeRemoval(fd) ==
  /\ Len(removed_handlers) < MaxRemovals
  /\ removed_handlers' = Append(removed_handlers, fd)
  /\ UNCHANGED <<handlers, epoll, size_events, del_failed>>

\* The handler is erased first; an error other than ENOENT is thrown.
RemoveAtOnce(fd) ==
  /\ handlers' = [handlers EXCEPT ![fd] = 0]
  /\ EpollDel(fd)
  /\ del_failed' = (del_failed \/ DelError(fd) \notin {"none", "ENOENT"})
  /\ UNCHANGED removed_handlers

RemoveHandler(fd) ==
  /\ UserCode
  /\ handlers[fd] # 0
  /\ IF processing_handlers THEN PostponeRemoval(fd) ELSE RemoveAtOnce(fd)
  /\ wanted' = [wanted EXCEPT ![fd] = FALSE]
  /\ UNCHANGED <<file, files, processing_handlers, nodes, looping, added_for,
                 interrupted>>

-----------------------------------------------------------------------------
(* start().                                                                *)

Start ==
  /\ pc = "idle"
  /\ pc' = "wait"
  /\ UNCHANGED <<kernel, members, batch, calling, pruned, history>>

\* keep_running_ is found cleared (stop is the subject of IoLoopCallbacks).
StartReturns ==
  /\ pc = "wait"
  /\ pc' = "idle"
  /\ UNCHANGED <<kernel, members, batch, calling, pruned, history>>

Registered == {epoll[fd] : fd \in FDs} \ {0}

\* epoll_wait reports some of the registered descriptors and perhaps the
\* loop's own; an interrupted wait (EINTR) is a stuttering step.
EpollWait ==
  /\ pc = "wait"
  /\ batch' \in (SUBSET (Registered \cup {Own})) \ {{}}
  /\ processing_handlers' = TRUE
  /\ pc' = "dispatch"
  /\ UNCHANGED <<kernel, handlers, removed_handlers, size_events, nodes,
                 calling, pruned, history>>

CallHandler(node) ==
  /\ pc = "dispatch"
  /\ calling = 0
  /\ node \in batch
  /\ batch' = batch \ {node}
  /\ calling' = node
  /\ UNCHANGED <<kernel, members, pc, pruned, history>>

HandlerReturns ==
  /\ calling # 0
  /\ calling' = 0
  /\ UNCHANGED <<kernel, members, pc, batch, pruned, history>>

\* The sentry resets the flag; removed_handlers_ keeps what was put off.
HandlerThrows ==
  /\ calling # 0
  /\ calling' = 0
  /\ batch' = {}
  /\ processing_handlers' = FALSE
  /\ pc' = "idle"
  /\ interrupted' = TRUE
  /\ UNCHANGED <<kernel, handlers, removed_handlers, size_events, nodes, pruned,
                 added_for, wanted, del_failed>>

\* Mutant: removals that were put off are forgotten.
BatchDone_NoPrune ==
  /\ pc = "dispatch"
  /\ calling = 0
  /\ batch = {}
  /\ processing_handlers' = FALSE
  /\ pc' = "wait"
  /\ UNCHANGED <<kernel, handlers, removed_handlers, size_events, nodes,
                 batch, calling, pruned, history>>

BatchDone ==
  /\ pc = "dispatch"
  /\ calling = 0
  /\ batch = {}
  /\ processing_handlers' = FALSE
  /\ pruned' = 0
  /\ pc' = IF removed_handlers = <<>> THEN "wait" ELSE "prune"
  /\ UNCHANGED <<kernel, handlers, removed_handlers, size_events, nodes,
                 batch, calling, history>>

Pruning == pc = "prune" /\ pruned < Len(removed_handlers)

\* Mutant: the handler is erased and left in the interest list.
PruneHandler_NoDel ==
  /\ Pruning
  /\ handlers' = [handlers EXCEPT ![removed_handlers[pruned + 1]] = 0]
  /\ pruned' = pruned + 1
  /\ UNCHANGED <<kernel, processing_handlers, removed_handlers, size_events,
                 nodes, pc, batch, calling, history>>

PruneHandler ==
  LET fd == removed_handlers[pruned + 1]
  IN  /\ Pruning
      /\ DelError(fd) \in {"none", "ENOENT"}
      /\ EpollDel(fd)
      /\ handlers' = [handlers EXCEPT ![fd] = 0]
      /\ pruned' = pruned + 1
      /\ UNCHANGED <<file, files, processing_handlers, removed_handlers, nodes,
                     pc, batch, calling, history>>

\* The exception leaves start() with the handler and the list in place.
PruneThrows ==
  /\ Pruning
  /\ DelError(removed_handlers[pruned + 1]) \notin {"none", "ENOENT"}
  /\ pc' = "idle"
  /\ interrupted' = TRUE
  /\ del_failed' = TRUE
  /\ UNCHANGED <<kernel, members, batch, calling, pruned, added_for, wanted>>

\* Mutant: the list of removals is not cleared.
PruneDone_KeepsList ==
  /\ pc = "prune"
  /\ pruned = Len(removed_handlers)
  /\ pc' = "wait"
  /\ UNCHANGED <<kernel, members, batch, calling, pruned, history>>

PruneDone ==
  /\ pc = "prune"
  /\ pruned = Len(removed_handlers)
  /\ removed_handlers' = <<>>
  /\ pc' = "wait"
  /\ UNCHANGED <<kernel, handlers, processing_handlers, size_events, nodes,
                 batch, calling, pruned, history>>

-----------------------------------------------------------------------------

LoopStep ==
  \/ BatchDone \/ PruneHandler \/ PruneThrows \/ PruneDone
  \/ \E node \in Nodes \cup {Own} : CallHandler(node)

Next ==
  \/ \E fd \in FDs : \/ OpenFd(fd) \/ CloseFd(fd)
                     \/ AddHandler(fd) \/ RemoveHandler(fd)
  \/ LoopStep
  \/ Start \/ StartReturns \/ EpollWait \/ HandlerReturns \/ HandlerThrows

Spec == Init /\ [][Next]_vars

\* The loop thread runs and handlers return; events need not occur.
Fairness == WF_vars(LoopStep) /\ WF_vars(HandlerReturns)

FairSpec == Spec /\ Fairness

-----------------------------------------------------------------------------
(* Properties.                                                             *)

\* Every variable has its type.
TypeOK ==
  /\ file \in [FDs -> 0..MaxFiles]
  /\ epoll \in [FDs -> 0..MaxNodes]
  /\ files \in 0..MaxFiles
  /\ handlers \in [FDs -> 0..MaxNodes]
  /\ processing_handlers \in BOOLEAN
  /\ removed_handlers \in Seq(FDs)
  /\ size_events \in Nat
  /\ nodes \in 0..MaxNodes
  /\ pc \in {"idle", "wait", "dispatch", "prune"}
  /\ batch \subseteq Nodes \cup {Own}
  /\ calling \in 0..Own
  /\ pruned \in 0..MaxRemovals
  /\ added_for \in [FDs -> 0..MaxFiles]
  /\ wanted \in [FDs -> BOOLEAN]
  /\ interrupted \in BOOLEAN
  /\ del_failed \in BOOLEAN

LiveNodes == {handlers[fd] : fd \in FDs} \cup {Own}

\* start() never dereferences a node that is gone: the handler being called
\* and every event still in epoll_events_ point into handlers_, whatever the
\* handlers of the batch remove, close and reopen.
EventsPointToHandlers == batch \cup ({calling} \ {0}) \subseteq LiveNodes

\* The kernel's interest list and handlers_ agree: what is registered points
\* to the handler stored for that descriptor, and a handler whose descriptor
\* still is the file it was added for is registered, so it gets its events.
InterestMatchesHandlers ==
  \A fd \in FDs :
    /\ epoll[fd] # 0 => epoll[fd] = handlers[fd]
    /\ handlers[fd] # 0 /\ file[fd] = added_for[fd] => epoll[fd] = handlers[fd]

\* The descriptors on the kernel's interest list.
Interest == {fd \in FDs : epoll[fd] # 0}

\* epoll's count of events, with which epoll_events_ is sized, never falls
\* below the number of registered descriptors, although descriptors leave
\* the interest list by being closed.
SizeCoversInterest == size_events >= Cardinality(Interest)

\* When the loop waits, exactly the descriptors are handled whose handler was
\* added and not removed since; removals that were put off are done and hit
\* nothing else.  Holds as long as no exception leaves start().
WantedAreHandled ==
  (pc = "wait" /\ ~ interrupted)
    => \A fd \in FDs : wanted[fd] <=> handlers[fd] # 0

\* A handler that was added stays until remove_handler is called for it,
\* also across an exception that leaves start() and a new start().
NoHandlerLost == \A fd \in FDs : wanted[fd] => handlers[fd] # 0

\* Removing the handler of a descriptor that was closed before is accepted:
\* neither remove_handler nor start() throws because of it.
ClosedFdIsAccepted == ~ del_failed

\* A removal that a handler asked for is carried out before the loop waits
\* again, unless start() is left.
RemovalCompletes ==
  \A fd \in FDs :
    (pc = "dispatch" /\ \E j \in DOMAIN removed_handlers : removed_handlers[j] = fd)
      ~> (handlers[fd] = 0 \/ pc = "idle")
=============================================================================
