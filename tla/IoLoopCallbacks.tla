-------------------------- MODULE IoLoopCallbacks --------------------------
(***************************************************************************)
(* The part of linuxpp::ioloop that several threads use: add_callback,     *)
(* stop, and the loop thread's start, process_callbacks and process_stop   *)
(* (src/src/ioloop.cpp).  A thread is preempted at every lock, shared      *)
(* access and system call.  A callback is user code of the loop thread: it *)
(* may call add_callback or stop itself, return, or throw out of start(),  *)
(* after which the application may call start() again.                     *)
(*                                                                         *)
(* Only the loop's own two eventfds are registered here; handlers and      *)
(* timers are the subject of IoLoopHandlers and IoLoopTimeouts.            *)
(***************************************************************************)
EXTENDS Naturals, Sequences, FiniteSets

CONSTANTS
  Threads,      \* threads that call add_callback and stop
  Loop,         \* the thread that calls start
  NoThread,     \* owner of a free mutex
  Callbacks,    \* callback objects, each handed in at most once
  NoCallback,
  EfdMax        \* largest eventfd counter (2^64 - 2 in the kernel)

ASSUME ThreadsAssumption ==
  /\ Loop \notin Threads
  /\ NoThread \notin Threads \cup {Loop}

ASSUME CallbacksAssumption == NoCallback \notin Callbacks

ASSUME EfdMaxAssumption == EfdMax \in Nat \ {0}

VARIABLES
  \* ioloop members shared between threads
  new_callbacks, mutex, callbacks_eventfd, stop_eventfd, keep_running,
  \* each thread inside add_callback or stop: where it is, and its argument
  at, arg,
  \* the loop thread inside start()
  pc,
  batch,        \* events of epoll_events_ still to be dispatched
  callbacks,    \* the local vector of process_callbacks, not yet started
  running,      \* the callback being executed
  \* history: what left the queue, what an exception dropped, and the
  \* callbacks whose add_callback call threw
  settled, lost, failed

shared  == <<new_callbacks, mutex, callbacks_eventfd, stop_eventfd, keep_running>>
calls   == <<at, arg>>
looping == <<pc, batch, callbacks, running>>
history == <<settled, lost, failed>>
vars    == <<shared, calls, looping, history>>

Actors == Threads \cup {Loop}
Events == {"callbacks", "stop"}

Members(s) == {s[i] : i \in DOMAIN s}

\* Callbacks some caller has already handed in.
Used ==
  Members(settled) \cup Members(callbacks) \cup Members(new_callbacks)
    \cup {arg[t] : t \in Actors}

Init ==
  /\ new_callbacks = <<>>
  /\ mutex = NoThread
  /\ callbacks_eventfd = 0
  /\ stop_eventfd = 0
  /\ keep_running = 1
  /\ at = [t \in Actors |-> "out"]
  /\ arg = [t \in Actors |-> NoCallback]
  /\ pc = "idle"
  /\ batch = {}
  /\ callbacks = <<>>
  /\ running = NoCallback
  /\ settled = <<>>
  /\ lost = {}
  /\ failed = {}

-----------------------------------------------------------------------------
(* add_callback and stop, called by any thread.                            *)

\* The loop thread executes user code outside start() and in a callback.
MayCall(t) ==
  /\ at[t] = "out"
  /\ t = Loop => (pc = "idle" \/ running # NoCallback)

AddCall(t, c) ==
  /\ MayCall(t)
  /\ c \notin Used
  /\ at' = [at EXCEPT ![t] = "lock"]
  /\ arg' = [arg EXCEPT ![t] = c]
  /\ UNCHANGED <<shared, looping, history>>

AddLock(t) ==
  /\ at[t] = "lock"
  /\ mutex = NoThread
  /\ mutex' = t
  /\ at' = [at EXCEPT ![t] = "push"]
  /\ UNCHANGED <<new_callbacks, callbacks_eventfd, stop_eventfd, keep_running,
                 arg, looping, history>>

AddPush(t) ==
  /\ at[t] = "push"
  /\ new_callbacks' = Append(new_callbacks, arg[t])
  /\ at' = [at EXCEPT ![t] = "write"]
  /\ UNCHANGED <<mutex, callbacks_eventfd, stop_eventfd, keep_running,
                 arg, looping, history>>

\* The write adds one; at the counter's limit it fails with EAGAIN, which
\* the code accepts.
AddWrite(t) ==
  /\ at[t] = "write"
  /\ callbacks_eventfd' =
       IF callbacks_eventfd < EfdMax THEN callbacks_eventfd + 1
                                     ELSE callbacks_eventfd
  /\ at' = [at EXCEPT ![t] = "unlock"]
  /\ UNCHANGED <<new_callbacks, mutex, stop_eventfd, keep_running,
                 arg, looping, history>>

\* Any other error of the write makes add_callback throw; the callback has
\* been pushed and stays.
AddWriteFails(t) ==
  /\ at[t] = "write"
  /\ at' = [at EXCEPT ![t] = "unlock"]
  /\ failed' = failed \cup {arg[t]}
  /\ UNCHANGED <<shared, arg, looping, settled, lost>>

\* The lock_guard's destructor, on the normal and on the throwing path.
AddUnlock(t) ==
  /\ at[t] = "unlock"
  /\ mutex' = NoThread
  /\ at' = [at EXCEPT ![t] = "out"]
  /\ arg' = [arg EXCEPT ![t] = NoCallback]
  /\ UNCHANGED <<new_callbacks, callbacks_eventfd, stop_eventfd, keep_running,
                 looping, history>>

\* Bound: fewer stop() calls are outstanding than the counter can hold.
StopsOutstanding == stop_eventfd + Cardinality({t \in Actors : at[t] = "stop"})

StopClear(t) ==
  /\ MayCall(t)
  /\ StopsOutstanding < EfdMax
  /\ keep_running' = 0
  /\ at' = [at EXCEPT ![t] = "stop"]
  /\ UNCHANGED <<new_callbacks, mutex, callbacks_eventfd, stop_eventfd,
                 arg, looping, history>>

\* Mutant: stop() clears the flag and does not wake the loop.
StopWrite_NoWakeup(t) ==
  /\ at[t] = "stop"
  /\ at' = [at EXCEPT ![t] = "out"]
  /\ UNCHANGED <<shared, arg, looping, history>>

\* stop_eventfd_ is blocking: at the counter's limit the write waits.
StopWrite(t) ==
  /\ at[t] = "stop"
  /\ stop_eventfd < EfdMax
  /\ stop_eventfd' = stop_eventfd + 1
  /\ at' = [at EXCEPT ![t] = "out"]
  /\ UNCHANGED <<new_callbacks, mutex, callbacks_eventfd, keep_running,
                 arg, looping, history>>

-----------------------------------------------------------------------------
(* start(), on the loop thread.                                            *)

Start ==
  /\ pc = "idle"
  /\ at[Loop] = "out"
  /\ keep_running' = 1
  /\ pc' = "test"
  /\ UNCHANGED <<new_callbacks, mutex, callbacks_eventfd, stop_eventfd,
                 calls, batch, callbacks, running, history>>

TestKeepRunning ==
  /\ pc = "test"
  /\ pc' = IF keep_running = 1 THEN "wait" ELSE "idle"
  /\ UNCHANGED <<shared, calls, batch, callbacks, running, history>>

Ready ==
  {e \in Events : \/ e = "callbacks" /\ callbacks_eventfd > 0
                  \/ e = "stop" /\ stop_eventfd > 0}

\* Mutant: epoll_events_ is not cut down to the number of ready events.
EpollWait_NotResized ==
  /\ pc = "wait"
  /\ Ready # {}
  /\ batch' = Events
  /\ pc' = "dispatch"
  /\ UNCHANGED <<shared, calls, callbacks, running, history>>

\* epoll_wait without a timeout, level triggered.
EpollWait ==
  /\ pc = "wait"
  /\ Ready # {}
  /\ batch' = Ready
  /\ pc' = "dispatch"
  /\ UNCHANGED <<shared, calls, callbacks, running, history>>

\* A signal interrupts epoll_wait, which only sleeps when nothing is ready.
EpollInterrupted ==
  /\ pc = "wait"
  /\ Ready = {}
  /\ pc' = "test"
  /\ UNCHANGED <<shared, calls, batch, callbacks, running, history>>

BatchDone ==
  /\ pc = "dispatch"
  /\ batch = {}
  /\ pc' = "test"
  /\ UNCHANGED <<shared, calls, batch, callbacks, running, history>>

\* process_stop: a blocking read, which resets the counter.
ProcessStop ==
  /\ pc = "dispatch"
  /\ "stop" \in batch
  /\ stop_eventfd > 0
  /\ stop_eventfd' = 0
  /\ batch' = batch \ {"stop"}
  /\ UNCHANGED <<new_callbacks, mutex, callbacks_eventfd, keep_running,
                 calls, pc, callbacks, running, history>>

\* process_callbacks: the non-blocking read throws on an empty counter.
ReadEventfd ==
  /\ pc = "dispatch"
  /\ "callbacks" \in batch
  /\ callbacks_eventfd' = 0
  /\ IF callbacks_eventfd > 0
     THEN pc' = "lock" /\ batch' = batch \ {"callbacks"}
     ELSE pc' = "idle" /\ batch' = {}
  /\ UNCHANGED <<new_callbacks, mutex, stop_eventfd, keep_running,
                 calls, callbacks, running, history>>

\* Mutant: the mutex is not waited for.
LockCallbacks_NoWait ==
  /\ pc = "lock"
  /\ mutex' = Loop
  /\ pc' = "move"
  /\ UNCHANGED <<new_callbacks, callbacks_eventfd, stop_eventfd, keep_running,
                 calls, batch, callbacks, running, history>>

LockCallbacks ==
  /\ pc = "lock"
  /\ mutex = NoThread
  /\ mutex' = Loop
  /\ pc' = "move"
  /\ UNCHANGED <<new_callbacks, callbacks_eventfd, stop_eventfd, keep_running,
                 calls, batch, callbacks, running, history>>

\* Mutant: the vector is copied, not moved.
MoveCallbacks_Copies ==
  /\ pc = "move"
  /\ callbacks' = new_callbacks
  /\ pc' = "unlock"
  /\ UNCHANGED <<shared, calls, batch, running, history>>

MoveCallbacks ==
  /\ pc = "move"
  /\ callbacks' = new_callbacks
  /\ new_callbacks' = <<>>
  /\ pc' = "unlock"
  /\ UNCHANGED <<mutex, callbacks_eventfd, stop_eventfd, keep_running,
                 calls, batch, running, history>>

\* Mutant: the callbacks run with the mutex held.
UnlockCallbacks_KeepsMutex ==
  /\ pc = "unlock"
  /\ pc' = "run"
  /\ UNCHANGED <<shared, calls, batch, callbacks, running, history>>

UnlockCallbacks ==
  /\ pc = "unlock"
  /\ mutex' = NoThread
  /\ pc' = "run"
  /\ UNCHANGED <<new_callbacks, callbacks_eventfd, stop_eventfd, keep_running,
                 calls, batch, callbacks, running, history>>

RunCallback ==
  /\ pc = "run"
  /\ running = NoCallback
  /\ callbacks # <<>>
  /\ running' = Head(callbacks)
  /\ callbacks' = Tail(callbacks)
  /\ settled' = Append(settled, Head(callbacks))
  /\ UNCHANGED <<shared, calls, pc, batch, lost, failed>>

CallbackReturns ==
  /\ running # NoCallback
  /\ at[Loop] = "out"
  /\ running' = NoCallback
  /\ UNCHANGED <<shared, calls, pc, batch, callbacks, history>>

\* The exception destroys the local vector and leaves start().
CallbackThrows ==
  /\ running # NoCallback
  /\ at[Loop] = "out"
  /\ running' = NoCallback
  /\ callbacks' = <<>>
  /\ settled' = settled \o callbacks
  /\ lost' = lost \cup Members(callbacks)
  /\ batch' = {}
  /\ pc' = "idle"
  /\ UNCHANGED <<shared, calls, failed>>

\* Mutant: the eventfd is read again after the callbacks ran.
CallbacksDone_ReadsAgain ==
  /\ pc = "run"
  /\ running = NoCallback
  /\ callbacks = <<>>
  /\ callbacks_eventfd' = 0
  /\ pc' = "dispatch"
  /\ UNCHANGED <<new_callbacks, mutex, stop_eventfd, keep_running,
                 calls, batch, callbacks, running, history>>

CallbacksDone ==
  /\ pc = "run"
  /\ running = NoCallback
  /\ callbacks = <<>>
  /\ pc' = "dispatch"
  /\ UNCHANGED <<shared, calls, batch, callbacks, running, history>>

-----------------------------------------------------------------------------

\* The steps that finish a call a thread has begun.
CallStep(t) ==
  AddLock(t) \/ AddPush(t) \/ AddWrite(t) \/ AddUnlock(t) \/ StopWrite(t)

\* The steps start() takes by itself.
LoopStep ==
  \/ TestKeepRunning \/ EpollWait \/ BatchDone \/ ProcessStop
  \/ ReadEventfd \/ LockCallbacks \/ MoveCallbacks \/ UnlockCallbacks
  \/ RunCallback \/ CallbacksDone

Next ==
  \/ \E t \in Actors :
       \/ CallStep(t)
       \/ AddWriteFails(t)
       \/ StopClear(t)
       \/ \E c \in Callbacks : AddCall(t, c)
  \/ LoopStep
  \/ Start \/ EpollInterrupted \/ CallbackReturns \/ CallbackThrows

Spec == Init /\ [][Next]_vars

\* Threads are scheduled, callbacks return.  Nobody is obliged to call
\* add_callback, stop or start, and no signal need arrive.
Fairness ==
  /\ \A t \in Actors : WF_vars(CallStep(t))
  /\ WF_vars(LoopStep)
  /\ WF_vars(CallbackReturns)

FairSpec == Spec /\ Fairness

-----------------------------------------------------------------------------
(* Properties.                                                             *)

Callback == Callbacks \cup {NoCallback}

\* Every variable has its type (the members of class ioloop and the program
\* points of add_callback, stop and start).
TypeOK ==
  /\ new_callbacks \in Seq(Callbacks)
  /\ mutex \in Actors \cup {NoThread}
  /\ callbacks_eventfd \in 0..EfdMax
  /\ stop_eventfd \in 0..EfdMax
  /\ keep_running \in {0, 1}
  /\ at \in [Actors -> {"out", "lock", "push", "write", "unlock", "stop"}]
  /\ arg \in [Actors -> Callback]
  /\ pc \in {"idle", "test", "wait", "dispatch", "lock", "move", "unlock", "run"}
  /\ batch \subseteq Events
  /\ callbacks \in Seq(Callbacks)
  /\ running \in Callback
  /\ settled \in Seq(Callbacks)
  /\ lost \subseteq Callbacks
  /\ failed \subseteq Callbacks

\* mutex_ "protects new_callbacks_": no two threads are at once about to
\* push to the vector in add_callback or to move it in process_callbacks.
VectorIsProtected ==
  /\ \A t, u \in Actors : at[t] = "push" /\ at[u] = "push" => t = u
  /\ \A t \in Actors : ~ (pc = "move" /\ at[t] = "push")

\* No wakeup is lost between add_callback's write and process_callbacks'
\* read, which takes place before the mutex is locked: a callback that waits
\* in new_callbacks_ is backed by a non-zero eventfd, or the loop thread has
\* read the eventfd and has yet to move the vector, or its own add_callback
\* call has still to write.  (A call whose write threw made no such promise.)
NoLostWakeup ==
  \A c \in Members(new_callbacks) \ failed :
    \/ callbacks_eventfd > 0
    \/ pc \in {"lock", "move"}
    \/ \E t \in Actors : at[t] = "write" /\ arg[t] = c

\* An event that epoll_wait reported is still signalled when its handler
\* reads it: process_callbacks' non-blocking read never throws out of
\* start(), and process_stop's blocking read never stalls the loop.
DispatchedEventsStaySignalled ==
  /\ "callbacks" \in batch => callbacks_eventfd > 0
  /\ "stop" \in batch => stop_eventfd > 0

\* new_callbacks_ and the vector moved from it behave as the one FIFO queue
\* of CallbackQueue: nothing is lost, repeated or reordered on the way
\* through add_callback and process_callbacks.
Queue ==
  INSTANCE CallbackQueue WITH pending <- callbacks \o new_callbacks

FIFOQueue == Queue!Spec

\* A callback that add_callback queued is started while start() runs (or
\* dropped by an exception of another, which ends start()), unless its own
\* call fails to write the eventfd and throws.
AddedCallbackIsTaken ==
  \A c \in Callbacks :
    (c \in Members(new_callbacks) \ failed)
      ~> (c \in Members(settled) \cup failed \/ pc = "idle")

\* stop(), called while start() runs, makes start() return: clearing
\* keep_running_ before the eventfd write leaves no moment in which the loop
\* goes back to sleep for good.
StopEndsStart == (keep_running = 0 /\ pc # "idle") ~> (pc = "idle")

\* A call of add_callback or stop returns, also one made by a callback on
\* the loop thread: process_callbacks holds the mutex in no callback.
CallsReturn == \A t \in Actors : (at[t] # "out") ~> (at[t] = "out")
=============================================================================
