-------------------------- MODULE IoLoopPeriodic --------------------------
(***************************************************************************)
(* The periodic timeouts of linuxpp::ioloop: add_periodic_timeout and      *)
(* insert_periodic_timeout (src/include/liblinuxpp/ioloop.hpp), the        *)
(* remove_timeout for their handles and process_periodic_timeouts          *)
(* (src/src/ioloop.cpp), over a timerfd of their own.                      *)
(*                                                                         *)
(* As in IoLoopTimeouts everything runs on the loop thread, interleaved    *)
(* with the clock, other handlers of the batch and user code.  Two calls   *)
(* have undefined behaviour, modelled by what they do to the vectors of    *)
(* libstdc++: the handle that add_periodic_timeout returns for the first   *)
(* timeout, and the removal of a timeout that is still pending.  Either    *)
(* may crash the program.                                                  *)
(***************************************************************************)
EXTENDS MonotonicTimerfd, TimeoutVector

CONSTANTS
  MaxHandles,   \* bound on the timeouts ever added
  Periods       \* the periods asked for, by handle

ASSUME HandlesAssumption == MaxHandles \in Nat
ASSUME PeriodsAssumption == Periods \in [0..(MaxHandles - 1) -> SUBSET Nat]

VARIABLES
  now,                  \* the steady clock
  \* members of ioloop
  periodic_timeouts, pending_periodic_timeout_additions,
  processing_periodic_timeouts,
  next_id,              \* periodic_timeout_handle::next_id_
  timer,                \* periodic_timeout_timerfd_
  slot,                 \* handle last written to the pending vector's first
                        \* place, which clear() leaves in memory
  \* the loop thread: where it is, whether the epoll batch at hand holds the
  \* timer's event, and process_periodic_timeouts' local variables (last is
  \* the end of the vector when its range-for began)
  pc, due, i, last, started, firing,
  \* history
  handed,               \* handle -> the handle its caller was given
  since,                \* handle -> when it was added or last called
  cancelled,            \* handles removed while stored
  revoked,              \* handles removed while pending
  thrown                \* a periodic callback has thrown

loopvars == <<pc, due, i, last, started, firing>>
history  == <<handed, since, cancelled, revoked, thrown>>
vars     == <<now, periodic_timeouts, pending_periodic_timeout_additions,
              processing_periodic_timeouts, next_id, timer, slot, loopvars, history>>

Handles  == 0..(MaxHandles - 1)
NoHandle == MaxHandles

Entry == [handle : Handles, period : UNION {Periods[h] : h \in Handles}, timeout : Instants,
          remove : BOOLEAN, processed : BOOLEAN]

Init ==
  /\ now = 0
  /\ periodic_timeouts = <<>>
  /\ pending_periodic_timeout_additions = <<>>
  /\ processing_periodic_timeouts = FALSE
  /\ next_id = 0
  /\ timer = Disarmed
  /\ slot = NoHandle
  /\ pc = "loop"
  /\ due = FALSE
  /\ i = 0
  /\ last = 0
  /\ started = 0
  /\ firing = NoHandle
  /\ handed = <<>>
  /\ since = <<>>
  /\ cancelled = {}
  /\ revoked = {}
  /\ thrown = FALSE

Tick ==
  /\ now < MaxTime
  /\ pc # "crashed"
  /\ now' = now + 1
  /\ UNCHANGED <<periodic_timeouts, pending_periodic_timeout_additions,
                 processing_periodic_timeouts, next_id, timer, slot, loopvars, history>>

-----------------------------------------------------------------------------
(* add_periodic_timeout and remove_timeout, called by user code.           *)

UserCode == pc = "loop" \/ firing # NoHandle

Crash ==
  /\ pc' = "crashed"
  /\ firing' = NoHandle
  /\ UNCHANGED <<due, i, last, started>>

\* Mutant: the new timeout goes straight into the vector being walked.
AddPending_AtOnce(e) ==
  /\ processing_periodic_timeouts
  /\ periodic_timeouts' = InsertTimeout(periodic_timeouts, e)
  /\ handed' = Append(handed, e.handle)
  /\ UNCHANGED <<pending_periodic_timeout_additions, slot, timer, loopvars>>

\* While timeouts are processed the new one waits in a second vector.
AddPending(e) ==
  /\ processing_periodic_timeouts
  /\ pending_periodic_timeout_additions' = Append(pending_periodic_timeout_additions, e)
  /\ slot' = IF pending_periodic_timeout_additions = <<>> THEN e.handle ELSE slot
  /\ handed' = Append(handed, e.handle)
  /\ UNCHANGED <<periodic_timeouts, timer, loopvars>>

\* The handle returned is read from the front of the pending vector.  If that
\* vector never had an element the read goes through a null pointer, unless
\* the caller drops the result and the compiler the read.
AddFirst(e) ==
  /\ ~ processing_periodic_timeouts
  /\ periodic_timeouts = <<>>
  /\ periodic_timeouts' = <<e>>
  /\ timer' \in SetOneshot(e.timeout, now)
  /\ handed' = Append(handed, slot)
  /\ UNCHANGED loopvars \/ (slot = NoHandle /\ Crash)
  /\ UNCHANGED <<pending_periodic_timeout_additions, slot>>

\* Mutant: the timer is not armed anew for an earlier timeout.
AddStored_NoRearm(e) ==
  /\ ~ processing_periodic_timeouts
  /\ periodic_timeouts # <<>>
  /\ periodic_timeouts' = InsertTimeout(periodic_timeouts, e)
  /\ handed' = Append(handed, e.handle)
  /\ UNCHANGED <<pending_periodic_timeout_additions, slot, timer, loopvars>>

AddStored(e) ==
  /\ ~ processing_periodic_timeouts
  /\ periodic_timeouts # <<>>
  /\ periodic_timeouts' = InsertTimeout(periodic_timeouts, e)
  /\ IF Head(periodic_timeouts').timeout < Head(periodic_timeouts).timeout
     THEN timer' \in SetOneshot(Head(periodic_timeouts').timeout, now)
     ELSE UNCHANGED timer
  /\ handed' = Append(handed, e.handle)
  /\ UNCHANGED <<pending_periodic_timeout_additions, slot, loopvars>>

AddPeriodicTimeout(p) ==
  LET e == [handle |-> next_id, period |-> p, timeout |-> UpTo(now + p),
            remove |-> FALSE, processed |-> FALSE]
  IN  /\ UserCode
      /\ next_id < MaxHandles
      /\ next_id' = next_id + 1
      /\ since' = Append(since, now)
      /\ AddPending(e) \/ AddFirst(e) \/ AddStored(e)
      /\ UNCHANGED <<now, processing_periodic_timeouts, cancelled, revoked, thrown>>

\* Mutant: a timeout removed by a callback is not marked.
RemoveStored_Ignored(h) ==
  /\ h \in HandlesOf(periodic_timeouts)
  /\ periodic_timeouts' =
       IF processing_periodic_timeouts
       THEN periodic_timeouts
       ELSE RemoveAt(periodic_timeouts, IndexOf(periodic_timeouts, h))
  /\ cancelled' = cancelled \cup {h}
  /\ UNCHANGED <<revoked, loopvars>>

RemoveStored(h) ==
  /\ h \in HandlesOf(periodic_timeouts)
  /\ periodic_timeouts' =
       LET k == IndexOf(periodic_timeouts, h)
       IN  IF processing_periodic_timeouts
           THEN [periodic_timeouts EXCEPT ![k].remove = TRUE]
           ELSE RemoveAt(periodic_timeouts, k)
  /\ cancelled' = cancelled \cup {h}
  /\ UNCHANGED <<revoked, loopvars>>

\* The iterator belongs to the pending vector, the erase is of the other one:
\* it moves nothing and destroys the last entry, when the pending vector lies
\* behind it in memory, or overwrites whatever lies between the two.
RemovePending(h) ==
  /\ h \in HandlesOf(pending_periodic_timeout_additions) \ HandlesOf(periodic_timeouts)
  /\ revoked' = revoked \cup {h}
  /\ \/ /\ periodic_timeouts # <<>>
        /\ periodic_timeouts' = Front(periodic_timeouts)
        /\ UNCHANGED loopvars
     \/ /\ Crash
        /\ UNCHANGED periodic_timeouts
  /\ UNCHANGED cancelled

\* A caller can name the handles it was given.
RemoveTimeout(h) ==
  /\ UserCode
  /\ h \in ToSet(handed)
  /\ \/ RemoveStored(h)
     \/ RemovePending(h)
     \/ /\ h \notin HandlesOf(periodic_timeouts)
                      \cup HandlesOf(pending_periodic_timeout_additions)
        /\ UNCHANGED <<periodic_timeouts, cancelled, revoked, loopvars>>
  /\ UNCHANGED <<now, pending_periodic_timeout_additions,
                 processing_periodic_timeouts, next_id, timer, slot,
                 handed, since, thrown>>

-----------------------------------------------------------------------------
(* The loop thread.                                                        *)

\* epoll_wait reports the timerfd; handlers before it in the batch run at
\* pc = "loop".
EpollWait ==
  /\ pc = "loop"
  /\ ~ due
  /\ Readable(timer, now)
  /\ due' = TRUE
  /\ UNCHANGED <<now, periodic_timeouts, pending_periodic_timeout_additions,
                 processing_periodic_timeouts, next_id, timer, slot,
                 pc, i, last, started, firing, history>>

\* Another handler of the batch throws; the batch is forgotten.
BatchAbandoned ==
  /\ pc = "loop"
  /\ due
  /\ due' = FALSE
  /\ UNCHANGED <<now, periodic_timeouts, pending_periodic_timeout_additions,
                 processing_periodic_timeouts, next_id, timer, slot,
                 pc, i, last, started, firing, history>>

CallProcessPeriodicTimeouts ==
  /\ pc = "loop"
  /\ due
  /\ due' = FALSE
  /\ pc' = "read"
  /\ UNCHANGED <<now, periodic_timeouts, pending_periodic_timeout_additions,
                 processing_periodic_timeouts, next_id, timer, slot,
                 i, last, started, firing, history>>

\* Mutant: the iterator of the last pass is used again.
ReadTimer_StaleIterator ==
  /\ pc = "read"
  /\ Readable(timer, now)
  /\ timer' = Disarmed
  /\ processing_periodic_timeouts' = TRUE
  /\ started' = now
  /\ last' = Len(periodic_timeouts)
  /\ pc' = "scan"
  /\ UNCHANGED <<now, periodic_timeouts, pending_periodic_timeout_additions,
                 next_id, slot, due, i, firing, history>>

\* The blocking read, then the clock is sampled once for the whole pass.
ReadTimer ==
  /\ pc = "read"
  /\ Readable(timer, now)
  /\ timer' = Disarmed
  /\ processing_periodic_timeouts' = TRUE
  /\ started' = now
  /\ i' = 0
  /\ last' = Len(periodic_timeouts)
  /\ pc' = "scan"
  /\ UNCHANGED <<now, periodic_timeouts, pending_periodic_timeout_additions,
                 next_id, slot, due, firing, history>>

\* The next entry of the range-for is at hand; i entries are done.
Scanning == pc = "scan" /\ firing = NoHandle
AtEntry  == Scanning /\ i < last /\ i < Len(periodic_timeouts)
Current  == periodic_timeouts[i + 1]

SkipRemoved ==
  /\ AtEntry
  /\ Current.remove
  /\ i' = i + 1
  /\ UNCHANGED <<now, periodic_timeouts, pending_periodic_timeout_additions,
                 processing_periodic_timeouts, next_id, timer, slot,
                 pc, due, last, started, firing, history>>

InvokeTimeout ==
  /\ AtEntry
  /\ ~ Current.remove
  /\ Current.timeout <= started
  /\ periodic_timeouts' = [periodic_timeouts EXCEPT ![i + 1].processed = TRUE]
  /\ i' = i + 1
  /\ firing' = Current.handle
  /\ since' = [since EXCEPT ![Current.handle + 1] = now]
  /\ UNCHANGED <<now, pending_periodic_timeout_additions,
                 processing_periodic_timeouts, next_id, timer, slot,
                 pc, due, last, started, handed, cancelled, revoked, thrown>>

CallbackReturns ==
  /\ firing # NoHandle
  /\ firing' = NoHandle
  /\ UNCHANGED <<now, periodic_timeouts, pending_periodic_timeout_additions,
                 processing_periodic_timeouts, next_id, timer, slot,
                 pc, due, i, last, started, history>>

\* The sentry resets the flag; nothing is reset, merged or armed.
CallbackThrows ==
  /\ firing # NoHandle
  /\ firing' = NoHandle
  /\ processing_periodic_timeouts' = FALSE
  /\ thrown' = TRUE
  /\ pc' = "loop"
  /\ UNCHANGED <<now, periodic_timeouts, pending_periodic_timeout_additions,
                 next_id, timer, slot, due, i, last, started,
                 handed, since, cancelled, revoked>>

EndPass ==
  /\ processing_periodic_timeouts' = FALSE
  /\ pc' = "sweep"
  /\ UNCHANGED <<due, i, last, started, firing>>

StopAtUnexpired ==
  /\ AtEntry
  /\ ~ Current.remove
  /\ Current.timeout > started
  /\ EndPass
  /\ UNCHANGED <<now, periodic_timeouts, pending_periodic_timeout_additions,
                 next_id, timer, slot, history>>

StopAtEnd ==
  /\ Scanning
  /\ i = last
  /\ EndPass
  /\ UNCHANGED <<now, periodic_timeouts, pending_periodic_timeout_additions,
                 next_id, timer, slot, history>>

\* The range-for comes to an entry that RemovePending destroyed: it stops
\* there, or calls the destroyed callback, and what follows is not modelled.
DestroyedEntry ==
  /\ Scanning
  /\ i < last
  /\ i >= Len(periodic_timeouts)
  /\ \/ EndPass
     \/ Crash /\ UNCHANGED processing_periodic_timeouts
  /\ UNCHANGED <<now, periodic_timeouts, pending_periodic_timeout_additions,
                 next_id, timer, slot, history>>

Marked == {k \in DOMAIN periodic_timeouts : periodic_timeouts[k].remove}

\* Entries that callbacks marked are erased, one at a time.
EraseMarked ==
  /\ pc = "sweep"
  /\ \E k \in Marked : periodic_timeouts' = RemoveAt(periodic_timeouts, k)
  /\ UNCHANGED <<now, pending_periodic_timeout_additions,
                 processing_periodic_timeouts, next_id, timer, slot, loopvars, history>>

\* Mutant: periods count from the clock's sample at the start of the pass.
Reset_FirstSample(e, t) ==
  [e EXCEPT !.timeout = UpTo(started + e.period), !.processed = FALSE]

\* periodic_timeout_callback::reset
Reset(e, t) ==
  [e EXCEPT !.timeout = UpTo(t + e.period), !.processed = FALSE]

\* The processed entries are reset, up to the first that was not processed.
ResetProcessed(s, t) ==
  [k \in DOMAIN s |->
     IF \A j \in 1..k : s[j].processed THEN Reset(s[k], t) ELSE s[k]]

\* std::sort: entries with the same timeout come in any order.
SortedOrders(s) ==
  {r \in SetToSeqs(ToSet(s)) :
     \A j, k \in DOMAIN r : j < k => r[j].timeout <= r[k].timeout}

\* The clock is sampled again, then the entries are reset and sorted.
ResetTimeouts ==
  /\ pc = "sweep"
  /\ Marked = {}
  /\ periodic_timeouts' \in SortedOrders(ResetProcessed(periodic_timeouts, now))
  /\ pc' = "merge"
  /\ UNCHANGED <<now, pending_periodic_timeout_additions,
                 processing_periodic_timeouts, next_id, timer, slot,
                 due, i, last, started, firing, history>>

MergePending ==
  /\ pc = "merge"
  /\ pending_periodic_timeout_additions # <<>>
  /\ periodic_timeouts' =
       InsertTimeout(periodic_timeouts, Head(pending_periodic_timeout_additions))
  /\ pending_periodic_timeout_additions' = Tail(pending_periodic_timeout_additions)
  /\ UNCHANGED <<now, processing_periodic_timeouts, next_id, timer, slot,
                 loopvars, history>>

\* Mutant: the timer is left disarmed after a pass.
RearmTimer_Forgotten ==
  /\ pc = "merge"
  /\ pending_periodic_timeout_additions = <<>>
  /\ pc' = "loop"
  /\ UNCHANGED <<now, periodic_timeouts, pending_periodic_timeout_additions,
                 processing_periodic_timeouts, next_id, timer, slot,
                 due, i, last, started, firing, history>>

RearmTimer ==
  /\ pc = "merge"
  /\ pending_periodic_timeout_additions = <<>>
  /\ IF periodic_timeouts # <<>>
     THEN timer' \in SetOneshot(Head(periodic_timeouts).timeout, now)
     ELSE UNCHANGED timer
  /\ pc' = "loop"
  /\ UNCHANGED <<now, periodic_timeouts, pending_periodic_timeout_additions,
                 processing_periodic_timeouts, next_id, slot,
                 due, i, last, started, firing, history>>

-----------------------------------------------------------------------------

LoopStep ==
  \/ EpollWait \/ CallProcessPeriodicTimeouts \/ ReadTimer
  \/ SkipRemoved \/ InvokeTimeout \/ StopAtUnexpired \/ StopAtEnd \/ DestroyedEntry
  \/ EraseMarked \/ ResetTimeouts \/ MergePending \/ RearmTimer

Next ==
  \/ Tick
  \/ \E h \in Handles : \E p \in Periods[h] : next_id = h /\ AddPeriodicTimeout(p)
  \/ \E h \in Handles : RemoveTimeout(h)
  \/ LoopStep
  \/ BatchAbandoned \/ CallbackReturns \/ CallbackThrows

Spec == Init /\ [][Next]_vars

\* As for the one-shot timeouts.
Fairness ==
  /\ WF_vars(Tick)
  /\ WF_vars(LoopStep)
  /\ SF_vars(CallProcessPeriodicTimeouts)
  /\ WF_vars(CallbackReturns)

FairSpec == Spec /\ Fairness

-----------------------------------------------------------------------------
(* Properties.                                                             *)

\* Every variable has its type.
TypeOK ==
  /\ now \in Instants
  /\ periodic_timeouts \in Seq(Entry)
  /\ pending_periodic_timeout_additions \in Seq(Entry)
  /\ processing_periodic_timeouts \in BOOLEAN
  /\ next_id \in 0..MaxHandles
  /\ timer \in Instants \cup {Disarmed}
  /\ slot \in Handles \cup {NoHandle}
  /\ pc \in {"loop", "read", "scan", "sweep", "merge", "crashed"}
  /\ due \in BOOLEAN
  /\ i \in Nat /\ last \in Nat /\ i <= last
  /\ started \in Instants
  /\ firing \in Handles \cup {NoHandle}
  /\ handed \in Seq(Handles \cup {NoHandle}) /\ Len(handed) = next_id
  /\ since \in Seq(Instants) /\ Len(since) = next_id
  /\ cancelled \subseteq Handles
  /\ revoked \subseteq Handles
  /\ thrown \in BOOLEAN

\* periodic_timeouts_ is sorted whenever a pass or an insertion relies on it,
\* although a pass gives processed entries new timeouts; and where resetting
\* stops at the first entry that was not processed, "the remaining timeouts
\* have not been processed", whatever callbacks removed, added or threw, in
\* this pass or an earlier one.
OrderIsKept ==
  \A j, k \in DOMAIN periodic_timeouts :
    j < k =>
      /\ periodic_timeouts[j].timeout <= periodic_timeouts[k].timeout
      /\ (pc = "sweep" /\ Marked = {} /\ periodic_timeouts[k].processed)
            => periodic_timeouts[j].processed

\* While timeouts wait, the timer is armed for the earliest or is about to
\* expire, as long as no periodic callback throws.
EarliestIsArmed ==
  (pc \in {"loop", "read"} /\ periodic_timeouts # <<>> /\ ~ thrown) =>
    LET next == Head(periodic_timeouts).timeout
        soon == IF next > now THEN next ELSE now + 1
    IN  timer <= UpTo(soon + MaxLatency)

\* Two calls of a periodic callback are at least its period apart, and so is
\* the first from its add_periodic_timeout, however late calls are.
KeepsPeriod ==
  [][firing' # firing /\ firing' # NoHandle =>
       now >= UpTo(since[firing' + 1] + Current.period)]_vars

\* No periodic timeout is called after remove_timeout found it stored.
RemovedNeverFires ==
  [][firing' # firing /\ firing' # NoHandle => firing' \notin cancelled]_vars

\* After a pass no timeout is left that a callback removed.
RemovedAreErased ==
  pc = "loop" /\ ~ thrown =>
    HandlesOf(periodic_timeouts) \cap (cancelled \cup revoked) = {}

\* A stored or pending periodic timeout is called again, unless it is gone,
\* a periodic callback throws, or undefined behaviour ends the program.
KeepsFiring ==
  \A h \in Handles :
    (h \in HandlesOf(periodic_timeouts) \cup HandlesOf(pending_periodic_timeout_additions))
      ~> (\/ firing = h
          \/ h \notin HandlesOf(periodic_timeouts)
                        \cup HandlesOf(pending_periodic_timeout_additions)
          \/ thrown
          \/ pc = "crashed")
=============================================================================
