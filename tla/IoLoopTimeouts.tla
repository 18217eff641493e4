-------------------------- MODULE IoLoopTimeouts --------------------------
(***************************************************************************)
(* The one-shot timeouts of linuxpp::ioloop: add_timeout, remove_timeout   *)
(* and process_timeouts (src/src/ioloop.cpp), over one timerfd.            *)
(*                                                                         *)
(* All of it runs on the loop thread; what interleaves with it is the      *)
(* clock, the other handlers of the same epoll batch, and user code: a     *)
(* timeout callback may add and remove timeouts, return, or throw out of   *)
(* start(), after which start() may be called again.                       *)
(***************************************************************************)
EXTENDS MonotonicTimerfd, TimeoutVector

CONSTANT MaxHandles     \* bound on the timeouts ever added

ASSUME HandlesAssumption == MaxHandles \in Nat

VARIABLES
  now,                  \* the steady clock
  \* members of ioloop
  timeouts, pending_timeout_additions, processing_timeouts,
  next_id,              \* timeout_handle::next_id_
  timer,                \* timeout_timerfd_
  \* the loop thread: where it is, whether the epoll batch at hand holds the
  \* timer's event, and process_timeouts' local variables
  pc, due, i, started, firing,
  \* history
  requested,            \* handle -> the timeout it was added with
  fired,                \* handles in the order their callbacks were called
  cancelled,            \* handles passed to remove_timeout
  thrown                \* a timeout callback has thrown

loopvars == <<pc, due, i, started, firing>>
history  == <<requested, fired, cancelled, thrown>>
vars     == <<now, timeouts, pending_timeout_additions, processing_timeouts,
              next_id, timer, loopvars, history>>

Handles  == 0..(MaxHandles - 1)
NoHandle == MaxHandles

Entry == [handle : Handles, timeout : Instants, remove : BOOLEAN]

Init ==
  /\ now = 0
  /\ timeouts = <<>>
  /\ pending_timeout_additions = <<>>
  /\ processing_timeouts = FALSE
  /\ next_id = 0
  /\ timer = Disarmed
  /\ pc = "loop"
  /\ due = FALSE
  /\ i = 0
  /\ started = 0
  /\ firing = NoHandle
  /\ requested = <<>>
  /\ fired = <<>>
  /\ cancelled = {}
  /\ thrown = FALSE

Tick ==
  /\ now < MaxTime
  /\ now' = now + 1
  /\ UNCHANGED <<timeouts, pending_timeout_additions, processing_timeouts,
                 next_id, timer, loopvars, history>>

-----------------------------------------------------------------------------
(* add_timeout and remove_timeout, called by user code of the loop thread. *)

\* User code runs outside process_timeouts and in a timeout's callback.
UserCode == pc = "loop" \/ firing # NoHandle

\* Mutant: the timer is armed anew only for the first timeout.
StoreTimeout_NoRearm(e) ==
  /\ timeouts' = InsertTimeout(timeouts, e)
  /\ IF timeouts = <<>> THEN timer' \in SetOneshot(e.timeout, now)
                        ELSE UNCHANGED timer

\* Outside process_timeouts: insert, and arm for a new earliest timeout.
StoreTimeout(e) ==
  /\ timeouts' = InsertTimeout(timeouts, e)
  /\ IF timeouts = <<>> \/ Head(timeouts).timeout > e.timeout
     THEN timer' \in SetOneshot(e.timeout, now)
     ELSE UNCHANGED timer

AddTimeout(t) ==
  LET e == [handle |-> next_id, timeout |-> t, remove |-> FALSE]
  IN  /\ UserCode
      /\ next_id < MaxHandles
      /\ next_id' = next_id + 1
      /\ requested' = Append(requested, t)
      /\ IF processing_timeouts
         THEN /\ pending_timeout_additions' = Append(pending_timeout_additions, e)
              /\ UNCHANGED <<timeouts, timer>>
         ELSE /\ StoreTimeout(e)
              /\ UNCHANGED pending_timeout_additions
      /\ UNCHANGED <<now, processing_timeouts, loopvars, fired, cancelled, thrown>>

\* Mutant: a timeout removed by a callback is not marked.
RemoveStored_Ignored(k) ==
  /\ timeouts' = IF processing_timeouts THEN timeouts ELSE RemoveAt(timeouts, k)
  /\ UNCHANGED timer

\* Removal from timeouts_ is put off while the vector is being walked.  The
\* timer is left alone.
RemoveStored(k) ==
  /\ timeouts' = IF processing_timeouts THEN [timeouts EXCEPT ![k].remove = TRUE]
                                        ELSE RemoveAt(timeouts, k)
  /\ UNCHANGED timer

RemovePending(k) ==
  pending_timeout_additions' = RemoveAt(pending_timeout_additions, k)

\* A handle that is in neither vector is ignored.
RemoveTimeout(h) ==
  /\ UserCode
  /\ h < next_id
  /\ cancelled' = cancelled \cup {h}
  /\ \/ /\ h \in HandlesOf(timeouts)
        /\ RemoveStored(IndexOf(timeouts, h))
        /\ UNCHANGED pending_timeout_additions
     \/ /\ h \in HandlesOf(pending_timeout_additions) \ HandlesOf(timeouts)
        /\ RemovePending(IndexOf(pending_timeout_additions, h))
        /\ UNCHANGED <<timeouts, timer>>
     \/ /\ h \notin HandlesOf(timeouts) \cup HandlesOf(pending_timeout_additions)
        /\ UNCHANGED <<timeouts, pending_timeout_additions, timer>>
  /\ UNCHANGED <<now, processing_timeouts, next_id, loopvars,
                 requested, fired, thrown>>

-----------------------------------------------------------------------------
(* The loop thread.                                                        *)

\* epoll_wait reports the timerfd; handlers before it in the batch run at
\* pc = "loop".
EpollWait ==
  /\ pc = "loop"
  /\ ~ due
  /\ Readable(timer, now)
  /\ due' = TRUE
  /\ UNCHANGED <<now, timeouts, pending_timeout_additions, processing_timeouts,
                 next_id, timer, pc, i, started, firing, history>>

\* Another handler of the batch throws; the batch is forgotten.
BatchAbandoned ==
  /\ pc = "loop"
  /\ due
  /\ due' = FALSE
  /\ UNCHANGED <<now, timeouts, pending_timeout_additions, processing_timeouts,
                 next_id, timer, pc, i, started, firing, history>>

CallProcessTimeouts ==
  /\ pc = "loop"
  /\ due
  /\ due' = FALSE
  /\ pc' = "read"
  /\ UNCHANGED <<now, timeouts, pending_timeout_additions, processing_timeouts,
                 next_id, timer, i, started, firing, history>>

\* Mutant: the iterator of the last pass is used again.
ReadTimer_StaleIterator ==
  /\ pc = "read"
  /\ Readable(timer, now)
  /\ timer' = Disarmed
  /\ processing_timeouts' = TRUE
  /\ started' = now
  /\ pc' = "scan"
  /\ UNCHANGED <<now, timeouts, pending_timeout_additions, next_id, due, i,
                 firing, history>>

\* The timerfd read blocks until the timer has expired; then the clock is
\* sampled once for the whole pass.
ReadTimer ==
  /\ pc = "read"
  /\ Readable(timer, now)
  /\ timer' = Disarmed
  /\ processing_timeouts' = TRUE
  /\ started' = now
  /\ i' = 0
  /\ pc' = "scan"
  /\ UNCHANGED <<now, timeouts, pending_timeout_additions, next_id, due, firing,
                 history>>

\* The pass has not ended and is not inside a callback; i entries are done.
Scanning == pc = "scan" /\ firing = NoHandle

SkipRemoved ==
  /\ Scanning
  /\ i < Len(timeouts)
  /\ timeouts[i + 1].remove
  /\ i' = i + 1
  /\ UNCHANGED <<now, timeouts, pending_timeout_additions, processing_timeouts,
                 next_id, timer, pc, due, started, firing, history>>

FireTimeout ==
  /\ Scanning
  /\ i < Len(timeouts)
  /\ ~ timeouts[i + 1].remove
  /\ timeouts[i + 1].timeout <= started
  /\ i' = i + 1
  /\ firing' = timeouts[i + 1].handle
  /\ fired' = Append(fired, timeouts[i + 1].handle)
  /\ UNCHANGED <<now, timeouts, pending_timeout_additions, processing_timeouts,
                 next_id, timer, pc, due, started, requested, cancelled, thrown>>

CallbackReturns ==
  /\ firing # NoHandle
  /\ firing' = NoHandle
  /\ UNCHANGED <<now, timeouts, pending_timeout_additions, processing_timeouts,
                 next_id, timer, pc, due, i, started, history>>

\* The sentry resets the flag; nothing is erased, merged or armed.
CallbackThrows ==
  /\ firing # NoHandle
  /\ firing' = NoHandle
  /\ processing_timeouts' = FALSE
  /\ thrown' = TRUE
  /\ pc' = "loop"
  /\ UNCHANGED <<now, timeouts, pending_timeout_additions, next_id, timer,
                 due, i, started, requested, fired, cancelled>>

\* Mutant: nothing is erased at the end of a pass.
EndPass_KeepsFired(n) ==
  /\ processing_timeouts' = FALSE
  /\ pc' = "sweep"
  /\ UNCHANGED timeouts

\* The first n entries are erased and the sentry resets the flag.
EndPass(n) ==
  /\ timeouts' = SubSeq(timeouts, n + 1, Len(timeouts))
  /\ processing_timeouts' = FALSE
  /\ pc' = "sweep"

\* The iterator has already moved past the entry that stops the pass.
StopAtUnexpired ==
  /\ Scanning
  /\ i < Len(timeouts)
  /\ ~ timeouts[i + 1].remove
  /\ timeouts[i + 1].timeout > started
  /\ i' = i + 1
  /\ EndPass(i + 1)
  /\ UNCHANGED <<now, pending_timeout_additions, next_id, timer, due, started,
                 firing, history>>

StopAtEnd ==
  /\ Scanning
  /\ i = Len(timeouts)
  /\ EndPass(i)
  /\ UNCHANGED <<now, pending_timeout_additions, next_id, timer, due, i,
                 started, firing, history>>

Marked == {k \in DOMAIN timeouts : timeouts[k].remove}

\* Entries that callbacks marked are erased, one at a time.
EraseMarked ==
  /\ pc = "sweep"
  /\ \E k \in Marked : timeouts' = RemoveAt(timeouts, k)
  /\ UNCHANGED <<now, pending_timeout_additions, processing_timeouts, next_id,
                 timer, loopvars, history>>

EraseDone ==
  /\ pc = "sweep"
  /\ Marked = {}
  /\ pc' = "merge"
  /\ UNCHANGED <<now, timeouts, pending_timeout_additions, processing_timeouts,
                 next_id, timer, due, i, started, firing, history>>

MergePending ==
  /\ pc = "merge"
  /\ pending_timeout_additions # <<>>
  /\ timeouts' = InsertTimeout(timeouts, Head(pending_timeout_additions))
  /\ pending_timeout_additions' = Tail(pending_timeout_additions)
  /\ UNCHANGED <<now, processing_timeouts, next_id, timer, loopvars, history>>

\* Mutant: the timer is left disarmed after a pass.
RearmTimer_Forgotten ==
  /\ pc = "merge"
  /\ pending_timeout_additions = <<>>
  /\ pc' = "loop"
  /\ UNCHANGED <<now, timeouts, pending_timeout_additions, processing_timeouts,
                 next_id, timer, due, i, started, firing, history>>

RearmTimer ==
  /\ pc = "merge"
  /\ pending_timeout_additions = <<>>
  /\ IF timeouts # <<>> THEN timer' \in SetOneshot(Head(timeouts).timeout, now)
                        ELSE UNCHANGED timer
  /\ pc' = "loop"
  /\ UNCHANGED <<now, timeouts, pending_timeout_additions, processing_timeouts,
                 next_id, due, i, started, firing, history>>

-----------------------------------------------------------------------------

LoopStep ==
  \/ EpollWait \/ CallProcessTimeouts \/ ReadTimer
  \/ SkipRemoved \/ FireTimeout \/ StopAtUnexpired \/ StopAtEnd
  \/ EraseMarked \/ EraseDone \/ MergePending \/ RearmTimer

Next ==
  \/ Tick
  \/ \E t \in Instants : AddTimeout(t)
  \/ \E h \in Handles : RemoveTimeout(h)
  \/ LoopStep
  \/ BatchAbandoned \/ CallbackReturns \/ CallbackThrows

Spec == Init /\ [][Next]_vars

\* The clock advances, start() runs, callbacks return, and other handlers do
\* not throw in every batch that holds the timer's event.
Fairness ==
  /\ WF_vars(Tick)
  /\ WF_vars(LoopStep)
  /\ SF_vars(CallProcessTimeouts)
  /\ WF_vars(CallbackReturns)

FairSpec == Spec /\ Fairness

-----------------------------------------------------------------------------
(* Properties.                                                             *)

\* Every variable has its type.
TypeOK ==
  /\ now \in Instants
  /\ timeouts \in Seq(Entry)
  /\ pending_timeout_additions \in Seq(Entry)
  /\ processing_timeouts \in BOOLEAN
  /\ next_id \in 0..MaxHandles
  /\ timer \in Instants \cup {Disarmed}
  /\ pc \in {"loop", "read", "scan", "sweep", "merge"}
  /\ due \in BOOLEAN
  /\ i \in 0..Len(timeouts) \/ (pc # "scan" /\ i \in Nat)
  /\ started \in Instants
  /\ firing \in Handles \cup {NoHandle}
  /\ requested \in Seq(Instants) /\ Len(requested) = next_id
  /\ fired \in Seq(Handles)
  /\ cancelled \subseteq Handles
  /\ thrown \in BOOLEAN

\* timeouts_ is sorted whenever it is looked at: what lower_bound needs and
\* what lets process_timeouts stop at the first unexpired entry.
SortedTimeouts ==
  \A j, k \in DOMAIN timeouts : j < k => timeouts[j].timeout <= timeouts[k].timeout

\* While timeouts wait, the timer is armed for the earliest or is about to
\* expire: neither add_timeout's choice of when to arm, nor a removal, nor a
\* pass of process_timeouts leaves a timeout without a wakeup, as long as no
\* timeout callback throws.
EarliestIsArmed ==
  (pc \in {"loop", "read"} /\ timeouts # <<>> /\ ~ thrown) =>
    LET next == Head(timeouts).timeout
        soon == IF next > now THEN next ELSE now + 1
    IN  timer <= UpTo(soon + MaxLatency)

\* process_timeouts' blocking read always ends: handlers of the same batch
\* may arm the expired timer anew, but nothing ever disarms it.
BlockedReadIsArmed == pc = "read" => timer # Disarmed

\* A callback is called at most once, unless some callback threw: then
\* process_timeouts erases nothing and those called before fire again.
FiresOnce ==
  ~ thrown => \A j, k \in DOMAIN fired : fired[j] = fired[k] => j = k

\* A callback is called when its time has come and after those of the same
\* pass that are due before it, and never after remove_timeout returned, be it
\* called by a callback of the same pass, for a timeout still pending, or
\* before an exception.
FiresWhenDue ==
  [][firing' # firing /\ firing' # NoHandle =>
       LET h == firing' IN
       /\ h \notin cancelled
       /\ requested[h + 1] <= now
       /\ \A j \in DOMAIN timeouts :
            requested[timeouts[j].handle + 1] < requested[h + 1]
              => \/ timeouts[j].remove
                 \/ timeouts[j].handle \in ToSet(fired)]_vars

\* Every timeout that process_timeouts takes out of timeouts_ had expired
\* and was called, or had been removed.
OnlyExpiredErased ==
  \A h \in 0..(next_id - 1) :
    \/ h \in HandlesOf(timeouts) \cup HandlesOf(pending_timeout_additions)
    \/ h \in ToSet(fired) \cup cancelled

\* A timeout that was added leaves the loop's vectors in the end, unless a
\* timeout callback throws.
NoTimeoutStuck ==
  \A h \in Handles :
    (h \in HandlesOf(timeouts) \cup HandlesOf(pending_timeout_additions))
      ~> (\/ h \notin HandlesOf(timeouts) \cup HandlesOf(pending_timeout_additions)
          \/ thrown)
=============================================================================
