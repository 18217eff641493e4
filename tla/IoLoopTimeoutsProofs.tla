----------------------- MODULE IoLoopTimeoutsProofs -----------------------
(***************************************************************************)
(* Proofs about IoLoopTimeouts for every clock, latency and number of      *)
(* timeouts.                                                               *)
(***************************************************************************)
EXTENDS IoLoopTimeouts, TimeoutVectorProofs

LEMMA EntryTypes ==
  ASSUME TimeAssumption, NEW s \in Seq(Entry)
  PROVE  /\ Timed(Entry)
         /\ Len(s) \in Nat /\ DOMAIN s = 1..Len(s)
         /\ \A j \in 1..Len(s) : /\ s[j] \in Entry
                                 /\ s[j].timeout \in Instants
                                 /\ s[j].timeout \in Nat
<1>1. Len(s) \in Nat /\ DOMAIN s = 1..Len(s)
  BY LenProperties
<1>2. \A j \in 1..Len(s) : s[j] \in Entry
  BY ElementOfSeq
<1>3. \A e \in Entry : e.timeout \in Instants /\ e.timeout \in Nat
  BY DEF Entry, Instants
<1> QED
  BY <1>1, <1>2, <1>3 DEF Timed

-----------------------------------------------------------------------------
(* The inductive invariant.                                                *)

\* The flag is set exactly during a pass, the only time callbacks run.
PassInv ==
  /\ processing_timeouts <=> pc = "scan"
  /\ firing # NoHandle => pc = "scan"

\* From the report of epoll_wait to the read, the timer is armed or expired.
TimerInv ==
  /\ due => pc = "loop"
  /\ due \/ pc = "read" => timer # Disarmed

Inv ==
  /\ TypeOK
  /\ PassInv
  /\ TimerInv
  /\ Ordered(timeouts)

LEMMA InitInv == Init => Inv
<1> SUFFICES ASSUME Init PROVE Inv
  OBVIOUS
<1> USE TimeAssumption, HandlesAssumption DEF Init
<1>1. /\ now \in Instants /\ started \in Instants /\ next_id \in 0..MaxHandles
      /\ timer \in Instants \cup {Disarmed} /\ firing \in Handles \cup {NoHandle}
  BY DEF Instants
<1>2. /\ timeouts \in Seq(Entry) /\ pending_timeout_additions \in Seq(Entry)
      /\ fired \in Seq(Handles) /\ requested \in Seq(Instants)
      /\ Len(requested) = 0 /\ Len(timeouts) = 0
  BY EmptySeq
<1>3. processing_timeouts \in BOOLEAN /\ due \in BOOLEAN /\ thrown \in BOOLEAN
  BY Zenon
<1>4. TypeOK
  BY <1>1, <1>2, <1>3 DEF TypeOK
<1>5. PassInv /\ TimerInv
  BY DEF PassInv, TimerInv, NoHandle
<1>6. Ordered(timeouts)
  BY <1>2 DEF Ordered
<1> QED
  BY <1>4, <1>5, <1>6 DEF Inv

\* add_timeout outside a pass keeps timeouts_ sorted and arms, or leaves, the
\* timer.
LEMMA StoreKeepsOrder ==
  ASSUME TimeAssumption, Inv, NEW e \in Entry, StoreTimeout(e)
  PROVE  /\ timeouts' \in Seq(Entry) /\ Ordered(timeouts')
         /\ timer' \in Instants \/ timer' = timer
<1>1. timeouts' = InsertTimeout(timeouts, e)
  BY DEF StoreTimeout
<1>2. timeouts' \in Seq(Entry) /\ Ordered(timeouts')
  BY <1>1, EntryTypes, InsertKeepsOrder DEF Inv, TypeOK
<1>3. e.timeout \in Instants
  BY DEF Entry
<1>4. SetOneshot(e.timeout, now) \subseteq Instants
  BY <1>3, OneshotArms DEF Inv, TypeOK
<1>5. timer' \in Instants \/ timer' = timer
  BY <1>4 DEF StoreTimeout
<1> QED
  BY <1>2, <1>5

\* remove_timeout keeps timeouts_ sorted; during a pass it keeps its length.
LEMMA RemoveStoredKeepsOrder ==
  ASSUME TimeAssumption, Inv, NEW k \in 1..Len(timeouts), RemoveStored(k)
  PROVE  /\ timeouts' \in Seq(Entry) /\ Ordered(timeouts')
         /\ processing_timeouts => Len(timeouts') = Len(timeouts)
<1>0. timeouts \in Seq(Entry) /\ Ordered(timeouts)
  BY DEF Inv, TypeOK
<1>1. CASE ~ processing_timeouts
  <2>1. timeouts' = RemoveAt(timeouts, k)
    BY <1>1 DEF RemoveStored
  <2> QED
    BY <1>0, <1>1, <2>1, RemoveThins, ThinnedKeeps
<1>2. CASE processing_timeouts
  <2> DEFINE m == [timeouts[k] EXCEPT !.remove = TRUE]
             r == [timeouts EXCEPT ![k] = m]
  <2>1. timeouts[k] \in Entry
    BY <1>0, EntryTypes
  <2>2. m \in Entry /\ m.timeout = timeouts[k].timeout
    BY <2>1 DEF Entry
  <2>3. timeouts' = r
    BY <1>2 DEF RemoveStored
  <2> HIDE DEF m
  <2>4. /\ r \in Seq(Entry) /\ Len(r) = Len(timeouts)
        /\ \A j \in 1..Len(timeouts) : r[j] = IF j = k THEN m ELSE timeouts[j]
    BY <1>0, <2>2, ExceptSeq
  <2> HIDE DEF r
  <2>5. \A j \in 1..Len(r) : r[j].timeout = timeouts[j].timeout
    BY <2>2, <2>4
  <2>6. Ordered(r)
    BY <1>0, <2>4, <2>5 DEF Ordered
  <2> QED
    BY <2>3, <2>4, <2>6
<1> QED
  BY <1>1, <1>2

LEMMA AddTimeoutStep ==
  ASSUME TimeAssumption, HandlesAssumption, Inv, NEW t \in Instants, AddTimeout(t)
  PROVE  Inv'
<1> DEFINE e == [handle |-> next_id, timeout |-> t, remove |-> FALSE]
<1>1. next_id \in 0..MaxHandles /\ next_id < MaxHandles
  BY DEF AddTimeout, Inv, TypeOK
<1>2. e \in Entry
  <2>1. next_id \in Handles
    BY <1>1, HandlesAssumption DEF Handles
  <2> QED
    BY <2>1 DEF Entry
<1>3. /\ next_id' = next_id + 1
      /\ requested' = Append(requested, t)
      /\ UNCHANGED <<now, processing_timeouts, pc, due, i, started, firing,
                     fired, cancelled, thrown>>
  BY DEF AddTimeout, loopvars
<1>4. requested' \in Seq(Instants) /\ Len(requested') = next_id'
  <2>1. requested \in Seq(Instants) /\ Len(requested) = next_id
    BY DEF Inv, TypeOK
  <2> QED
    BY <1>3, <2>1, AppendProperties
<1> HIDE DEF e
<1>5. CASE processing_timeouts
  <2>1. /\ pending_timeout_additions' = Append(pending_timeout_additions, e)
        /\ UNCHANGED <<timeouts, timer>>
    BY <1>5 DEF AddTimeout, e
  <2>2. pending_timeout_additions' \in Seq(Entry)
    BY <1>2, <2>1, AppendProperties DEF Inv, TypeOK
  <2>3. TypeOK'
    BY <1>1, <1>3, <1>4, <2>1, <2>2, HandlesAssumption DEF Inv, TypeOK
  <2> QED
    BY <1>3, <2>1, <2>3 DEF Inv, PassInv, TimerInv
<1>6. CASE ~ processing_timeouts
  <2>1. StoreTimeout(e) /\ UNCHANGED pending_timeout_additions
    BY <1>6 DEF AddTimeout, e
  <2>2. /\ timeouts' \in Seq(Entry) /\ Ordered(timeouts')
        /\ timer' \in Instants \/ timer' = timer
    BY <1>2, <2>1, StoreKeepsOrder
  <2>3. pc # "scan" /\ i \in Nat
    <3>1. Len(timeouts) \in Nat
      BY EntryTypes DEF Inv, TypeOK
    <3> QED
      BY <1>6, <3>1 DEF Inv, PassInv, TypeOK
  <2>4. TypeOK'
    BY <1>1, <1>3, <1>4, <2>1, <2>2, <2>3, HandlesAssumption DEF Inv, TypeOK
  <2>5. TimerInv'
    <3>1. Disarmed \notin Instants
      BY DEF Disarmed, Instants, TimeAssumption
    <3> QED
      BY <1>3, <2>2, <3>1 DEF Inv, TimerInv
  <2> QED
    BY <1>3, <2>2, <2>4, <2>5 DEF Inv, PassInv
<1> QED
  BY <1>5, <1>6

LEMMA RemoveTimeoutStep ==
  ASSUME TimeAssumption, HandlesAssumption, Inv, NEW h \in Handles, RemoveTimeout(h)
  PROVE  Inv'
<1>1. /\ cancelled' = cancelled \cup {h}
      /\ UNCHANGED <<now, processing_timeouts, next_id, timer, pc, due, i,
                     started, firing, requested, fired, thrown>>
  BY DEF RemoveTimeout, RemoveStored, loopvars
<1>2. PassInv' /\ TimerInv'
  BY <1>1 DEF Inv, PassInv, TimerInv
<1>3. cancelled' \subseteq Handles
  BY <1>1 DEF Inv, TypeOK
<1>4. Len(timeouts) \in Nat /\ timeouts \in Seq(Entry)
      /\ pending_timeout_additions \in Seq(Entry)
  BY EntryTypes DEF Inv, TypeOK
<1>5. CASE h \in HandlesOf(timeouts)
  <2>1. /\ RemoveStored(IndexOf(timeouts, h))
        /\ UNCHANGED pending_timeout_additions
    BY <1>5 DEF RemoveTimeout
  <2>2. /\ timeouts' \in Seq(Entry) /\ Ordered(timeouts')
        /\ processing_timeouts => Len(timeouts') = Len(timeouts)
    BY <1>4, <1>5, <2>1, IndexInDomain, RemoveStoredKeepsOrder
  <2>3. i' \in 0..Len(timeouts') \/ (pc' # "scan" /\ i' \in Nat)
    BY <1>1, <1>4, <2>2 DEF Inv, TypeOK, PassInv
  <2>4. TypeOK'
    BY <1>1, <1>3, <2>1, <2>2, <2>3 DEF Inv, TypeOK
  <2> QED
    BY <1>2, <2>2, <2>4 DEF Inv
<1>6. CASE h \notin HandlesOf(timeouts)
  <2>1. UNCHANGED timeouts
    BY <1>6 DEF RemoveTimeout
  <2>2. pending_timeout_additions' \in Seq(Entry)
    <3>1. CASE h \in HandlesOf(pending_timeout_additions)
      <4>1. pending_timeout_additions'
              = RemoveAt(pending_timeout_additions, IndexOf(pending_timeout_additions, h))
        BY <1>6, <3>1 DEF RemoveTimeout, RemovePending
      <4>2. IndexOf(pending_timeout_additions, h) \in 1..Len(pending_timeout_additions)
        BY <1>4, <3>1, IndexInDomain
      <4> QED
        BY <1>4, <4>1, <4>2, RemoveThins
    <3>2. CASE h \notin HandlesOf(pending_timeout_additions)
      BY <1>4, <1>6, <3>2 DEF RemoveTimeout
    <3> QED
      BY <3>1, <3>2
  <2>3. TypeOK'
    BY <1>1, <1>3, <2>1, <2>2 DEF Inv, TypeOK
  <2> QED
    BY <1>2, <2>1, <2>3 DEF Inv
<1> QED
  BY <1>5, <1>6

LEMMA StepInv == Inv /\ [Next]_vars => Inv'
<1> SUFFICES ASSUME Inv, [Next]_vars
             PROVE  Inv'
  OBVIOUS
<1> USE TimeAssumption, HandlesAssumption
<1>0. /\ Len(timeouts) \in Nat /\ timeouts \in Seq(Entry)
      /\ \A j \in 1..Len(timeouts) : timeouts[j] \in Entry
  BY EntryTypes DEF Inv, TypeOK
<1>1. CASE UNCHANGED vars
  BY <1>1 DEF vars, loopvars, history, Inv, TypeOK, PassInv, TimerInv
<1>2. CASE Tick
  <2>1. now' \in Instants
    BY <1>2 DEF Tick, Inv, TypeOK, Instants
  <2> QED
    BY <1>2, <2>1 DEF Tick, loopvars, history, Inv, TypeOK, PassInv, TimerInv
<1>3. ASSUME NEW t \in Instants, AddTimeout(t)
      PROVE  Inv'
  BY <1>3, AddTimeoutStep
<1>4. ASSUME NEW h \in Handles, RemoveTimeout(h)
      PROVE  Inv'
  BY <1>4, RemoveTimeoutStep
<1>5. CASE EpollWait
  <2>1. timer # Disarmed
    BY <1>5 DEF EpollWait, Readable, Inv, TypeOK, Instants, Disarmed
  <2>2. due' \in BOOLEAN
    BY <1>5 DEF EpollWait
  <2>3. TypeOK'
    BY <1>5, <2>2 DEF EpollWait, history, Inv, TypeOK
  <2> QED
    BY <1>5, <2>1, <2>3 DEF EpollWait, Inv, PassInv, TimerInv
<1>6. CASE BatchAbandoned \/ CallProcessTimeouts
  <2>1. due' \in BOOLEAN
    BY <1>6 DEF BatchAbandoned, CallProcessTimeouts
  <2>2. i \in Nat /\ pc # "scan" /\ pc' # "scan"
    BY <1>0, <1>6 DEF BatchAbandoned, CallProcessTimeouts, Inv, TypeOK
  <2>3. TypeOK'
    BY <1>6, <2>1, <2>2 DEF BatchAbandoned, CallProcessTimeouts, history, Inv, TypeOK
  <2> QED
    BY <1>6, <2>3 DEF BatchAbandoned, CallProcessTimeouts, Inv, PassInv, TimerInv
<1>7. CASE ReadTimer
  <2>1. processing_timeouts' \in BOOLEAN /\ i' \in 0..Len(timeouts)
    BY <1>0, <1>7 DEF ReadTimer
  <2>2. TypeOK'
    BY <1>7, <2>1 DEF ReadTimer, history, Inv, TypeOK
  <2> QED
    BY <1>7, <2>2 DEF ReadTimer, Inv, PassInv, TimerInv
<1>8. CASE SkipRemoved
  <2>1. i' \in 0..Len(timeouts)
    BY <1>0, <1>8 DEF SkipRemoved, Scanning, Inv, TypeOK
  <2> QED
    BY <1>8, <2>1 DEF SkipRemoved, history, Inv, TypeOK, PassInv, TimerInv
<1>9. CASE FireTimeout
  <2>1. i' \in 0..Len(timeouts) /\ i + 1 \in 1..Len(timeouts)
    BY <1>0, <1>9 DEF FireTimeout, Scanning, Inv, TypeOK
  <2>2. firing' \in Handles /\ fired' = Append(fired, firing')
    BY <1>0, <1>9, <2>1 DEF FireTimeout, Entry
  <2>3. fired' \in Seq(Handles)
    BY <2>2, AppendProperties DEF Inv, TypeOK
  <2>4. TypeOK'
    BY <1>9, <2>1, <2>2, <2>3 DEF FireTimeout, Inv, TypeOK
  <2> QED
    BY <1>9, <2>4 DEF FireTimeout, Scanning, Inv, PassInv, TimerInv
<1>10. CASE CallbackReturns
  BY <1>10 DEF CallbackReturns, history, Inv, TypeOK, PassInv, TimerInv
<1>11. CASE CallbackThrows
  <2>1. i' \in Nat /\ pc = "scan"
    BY <1>0, <1>11 DEF CallbackThrows, Inv, PassInv, TypeOK
  <2>2. processing_timeouts' \in BOOLEAN /\ thrown' \in BOOLEAN
    BY <1>11 DEF CallbackThrows
  <2>3. TypeOK'
    BY <1>11, <2>1, <2>2 DEF CallbackThrows, Inv, TypeOK
  <2> QED
    BY <1>11, <2>1, <2>3 DEF CallbackThrows, Inv, PassInv, TimerInv
<1>12. CASE StopAtUnexpired \/ StopAtEnd
  <2>1. PICK n \in 0..Len(timeouts) :
          /\ timeouts' = SubSeq(timeouts, n + 1, Len(timeouts))
          /\ processing_timeouts' = FALSE /\ pc' = "sweep" /\ i' \in Nat
    <3>1. CASE StopAtUnexpired
      <4>1. i + 1 \in 0..Len(timeouts)
        BY <1>0, <3>1 DEF StopAtUnexpired, Scanning, Inv, TypeOK
      <4>2. /\ timeouts' = SubSeq(timeouts, (i + 1) + 1, Len(timeouts))
            /\ processing_timeouts' = FALSE /\ pc' = "sweep" /\ i' = i + 1
        BY <3>1 DEF StopAtUnexpired, EndPass
      <4>3. i' \in Nat
        BY <1>0, <4>1, <4>2
      <4> QED
        BY <4>1, <4>2, <4>3, Zenon
    <3>2. CASE StopAtEnd
      <4>1. i \in 0..Len(timeouts)
        BY <1>0, <3>2 DEF StopAtEnd, Scanning, Inv, TypeOK
      <4>2. /\ timeouts' = SubSeq(timeouts, i + 1, Len(timeouts))
            /\ processing_timeouts' = FALSE /\ pc' = "sweep" /\ i' = i
        BY <3>2 DEF StopAtEnd, EndPass
      <4>3. i' \in Nat
        BY <1>0, <4>1, <4>2
      <4> QED
        BY <4>1, <4>2, <4>3, Zenon
    <3> QED
      BY <1>12, <3>1, <3>2
  <2>2. timeouts' \in Seq(Entry) /\ Ordered(timeouts')
    <3>1. timeouts' \in Seq(Entry) /\ Thinned(timeouts', timeouts)
      BY <1>0, <2>1, CutThins
    <3> QED
      BY <1>0, <3>1, ThinnedKeeps DEF Inv
  <2>3. /\ UNCHANGED <<now, pending_timeout_additions, next_id, timer, due,
                       started, firing, requested, fired, cancelled, thrown>>
        /\ pc = "scan" /\ firing = NoHandle
    BY <1>12 DEF StopAtUnexpired, StopAtEnd, Scanning, history
  <2>4. processing_timeouts' \in BOOLEAN
    BY <2>1
  <2>5. TypeOK'
    BY <2>1, <2>2, <2>3, <2>4 DEF Inv, TypeOK
  <2> QED
    BY <2>1, <2>2, <2>3, <2>5 DEF Inv, PassInv, TimerInv
<1>13. CASE EraseMarked
  <2>1. PICK k \in 1..Len(timeouts) : timeouts' = RemoveAt(timeouts, k)
    BY <1>13, EntryTypes DEF EraseMarked, Marked, Inv, TypeOK
  <2>2. timeouts' \in Seq(Entry) /\ Ordered(timeouts')
    BY <1>0, <2>1, RemoveThins, ThinnedKeeps DEF Inv
  <2>3. i \in Nat
    BY <1>0 DEF Inv, TypeOK
  <2>4. TypeOK'
    BY <1>13, <2>2, <2>3 DEF EraseMarked, loopvars, history, Inv, TypeOK
  <2> QED
    BY <1>13, <2>2, <2>4 DEF EraseMarked, loopvars, Inv, PassInv, TimerInv
<1>14. CASE EraseDone
  <2>1. i \in Nat
    BY <1>0 DEF Inv, TypeOK
  <2> QED
    BY <1>14, <2>1 DEF EraseDone, history, Inv, TypeOK, PassInv, TimerInv
<1>15. CASE MergePending
  <2>1. /\ Head(pending_timeout_additions) \in Entry
        /\ pending_timeout_additions' \in Seq(Entry)
    BY <1>15, HeadTailProperties DEF MergePending, Inv, TypeOK
  <2>2. timeouts' \in Seq(Entry) /\ Ordered(timeouts')
    BY <1>0, <1>15, <2>1, EntryTypes, InsertKeepsOrder DEF MergePending, Inv
  <2>3. i \in Nat
    BY <1>0 DEF Inv, TypeOK
  <2>4. TypeOK'
    BY <1>15, <2>1, <2>2, <2>3 DEF MergePending, loopvars, history, Inv, TypeOK
  <2> QED
    BY <1>15, <2>2, <2>4 DEF MergePending, loopvars, Inv, PassInv, TimerInv
<1>16. CASE RearmTimer
  <2>1. timer' \in Instants \cup {Disarmed}
    <3>1. CASE timeouts = <<>>
      BY <1>16, <3>1 DEF RearmTimer, Inv, TypeOK
    <3>2. CASE timeouts # <<>>
      <4>1. Head(timeouts) \in Entry
        BY <1>0, <3>2, HeadTailProperties
      <4>2. Head(timeouts).timeout \in Instants
        BY <4>1 DEF Entry
      <4> QED
        BY <1>16, <3>2, <4>2, OneshotArms DEF RearmTimer, Inv, TypeOK
    <3> QED
      BY <3>1, <3>2
  <2>2. i \in Nat
    BY <1>0 DEF Inv, TypeOK
  <2>3. TypeOK'
    BY <1>16, <2>1, <2>2 DEF RearmTimer, history, Inv, TypeOK
  <2> QED
    BY <1>16, <2>3 DEF RearmTimer, Inv, PassInv, TimerInv
<1> QED
  BY <1>1, <1>2, <1>3, <1>4, <1>5, <1>6, <1>7, <1>8, <1>9, <1>10, <1>11,
     <1>12, <1>13, <1>14, <1>15, <1>16 DEF Next, LoopStep

LEMMA Invariance == Spec => []Inv
BY InitInv, StepInv, PTL DEF Spec

\* The members of ioloop keep their types.
THEOREM TypeCorrect == Spec => []TypeOK
<1>1. Inv => TypeOK
  BY DEF Inv
<1> QED
  BY <1>1, Invariance, PTL

\* timeouts_ stays sorted through every insertion, deferred removal, merge
\* and exception.
THEOREM StaysSorted == Spec => []SortedTimeouts
<1>1. Inv => SortedTimeouts
  BY LenProperties DEF Inv, TypeOK, Ordered, SortedTimeouts
<1> QED
  BY <1>1, Invariance, PTL

\* The blocking read of process_timeouts never waits on a disarmed timer.
THEOREM ReadsTerminate == Spec => []BlockedReadIsArmed
<1>1. Inv => BlockedReadIsArmed
  BY DEF Inv, TimerInv, BlockedReadIsArmed
<1> QED
  BY <1>1, Invariance, PTL

-----------------------------------------------------------------------------
(* The timer is armed for the earliest timeout.  The property is inductive *)
(* once Inv is known: only add_timeout outside a pass can bring the first  *)
(* timeout forward, and it arms the timer for it; a removal leaves a timer *)
(* that is early, and the end of a pass arms anew.                         *)

ArmedInv ==
  (pc \in {"loop", "read"} /\ timeouts # <<>> /\ ~ thrown)
    => Armed(timer, timeouts[1].timeout, now)

LEMMA ArmedInvStates == Inv => (ArmedInv <=> EarliestIsArmed)
<1>1. Inv /\ timeouts # <<>> => Head(timeouts) = timeouts[1]
  BY FirstEntry DEF Inv, TypeOK
<1> QED
  BY <1>1 DEF ArmedInv, EarliestIsArmed, Armed, Soon

LEMMA FirstTypes ==
  ASSUME TimeAssumption, NEW s \in Seq(Entry), s # <<>>
  PROVE  s[1] \in Entry /\ s[1].timeout \in Instants /\ s[1].timeout \in Nat
BY FirstEntry, EntryTypes

LEMMA AddArms ==
  ASSUME TimeAssumption, HandlesAssumption, Inv, ArmedInv,
         NEW t \in Instants, AddTimeout(t)
  PROVE  ArmedInv'
<1> DEFINE e == [handle |-> next_id, timeout |-> t, remove |-> FALSE]
<1>1. CASE pc = "scan"
  BY <1>1 DEF AddTimeout, loopvars, ArmedInv
<1>2. CASE pc # "scan"
  <2>1. pc = "loop" /\ ~ processing_timeouts /\ UNCHANGED <<now, thrown, pc>>
    BY <1>2 DEF AddTimeout, UserCode, Inv, PassInv, loopvars
  <2>2. e \in Entry
    BY HandlesAssumption DEF AddTimeout, Inv, TypeOK, Entry, Handles
  <2>3. e.timeout = t
    OBVIOUS
  <2>4. StoreTimeout(e)
    BY <2>1 DEF AddTimeout
  <2> HIDE DEF e
  <2>5. timeouts' = InsertTimeout(timeouts, e)
    BY <2>4 DEF StoreTimeout
  <2>6. timeouts \in Seq(Entry) /\ Ordered(timeouts) /\ Timed(Entry) /\ now \in Instants
    BY EntryTypes DEF Inv, TypeOK
  <2>7. /\ timeouts'[1] = e \/ (timeouts # <<>> /\ timeouts'[1] = timeouts[1])
        /\ timeouts = <<>> \/ timeouts[1].timeout > t => timeouts'[1] = e
        /\ timeouts # <<>> /\ timeouts[1].timeout < t => timeouts'[1] = timeouts[1]
    BY <2>2, <2>3, <2>5, <2>6, InsertContents
  <2>8. timeouts # <<>> => Head(timeouts) = timeouts[1]
    BY <2>6, FirstEntry
  <2>9. CASE timeouts = <<>> \/ timeouts[1].timeout > t
    <3>1. timer' \in SetOneshot(t, now) /\ timeouts'[1].timeout = t
      BY <2>3, <2>4, <2>7, <2>8, <2>9 DEF StoreTimeout
    <3>2. Armed(timer', t, now)
      BY <2>6, <3>1, OneshotArms DEF Armed
    <3> QED
      BY <2>1, <3>1, <3>2 DEF ArmedInv
  <2>10. CASE ~ (timeouts = <<>> \/ timeouts[1].timeout > t)
    <3>1. timer' = timer
      BY <2>3, <2>4, <2>8, <2>10 DEF StoreTimeout
    <3>2. timeouts[1].timeout \in Nat /\ t \in Nat
      BY <2>6, <2>10, FirstTypes DEF Instants
    <3>3. timeouts[1].timeout < t \/ timeouts[1].timeout = t
      BY <2>10, <3>2
    <3>4. timeouts'[1].timeout = timeouts[1].timeout
      BY <2>3, <2>7, <2>10, <3>3
    <3> QED
      BY <2>1, <2>10, <3>1, <3>4 DEF ArmedInv
  <2> QED
    BY <2>9, <2>10
<1> QED
  BY <1>1, <1>2

\* Removing entries leaves the timer early.
LEMMA ThinnedStaysArmed ==
  ASSUME TimeAssumption, Inv, Inv', ArmedInv, Thinned(timeouts', timeouts),
         UNCHANGED <<timer, now, thrown, pc>>
  PROVE  ArmedInv'
<1>1. /\ timeouts \in Seq(Entry) /\ timeouts' \in Seq(Entry) /\ Ordered(timeouts)
      /\ now \in Instants /\ timer \in Instants \cup {Disarmed} /\ Timed(Entry)
  BY EntryTypes DEF Inv, TypeOK
<1> SUFFICES ASSUME pc \in {"loop", "read"}, timeouts' # <<>>, ~ thrown
             PROVE  Armed(timer, timeouts'[1].timeout, now)
  BY DEF ArmedInv
<1>2. timeouts # <<>> /\ timeouts'[1].timeout >= timeouts[1].timeout
  BY <1>1, ThinnedFirst
<1>3. /\ timeouts[1].timeout \in Instants /\ timeouts'[1].timeout \in Instants
      /\ timeouts[1].timeout \in Nat /\ timeouts'[1].timeout \in Nat
  BY <1>1, <1>2, FirstTypes
<1>4. Armed(timer, timeouts[1].timeout, now)
  BY <1>2 DEF ArmedInv
<1>5. timeouts[1].timeout <= timeouts'[1].timeout /\ now <= now
  BY <1>1, <1>2, <1>3 DEF Instants
<1> QED
  BY <1>1, <1>3, <1>4, <1>5, ArmedStays

LEMMA RemoveStaysArmed ==
  ASSUME TimeAssumption, HandlesAssumption, Inv, Inv', ArmedInv,
         NEW h \in Handles, RemoveTimeout(h)
  PROVE  ArmedInv'
<1>1. UNCHANGED <<timer, now, thrown, pc, processing_timeouts>>
  BY DEF RemoveTimeout, RemoveStored, loopvars
<1>2. CASE pc = "scan"
  BY <1>1, <1>2 DEF ArmedInv
<1>3. CASE pc # "scan" /\ h \in HandlesOf(timeouts)
  <2>1. timeouts' = RemoveAt(timeouts, IndexOf(timeouts, h))
    BY <1>3 DEF RemoveTimeout, RemoveStored, Inv, PassInv
  <2>2. timeouts \in Seq(Entry) /\ IndexOf(timeouts, h) \in 1..Len(timeouts)
    BY <1>3, IndexInDomain DEF Inv, TypeOK
  <2>3. Thinned(timeouts', timeouts)
    BY <2>1, <2>2, RemoveThins
  <2> QED
    BY <1>1, <2>3, ThinnedStaysArmed
<1>4. CASE h \notin HandlesOf(timeouts)
  <2>1. UNCHANGED timeouts
    BY <1>4 DEF RemoveTimeout
  <2> QED
    BY <1>1, <2>1 DEF ArmedInv
<1> QED
  BY <1>2, <1>3, <1>4

LEMMA StepArmed == Inv /\ Inv' /\ ArmedInv /\ [Next]_vars => ArmedInv'
<1> SUFFICES ASSUME Inv, Inv', ArmedInv, [Next]_vars
             PROVE  ArmedInv'
  OBVIOUS
<1> USE TimeAssumption, HandlesAssumption
<1>1. CASE UNCHANGED vars
  BY <1>1 DEF vars, loopvars, history, ArmedInv
<1>2. CASE Tick
  <2>1. UNCHANGED <<timeouts, timer, pc, thrown>> /\ now <= now'
    BY <1>2 DEF Tick, loopvars, history, Inv, TypeOK, Instants
  <2>2. /\ now \in Instants /\ now' \in Instants /\ timeouts \in Seq(Entry)
        /\ timer \in Instants \cup {Disarmed}
    BY DEF Inv, TypeOK
  <2> SUFFICES ASSUME pc \in {"loop", "read"}, timeouts # <<>>, ~ thrown
               PROVE  Armed(timer, timeouts[1].timeout, now')
    BY <2>1 DEF ArmedInv
  <2>3. timeouts[1].timeout \in Instants /\ timeouts[1].timeout <= timeouts[1].timeout
    BY <2>2, FirstTypes DEF Instants
  <2>4. Armed(timer, timeouts[1].timeout, now)
    BY DEF ArmedInv
  <2> QED
    BY <2>1, <2>2, <2>3, <2>4, ArmedStays
<1>3. ASSUME NEW t \in Instants, AddTimeout(t)
      PROVE  ArmedInv'
  BY <1>3, AddArms
<1>4. ASSUME NEW h \in Handles, RemoveTimeout(h)
      PROVE  ArmedInv'
  BY <1>4, RemoveStaysArmed
<1>5. CASE EpollWait \/ BatchAbandoned \/ CallProcessTimeouts
  BY <1>5 DEF EpollWait, BatchAbandoned, CallProcessTimeouts, history, ArmedInv
<1>6. CASE ReadTimer \/ SkipRemoved \/ FireTimeout
  BY <1>6 DEF ReadTimer, SkipRemoved, FireTimeout, Scanning, ArmedInv
<1>7. CASE CallbackReturns \/ CallbackThrows
  BY <1>7 DEF CallbackReturns, CallbackThrows, history, Inv, PassInv, ArmedInv
<1>8. CASE StopAtUnexpired \/ StopAtEnd
  BY <1>8 DEF StopAtUnexpired, StopAtEnd, EndPass, ArmedInv
<1>9. CASE EraseMarked \/ EraseDone \/ MergePending
  BY <1>9 DEF EraseMarked, EraseDone, MergePending, loopvars, ArmedInv
<1>10. CASE RearmTimer
  <2> SUFFICES ASSUME timeouts # <<>>
               PROVE  Armed(timer', timeouts[1].timeout, now)
    BY <1>10 DEF RearmTimer, history, ArmedInv
  <2>1. timeouts \in Seq(Entry) /\ now \in Instants
    BY DEF Inv, TypeOK
  <2>2. Head(timeouts) = timeouts[1] /\ timeouts[1].timeout \in Instants
    BY <2>1, FirstEntry, FirstTypes
  <2>3. timer' \in SetOneshot(timeouts[1].timeout, now)
    BY <1>10, <2>2 DEF RearmTimer
  <2> QED
    BY <2>1, <2>2, <2>3, OneshotArms DEF Armed
<1> QED
  BY <1>1, <1>2, <1>3, <1>4, <1>5, <1>6, <1>7, <1>8, <1>9, <1>10 DEF Next, LoopStep

\* While timeouts wait, the timer is armed for the earliest of them, at most
\* MaxLatency late, whatever user code adds and removes between and within
\* passes of process_timeouts, as long as no timeout callback throws.
THEOREM StaysArmed == Spec => []EarliestIsArmed
<1>1. Init => ArmedInv
  BY DEF Init, ArmedInv
<1>2. Inv /\ ArmedInv => EarliestIsArmed
  BY ArmedInvStates
<1> QED
  BY <1>1, <1>2, StepArmed, Invariance, PTL DEF Spec

-----------------------------------------------------------------------------
(* What the two vectors hold: each handle at most once, with the timeout   *)
(* it was added with, and marked if it was passed to remove_timeout.       *)

\* e is as user code asked for when n handles have been given out.
EntryOK(e, n, asked, removed) ==
  /\ e.handle < n
  /\ asked[e.handle + 1] = e.timeout
  /\ e.handle \in removed => e.remove

StoredOK ==
  /\ Distinct(timeouts)
  /\ \A j \in 1..Len(timeouts) : EntryOK(timeouts[j], next_id, requested, cancelled)

PendingOK ==
  /\ Distinct(pending_timeout_additions)
  /\ \A j \in 1..Len(pending_timeout_additions) :
       /\ EntryOK(pending_timeout_additions[j], next_id, requested, cancelled)
       /\ ~ pending_timeout_additions[j].remove

Apart ==
  \A j \in 1..Len(timeouts), k \in 1..Len(pending_timeout_additions) :
    timeouts[j].handle # pending_timeout_additions[k].handle

Contents ==
  /\ StoredOK
  /\ PendingOK
  /\ Apart
  /\ \A h \in cancelled : h < next_id

LEMMA InitContents == Init => Contents
BY EmptySeq DEF Init, Contents, StoredOK, PendingOK, Apart, Distinct

LEMMA Vectors ==
  ASSUME TimeAssumption, HandlesAssumption, Inv
  PROVE  /\ timeouts \in Seq(Entry) /\ pending_timeout_additions \in Seq(Entry)
         /\ Timed(Entry) /\ Ordered(timeouts)
         /\ Len(timeouts) \in Nat /\ Len(pending_timeout_additions) \in Nat
         /\ \A j \in 1..Len(timeouts) :
              timeouts[j] \in Entry /\ timeouts[j].handle \in Nat
         /\ \A j \in 1..Len(pending_timeout_additions) :
              /\ pending_timeout_additions[j] \in Entry
              /\ pending_timeout_additions[j].handle \in Nat
<1>1. timeouts \in Seq(Entry) /\ pending_timeout_additions \in Seq(Entry) /\ Ordered(timeouts)
  BY DEF Inv, TypeOK
<1>2. \A e \in Entry : e.handle \in Nat
  BY DEF Entry, Handles, HandlesAssumption
<1> QED
  BY <1>1, <1>2, EntryTypes

\* Steps that only take entries out.
LEMMA ThinnedContents ==
  ASSUME Contents,
         Distinct(timeouts'), Distinct(pending_timeout_additions'),
         \A j \in 1..Len(timeouts') :
           \E m \in 1..Len(timeouts) : timeouts'[j] = timeouts[m],
         \A j \in 1..Len(pending_timeout_additions') :
           \E m \in 1..Len(pending_timeout_additions) :
             pending_timeout_additions'[j] = pending_timeout_additions[m],
         UNCHANGED <<next_id, requested, cancelled>>
  PROVE  Contents'
<1>1. StoredOK'
  BY DEF Contents, StoredOK, EntryOK
<1>2. PendingOK'
  BY DEF Contents, PendingOK, EntryOK
<1>3. Apart'
  BY DEF Contents, Apart
<1>4. \A h \in cancelled' : h < next_id'
  BY DEF Contents
<1> QED
  BY <1>1, <1>2, <1>3, <1>4 DEF Contents

\* A new timeout has a handle that nobody has.
LEMMA NewEntry ==
  ASSUME TimeAssumption, HandlesAssumption, Inv, Contents,
         NEW t \in Instants, NEW e \in Entry, AddTimeout(t),
         e = [handle |-> next_id, timeout |-> t, remove |-> FALSE]
  PROVE  /\ EntryOK(e, next_id', requested', cancelled') /\ ~ e.remove
         /\ \A x \in Entry :
              EntryOK(x, next_id, requested, cancelled)
                => EntryOK(x, next_id', requested', cancelled') /\ x.handle # e.handle
         /\ \A h \in cancelled' : h < next_id'
<1>1. next_id \in Nat /\ next_id' = next_id + 1 /\ cancelled' = cancelled
  BY HandlesAssumption DEF AddTimeout, Inv, TypeOK
<1>2. /\ requested \in Seq(Instants) /\ Len(requested) = next_id
      /\ requested' = Append(requested, t)
  BY DEF AddTimeout, Inv, TypeOK
<1>3. /\ requested'[next_id + 1] = t
      /\ \A j \in 1..next_id : requested'[j] = requested[j]
  BY <1>2, AppendProperties
<1>4. e.handle = next_id /\ e.timeout = t /\ e.remove = FALSE
  OBVIOUS
<1>5. next_id \notin cancelled
  BY <1>1 DEF Contents
<1>6. \A h \in cancelled : h \in Nat
  BY DEF Inv, TypeOK, Handles, HandlesAssumption
<1>7. EntryOK(e, next_id', requested', cancelled')
  BY <1>1, <1>3, <1>4, <1>5 DEF EntryOK
<1>8. ASSUME NEW x \in Entry, EntryOK(x, next_id, requested, cancelled)
      PROVE  EntryOK(x, next_id', requested', cancelled') /\ x.handle # e.handle
  <2>1. x.handle \in Nat
    BY DEF Entry, Handles, HandlesAssumption
  <2>2. x.handle < next_id /\ x.handle + 1 \in 1..next_id
    BY <1>1, <1>8, <2>1 DEF EntryOK
  <2>3. x.handle < next_id' /\ x.handle # e.handle
    BY <1>1, <1>4, <2>1, <2>2
  <2> QED
    BY <1>1, <1>3, <1>8, <2>2, <2>3 DEF EntryOK
<1>9. \A h \in cancelled' : h < next_id'
  BY <1>1, <1>6 DEF Contents
<1> QED
  BY <1>4, <1>7, <1>8, <1>9

LEMMA AddContents ==
  ASSUME TimeAssumption, HandlesAssumption, Inv, Contents,
         NEW t \in Instants, AddTimeout(t)
  PROVE  Contents'
<1> DEFINE e == [handle |-> next_id, timeout |-> t, remove |-> FALSE]
<1>1. e \in Entry
  BY HandlesAssumption DEF AddTimeout, Inv, TypeOK, Entry, Handles
<1>2. /\ EntryOK(e, next_id', requested', cancelled') /\ ~ e.remove
      /\ \A x \in Entry :
           EntryOK(x, next_id, requested, cancelled)
             => EntryOK(x, next_id', requested', cancelled') /\ x.handle # e.handle
      /\ \A h \in cancelled' : h < next_id'
  BY <1>1, NewEntry
<1>3. \/ /\ processing_timeouts
         /\ pending_timeout_additions' = Append(pending_timeout_additions, e)
         /\ timeouts' = timeouts
      \/ /\ ~ processing_timeouts
         /\ timeouts' = InsertTimeout(timeouts, e)
         /\ pending_timeout_additions' = pending_timeout_additions
  BY DEF AddTimeout, StoreTimeout
<1> HIDE DEF e
<1> DEFINE New(x) == EntryOK(x, next_id', requested', cancelled')
<1>4. /\ \A j \in 1..Len(timeouts) :
           New(timeouts[j]) /\ timeouts[j].handle # e.handle
      /\ \A j \in 1..Len(pending_timeout_additions) :
           /\ New(pending_timeout_additions[j])
           /\ pending_timeout_additions[j].handle # e.handle
           /\ ~ pending_timeout_additions[j].remove
  BY <1>2, Vectors DEF Contents, StoredOK, PendingOK
<1>5. New(e)
  BY <1>2
<1> HIDE DEF New
<1>6. Len(timeouts) \in Nat /\ Len(pending_timeout_additions) \in Nat
  BY Vectors
<1>7. Distinct(timeouts) /\ Distinct(pending_timeout_additions) /\ Apart
  BY DEF Contents, StoredOK, PendingOK
<1>8. CASE processing_timeouts
  <2>1. /\ Len(pending_timeout_additions') = Len(pending_timeout_additions) + 1
        /\ pending_timeout_additions'[Len(pending_timeout_additions) + 1] = e
        /\ \A j \in 1..Len(pending_timeout_additions) :
             pending_timeout_additions'[j] = pending_timeout_additions[j]
    BY <1>1, <1>3, <1>8, Vectors, AppendProperties
  <2>2. \A j \in 1..Len(pending_timeout_additions') :
          \/ j \in 1..Len(pending_timeout_additions)
          \/ j = Len(pending_timeout_additions) + 1
    BY <1>6, <2>1
  <2>3. timeouts' = timeouts
    BY <1>3, <1>8
  <2>4. \A j \in 1..Len(pending_timeout_additions') :
          New(pending_timeout_additions'[j]) /\ ~ pending_timeout_additions'[j].remove
    BY <1>2, <1>4, <1>5, <2>1, <2>2
  <2>5. Distinct(pending_timeout_additions')
    BY <1>4, <1>7, <2>1, <2>2 DEF Distinct
  <2>6. Apart'
    BY <1>4, <1>7, <2>1, <2>2, <2>3 DEF Apart
  <2> QED
    BY <1>2, <1>4, <1>7, <2>3, <2>4, <2>5, <2>6
    DEF Contents, StoredOK, PendingOK, New
<1>9. CASE ~ processing_timeouts
  <2>1. timeouts' = InsertTimeout(timeouts, e)
        /\ pending_timeout_additions' = pending_timeout_additions
    BY <1>3, <1>9
  <2>2. /\ \A j \in 1..Len(timeouts') :
             timeouts'[j] = e \/ \E m \in 1..Len(timeouts) : timeouts'[j] = timeouts[m]
        /\ Distinct(timeouts) /\ (\A j \in 1..Len(timeouts) : timeouts[j].handle # e.handle)
             => Distinct(timeouts')
    BY <1>1, <2>1, Vectors, InsertContents
  <2>3. Distinct(timeouts')
    BY <1>4, <1>7, <2>2
  <2>4. \A j \in 1..Len(timeouts') : New(timeouts'[j])
    BY <1>4, <1>5, <2>2
  <2>5. Apart'
    BY <1>4, <1>7, <2>1, <2>2 DEF Apart
  <2> QED
    BY <1>2, <1>4, <1>7, <2>1, <2>3, <2>4, <2>5
    DEF Contents, StoredOK, PendingOK, New
<1> QED
  BY <1>8, <1>9

\* remove_timeout leaves no entry of the handle that is not marked.
LEMMA RemoveContents ==
  ASSUME TimeAssumption, HandlesAssumption, Inv, Contents,
         NEW h \in Handles, RemoveTimeout(h)
  PROVE  Contents'
<1> DEFINE New(x) == EntryOK(x, next_id', requested', cancelled')
<1>1. /\ UNCHANGED <<next_id, requested>> /\ cancelled' = cancelled \cup {h}
      /\ h < next_id
  BY DEF RemoveTimeout
<1>2. \A x \in Entry : EntryOK(x, next_id, requested, cancelled) /\ x.handle # h
                        => New(x)
  BY <1>1 DEF EntryOK
<1>3. \A g \in cancelled' : g < next_id'
  BY <1>1 DEF Contents
<1>4. /\ Distinct(timeouts) /\ Distinct(pending_timeout_additions) /\ Apart
      /\ \A j \in 1..Len(timeouts) :
           EntryOK(timeouts[j], next_id, requested, cancelled)
      /\ \A j \in 1..Len(pending_timeout_additions) :
           /\ EntryOK(pending_timeout_additions[j], next_id, requested, cancelled)
           /\ ~ pending_timeout_additions[j].remove
  BY DEF Contents, StoredOK, PendingOK
<1>5. /\ timeouts \in Seq(Entry) /\ pending_timeout_additions \in Seq(Entry)
      /\ \A j \in 1..Len(timeouts) : timeouts[j] \in Entry
      /\ \A j \in 1..Len(pending_timeout_additions) : pending_timeout_additions[j] \in Entry
      /\ DOMAIN timeouts = 1..Len(timeouts)
      /\ DOMAIN pending_timeout_additions = 1..Len(pending_timeout_additions)
  BY Vectors, LenProperties
<1> HIDE DEF New
<1>6. CASE h \in HandlesOf(timeouts)
  <2> DEFINE k == IndexOf(timeouts, h)
  <2>1. k \in 1..Len(timeouts) /\ timeouts[k].handle = h
    BY <1>5, <1>6, IndexInDomain
  <2>2. RemoveStored(k) /\ pending_timeout_additions' = pending_timeout_additions
    BY <1>6 DEF RemoveTimeout
  <2> HIDE DEF k
  <2>3. \A j \in 1..Len(timeouts) : j # k => timeouts[j].handle # h /\ New(timeouts[j])
    BY <1>2, <1>4, <1>5, <2>1 DEF Distinct
  <2>4. \A j \in 1..Len(pending_timeout_additions) : New(pending_timeout_additions[j])
    BY <1>2, <1>4, <1>5, <2>1 DEF Apart
  <2>5. CASE processing_timeouts
    <3> DEFINE m == [timeouts[k] EXCEPT !.remove = TRUE]
    <3>1. timeouts' = [timeouts EXCEPT ![k] = m]
      BY <2>2, <2>5 DEF RemoveStored
    <3>2. /\ m \in Entry /\ m.handle = timeouts[k].handle
          /\ m.timeout = timeouts[k].timeout /\ m.remove = TRUE
      BY <1>5, <2>1 DEF Entry
    <3> HIDE DEF m
    <3>3. /\ Len(timeouts') = Len(timeouts)
          /\ \A j \in 1..Len(timeouts) : timeouts'[j] = IF j = k THEN m ELSE timeouts[j]
      BY <1>5, <2>1, <3>1, <3>2, ExceptSeq
    <3>4. New(m)
      BY <1>1, <1>4, <2>1, <3>2 DEF New, EntryOK
    <3>5. \A j \in 1..Len(timeouts) : timeouts'[j].handle = timeouts[j].handle
      BY <3>2, <3>3
    <3>6. Distinct(timeouts') /\ Apart'
      BY <1>4, <2>2, <3>3, <3>5 DEF Distinct, Apart
    <3>7. \A j \in 1..Len(timeouts') : New(timeouts'[j])
      BY <2>3, <3>3, <3>4
    <3> QED
      BY <1>3, <1>4, <2>2, <2>4, <3>6, <3>7 DEF Contents, StoredOK, PendingOK, New
  <2>6. CASE ~ processing_timeouts
    <3>1. timeouts' = RemoveAt(timeouts, k)
      BY <2>2, <2>6 DEF RemoveStored
    <3>2. /\ timeouts' \in Seq(Entry) /\ Thinned(timeouts', timeouts)
          /\ \A j \in 1..Len(timeouts') :
               \E m \in 1..Len(timeouts) : m # k /\ timeouts'[j] = timeouts[m]
      BY <1>5, <2>1, <3>1, RemoveThins
    <3>3. Distinct(timeouts')
      BY <1>4, <1>5, <3>2, ThinnedKeeps
    <3>4. \A j \in 1..Len(timeouts') : New(timeouts'[j])
      BY <2>3, <3>2
    <3>5. Apart'
      BY <1>4, <2>2, <3>2 DEF Apart
    <3> QED
      BY <1>3, <1>4, <2>2, <2>4, <3>3, <3>4, <3>5 DEF Contents, StoredOK, PendingOK, New
  <2> QED
    BY <2>5, <2>6
<1>7. CASE h \notin HandlesOf(timeouts)
  <2>1. timeouts' = timeouts
    BY <1>7 DEF RemoveTimeout
  <2>2. \A j \in 1..Len(timeouts) : New(timeouts[j])
    BY <1>2, <1>4, <1>5, <1>7 DEF HandlesOf
  <2>3. CASE h \in HandlesOf(pending_timeout_additions)
    <3> DEFINE k == IndexOf(pending_timeout_additions, h)
    <3>1. k \in 1..Len(pending_timeout_additions) /\ pending_timeout_additions[k].handle = h
      BY <1>5, <2>3, IndexInDomain
    <3>2. pending_timeout_additions' = RemoveAt(pending_timeout_additions, k)
      BY <1>7, <2>3 DEF RemoveTimeout, RemovePending
    <3> HIDE DEF k
    <3>3. /\ pending_timeout_additions' \in Seq(Entry)
          /\ Thinned(pending_timeout_additions', pending_timeout_additions)
          /\ \A j \in 1..Len(pending_timeout_additions') :
               \E m \in 1..Len(pending_timeout_additions) :
                 m # k /\ pending_timeout_additions'[j] = pending_timeout_additions[m]
      BY <1>5, <3>1, <3>2, RemoveThins
    <3>4. Distinct(pending_timeout_additions')
      BY <1>4, <1>5, <3>3, ThinnedKeeps
    <3>5. \A m \in 1..Len(pending_timeout_additions) :
            m # k => /\ New(pending_timeout_additions[m])
                     /\ ~ pending_timeout_additions[m].remove
      BY <1>2, <1>4, <1>5, <3>1 DEF Distinct
    <3>6. \A j \in 1..Len(pending_timeout_additions') :
            /\ New(pending_timeout_additions'[j])
            /\ ~ pending_timeout_additions'[j].remove
      BY <3>3, <3>5
    <3>7. Apart'
      BY <1>4, <2>1, <3>3 DEF Apart
    <3> QED
      BY <1>3, <1>4, <2>1, <2>2, <3>4, <3>6, <3>7 DEF Contents, StoredOK, PendingOK, New
  <2>4. CASE h \notin HandlesOf(pending_timeout_additions)
    <3>1. pending_timeout_additions' = pending_timeout_additions
      BY <1>7, <2>4 DEF RemoveTimeout
    <3>2. \A j \in 1..Len(pending_timeout_additions) : New(pending_timeout_additions[j])
      BY <1>2, <1>4, <1>5, <2>4 DEF HandlesOf
    <3> QED
      BY <1>3, <1>4, <2>1, <2>2, <3>1, <3>2 DEF Contents, StoredOK, PendingOK, Apart, New
  <2> QED
    BY <2>3, <2>4
<1> QED
  BY <1>6, <1>7

LEMMA MergeContents ==
  ASSUME TimeAssumption, HandlesAssumption, Inv, Contents, MergePending
  PROVE  Contents'
<1> DEFINE e == Head(pending_timeout_additions)
<1>1. /\ UNCHANGED <<next_id, requested, cancelled>>
      /\ pending_timeout_additions # <<>>
      /\ timeouts' = InsertTimeout(timeouts, e)
      /\ pending_timeout_additions' = Tail(pending_timeout_additions)
  BY DEF MergePending, history
<1>2. /\ 1 \in 1..Len(pending_timeout_additions) /\ e \in Entry
      /\ e = pending_timeout_additions[1] /\ Len(pending_timeout_additions) \in Nat
  BY <1>1, Vectors, FirstEntry
<1> HIDE DEF e
<1>3. /\ pending_timeout_additions' \in Seq(Entry)
      /\ Thinned(pending_timeout_additions', pending_timeout_additions)
      /\ \A j \in 1..Len(pending_timeout_additions') :
           \E m \in 1..Len(pending_timeout_additions) :
             m > 1 /\ pending_timeout_additions'[j] = pending_timeout_additions[m]
  BY <1>1, Vectors, TailThins
<1>4. /\ Distinct(timeouts) /\ Distinct(pending_timeout_additions) /\ Apart
      /\ \A j \in 1..Len(timeouts) :
           EntryOK(timeouts[j], next_id, requested, cancelled)
      /\ \A j \in 1..Len(pending_timeout_additions) :
           /\ EntryOK(pending_timeout_additions[j], next_id, requested, cancelled)
           /\ ~ pending_timeout_additions[j].remove
  BY DEF Contents, StoredOK, PendingOK
<1>5. \A j \in 1..Len(timeouts) : timeouts[j].handle # e.handle
  BY <1>2, <1>4 DEF Apart
<1>6. /\ \A j \in 1..Len(timeouts') :
           timeouts'[j] = e \/ \E m \in 1..Len(timeouts) : timeouts'[j] = timeouts[m]
      /\ Distinct(timeouts) /\ (\A j \in 1..Len(timeouts) : timeouts[j].handle # e.handle)
           => Distinct(timeouts')
  BY <1>1, <1>2, Vectors, InsertContents
<1>7. StoredOK'
  <2>1. \A j \in 1..Len(timeouts') :
          EntryOK(timeouts'[j], next_id, requested, cancelled)
    BY <1>2, <1>4, <1>6
  <2> QED
    BY <1>1, <1>4, <1>5, <1>6, <2>1 DEF StoredOK
<1>8. PendingOK'
  <2>1. Distinct(pending_timeout_additions')
    BY <1>3, <1>4, Vectors, ThinnedKeeps
  <2> QED
    BY <1>1, <1>3, <1>4, <2>1 DEF PendingOK
<1>9. Apart'
  <2>1. \A m \in 1..Len(pending_timeout_additions) :
          m > 1 => pending_timeout_additions[m].handle # e.handle
    BY <1>2, <1>4 DEF Distinct
  <2> QED
    BY <1>3, <1>4, <1>6, <2>1 DEF Apart
<1>10. \A h \in cancelled' : h < next_id'
  BY <1>1 DEF Contents
<1> QED
  BY <1>7, <1>8, <1>9, <1>10 DEF Contents

\* The end of a pass erases the first entries.
LEMMA EndPassCuts ==
  ASSUME TimeAssumption, HandlesAssumption, Inv, StopAtUnexpired \/ StopAtEnd
  PROVE  /\ Thinned(timeouts', timeouts) /\ timeouts' \in Seq(Entry)
         /\ \A j \in 1..Len(timeouts') :
              \E m \in 1..Len(timeouts) : m > i /\ timeouts'[j] = timeouts[m]
         /\ pc = "scan" /\ pc' = "sweep"
         /\ UNCHANGED <<now, pending_timeout_additions, next_id, started, requested,
                        fired, cancelled, thrown>>
<1>0. timeouts \in Seq(Entry) /\ Len(timeouts) \in Nat
  BY Vectors
<1>1. PICK n \in 0..Len(timeouts) :
        n >= i /\ timeouts' = SubSeq(timeouts, n + 1, Len(timeouts))
  <2>1. CASE StopAtUnexpired
    <3>1. i + 1 \in 0..Len(timeouts) /\ i + 1 >= i
      BY <1>0, <2>1 DEF StopAtUnexpired, Scanning, Inv, TypeOK
    <3> QED
      BY <2>1, <3>1 DEF StopAtUnexpired, EndPass
  <2>2. CASE StopAtEnd
    <3>1. i \in 0..Len(timeouts) /\ i >= i
      BY <1>0, <2>2 DEF StopAtEnd, Scanning, Inv, TypeOK
    <3> QED
      BY <2>2, <3>1 DEF StopAtEnd, EndPass
  <2> QED
    BY <2>1, <2>2
<1>2. i \in Nat
  BY <1>0 DEF Inv, TypeOK
<1>3. /\ Thinned(timeouts', timeouts) /\ timeouts' \in Seq(Entry)
      /\ \A j \in 1..Len(timeouts') :
           \E m \in 1..Len(timeouts) : m > n /\ timeouts'[j] = timeouts[m]
  BY <1>0, <1>1, CutThins
<1>4. \A m \in 1..Len(timeouts) : m > n => m > i
  BY <1>0, <1>1, <1>2
<1>5. /\ pc = "scan" /\ pc' = "sweep"
      /\ UNCHANGED <<now, pending_timeout_additions, next_id, started, requested,
                     fired, cancelled, thrown>>
  BY DEF StopAtUnexpired, StopAtEnd, EndPass, Scanning, history
<1> QED
  BY <1>3, <1>4, <1>5

\* The sweep erases one entry.
LEMMA EraseThins ==
  ASSUME TimeAssumption, HandlesAssumption, Inv, EraseMarked
  PROVE  timeouts' \in Seq(Entry) /\ Thinned(timeouts', timeouts)
<1>1. timeouts \in Seq(Entry) /\ DOMAIN timeouts = 1..Len(timeouts)
  BY EntryTypes DEF Inv, TypeOK
<1>2. PICK k \in 1..Len(timeouts) : timeouts' = RemoveAt(timeouts, k)
  BY <1>1 DEF EraseMarked, Marked
<1> QED
  BY <1>1, <1>2, RemoveThins

LEMMA StepContents == Inv /\ Contents /\ [Next]_vars => Contents'
<1> SUFFICES ASSUME Inv, Contents, [Next]_vars
             PROVE  Contents'
  OBVIOUS
<1> USE TimeAssumption, HandlesAssumption
<1>1. CASE \/ UNCHANGED vars \/ Tick \/ EpollWait \/ BatchAbandoned
           \/ CallProcessTimeouts \/ ReadTimer \/ SkipRemoved \/ FireTimeout
           \/ CallbackReturns \/ CallbackThrows \/ EraseDone \/ RearmTimer
  <2>1. UNCHANGED <<timeouts, pending_timeout_additions, next_id, requested, cancelled>>
    BY <1>1 DEF vars, loopvars, history, Tick, EpollWait, BatchAbandoned,
                CallProcessTimeouts, ReadTimer, SkipRemoved, FireTimeout,
                CallbackReturns, CallbackThrows, EraseDone, RearmTimer
  <2> QED
    BY <2>1 DEF Contents, StoredOK, PendingOK, Apart
<1>2. ASSUME NEW t \in Instants, AddTimeout(t)
      PROVE  Contents'
  BY <1>2, AddContents
<1>3. ASSUME NEW h \in Handles, RemoveTimeout(h)
      PROVE  Contents'
  BY <1>3, RemoveContents
<1>4. CASE StopAtUnexpired \/ StopAtEnd \/ EraseMarked
  <2>1. /\ timeouts' \in Seq(Entry) /\ Thinned(timeouts', timeouts)
        /\ UNCHANGED <<pending_timeout_additions, next_id, requested, cancelled>>
    BY <1>4, EndPassCuts, EraseThins DEF EraseMarked, history
  <2>2. Distinct(timeouts')
    BY <2>1, Vectors, ThinnedKeeps DEF Contents, StoredOK
  <2>3. Distinct(pending_timeout_additions')
    BY <2>1 DEF Contents, PendingOK
  <2>4. \A j \in 1..Len(timeouts') :
          \E m \in 1..Len(timeouts) : timeouts'[j] = timeouts[m]
    BY <2>1 DEF Thinned
  <2> QED
    BY <2>1, <2>2, <2>3, <2>4, ThinnedContents
<1>5. CASE MergePending
  BY <1>5, MergeContents
<1> QED
  BY <1>1, <1>2, <1>3, <1>4, <1>5 DEF Next, LoopStep

-----------------------------------------------------------------------------
(* What a pass has done.  Until a callback throws, an entry whose callback *)
(* was called is one that the pass at hand has walked past, and the end of *)
(* the pass erases it.                                                     *)

ScanInv ==
  /\ started <= now
  /\ pc = "scan" => \A k \in 1..i : \/ timeouts[k].remove
                                     \/ timeouts[k].handle \in ToSet(fired)

FiredInv ==
  /\ \A m \in 1..Len(fired) : fired[m] < next_id
  /\ ~ thrown =>
       /\ \A j, k \in 1..Len(fired) : fired[j] = fired[k] => j = k
       /\ \A m \in 1..Len(fired) :
            /\ \A k \in 1..Len(pending_timeout_additions) :
                 pending_timeout_additions[k].handle # fired[m]
            /\ \A k \in 1..Len(timeouts) :
                 timeouts[k].handle = fired[m] => pc = "scan" /\ k <= i

Full == Inv /\ Contents /\ ScanInv /\ FiredInv

LEMMA FiredTypes ==
  ASSUME HandlesAssumption, Inv
  PROVE  /\ fired \in Seq(Handles) /\ Len(fired) \in Nat
         /\ DOMAIN fired = 1..Len(fired)
         /\ \A m \in 1..Len(fired) : fired[m] \in Nat
         /\ next_id \in Nat
         /\ now \in Nat /\ started \in Nat
<1>1. fired \in Seq(Handles)
  BY DEF Inv, TypeOK
<1>2. \A m \in 1..Len(fired) : fired[m] \in Handles
  BY <1>1, ElementOfSeq
<1>3. \A h \in Handles : h \in Nat
  BY DEF Handles, HandlesAssumption
<1> QED
  BY <1>1, <1>2, <1>3, LenProperties DEF Inv, TypeOK, Instants, HandlesAssumption

LEMMA InitFired == Init => ScanInv /\ FiredInv
BY EmptySeq DEF Init, ScanInv, FiredInv

LEMMA FireStep ==
  ASSUME TimeAssumption, HandlesAssumption, Full, FireTimeout
  PROVE  ScanInv' /\ FiredInv'
<1> DEFINE h == timeouts[i + 1].handle
<1>1. /\ pc = "scan" /\ i' = i + 1 /\ fired' = Append(fired, h)
      /\ i \in Nat /\ i + 1 \in 1..Len(timeouts)
      /\ UNCHANGED <<timeouts, pending_timeout_additions, next_id, now, started, pc, thrown>>
  BY Vectors DEF FireTimeout, Scanning, Full, Inv, TypeOK
<1>2. h \in Handles /\ h < next_id
  BY <1>1, Vectors DEF Full, Contents, StoredOK, EntryOK, Entry
<1> HIDE DEF h
<1>3. /\ Len(fired') = Len(fired) + 1 /\ fired'[Len(fired) + 1] = h
      /\ \A m \in 1..Len(fired) : fired'[m] = fired[m]
      /\ DOMAIN fired' = 1..(Len(fired) + 1)
  BY <1>1, <1>2, FiredTypes, AppendProperties, LenProperties DEF Full
<1>4. /\ \A m \in 1..Len(fired') : m \in 1..Len(fired) \/ m = Len(fired) + 1
      /\ \A m \in 1..Len(fired) : m \in 1..(Len(fired) + 1)
      /\ Len(fired) + 1 \in 1..(Len(fired) + 1)
  BY <1>3, FiredTypes DEF Full
<1>5. ScanInv'
  <2>1. ASSUME NEW k \in 1..i'
        PROVE  timeouts'[k].remove \/ timeouts'[k].handle \in ToSet(fired')
    <3>1. k \in 1..i \/ k = i + 1
      BY <1>1
    <3>2. ToSet(fired) \subseteq ToSet(fired')
      BY <1>3, <1>4, FiredTypes DEF ToSet, Full
    <3>3. h \in ToSet(fired')
      BY <1>3, <1>4 DEF ToSet
    <3> QED
      BY <1>1, <3>1, <3>2, <3>3 DEF Full, ScanInv, h
  <2> QED
    BY <1>1, <2>1 DEF Full, ScanInv
<1>6. \A m \in 1..Len(fired') : fired'[m] < next_id'
  BY <1>1, <1>2, <1>3, <1>4 DEF Full, FiredInv
<1>7. ASSUME ~ thrown'
      PROVE  /\ \A j, k \in 1..Len(fired') : fired'[j] = fired'[k] => j = k
             /\ \A m \in 1..Len(fired') :
                  /\ \A k \in 1..Len(pending_timeout_additions') :
                       pending_timeout_additions'[k].handle # fired'[m]
                  /\ \A k \in 1..Len(timeouts') :
                       timeouts'[k].handle = fired'[m] => pc' = "scan" /\ k <= i'
  <2>1. /\ \A j, k \in 1..Len(fired) : fired[j] = fired[k] => j = k
        /\ \A m \in 1..Len(fired) :
             /\ \A k \in 1..Len(pending_timeout_additions) :
                  pending_timeout_additions[k].handle # fired[m]
             /\ \A k \in 1..Len(timeouts) :
                  timeouts[k].handle = fired[m] => pc = "scan" /\ k <= i
    BY <1>1, <1>7 DEF Full, FiredInv
  <2>2. \A m \in 1..Len(fired) : fired[m] # h
    <3>1. ~ (i + 1 <= i)
      BY <1>1
    <3> QED
      BY <1>1, <2>1, <3>1 DEF h
  <2>3. \A j, k \in 1..Len(fired') : fired'[j] = fired'[k] => j = k
    BY <1>3, <1>4, <2>1, <2>2
  <2>4. \A m \in 1..Len(fired'), k \in 1..Len(pending_timeout_additions) :
          pending_timeout_additions[k].handle # fired'[m]
    <3>1. \A k \in 1..Len(pending_timeout_additions) : pending_timeout_additions[k].handle # h
      BY <1>1 DEF Full, Contents, Apart, h
    <3> QED
      BY <1>3, <1>4, <2>1, <3>1
  <2>5. ASSUME NEW m \in 1..Len(fired'), NEW k \in 1..Len(timeouts),
               timeouts[k].handle = fired'[m]
        PROVE  k <= i + 1
    <3>1. CASE m \in 1..Len(fired)
      <4>1. k <= i
        BY <1>3, <2>1, <2>5, <3>1
      <4> QED
        BY <1>1, <4>1
    <3>2. CASE m = Len(fired) + 1
      <4>1. k = i + 1
        BY <1>1, <1>3, <2>5, <3>2 DEF Full, Contents, StoredOK, Distinct, h
      <4> QED
        BY <1>1, <4>1
    <3> QED
      BY <1>4, <3>1, <3>2
  <2> QED
    BY <1>1, <2>3, <2>4, <2>5
<1> QED
  BY <1>5, <1>6, <1>7 DEF FiredInv

\* Steps between passes that give the vectors no handle but a new one.
LEMMA FiredStays ==
  ASSUME FiredInv, UNCHANGED <<fired, thrown>>, next_id' >= next_id,
         HandlesAssumption, Inv, next_id' \in Nat,
         \A k \in 1..Len(pending_timeout_additions') :
           \/ pending_timeout_additions'[k].handle = next_id
           \/ \E m \in 1..Len(pending_timeout_additions) :
                pending_timeout_additions'[k].handle = pending_timeout_additions[m].handle,
         \A k \in 1..Len(timeouts') :
           \/ timeouts'[k].handle = next_id
           \/ \E m \in 1..Len(pending_timeout_additions) :
                timeouts'[k].handle = pending_timeout_additions[m].handle
           \/ \E m \in 1..Len(timeouts) :
                /\ timeouts'[k].handle = timeouts[m].handle
                /\ pc = "scan" /\ m <= i => pc' = "scan" /\ k <= i'
  PROVE  FiredInv'
<1>1. \A m \in 1..Len(fired) : fired[m] < next_id' /\ fired[m] # next_id
  BY FiredTypes DEF FiredInv
<1>2. ASSUME ~ thrown, NEW m \in 1..Len(fired)
      PROVE  /\ \A k \in 1..Len(pending_timeout_additions') :
                  pending_timeout_additions'[k].handle # fired[m]
             /\ \A k \in 1..Len(timeouts') :
                  timeouts'[k].handle = fired[m] => pc' = "scan" /\ k <= i'
  BY <1>1, <1>2 DEF FiredInv
<1> QED
  BY <1>1, <1>2 DEF FiredInv

LEMMA AddFired ==
  ASSUME TimeAssumption, HandlesAssumption, Full, NEW t \in Instants, AddTimeout(t)
  PROVE  ScanInv' /\ FiredInv'
<1> DEFINE e == [handle |-> next_id, timeout |-> t, remove |-> FALSE]
<1>1. e \in Entry /\ e.handle = next_id
  BY HandlesAssumption DEF AddTimeout, Full, Inv, TypeOK, Entry, Handles
<1>2. /\ UNCHANGED <<fired, thrown, pc, i, started, now>>
      /\ next_id \in Nat /\ next_id' \in Nat /\ next_id' >= next_id
  BY FiredTypes DEF AddTimeout, loopvars, Full
<1>3. CASE processing_timeouts
  <2>1. /\ pending_timeout_additions' = Append(pending_timeout_additions, e)
        /\ timeouts' = timeouts
    BY <1>3 DEF AddTimeout
  <2> HIDE DEF e
  <2>2. \A k \in 1..Len(pending_timeout_additions') :
          \/ pending_timeout_additions'[k] = e
          \/ k \in 1..Len(pending_timeout_additions)
             /\ pending_timeout_additions'[k] = pending_timeout_additions[k]
    <3>1. /\ pending_timeout_additions \in Seq(Entry)
          /\ Len(pending_timeout_additions) \in Nat
      BY Vectors DEF Full
    <3>2. /\ Len(pending_timeout_additions') = Len(pending_timeout_additions) + 1
          /\ pending_timeout_additions'[Len(pending_timeout_additions) + 1] = e
          /\ \A j \in 1..Len(pending_timeout_additions) :
               pending_timeout_additions'[j] = pending_timeout_additions[j]
      BY <1>1, <2>1, <3>1, AppendProperties
    <3> QED
      BY <3>1, <3>2
  <2>3. FiredInv'
    BY <1>1, <1>2, <2>1, <2>2, FiredStays DEF Full
  <2> QED
    BY <1>2, <2>1, <2>3 DEF Full, ScanInv
<1>4. CASE ~ processing_timeouts
  <2>1. /\ timeouts' = InsertTimeout(timeouts, e) /\ pc # "scan"
        /\ pending_timeout_additions' = pending_timeout_additions
    BY <1>4 DEF AddTimeout, StoreTimeout, Full, Inv, PassInv
  <2> HIDE DEF e
  <2>2. \A j \in 1..Len(timeouts') :
          timeouts'[j] = e \/ \E m \in 1..Len(timeouts) : timeouts'[j] = timeouts[m]
    BY <1>1, <2>1, Vectors, InsertContents DEF Full
  <2>3. FiredInv'
    BY <1>1, <1>2, <2>1, <2>2, FiredStays DEF Full
  <2> QED
    BY <1>2, <2>1, <2>3 DEF Full, ScanInv
<1> QED
  BY <1>3, <1>4

LEMMA RemoveFired ==
  ASSUME TimeAssumption, HandlesAssumption, Full, NEW h \in Handles, RemoveTimeout(h)
  PROVE  ScanInv' /\ FiredInv'
<1>1. /\ UNCHANGED <<fired, thrown, pc, i, started, now, next_id>>
      /\ next_id \in Nat /\ next_id' >= next_id /\ i \in Nat
  BY FiredTypes, Vectors DEF RemoveTimeout, loopvars, Full, Inv, TypeOK
<1>2. /\ timeouts \in Seq(Entry) /\ pending_timeout_additions \in Seq(Entry)
      /\ Len(timeouts) \in Nat
      /\ \A j \in 1..Len(timeouts) : timeouts[j] \in Entry
  BY Vectors DEF Full
<1>3. \A j \in 1..Len(pending_timeout_additions') :
         \E m \in 1..Len(pending_timeout_additions) :
           pending_timeout_additions'[j] = pending_timeout_additions[m]
  <2>1. CASE pending_timeout_additions' = pending_timeout_additions
    BY <2>1
  <2>2. CASE pending_timeout_additions' # pending_timeout_additions
    <3>1. /\ h \in HandlesOf(pending_timeout_additions)
          /\ pending_timeout_additions'
               = RemoveAt(pending_timeout_additions, IndexOf(pending_timeout_additions, h))
      BY <2>2 DEF RemoveTimeout, RemovePending
    <3>2. IndexOf(pending_timeout_additions, h) \in 1..Len(pending_timeout_additions)
      BY <1>2, <3>1, IndexInDomain
    <3> QED
      BY <1>2, <3>1, <3>2, RemoveThins
  <2> QED
    BY <2>1, <2>2
<1>4. CASE timeouts' = timeouts
  <2>1. FiredInv'
    BY <1>1, <1>3, <1>4, FiredStays DEF Full
  <2> QED
    BY <1>1, <1>4, <2>1 DEF Full, ScanInv
<1>5. CASE timeouts' # timeouts
  <2> DEFINE k == IndexOf(timeouts, h)
  <2>1. h \in HandlesOf(timeouts) /\ RemoveStored(k)
    BY <1>5 DEF RemoveTimeout
  <2>2. k \in 1..Len(timeouts)
    BY <1>2, <2>1, IndexInDomain
  <2> HIDE DEF k
  <2>3. CASE processing_timeouts
    <3> DEFINE m == [timeouts[k] EXCEPT !.remove = TRUE]
    <3>1. timeouts' = [timeouts EXCEPT ![k] = m]
      BY <2>1, <2>3 DEF RemoveStored
    <3>2. m \in Entry /\ m.handle = timeouts[k].handle /\ m.remove = TRUE
      BY <1>2, <2>2 DEF Entry
    <3> HIDE DEF m
    <3>3. /\ Len(timeouts') = Len(timeouts)
          /\ \A j \in 1..Len(timeouts) : timeouts'[j] = IF j = k THEN m ELSE timeouts[j]
      BY <1>2, <2>2, <3>1, <3>2, ExceptSeq
    <3>4. \A j \in 1..Len(timeouts) : /\ timeouts'[j].handle = timeouts[j].handle
                                      /\ timeouts[j].remove => timeouts'[j].remove
      BY <3>2, <3>3
    <3>5. FiredInv'
      BY <1>1, <1>3, <3>3, <3>4, FiredStays DEF Full
    <3>6. ScanInv'
      <4>1. pc = "scan" => \A j \in 1..i : j \in 1..Len(timeouts)
        BY <1>2 DEF Full, Inv, TypeOK
      <4> QED
        BY <1>1, <3>4, <4>1 DEF Full, ScanInv
    <3> QED
      BY <3>5, <3>6
  <2>4. CASE ~ processing_timeouts
    <3>1. timeouts' = RemoveAt(timeouts, k) /\ pc # "scan"
      BY <2>1, <2>4 DEF RemoveStored, Full, Inv, PassInv
    <3>2. \A j \in 1..Len(timeouts') :
            \E m \in 1..Len(timeouts) : timeouts'[j] = timeouts[m]
      <4>1. Thinned(timeouts', timeouts)
        BY <1>2, <2>2, <3>1, RemoveThins
      <4> QED
        BY <4>1 DEF Thinned
    <3>3. FiredInv'
      BY <1>1, <1>3, <3>1, <3>2, FiredStays DEF Full
    <3> QED
      BY <1>1, <3>1, <3>3 DEF Full, ScanInv
  <2> QED
    BY <2>3, <2>4
<1> QED
  BY <1>4, <1>5

LEMMA StepFired == Full /\ [Next]_vars => ScanInv' /\ FiredInv'
<1> SUFFICES ASSUME Full, [Next]_vars
             PROVE  ScanInv' /\ FiredInv'
  OBVIOUS
<1> USE TimeAssumption, HandlesAssumption
<1>0. /\ next_id \in Nat /\ next_id >= next_id /\ now \in Nat /\ started \in Nat
      /\ i \in Nat /\ Len(timeouts) \in Nat
  BY FiredTypes, Vectors DEF Full, Inv, TypeOK
<1>1. CASE \/ UNCHANGED vars \/ Tick \/ EpollWait \/ BatchAbandoned
           \/ CallProcessTimeouts \/ ReadTimer \/ CallbackReturns
           \/ EraseDone \/ RearmTimer
  <2>1. /\ UNCHANGED <<timeouts, pending_timeout_additions, next_id, fired, thrown>>
        /\ pc = "scan" => pc' = "scan" /\ i' = i
        /\ pc' = "scan" => (pc = "scan" /\ i' = i) \/ i' = 0
    BY <1>1 DEF vars, loopvars, history, Tick, EpollWait, BatchAbandoned,
                CallProcessTimeouts, ReadTimer, CallbackReturns, EraseDone, RearmTimer
  <2>2. started' <= now'
    BY <1>0, <1>1 DEF vars, loopvars, Tick, EpollWait, BatchAbandoned,
                CallProcessTimeouts, ReadTimer, CallbackReturns, EraseDone, RearmTimer,
                Full, ScanInv
  <2>3. FiredInv'
    BY <1>0, <2>1, FiredStays DEF Full
  <2> QED
    BY <2>1, <2>2, <2>3 DEF Full, ScanInv
<1>2. ASSUME NEW t \in Instants, AddTimeout(t)
      PROVE  ScanInv' /\ FiredInv'
  BY <1>2, AddFired
<1>3. ASSUME NEW h \in Handles, RemoveTimeout(h)
      PROVE  ScanInv' /\ FiredInv'
  BY <1>3, RemoveFired
<1>4. CASE SkipRemoved
  <2>1. /\ UNCHANGED <<timeouts, pending_timeout_additions, next_id, fired, thrown,
                       started, now, pc>>
        /\ i' = i + 1 /\ timeouts[i + 1].remove
    BY <1>4 DEF SkipRemoved, history
  <2>2. \A k \in 1..Len(timeouts) : k <= i => k <= i'
    BY <1>0, <2>1
  <2>3. FiredInv'
    BY <1>0, <2>1, <2>2, FiredStays DEF Full
  <2>4. \A k \in 1..i' : k \in 1..i \/ k = i + 1
    BY <1>0, <2>1
  <2> QED
    BY <2>1, <2>3, <2>4 DEF Full, ScanInv
<1>5. CASE FireTimeout
  BY <1>5, FireStep
<1>6. CASE CallbackThrows
  BY <1>6 DEF CallbackThrows, Full, ScanInv, FiredInv
<1>7. CASE StopAtUnexpired \/ StopAtEnd
  <2>1. /\ \A j \in 1..Len(timeouts') :
             \E m \in 1..Len(timeouts) : m > i /\ timeouts'[j] = timeouts[m]
        /\ pc' = "sweep"
        /\ UNCHANGED <<now, pending_timeout_additions, next_id, started, fired, thrown>>
    BY <1>7, EndPassCuts DEF Full
  <2>2. \A m \in 1..Len(timeouts) : m > i => ~ (m <= i)
    BY <1>0
  <2>3. FiredInv'
    BY <1>0, <2>1, <2>2, FiredStays DEF Full
  <2> QED
    BY <2>1, <2>3 DEF Full, ScanInv
<1>8. CASE EraseMarked
  <2>1. /\ pc = "sweep"
        /\ UNCHANGED <<now, pending_timeout_additions, next_id, started, fired, thrown, pc>>
    BY <1>8 DEF EraseMarked, loopvars, history
  <2>2. \A j \in 1..Len(timeouts') :
          \E m \in 1..Len(timeouts) : timeouts'[j] = timeouts[m]
    BY <1>8, EraseThins DEF Full, Thinned
  <2>3. FiredInv'
    BY <1>0, <2>1, <2>2, FiredStays DEF Full
  <2> QED
    BY <2>1, <2>3 DEF Full, ScanInv
<1>9. CASE MergePending
  <2> DEFINE e == Head(pending_timeout_additions)
  <2>1. /\ pc = "merge" /\ pending_timeout_additions # <<>>
        /\ timeouts' = InsertTimeout(timeouts, e)
        /\ pending_timeout_additions' = Tail(pending_timeout_additions)
        /\ UNCHANGED <<now, next_id, started, fired, thrown, pc>>
    BY <1>9 DEF MergePending, loopvars, history
  <2>2. /\ 1 \in 1..Len(pending_timeout_additions) /\ e \in Entry
        /\ e = pending_timeout_additions[1]
    BY <2>1, Vectors, FirstEntry DEF Full
  <2> HIDE DEF e
  <2>3. \A j \in 1..Len(pending_timeout_additions') :
          \E m \in 1..Len(pending_timeout_additions) :
            pending_timeout_additions'[j] = pending_timeout_additions[m]
    BY <2>1, Vectors, TailThins DEF Full
  <2>4. \A j \in 1..Len(timeouts') :
          timeouts'[j] = e \/ \E m \in 1..Len(timeouts) : timeouts'[j] = timeouts[m]
    BY <2>1, <2>2, Vectors, InsertContents DEF Full
  <2>5. FiredInv'
    BY <1>0, <2>1, <2>2, <2>3, <2>4, FiredStays DEF Full
  <2> QED
    BY <2>1, <2>5 DEF Full, ScanInv
<1> QED
  BY <1>1, <1>2, <1>3, <1>4, <1>5, <1>6, <1>7, <1>8, <1>9 DEF Next, LoopStep

LEMMA FullInvariance == Spec => []Full
<1>1. Init => Full
  BY InitInv, InitContents, InitFired DEF Full
<1>2. Full /\ [Next]_vars => Full'
  BY StepInv, StepContents, StepFired DEF Full
<1> QED
  BY <1>1, <1>2, PTL DEF Spec

\* A one-shot callback is called once, however many passes and merges its
\* entry goes through, until some callback throws out of process_timeouts.
THEOREM CalledOnce == Spec => []FiresOnce
<1>1. Full => FiresOnce
  BY LenProperties DEF Full, Inv, TypeOK, FiredInv, FiresOnce
<1> QED
  BY <1>1, FullInvariance, PTL

LEMMA FiringStep ==
  ASSUME [Next]_vars, firing' # firing, firing' # NoHandle
  PROVE  FireTimeout
BY DEF Next, LoopStep, vars, loopvars, history, Tick, AddTimeout, RemoveTimeout, EpollWait,
       BatchAbandoned, CallProcessTimeouts, ReadTimer, SkipRemoved, CallbackReturns,
       CallbackThrows, StopAtUnexpired, StopAtEnd, EraseMarked, EraseDone,
       MergePending, RearmTimer

\* process_timeouts calls a callback only when its time has come, after all
\* that are due before it, and never once remove_timeout has returned for it.
THEOREM CalledWhenDue == Spec => FiresWhenDue
<1> DEFINE h == firing'
           DueCall ==
             /\ h \notin cancelled
             /\ requested[h + 1] <= now
             /\ \A j \in DOMAIN timeouts :
                  requested[timeouts[j].handle + 1] < requested[h + 1]
                    => \/ timeouts[j].remove
                       \/ timeouts[j].handle \in ToSet(fired)
<1>1. ASSUME Full, [Next]_vars, firing' # firing, firing' # NoHandle
      PROVE  DueCall
  <2> USE TimeAssumption, HandlesAssumption
  <2>1. FireTimeout
    BY <1>1, FiringStep
  <2>2. /\ pc = "scan" /\ i \in Nat /\ i + 1 \in 1..Len(timeouts)
        /\ ~ timeouts[i + 1].remove /\ timeouts[i + 1].timeout <= started
        /\ h = timeouts[i + 1].handle
    BY <1>1, <2>1, Vectors DEF FireTimeout, Scanning, Full, Inv, TypeOK
  <2> HIDE DEF h
  <2>3. /\ \A j \in 1..Len(timeouts) :
             /\ timeouts[j].timeout \in Nat
             /\ requested[timeouts[j].handle + 1] = timeouts[j].timeout
        /\ Len(timeouts) \in Nat /\ DOMAIN timeouts = 1..Len(timeouts)
        /\ now \in Nat /\ started \in Nat /\ started <= now
    BY <1>1, EntryTypes, FiredTypes
    DEF Full, Inv, TypeOK, Contents, StoredOK, EntryOK, ScanInv
  <2>4. h \notin cancelled
    BY <1>1, <2>2 DEF Full, Contents, StoredOK, EntryOK
  <2>5. requested[h + 1] = timeouts[i + 1].timeout
    BY <2>2, <2>3
  <2>6. requested[h + 1] <= now
    BY <2>2, <2>3, <2>5
  <2>7. ASSUME NEW j \in 1..Len(timeouts), timeouts[j].timeout < timeouts[i + 1].timeout
        PROVE  timeouts[j].remove \/ timeouts[j].handle \in ToSet(fired)
    <3>1. ~ (i + 1 < j) /\ j # i + 1
      BY <1>1, <2>2, <2>3, <2>7 DEF Full, Inv, Ordered
    <3>2. j \in 1..i
      BY <2>2, <2>3, <3>1
    <3> QED
      BY <1>1, <2>2, <3>2 DEF Full, ScanInv
  <2> QED
    BY <2>3, <2>4, <2>5, <2>6, <2>7
<1>2. Full /\ [Next]_vars => [firing' # firing /\ firing' # NoHandle => DueCall]_vars
  BY <1>1
<1> QED
  BY <1>2, FullInvariance, PTL DEF Spec, FiresWhenDue
=============================================================================
