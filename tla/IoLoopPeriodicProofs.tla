----------------------- MODULE IoLoopPeriodicProofs -----------------------
(***************************************************************************)
(* Proofs about IoLoopPeriodic for every clock, latency and number of      *)
(* timeouts and all periods.                                               *)
(***************************************************************************)
EXTENDS IoLoopPeriodic, TimeoutVectorProofs, FiniteSetTheorems

LEMMA EntryFields ==
  ASSUME TimeAssumption, HandlesAssumption, PeriodsAssumption, NEW e \in Entry
  PROVE  /\ e.handle \in Handles /\ e.handle \in Nat /\ e.period \in Nat
         /\ e.timeout \in Instants /\ e.timeout \in Nat
         /\ e.remove \in BOOLEAN /\ e.processed \in BOOLEAN
<1>1. /\ e.handle \in Handles /\ e.timeout \in Instants
      /\ e.period \in UNION {Periods[h] : h \in Handles}
  BY DEF Entry
<1>2. e.remove \in BOOLEAN /\ e.processed \in BOOLEAN
  BY DEF Entry
<1>3. e.period \in Nat
  BY <1>1 DEF PeriodsAssumption, Handles
<1>4. e.handle \in Nat /\ e.timeout \in Nat
  BY <1>1 DEF Handles, Instants
<1> QED
  BY <1>1, <1>2, <1>3, <1>4

LEMMA EntryTypes ==
  ASSUME TimeAssumption, HandlesAssumption, PeriodsAssumption, NEW s \in Seq(Entry)
  PROVE  /\ Timed(Entry)
         /\ Len(s) \in Nat /\ DOMAIN s = 1..Len(s)
         /\ \A j \in 1..Len(s) : s[j] \in Entry
<1>1. Len(s) \in Nat /\ DOMAIN s = 1..Len(s)
  BY LenProperties
<1>2. \A j \in 1..Len(s) : s[j] \in Entry
  BY ElementOfSeq
<1> QED
  BY <1>1, <1>2, EntryFields DEF Timed

-----------------------------------------------------------------------------
(* What the end of a pass does to the vector.                              *)

\* std::sort orders the entries, keeps handles apart and makes nothing up.
LEMMA SortedOrdersProperties ==
  ASSUME NEW S, NEW s \in Seq(S), Distinct(s), NEW r \in SortedOrders(s)
  PROVE  /\ r \in Seq(S) /\ Ordered(r) /\ Distinct(r)
         /\ \A j \in 1..Len(r) : \E m \in 1..Len(s) : r[j] = s[m]
<1> DEFINE T == ToSet(s)
<1>0. Len(s) \in Nat /\ DOMAIN s = 1..Len(s) /\ \A j \in 1..Len(s) : s[j] \in S
  BY LenProperties, ElementOfSeq
<1>1. \A x : x \in T <=> \E m \in 1..Len(s) : x = s[m]
  BY <1>0 DEF ToSet
<1>2. PICK n \in Nat : n = Cardinality(T)
  <2>1. s \in [1..Len(s) -> T]
    BY <1>0 DEF ToSet
  <2>2. s \in Surjection(1..Len(s), T)
    BY <1>1, <2>1 DEF Surjection
  <2>3. IsFiniteSet(1..Len(s))
    BY <1>0, FS_Interval
  <2>4. IsFiniteSet(T)
    BY <2>2, <2>3, FS_Surjection
  <2> QED
    BY <2>4, FS_CardinalityType
<1> HIDE DEF T
<1>3. /\ r \in [1..n -> T]
      /\ \A j, k \in 1..n : j # k => r[j] # r[k]
      /\ \A j, k \in DOMAIN r : j < k => r[j].timeout <= r[k].timeout
  BY <1>2 DEF SortedOrders, SetToSeqs, T
<1>4. r \in Seq(S) /\ Len(r) = n
  <2>1. \A j \in 1..n : r[j] \in S
    BY <1>0, <1>1, <1>3
  <2>2. r \in [1..n -> S]
    BY <1>3, <2>1
  <2>3. r \in Seq(S)
    BY <2>2, SeqDef
  <2> QED
    BY <1>3, <2>3, LenProperties
<1>5. Ordered(r)
  BY <1>3, <1>4 DEF Ordered
<1>6. \A j \in 1..Len(r) : \E m \in 1..Len(s) : r[j] = s[m]
  BY <1>1, <1>3, <1>4
<1>7. Distinct(r)
  BY <1>3, <1>4, <1>6 DEF Distinct
<1> QED
  BY <1>4, <1>5, <1>6, <1>7

\* An entry is reset if it and all before it were processed.
LEMMA ResetProcessedProperties ==
  ASSUME TimeAssumption, HandlesAssumption, PeriodsAssumption,
         NEW s \in Seq(Entry), NEW t \in Nat
  PROVE  /\ ResetProcessed(s, t) \in Seq(Entry)
         /\ Len(ResetProcessed(s, t)) = Len(s)
         /\ \A k \in 1..Len(s) :
              /\ ResetProcessed(s, t)[k].handle = s[k].handle
              /\ ResetProcessed(s, t)[k].period = s[k].period
              /\ ResetProcessed(s, t)[k].remove = s[k].remove
              /\ IF \A j \in 1..k : s[j].processed
                 THEN /\ ResetProcessed(s, t)[k].processed = FALSE
                      /\ ResetProcessed(s, t)[k].timeout = UpTo(t + s[k].period)
                 ELSE ResetProcessed(s, t)[k] = s[k]
<1> DEFINE r == ResetProcessed(s, t)
           UpToHere(k) == \A j \in 1..k : s[j].processed
<1>0. Len(s) \in Nat /\ DOMAIN s = 1..Len(s) /\ \A j \in 1..Len(s) : s[j] \in Entry
  BY EntryTypes
<1>1. \A k \in 1..Len(s) :
         r[k] = IF UpToHere(k) THEN Reset(s[k], t) ELSE s[k]
  BY <1>0 DEF ResetProcessed
<1>2. DOMAIN r = 1..Len(s)
  BY <1>0 DEF ResetProcessed
<1>2a. r = [k \in 1..Len(s) |-> r[k]]
  BY <1>0 DEF ResetProcessed
<1> HIDE DEF r, UpToHere
<1>3. ASSUME NEW e \in Entry
      PROVE  /\ Reset(e, t) \in Entry
             /\ Reset(e, t).handle = e.handle /\ Reset(e, t).period = e.period
             /\ Reset(e, t).remove = e.remove /\ Reset(e, t).processed = FALSE
             /\ Reset(e, t).timeout = UpTo(t + e.period)
  <2>1. t + e.period \in Nat
    BY EntryFields
  <2>2. UpTo(t + e.period) \in Instants
    BY <2>1, UpToBounds
  <2> QED
    BY <2>2 DEF Reset, Entry
<1>4. ASSUME NEW k \in 1..Len(s)
      PROVE  /\ r[k] \in Entry
             /\ r[k].handle = s[k].handle /\ r[k].period = s[k].period
             /\ r[k].remove = s[k].remove
             /\ IF UpToHere(k)
                THEN r[k].processed = FALSE /\ r[k].timeout = UpTo(t + s[k].period)
                ELSE r[k] = s[k]
  <2>1. s[k] \in Entry
    BY <1>0
  <2>2. CASE UpToHere(k)
    <3>1. r[k] = Reset(s[k], t)
      BY <1>1, <2>2
    <3> QED
      BY <1>3, <2>1, <2>2, <3>1
  <2>3. CASE ~ UpToHere(k)
    <3>1. r[k] = s[k]
      BY <1>1, <2>3
    <3> QED
      BY <2>1, <2>3, <3>1
  <2> QED
    BY <2>2, <2>3
<1>5. r \in [1..Len(s) -> Entry]
  BY <1>2a, <1>4
<1>6. r \in Seq(Entry) /\ Len(r) = Len(s)
  <2>1. r \in Seq(Entry)
    BY <1>0, <1>5, SeqDef
  <2> QED
    BY <1>0, <1>2, <2>1, LenProperties
<1> QED
  BY <1>4, <1>6 DEF r, UpToHere

-----------------------------------------------------------------------------
(* The inductive invariant.  Nothing is claimed about the vectors once     *)
(* undefined behaviour has ended the program, except types and order.      *)

\* The flag is set exactly during a pass, the only time callbacks run; from
\* the report of epoll_wait to the read the timer is armed or expired, and
\* from there to the end of the pass it is disarmed.
PassInv ==
  /\ processing_periodic_timeouts <=> pc = "scan"
  /\ due => pc = "loop" /\ timer # Disarmed
  /\ pc = "read" => timer # Disarmed
  /\ pc \in {"scan", "sweep", "merge"} => timer = Disarmed
  /\ started <= now

\* e is as user code asked for when n handles have been given out, and if it
\* waits to be called, its period has not passed since its last call.
EntryOK(e, n, called, removed) ==
  /\ e.handle < n
  /\ e.handle \in removed => e.remove
  /\ ~ e.processed => e.timeout >= UpTo(called[e.handle + 1] + e.period)

StoredOK ==
  /\ Distinct(periodic_timeouts)
  /\ \A j \in 1..Len(periodic_timeouts) :
       EntryOK(periodic_timeouts[j], next_id, since, cancelled)

PendingOK ==
  /\ Distinct(pending_periodic_timeout_additions)
  /\ \A j \in 1..Len(pending_periodic_timeout_additions) :
       /\ EntryOK(pending_periodic_timeout_additions[j], next_id, since, cancelled)
       /\ ~ pending_periodic_timeout_additions[j].remove
       /\ ~ pending_periodic_timeout_additions[j].processed

Apart ==
  \A j \in 1..Len(periodic_timeouts), k \in 1..Len(pending_periodic_timeout_additions) :
    periodic_timeouts[j].handle # pending_periodic_timeout_additions[k].handle

HistoryOK ==
  /\ \A h \in cancelled : h < next_id
  /\ \A j \in 1..next_id : since[j] <= now

Contents == StoredOK /\ PendingOK /\ Apart /\ HistoryOK

\* Processed entries are in the vector during a pass, in front of all others
\* but removed ones, and after a callback has thrown, when the timer is
\* disarmed; their timeouts have passed.
ProcessedPast ==
  \A k \in 1..Len(periodic_timeouts) :
    periodic_timeouts[k].processed =>
      /\ pc \notin {"read", "merge"}
      /\ timer = Disarmed
      /\ periodic_timeouts[k].timeout <= started

ProcessedInScan ==
  pc = "scan" =>
    \A k \in 1..Len(periodic_timeouts) :
      IF k <= i THEN periodic_timeouts[k].processed \/ periodic_timeouts[k].remove
                ELSE ~ periodic_timeouts[k].processed

ProcessedInSweep ==
  pc = "sweep" =>
    \A j, k \in 1..Len(periodic_timeouts) :
      j < k /\ periodic_timeouts[k].processed
        => periodic_timeouts[j].processed \/ periodic_timeouts[j].remove

ProcessedInv == ProcessedPast /\ ProcessedInScan /\ ProcessedInSweep

Basic ==
  /\ TypeOK
  /\ Ordered(periodic_timeouts)
  /\ firing # NoHandle => pc = "scan"
  /\ pc # "crashed" => PassInv

Inv == Basic /\ (pc # "crashed" => Contents /\ ProcessedInv)

Constants == TimeAssumption /\ HandlesAssumption /\ PeriodsAssumption

LEMMA ConstantsAssumed == Constants
BY TimeAssumption, HandlesAssumption, PeriodsAssumption DEF Constants

LEMMA InitInv == Init => Inv
<1> SUFFICES ASSUME Init PROVE Inv
  OBVIOUS
<1> USE TimeAssumption, HandlesAssumption DEF Init
<1>1. /\ now \in Instants /\ started \in Instants /\ next_id \in 0..MaxHandles
      /\ timer \in Instants \cup {Disarmed} /\ firing \in Handles \cup {NoHandle}
      /\ slot \in Handles \cup {NoHandle}
  BY DEF Instants
<1>2. /\ periodic_timeouts \in Seq(Entry) /\ Len(periodic_timeouts) = 0
      /\ pending_periodic_timeout_additions \in Seq(Entry)
      /\ Len(pending_periodic_timeout_additions) = 0
      /\ handed \in Seq(Handles \cup {NoHandle}) /\ Len(handed) = 0
      /\ since \in Seq(Instants) /\ Len(since) = 0
  BY EmptySeq
<1>3. processing_periodic_timeouts \in BOOLEAN /\ due \in BOOLEAN /\ thrown \in BOOLEAN
  BY Zenon
<1>4. TypeOK
  BY <1>1, <1>2, <1>3 DEF TypeOK
<1>5. PassInv /\ firing = NoHandle
  BY DEF PassInv
<1>6. Ordered(periodic_timeouts)
  BY <1>2 DEF Ordered
<1>7. Contents
  BY <1>2 DEF Contents, StoredOK, PendingOK, Apart, HistoryOK, Distinct
<1>8. ProcessedInv
  BY <1>2 DEF ProcessedInv, ProcessedPast, ProcessedInScan, ProcessedInSweep
<1> QED
  BY <1>4, <1>5, <1>6, <1>7, <1>8 DEF Inv, Basic

\* The types of what the steps work on.
LEMMA Vectors ==
  ASSUME Constants, Basic
  PROVE  /\ periodic_timeouts \in Seq(Entry)
         /\ pending_periodic_timeout_additions \in Seq(Entry)
         /\ Timed(Entry) /\ Ordered(periodic_timeouts)
         /\ Len(periodic_timeouts) \in Nat /\ DOMAIN periodic_timeouts = 1..Len(periodic_timeouts)
         /\ Len(pending_periodic_timeout_additions) \in Nat
         /\ DOMAIN pending_periodic_timeout_additions
              = 1..Len(pending_periodic_timeout_additions)
         /\ \A j \in 1..Len(periodic_timeouts) : periodic_timeouts[j] \in Entry
         /\ \A j \in 1..Len(pending_periodic_timeout_additions) :
              pending_periodic_timeout_additions[j] \in Entry
<1>1. /\ periodic_timeouts \in Seq(Entry) /\ pending_periodic_timeout_additions \in Seq(Entry)
      /\ Ordered(periodic_timeouts)
  BY DEF Basic, TypeOK
<1> QED
  BY <1>1, EntryTypes DEF Constants

LEMMA Numbers ==
  ASSUME Constants, Basic
  PROVE  /\ now \in Nat /\ started \in Nat /\ next_id \in Nat /\ i \in Nat /\ last \in Nat
         /\ now \in Instants /\ started \in Instants
         /\ timer \in Instants \cup {Disarmed} /\ Disarmed \notin Instants
         /\ since \in Seq(Instants) /\ Len(since) = next_id
         /\ \A j \in 1..next_id : since[j] \in Nat
<1>1. /\ now \in Instants /\ started \in Instants /\ next_id \in Nat /\ i \in Nat
      /\ last \in Nat /\ timer \in Instants \cup {Disarmed}
      /\ since \in Seq(Instants) /\ Len(since) = next_id
  BY DEF Basic, TypeOK, Constants, HandlesAssumption
<1>2. Instants \subseteq Nat /\ Disarmed \notin Instants
  BY DEF Instants, Disarmed, Constants, TimeAssumption
<1>3. \A j \in 1..next_id : since[j] \in Instants
  BY <1>1, ElementOfSeq
<1> QED
  BY <1>1, <1>2, <1>3

-----------------------------------------------------------------------------
(* Types, order and the course of a pass.                                  *)

\* The entry that add_periodic_timeout makes.
NewEntry(p) ==
  [handle |-> next_id, period |-> p, timeout |-> UpTo(now + p),
   remove |-> FALSE, processed |-> FALSE]

LEMMA NewEntryFields ==
  ASSUME Constants, Basic, next_id < MaxHandles, NEW p \in Periods[next_id]
  PROVE  /\ NewEntry(p) \in Entry
         /\ NewEntry(p).handle = next_id /\ NewEntry(p).period = p /\ p \in Nat
         /\ NewEntry(p).timeout = UpTo(now + p) /\ now + p \in Nat
         /\ NewEntry(p).remove = FALSE /\ NewEntry(p).processed = FALSE
         /\ NewEntry(p).timeout >= now
<1>1. next_id \in Handles
  BY Numbers DEF Handles, Constants, HandlesAssumption
<1>2. p \in UNION {Periods[h] : h \in Handles} /\ p \in Nat
  BY <1>1 DEF Handles, Constants, PeriodsAssumption
<1>3. now + p \in Nat /\ now \in Nat /\ now \in Instants
  BY <1>2, Numbers
<1>4. UpTo(now + p) \in Instants /\ UpTo(now + p) >= now
  BY <1>2, <1>3 DEF UpTo, Instants, Constants, TimeAssumption
<1> QED
  BY <1>1, <1>2, <1>3, <1>4 DEF NewEntry, Entry

\* What add_periodic_timeout does, in a pass and outside one.
LEMMA AddCases ==
  ASSUME NEW p, AddPeriodicTimeout(p)
  PROVE  /\ UserCode /\ next_id < MaxHandles /\ next_id' = next_id + 1
         /\ since' = Append(since, now)
         /\ UNCHANGED <<now, processing_periodic_timeouts, cancelled, revoked, thrown,
                        due, i, last, started>>
         /\ AddPending(NewEntry(p)) \/ AddFirst(NewEntry(p)) \/ AddStored(NewEntry(p))
<1>1. AddPending(NewEntry(p)) \/ AddFirst(NewEntry(p)) \/ AddStored(NewEntry(p))
  BY DEF AddPeriodicTimeout, NewEntry
<1>2. UNCHANGED <<due, i, last, started>>
  BY <1>1 DEF AddPending, AddFirst, AddStored, Crash, loopvars
<1> QED
  BY <1>1, <1>2 DEF AddPeriodicTimeout

LEMMA AddBasic ==
  ASSUME Constants, Inv, NEW p \in Periods[next_id], AddPeriodicTimeout(p)
  PROVE  Basic'
<1> DEFINE e == NewEntry(p)
<1>0. Basic
  BY DEF Inv
<1>1. /\ UserCode /\ next_id < MaxHandles /\ next_id' = next_id + 1
      /\ since' = Append(since, now)
      /\ UNCHANGED <<now, processing_periodic_timeouts, cancelled, revoked, thrown,
                     due, i, last, started>>
      /\ AddPending(e) \/ AddFirst(e) \/ AddStored(e)
  BY AddCases
<1>2. e \in Entry /\ e.handle = next_id /\ e.handle \in Handles /\ e.timeout \in Instants
  BY <1>0, <1>1, NewEntryFields, EntryFields DEF Constants
<1> HIDE DEF e
<1>3. /\ handed' \in Seq(Handles \cup {NoHandle}) /\ Len(handed') = next_id'
      /\ slot' \in Handles \cup {NoHandle}
  <2>1. /\ handed \in Seq(Handles \cup {NoHandle}) /\ Len(handed) = next_id
        /\ slot \in Handles \cup {NoHandle}
    BY <1>0 DEF Basic, TypeOK
  <2>2. PICK x \in Handles \cup {NoHandle} : handed' = Append(handed, x)
    BY <1>1, <1>2, <2>1 DEF AddPending, AddFirst, AddStored
  <2>3. slot' \in Handles \cup {NoHandle}
    BY <1>1, <1>2, <2>1 DEF AddPending, AddFirst, AddStored
  <2> QED
    BY <1>1, <2>1, <2>2, <2>3, AppendProperties
<1>4. since' \in Seq(Instants) /\ Len(since') = next_id'
  BY <1>0, <1>1, Numbers, AppendProperties
<1>5. next_id' \in 0..MaxHandles
  BY <1>0, <1>1, Numbers DEF Constants, HandlesAssumption
<1>6. CASE AddPending(e)
  <2>1. /\ pending_periodic_timeout_additions'
             = Append(pending_periodic_timeout_additions, e)
        /\ UNCHANGED <<periodic_timeouts, timer, pc, firing>>
    BY <1>6 DEF AddPending, loopvars
  <2>2. pending_periodic_timeout_additions' \in Seq(Entry)
    BY <1>0, <1>2, <2>1, Vectors, AppendProperties
  <2>3. TypeOK'
    BY <1>0, <1>1, <1>3, <1>4, <1>5, <2>1, <2>2 DEF Basic, TypeOK
  <2> QED
    BY <1>0, <1>1, <2>1, <2>3 DEF Basic, PassInv
<1>7. CASE AddFirst(e) \/ AddStored(e)
  <2>1. /\ ~ processing_periodic_timeouts
        /\ UNCHANGED pending_periodic_timeout_additions
        /\ UNCHANGED <<pc, firing>> \/ (pc' = "crashed" /\ firing' = NoHandle)
    BY <1>7 DEF AddFirst, AddStored, Crash, loopvars
  <2>2. pc = "loop"
    BY <1>0, <1>1, <2>1 DEF UserCode, Basic, PassInv
  <2>3. periodic_timeouts' \in Seq(Entry) /\ Ordered(periodic_timeouts')
    <3>1. CASE AddFirst(e)
      <4>1. periodic_timeouts' = <<e>>
        BY <3>1 DEF AddFirst
      <4> QED
        BY <1>2, <4>1 DEF Ordered
    <3>2. CASE AddStored(e)
      BY <1>0, <1>2, <3>2, Vectors, InsertKeepsOrder DEF AddStored
    <3> QED
      BY <1>7, <3>1, <3>2
  <2>4. timer' \in Instants \/ timer' = timer
    <3>1. CASE AddFirst(e)
      BY <1>0, <1>2, <3>1, Numbers, OneshotArms DEF AddFirst, Constants
    <3>2. CASE AddStored(e)
      <4>1. periodic_timeouts' # <<>>
        <5>1. Len(periodic_timeouts') = Len(periodic_timeouts) + 1
          BY <1>0, <1>2, <3>2, Vectors, InsertContents DEF AddStored
        <5> QED
          BY <1>0, <2>3, <5>1, Vectors, EmptySeq
      <4>2. Head(periodic_timeouts') \in Entry
        BY <2>3, <4>1, FirstEntry
      <4>3. Head(periodic_timeouts').timeout \in Instants
        BY <4>2, EntryFields DEF Constants
      <4> QED
        BY <1>0, <3>2, <4>3, Numbers, OneshotArms DEF AddStored, Constants
    <3> QED
      BY <1>7, <3>1, <3>2
  <2>5. timer' \in Instants \cup {Disarmed} /\ (timer # Disarmed => timer' # Disarmed)
    BY <1>0, <2>4, Numbers
  <2>6. TypeOK'
    BY <1>0, <1>1, <1>3, <1>4, <1>5, <2>1, <2>3, <2>5 DEF Basic, TypeOK
  <2> QED
    BY <1>0, <1>1, <2>1, <2>2, <2>3, <2>5, <2>6 DEF Basic, PassInv
<1> QED
  BY <1>1, <1>6, <1>7

\* What remove_timeout does: it erases or marks a stored entry, or erases one
\* that is not the one asked for, or finds nothing.
LEMMA RemoveCases ==
  ASSUME Constants, Basic, NEW h \in Handles, RemoveTimeout(h)
  PROVE  /\ UserCode /\ pc \in {"loop", "scan"}
         /\ UNCHANGED <<now, pending_periodic_timeout_additions,
                        processing_periodic_timeouts, next_id, timer, slot,
                        handed, since, thrown, due, i, last, started>>
         /\ UNCHANGED <<pc, firing>> \/ (pc' = "crashed" /\ firing' = NoHandle)
         /\ revoked' \subseteq revoked \cup {h}
         /\ cancelled' \subseteq cancelled \cup {h}
         /\ \/ /\ \E k \in 1..Len(periodic_timeouts) :
                    /\ periodic_timeouts[k].handle = h
                    /\ IF processing_periodic_timeouts
                       THEN periodic_timeouts' = [periodic_timeouts EXCEPT ![k].remove = TRUE]
                       ELSE periodic_timeouts' = RemoveAt(periodic_timeouts, k)
               /\ cancelled' = cancelled \cup {h}
            \/ /\ periodic_timeouts # <<>>
               /\ periodic_timeouts' = Front(periodic_timeouts)
               /\ cancelled' = cancelled
            \/ UNCHANGED <<periodic_timeouts, cancelled>>
<1>1. /\ UserCode
      /\ UNCHANGED <<now, pending_periodic_timeout_additions,
                     processing_periodic_timeouts, next_id, timer, slot,
                     handed, since, thrown>>
      /\ \/ RemoveStored(h)
         \/ RemovePending(h)
         \/ UNCHANGED <<periodic_timeouts, cancelled, revoked, loopvars>>
  BY DEF RemoveTimeout
<1>2. pc \in {"loop", "scan"}
  BY <1>1 DEF UserCode, Basic
<1>3. CASE RemoveStored(h)
  <2> DEFINE k == IndexOf(periodic_timeouts, h)
  <2>1. k \in 1..Len(periodic_timeouts) /\ periodic_timeouts[k].handle = h
    BY <1>3, Vectors, IndexInDomain DEF RemoveStored
  <2>2. IF processing_periodic_timeouts
        THEN periodic_timeouts' = [periodic_timeouts EXCEPT ![k].remove = TRUE]
        ELSE periodic_timeouts' = RemoveAt(periodic_timeouts, k)
    BY <1>3 DEF RemoveStored
  <2> HIDE DEF k
  <2>3. cancelled' = cancelled \cup {h} /\ UNCHANGED <<revoked, pc, due, i, last, started, firing>>
    BY <1>3 DEF RemoveStored, loopvars
  <2> QED
    BY <1>1, <1>2, <2>1, <2>2, <2>3
<1>4. CASE RemovePending(h)
  <2>1. /\ \/ periodic_timeouts # <<>> /\ periodic_timeouts' = Front(periodic_timeouts)
           \/ UNCHANGED periodic_timeouts
        /\ cancelled' = cancelled /\ revoked' = revoked \cup {h}
        /\ UNCHANGED <<pc, firing>> \/ (pc' = "crashed" /\ firing' = NoHandle)
        /\ UNCHANGED <<due, i, last, started>>
    BY <1>4 DEF RemovePending, Crash, loopvars
  <2> QED
    BY <1>1, <1>2, <2>1
<1>5. CASE UNCHANGED <<periodic_timeouts, cancelled, revoked, loopvars>>
  BY <1>1, <1>2, <1>5 DEF loopvars
<1> QED
  BY <1>1, <1>3, <1>4, <1>5

\* Marking an entry changes nothing else of it, and no other entry.
LEMMA MarkedEntry ==
  ASSUME Constants, Basic, NEW k \in 1..Len(periodic_timeouts),
         periodic_timeouts' = [periodic_timeouts EXCEPT ![k].remove = TRUE]
  PROVE  /\ periodic_timeouts' \in Seq(Entry)
         /\ Len(periodic_timeouts') = Len(periodic_timeouts)
         /\ periodic_timeouts'[k].remove
         /\ \A j \in 1..Len(periodic_timeouts) :
              /\ j # k => periodic_timeouts'[j] = periodic_timeouts[j]
              /\ periodic_timeouts[j].remove => periodic_timeouts'[j].remove
              /\ periodic_timeouts'[j].handle = periodic_timeouts[j].handle
              /\ periodic_timeouts'[j].period = periodic_timeouts[j].period
              /\ periodic_timeouts'[j].timeout = periodic_timeouts[j].timeout
              /\ periodic_timeouts'[j].processed = periodic_timeouts[j].processed
<1> DEFINE m == [periodic_timeouts[k] EXCEPT !.remove = TRUE]
           r == [periodic_timeouts EXCEPT ![k] = m]
<1>1. periodic_timeouts' = r
  OBVIOUS
<1>2. periodic_timeouts \in Seq(Entry) /\ periodic_timeouts[k] \in Entry
  BY Vectors
<1>3. /\ m \in Entry /\ m.handle = periodic_timeouts[k].handle
      /\ m.period = periodic_timeouts[k].period /\ m.timeout = periodic_timeouts[k].timeout
      /\ m.processed = periodic_timeouts[k].processed /\ m.remove = TRUE
  BY <1>2 DEF Entry
<1> HIDE DEF m
<1>4. /\ r \in Seq(Entry) /\ Len(r) = Len(periodic_timeouts)
      /\ \A j \in 1..Len(periodic_timeouts) :
           r[j] = IF j = k THEN m ELSE periodic_timeouts[j]
  BY <1>2, <1>3, ExceptSeq
<1> HIDE DEF r
<1> QED
  BY <1>1, <1>3, <1>4

LEMMA RemoveBasic ==
  ASSUME Constants, Inv, NEW h \in Handles, RemoveTimeout(h)
  PROVE  Basic'
<1>0. Basic
  BY DEF Inv
<1>1. /\ pc \in {"loop", "scan"}
      /\ UNCHANGED <<now, pending_periodic_timeout_additions,
                     processing_periodic_timeouts, next_id, timer, slot,
                     handed, since, thrown, due, i, last, started>>
      /\ UNCHANGED <<pc, firing>> \/ (pc' = "crashed" /\ firing' = NoHandle)
      /\ revoked' \subseteq revoked \cup {h}
      /\ cancelled' \subseteq cancelled \cup {h}
  BY <1>0, RemoveCases
<1>2. \/ \E k \in 1..Len(periodic_timeouts) :
           IF processing_periodic_timeouts
           THEN periodic_timeouts' = [periodic_timeouts EXCEPT ![k].remove = TRUE]
           ELSE periodic_timeouts' = RemoveAt(periodic_timeouts, k)
      \/ periodic_timeouts # <<>> /\ periodic_timeouts' = Front(periodic_timeouts)
      \/ UNCHANGED periodic_timeouts
  BY <1>0, RemoveCases
<1>3. periodic_timeouts' \in Seq(Entry) /\ Ordered(periodic_timeouts')
  <2>1. ASSUME NEW k \in 1..Len(periodic_timeouts),
               periodic_timeouts' = [periodic_timeouts EXCEPT ![k].remove = TRUE]
        PROVE  periodic_timeouts' \in Seq(Entry) /\ Ordered(periodic_timeouts')
    <3>1. /\ periodic_timeouts' \in Seq(Entry)
          /\ Len(periodic_timeouts') = Len(periodic_timeouts)
          /\ \A j \in 1..Len(periodic_timeouts) :
               periodic_timeouts'[j].timeout = periodic_timeouts[j].timeout
      BY <1>0, <2>1, MarkedEntry
    <3> QED
      BY <1>0, <3>1 DEF Basic, Ordered
  <2>2. ASSUME NEW k \in 1..Len(periodic_timeouts),
               periodic_timeouts' = RemoveAt(periodic_timeouts, k)
        PROVE  periodic_timeouts' \in Seq(Entry) /\ Ordered(periodic_timeouts')
    BY <1>0, <2>2, Vectors, RemoveThins, ThinnedKeeps
  <2>3. CASE periodic_timeouts # <<>> /\ periodic_timeouts' = Front(periodic_timeouts)
    BY <1>0, <2>3, Vectors, FrontThins, ThinnedKeeps
  <2>4. CASE UNCHANGED periodic_timeouts
    BY <1>0, <2>4, Vectors
  <2> QED
    BY <1>2, <2>1, <2>2, <2>3, <2>4
<1>4. TypeOK'
  <2>1. revoked' \subseteq Handles /\ cancelled' \subseteq Handles
    BY <1>0, <1>1 DEF Basic, TypeOK
  <2>2. pc' \in {"loop", "scan", "crashed"} /\ firing' \in Handles \cup {NoHandle}
    BY <1>0, <1>1 DEF Basic, TypeOK
  <2> QED
    BY <1>0, <1>1, <1>3, <2>1, <2>2 DEF Basic, TypeOK
<1> QED
  BY <1>0, <1>1, <1>3, <1>4 DEF Basic, PassInv

\* Calling a callback sets the flag of its entry, and when it was called.
LEMMA InvokedEntry ==
  ASSUME Constants, Basic, InvokeTimeout
  PROVE  /\ pc = "scan" /\ firing = NoHandle
         /\ i + 1 \in 1..Len(periodic_timeouts) /\ i < last
         /\ Current = periodic_timeouts[i + 1] /\ Current \in Entry
         /\ ~ Current.remove /\ Current.timeout <= started
         /\ firing' = Current.handle /\ i' = i + 1
         /\ UNCHANGED <<now, pending_periodic_timeout_additions,
                        processing_periodic_timeouts, next_id, timer, slot,
                        pc, due, last, started, handed, cancelled, revoked, thrown>>
         /\ periodic_timeouts' \in Seq(Entry)
         /\ Len(periodic_timeouts') = Len(periodic_timeouts)
         /\ periodic_timeouts'[i + 1].processed
         /\ \A j \in 1..Len(periodic_timeouts) :
              /\ j # i + 1 => periodic_timeouts'[j] = periodic_timeouts[j]
              /\ periodic_timeouts'[j].handle = periodic_timeouts[j].handle
              /\ periodic_timeouts'[j].remove = periodic_timeouts[j].remove
              /\ periodic_timeouts'[j].timeout = periodic_timeouts[j].timeout
<1> DEFINE k == i + 1
           m == [periodic_timeouts[k] EXCEPT !.processed = TRUE]
           r == [periodic_timeouts EXCEPT ![k] = m]
<1>1. /\ pc = "scan" /\ firing = NoHandle /\ i < last
      /\ ~ Current.remove /\ Current.timeout <= started
      /\ firing' = Current.handle /\ i' = i + 1
      /\ UNCHANGED <<now, pending_periodic_timeout_additions,
                     processing_periodic_timeouts, next_id, timer, slot,
                     pc, due, last, started, handed, cancelled, revoked, thrown>>
  BY DEF InvokeTimeout, AtEntry, Scanning
<1>2. k \in 1..Len(periodic_timeouts)
  BY Vectors, Numbers DEF InvokeTimeout, AtEntry
<1>3. Current = periodic_timeouts[k]
  BY DEF Current
<1>4. periodic_timeouts' = r
  BY DEF InvokeTimeout
<1>5. periodic_timeouts \in Seq(Entry) /\ periodic_timeouts[k] \in Entry
  BY <1>2, Vectors
<1>6. /\ m \in Entry /\ m.handle = periodic_timeouts[k].handle
      /\ m.timeout = periodic_timeouts[k].timeout
      /\ m.processed = TRUE /\ m.remove = periodic_timeouts[k].remove
  BY <1>5 DEF Entry
<1> HIDE DEF m
<1>7. /\ r \in Seq(Entry) /\ Len(r) = Len(periodic_timeouts)
      /\ \A j \in 1..Len(periodic_timeouts) :
           r[j] = IF j = k THEN m ELSE periodic_timeouts[j]
  BY <1>2, <1>5, <1>6, ExceptSeq
<1> HIDE DEF r
<1> QED
  BY <1>1, <1>2, <1>3, <1>4, <1>5, <1>6, <1>7

LEMMA InvokeBasic ==
  ASSUME Constants, Inv, InvokeTimeout
  PROVE  Basic'
<1>0. Basic /\ pc # "crashed"
  BY DEF Inv, InvokeTimeout, AtEntry, Scanning
<1>1. /\ pc = "scan" /\ i + 1 \in 1..Len(periodic_timeouts) /\ i < last
      /\ Current = periodic_timeouts[i + 1] /\ Current \in Entry
      /\ firing' = Current.handle /\ i' = i + 1
      /\ UNCHANGED <<now, pending_periodic_timeout_additions,
                     processing_periodic_timeouts, next_id, timer, slot,
                     pc, due, last, started, handed, cancelled, revoked, thrown>>
      /\ periodic_timeouts' \in Seq(Entry)
      /\ Len(periodic_timeouts') = Len(periodic_timeouts)
      /\ \A j \in 1..Len(periodic_timeouts) :
           periodic_timeouts'[j].timeout = periodic_timeouts[j].timeout
  BY <1>0, InvokedEntry
<1>2. Ordered(periodic_timeouts')
  BY <1>0, <1>1 DEF Basic, Ordered
<1>3. Current.handle \in Handles /\ Current.handle + 1 \in 1..next_id
  <2>1. Current.handle < next_id
    BY <1>0, <1>1 DEF Inv, Contents, StoredOK, EntryOK
  <2> QED
    BY <1>0, <1>1, <2>1, EntryFields, Numbers DEF Constants
<1>4. since' \in Seq(Instants) /\ Len(since') = next_id
  <2>1. since' = [since EXCEPT ![Current.handle + 1] = now]
    BY DEF InvokeTimeout
  <2> QED
    BY <1>0, <1>3, <2>1, Numbers, ExceptSeq
<1>5. i' \in Nat /\ i' <= last'
  BY <1>0, <1>1, Numbers
<1>6. TypeOK'
  BY <1>0, <1>1, <1>3, <1>4, <1>5 DEF Basic, TypeOK
<1> QED
  BY <1>0, <1>1, <1>2, <1>6 DEF Basic, PassInv

\* Steps at the end of a pass that only replace the vectors.
LEMMA ResetOrders ==
  ASSUME Constants, Inv, ResetTimeouts
  PROVE  /\ periodic_timeouts' \in Seq(Entry) /\ Ordered(periodic_timeouts')
         /\ Distinct(periodic_timeouts')
         /\ \A j \in 1..Len(periodic_timeouts') :
              \E k \in 1..Len(periodic_timeouts) :
                periodic_timeouts'[j] = ResetProcessed(periodic_timeouts, now)[k]
<1> DEFINE s == ResetProcessed(periodic_timeouts, now)
<1>0. Basic /\ now \in Nat /\ Distinct(periodic_timeouts) /\ periodic_timeouts \in Seq(Entry)
  BY Numbers, Vectors DEF Inv, ResetTimeouts, Contents, StoredOK
<1>1. /\ s \in Seq(Entry) /\ Len(s) = Len(periodic_timeouts)
      /\ \A k \in 1..Len(periodic_timeouts) : s[k].handle = periodic_timeouts[k].handle
  BY <1>0, ResetProcessedProperties DEF Constants
<1>2. periodic_timeouts' \in SortedOrders(s)
  BY DEF ResetTimeouts
<1> HIDE DEF s
<1>3. Distinct(s)
  BY <1>0, <1>1 DEF Distinct
<1>4. /\ periodic_timeouts' \in Seq(Entry) /\ Ordered(periodic_timeouts')
      /\ Distinct(periodic_timeouts')
      /\ \A j \in 1..Len(periodic_timeouts') :
           \E k \in 1..Len(s) : periodic_timeouts'[j] = s[k]
  BY <1>1, <1>2, <1>3, SortedOrdersProperties
<1> QED
  BY <1>1, <1>4 DEF s

LEMMA StepBasic == Inv /\ [Next]_vars => Basic'
<1> SUFFICES ASSUME Inv, [Next]_vars
             PROVE  Basic'
  OBVIOUS
<1>0. Constants /\ Basic
  BY ConstantsAssumed DEF Inv
<1>a. /\ periodic_timeouts \in Seq(Entry) /\ pending_periodic_timeout_additions \in Seq(Entry)
      /\ Len(periodic_timeouts) \in Nat /\ DOMAIN periodic_timeouts = 1..Len(periodic_timeouts)
      /\ now \in Nat /\ started \in Nat /\ i \in Nat /\ last \in Nat /\ next_id \in Nat
      /\ now \in Instants /\ timer \in Instants \cup {Disarmed} /\ Disarmed \notin Instants
  BY <1>0, Vectors, Numbers
<1>1. CASE UNCHANGED vars
  BY <1>0, <1>1 DEF vars, loopvars, history, Basic, TypeOK, PassInv
<1>2. CASE Tick
  <2>1. now' \in Instants /\ now <= now' /\ now' \in Nat
    BY <1>0, <1>2 DEF Tick, Basic, TypeOK, Instants, Constants, TimeAssumption
  <2>2. started <= now => started <= now'
    BY <1>a, <2>1
  <2>3. TypeOK'
    BY <1>0, <1>2, <2>1 DEF Tick, loopvars, history, Basic, TypeOK
  <2> QED
    BY <1>0, <1>2, <2>2, <2>3 DEF Tick, loopvars, history, Basic, PassInv
<1>3. ASSUME NEW p \in Periods[next_id], AddPeriodicTimeout(p)
      PROVE  Basic'
  BY <1>0, <1>3, AddBasic
<1>4. ASSUME NEW h \in Handles, RemoveTimeout(h)
      PROVE  Basic'
  BY <1>0, <1>4, RemoveBasic
<1>5. CASE EpollWait
  <2>1. timer # Disarmed
    BY <1>0, <1>a, <1>5 DEF EpollWait, Readable, Disarmed, Instants, Constants, TimeAssumption
  <2>2. due' \in BOOLEAN
    BY <1>5 DEF EpollWait
  <2>3. TypeOK'
    BY <1>0, <1>5, <2>2 DEF EpollWait, history, Basic, TypeOK
  <2> QED
    BY <1>0, <1>5, <2>1, <2>3 DEF EpollWait, Basic, PassInv
<1>6. CASE BatchAbandoned \/ CallProcessPeriodicTimeouts
  <2>1. due' \in BOOLEAN
    BY <1>6 DEF BatchAbandoned, CallProcessPeriodicTimeouts
  <2>2. TypeOK'
    BY <1>0, <1>6, <2>1 DEF BatchAbandoned, CallProcessPeriodicTimeouts, history, Basic, TypeOK
  <2> QED
    BY <1>0, <1>6, <2>2 DEF BatchAbandoned, CallProcessPeriodicTimeouts, Basic, PassInv
<1>7. CASE ReadTimer
  <2>1. processing_periodic_timeouts' \in BOOLEAN /\ i' \in Nat /\ last' \in Nat /\ i' <= last'
    BY <1>a, <1>7 DEF ReadTimer
  <2>2. started' <= now'
    BY <1>a, <1>7 DEF ReadTimer
  <2>3. TypeOK'
    BY <1>0, <1>7, <2>1 DEF ReadTimer, history, Basic, TypeOK
  <2> QED
    BY <1>0, <1>7, <2>2, <2>3 DEF ReadTimer, Basic, PassInv
<1>8. CASE SkipRemoved
  <2>1. i' \in Nat /\ i' <= last
    BY <1>a, <1>8 DEF SkipRemoved, AtEntry
  <2> QED
    BY <1>0, <1>8, <2>1 DEF SkipRemoved, history, Basic, TypeOK, PassInv
<1>9. CASE InvokeTimeout
  BY <1>0, <1>9, InvokeBasic
<1>10. CASE CallbackReturns
  BY <1>0, <1>10 DEF CallbackReturns, history, Basic, TypeOK, PassInv
<1>11. CASE CallbackThrows
  <2>1. processing_periodic_timeouts' \in BOOLEAN /\ thrown' \in BOOLEAN
    BY <1>11 DEF CallbackThrows
  <2>2. TypeOK'
    BY <1>0, <1>11, <2>1 DEF CallbackThrows, Basic, TypeOK
  <2> QED
    BY <1>0, <1>11, <2>2 DEF CallbackThrows, Basic, PassInv
<1>12. CASE StopAtUnexpired \/ StopAtEnd \/ DestroyedEntry
  <2>1. /\ UNCHANGED <<now, periodic_timeouts, pending_periodic_timeout_additions, next_id,
                       timer, slot, due, i, last, started, handed, since, cancelled,
                       revoked, thrown>>
        /\ firing' = NoHandle /\ pc = "scan" /\ firing = NoHandle
        /\ \/ pc' = "sweep" /\ processing_periodic_timeouts' = FALSE
           \/ pc' = "crashed" /\ UNCHANGED processing_periodic_timeouts
    BY <1>12 DEF StopAtUnexpired, StopAtEnd, DestroyedEntry, AtEntry, Scanning, EndPass,
                 Crash, history
  <2>2. processing_periodic_timeouts' \in BOOLEAN /\ firing' \in Handles \cup {NoHandle}
    BY <1>0, <2>1 DEF Basic, TypeOK
  <2>3. TypeOK'
    BY <1>0, <2>1, <2>2 DEF Basic, TypeOK
  <2> QED
    BY <1>0, <2>1, <2>3 DEF Basic, PassInv
<1>13. CASE EraseMarked
  <2>1. PICK k \in 1..Len(periodic_timeouts) : periodic_timeouts' = RemoveAt(periodic_timeouts, k)
    BY <1>a, <1>13 DEF EraseMarked, Marked
  <2>2. periodic_timeouts' \in Seq(Entry) /\ Ordered(periodic_timeouts')
    BY <1>0, <1>a, <2>1, RemoveThins, ThinnedKeeps DEF Basic
  <2>3. TypeOK'
    BY <1>0, <1>13, <2>2 DEF EraseMarked, loopvars, history, Basic, TypeOK
  <2> QED
    BY <1>0, <1>13, <2>2, <2>3 DEF EraseMarked, loopvars, Basic, PassInv
<1>14. CASE ResetTimeouts
  <2>1. periodic_timeouts' \in Seq(Entry) /\ Ordered(periodic_timeouts')
    BY <1>0, <1>14, ResetOrders
  <2>2. TypeOK'
    BY <1>0, <1>14, <2>1 DEF ResetTimeouts, history, Basic, TypeOK
  <2> QED
    BY <1>0, <1>14, <2>1, <2>2 DEF ResetTimeouts, Basic, PassInv
<1>15. CASE MergePending
  <2>1. /\ Head(pending_periodic_timeout_additions) \in Entry
        /\ pending_periodic_timeout_additions' \in Seq(Entry)
    BY <1>a, <1>15, HeadTailProperties DEF MergePending
  <2>2. periodic_timeouts' \in Seq(Entry) /\ Ordered(periodic_timeouts')
    BY <1>0, <1>15, <2>1, Vectors, InsertKeepsOrder DEF MergePending
  <2>3. TypeOK'
    BY <1>0, <1>15, <2>1, <2>2 DEF MergePending, loopvars, history, Basic, TypeOK
  <2> QED
    BY <1>0, <1>15, <2>2, <2>3 DEF MergePending, loopvars, Basic, PassInv
<1>16. CASE RearmTimer
  <2>1. timer' \in Instants \cup {Disarmed}
    <3>1. CASE periodic_timeouts = <<>>
      BY <1>a, <1>16, <3>1 DEF RearmTimer
    <3>2. CASE periodic_timeouts # <<>>
      <4>1. Head(periodic_timeouts) \in Entry
        BY <1>a, <3>2, FirstEntry
      <4>2. Head(periodic_timeouts).timeout \in Instants
        BY <1>0, <4>1, EntryFields DEF Constants
      <4> QED
        BY <1>0, <1>a, <1>16, <3>2, <4>2, OneshotArms DEF RearmTimer, Constants
    <3> QED
      BY <3>1, <3>2
  <2>2. TypeOK'
    BY <1>0, <1>16, <2>1 DEF RearmTimer, history, Basic, TypeOK
  <2> QED
    BY <1>0, <1>16, <2>2 DEF RearmTimer, Basic, PassInv
<1> QED
  BY <1>1, <1>2, <1>3, <1>4, <1>5, <1>6, <1>7, <1>8, <1>9, <1>10, <1>11,
     <1>12, <1>13, <1>14, <1>15, <1>16 DEF Next, LoopStep

-----------------------------------------------------------------------------
(* What the two vectors hold.                                              *)

\* Steps that only take entries out.
LEMMA ThinnedContents ==
  ASSUME Contents, HistoryOK',
         Distinct(periodic_timeouts'), Distinct(pending_periodic_timeout_additions'),
         \A j \in 1..Len(periodic_timeouts') :
           \E m \in 1..Len(periodic_timeouts) : periodic_timeouts'[j] = periodic_timeouts[m],
         \A j \in 1..Len(pending_periodic_timeout_additions') :
           \E m \in 1..Len(pending_periodic_timeout_additions) :
             pending_periodic_timeout_additions'[j] = pending_periodic_timeout_additions[m],
         UNCHANGED <<next_id, since, cancelled>>
  PROVE  Contents'
<1>1. StoredOK'
  BY DEF Contents, StoredOK, EntryOK
<1>2. PendingOK'
  BY DEF Contents, PendingOK, EntryOK
<1>3. Apart'
  <2> SUFFICES ASSUME NEW j \in 1..Len(periodic_timeouts'),
                      NEW k \in 1..Len(pending_periodic_timeout_additions')
               PROVE  periodic_timeouts'[j].handle # pending_periodic_timeout_additions'[k].handle
    BY DEF Apart
  <2>1. PICK m \in 1..Len(periodic_timeouts) : periodic_timeouts'[j] = periodic_timeouts[m]
    OBVIOUS
  <2>2. PICK n \in 1..Len(pending_periodic_timeout_additions) :
          pending_periodic_timeout_additions'[k] = pending_periodic_timeout_additions[n]
    OBVIOUS
  <2> QED
    BY <2>1, <2>2 DEF Contents, Apart
<1> QED
  BY <1>1, <1>2, <1>3 DEF Contents

\* A new timeout has a handle that nobody has, and its period lies ahead.
LEMMA NewEntryOK ==
  ASSUME Constants, Basic, Contents, NEW p \in Periods[next_id], AddPeriodicTimeout(p)
  PROVE  /\ EntryOK(NewEntry(p), next_id', since', cancelled')
         /\ \A x \in Entry :
              EntryOK(x, next_id, since, cancelled)
                => /\ EntryOK(x, next_id', since', cancelled')
                   /\ x.handle # NewEntry(p).handle
         /\ HistoryOK'
<1> DEFINE e == NewEntry(p)
<1>1. /\ next_id < MaxHandles /\ next_id' = next_id + 1
      /\ since' = Append(since, now) /\ cancelled' = cancelled /\ now' = now
  BY AddCases
<1>2. /\ e \in Entry /\ e.handle = next_id /\ e.period = p /\ p \in Nat
      /\ e.timeout = UpTo(now + p) /\ now + p \in Nat
      /\ e.remove = FALSE /\ e.processed = FALSE
  BY <1>1, NewEntryFields
<1> HIDE DEF e
<1>3. /\ next_id \in Nat /\ since \in Seq(Instants) /\ Len(since) = next_id
      /\ now \in Instants /\ now \in Nat /\ \A j \in 1..next_id : since[j] \in Nat
  BY Numbers
<1>4. /\ since'[next_id + 1] = now
      /\ \A j \in 1..next_id : since'[j] = since[j]
  BY <1>1, <1>3, AppendProperties
<1>5. next_id \notin cancelled
  BY <1>3 DEF Contents, HistoryOK
<1>6. \A h \in cancelled : h \in Nat
  BY DEF Basic, TypeOK, Handles, Constants, HandlesAssumption
<1>7. EntryOK(e, next_id', since', cancelled')
  <2>1. e.timeout >= UpTo(since'[e.handle + 1] + e.period)
    BY <1>2, <1>4, UpToBounds DEF Constants
  <2> QED
    BY <1>1, <1>2, <1>3, <1>5, <2>1 DEF EntryOK
<1>8. ASSUME NEW x \in Entry, EntryOK(x, next_id, since, cancelled)
      PROVE  EntryOK(x, next_id', since', cancelled') /\ x.handle # e.handle
  <2>1. x.handle \in Nat
    BY EntryFields DEF Constants
  <2>2. x.handle < next_id /\ x.handle + 1 \in 1..next_id
    BY <1>3, <1>8, <2>1 DEF EntryOK
  <2>3. x.handle < next_id' /\ x.handle # e.handle
    BY <1>1, <1>2, <1>3, <2>1, <2>2
  <2> QED
    BY <1>1, <1>4, <1>8, <2>2, <2>3 DEF EntryOK
<1>9. HistoryOK'
  <2>1. \A h \in cancelled' : h < next_id'
    BY <1>1, <1>3, <1>6 DEF Contents, HistoryOK
  <2>2. \A j \in 1..next_id' : j \in 1..next_id \/ j = next_id + 1
    BY <1>1, <1>3
  <2>3. \A j \in 1..next_id' : since'[j] <= now'
    BY <1>1, <1>3, <1>4, <2>2 DEF Contents, HistoryOK
  <2> QED
    BY <2>1, <2>3 DEF HistoryOK
<1> QED
  BY <1>7, <1>8, <1>9 DEF e

LEMMA AddContents ==
  ASSUME Constants, Basic, Contents, NEW p \in Periods[next_id], AddPeriodicTimeout(p)
  PROVE  Contents'
<1> DEFINE e == NewEntry(p)
           New(x) == EntryOK(x, next_id', since', cancelled')
<1>1. /\ New(e) /\ HistoryOK'
      /\ \A x \in Entry :
           EntryOK(x, next_id, since, cancelled) => New(x) /\ x.handle # e.handle
  BY NewEntryOK
<1>2. AddPending(e) \/ AddFirst(e) \/ AddStored(e)
  BY AddCases
<1>3. e \in Entry /\ e.remove = FALSE /\ e.processed = FALSE
  BY AddCases, NewEntryFields
<1> HIDE DEF e
<1>4. /\ \A j \in 1..Len(periodic_timeouts) :
           New(periodic_timeouts[j]) /\ periodic_timeouts[j].handle # e.handle
      /\ \A j \in 1..Len(pending_periodic_timeout_additions) :
           /\ New(pending_periodic_timeout_additions[j])
           /\ pending_periodic_timeout_additions[j].handle # e.handle
           /\ ~ pending_periodic_timeout_additions[j].remove
           /\ ~ pending_periodic_timeout_additions[j].processed
  BY <1>1, Vectors DEF Contents, StoredOK, PendingOK
<1> HIDE DEF New
<1>5. Len(periodic_timeouts) \in Nat /\ Len(pending_periodic_timeout_additions) \in Nat
  BY Vectors
<1>6. Distinct(periodic_timeouts) /\ Distinct(pending_periodic_timeout_additions) /\ Apart
  BY DEF Contents, StoredOK, PendingOK
<1>7. CASE AddPending(e)
  <2>1. /\ pending_periodic_timeout_additions'
             = Append(pending_periodic_timeout_additions, e)
        /\ periodic_timeouts' = periodic_timeouts
    BY <1>7 DEF AddPending
  <2>2. /\ Len(pending_periodic_timeout_additions')
             = Len(pending_periodic_timeout_additions) + 1
        /\ pending_periodic_timeout_additions'[Len(pending_periodic_timeout_additions) + 1] = e
        /\ \A j \in 1..Len(pending_periodic_timeout_additions) :
             pending_periodic_timeout_additions'[j] = pending_periodic_timeout_additions[j]
    BY <1>3, <2>1, Vectors, AppendProperties
  <2>3. \A j \in 1..Len(pending_periodic_timeout_additions') :
          \/ j \in 1..Len(pending_periodic_timeout_additions)
          \/ j = Len(pending_periodic_timeout_additions) + 1
    BY <1>5, <2>2
  <2>4. \A j \in 1..Len(pending_periodic_timeout_additions') :
          /\ New(pending_periodic_timeout_additions'[j])
          /\ ~ pending_periodic_timeout_additions'[j].remove
          /\ ~ pending_periodic_timeout_additions'[j].processed
    BY <1>1, <1>3, <1>4, <2>2, <2>3
  <2>5. Distinct(pending_periodic_timeout_additions')
    BY <1>4, <1>6, <2>2, <2>3 DEF Distinct
  <2>6. Apart'
    BY <1>4, <1>6, <2>1, <2>2, <2>3 DEF Apart
  <2>7. PendingOK'
    BY <2>4, <2>5 DEF PendingOK, New
  <2>8. StoredOK'
    BY <1>4, <1>6, <2>1 DEF StoredOK, New
  <2> QED
    BY <1>1, <2>6, <2>7, <2>8 DEF Contents
<1>8. CASE AddFirst(e) \/ AddStored(e)
  <2>1. pending_periodic_timeout_additions' = pending_periodic_timeout_additions
    BY <1>8 DEF AddFirst, AddStored
  <2>2. /\ \A j \in 1..Len(periodic_timeouts') :
             \/ periodic_timeouts'[j] = e
             \/ \E m \in 1..Len(periodic_timeouts) :
                  periodic_timeouts'[j] = periodic_timeouts[m]
        /\ Distinct(periodic_timeouts')
    <3>1. CASE AddFirst(e)
      <4>1. periodic_timeouts' = <<e>>
        BY <3>1 DEF AddFirst
      <4> QED
        BY <4>1 DEF Distinct
    <3>2. CASE AddStored(e)
      <4>1. periodic_timeouts' = InsertTimeout(periodic_timeouts, e)
        BY <3>2 DEF AddStored
      <4>2. /\ \A j \in 1..Len(periodic_timeouts') :
                 \/ periodic_timeouts'[j] = e
                 \/ \E m \in 1..Len(periodic_timeouts) :
                      periodic_timeouts'[j] = periodic_timeouts[m]
            /\ /\ Distinct(periodic_timeouts)
               /\ \A j \in 1..Len(periodic_timeouts) : periodic_timeouts[j].handle # e.handle
               => Distinct(periodic_timeouts')
        BY <1>3, <4>1, Vectors, InsertContents
      <4> QED
        BY <1>4, <1>6, <4>2
    <3> QED
      BY <1>8, <3>1, <3>2
  <2>3. \A j \in 1..Len(periodic_timeouts') : New(periodic_timeouts'[j])
    BY <1>1, <1>4, <2>2
  <2>4. Apart'
    BY <1>4, <1>6, <2>1, <2>2 DEF Apart
  <2>5. PendingOK'
    BY <1>4, <1>6, <2>1 DEF PendingOK, New
  <2>6. StoredOK'
    BY <2>2, <2>3 DEF StoredOK, New
  <2> QED
    BY <1>1, <2>4, <2>5, <2>6 DEF Contents
<1> QED
  BY <1>2, <1>7, <1>8

\* remove_timeout leaves no stored entry of the handle that is not marked.
LEMMA RemoveContents ==
  ASSUME Constants, Basic, Basic', Contents, NEW h \in Handles, RemoveTimeout(h)
  PROVE  Contents'
<1> DEFINE New(x) == EntryOK(x, next_id', since', cancelled')
<1>1. UNCHANGED <<now, pending_periodic_timeout_additions, next_id, since>>
  BY RemoveCases
<1>2. /\ Distinct(periodic_timeouts) /\ Distinct(pending_periodic_timeout_additions)
      /\ Apart /\ HistoryOK
      /\ \A j \in 1..Len(periodic_timeouts) :
           EntryOK(periodic_timeouts[j], next_id, since, cancelled)
      /\ \A j \in 1..Len(pending_periodic_timeout_additions) :
           EntryOK(pending_periodic_timeout_additions[j], next_id, since, cancelled)
  BY DEF Contents, StoredOK, PendingOK
<1>3. CASE \/ periodic_timeouts # <<>> /\ periodic_timeouts' = Front(periodic_timeouts)
              /\ cancelled' = cancelled
           \/ UNCHANGED <<periodic_timeouts, cancelled>>
  <2>1. Distinct(periodic_timeouts') /\ cancelled' = cancelled
    BY <1>2, <1>3, Vectors, FrontThins, ThinnedKeeps
  <2>2. \A j \in 1..Len(periodic_timeouts') :
          \E m \in 1..Len(periodic_timeouts) : periodic_timeouts'[j] = periodic_timeouts[m]
    BY <1>3, Vectors, FrontThins
  <2>3. HistoryOK'
    BY <1>1, <1>2, <2>1 DEF HistoryOK
  <2> QED
    BY <1>1, <1>2, <2>1, <2>2, <2>3, ThinnedContents
<1>4. ASSUME NEW k \in 1..Len(periodic_timeouts),
             periodic_timeouts[k].handle = h,
             IF processing_periodic_timeouts
             THEN periodic_timeouts' = [periodic_timeouts EXCEPT ![k].remove = TRUE]
             ELSE periodic_timeouts' = RemoveAt(periodic_timeouts, k),
             cancelled' = cancelled \cup {h}
      PROVE  Contents'
  <2>1. \A x \in Entry : EntryOK(x, next_id, since, cancelled) /\ x.handle # h => New(x)
    BY <1>1, <1>4 DEF EntryOK
  <2> HIDE DEF New
  <2>2. h < next_id
    BY <1>2, <1>4 DEF EntryOK
  <2>3. HistoryOK'
    BY <1>1, <1>2, <1>4, <2>2 DEF HistoryOK
  <2>4. \A j \in 1..Len(periodic_timeouts) :
          j # k => periodic_timeouts[j].handle # h /\ New(periodic_timeouts[j])
    BY <1>2, <1>4, <2>1, Vectors DEF Distinct
  <2>5. \A j \in 1..Len(pending_periodic_timeout_additions) :
          New(pending_periodic_timeout_additions[j])
    BY <1>2, <1>4, <2>1, Vectors DEF Apart
  <2>6. PendingOK'
    BY <1>1, <2>5 DEF PendingOK, New, Contents
  <2>7. CASE processing_periodic_timeouts
    <3>0. periodic_timeouts' = [periodic_timeouts EXCEPT ![k].remove = TRUE]
      BY <1>4, <2>7
    <3>1. /\ Len(periodic_timeouts') = Len(periodic_timeouts)
          /\ periodic_timeouts'[k].remove
          /\ \A j \in 1..Len(periodic_timeouts) :
               /\ j # k => periodic_timeouts'[j] = periodic_timeouts[j]
               /\ periodic_timeouts'[j].handle = periodic_timeouts[j].handle
               /\ periodic_timeouts'[j].period = periodic_timeouts[j].period
               /\ periodic_timeouts'[j].timeout = periodic_timeouts[j].timeout
               /\ periodic_timeouts'[j].processed = periodic_timeouts[j].processed
      BY <3>0, MarkedEntry
    <3>2. New(periodic_timeouts'[k])
      BY <1>1, <1>2, <1>4, <3>1 DEF New, EntryOK
    <3>3. \A j \in 1..Len(periodic_timeouts') : New(periodic_timeouts'[j])
      BY <2>4, <3>1, <3>2
    <3>4. Distinct(periodic_timeouts') /\ Apart'
      BY <1>1, <1>2, <3>1 DEF Distinct, Apart
    <3> QED
      BY <2>3, <2>6, <3>3, <3>4 DEF Contents, StoredOK, New
  <2>8. CASE ~ processing_periodic_timeouts
    <3>0. periodic_timeouts \in Seq(Entry)
      BY Vectors
    <3>1. periodic_timeouts' = RemoveAt(periodic_timeouts, k)
      BY <1>4, <2>8
    <3>2. /\ periodic_timeouts' \in Seq(Entry) /\ Thinned(periodic_timeouts', periodic_timeouts)
          /\ \A j \in 1..Len(periodic_timeouts') :
               \E m \in 1..Len(periodic_timeouts) :
                 m # k /\ periodic_timeouts'[j] = periodic_timeouts[m]
      BY <3>0, <3>1, RemoveThins
    <3>3. Distinct(periodic_timeouts')
      BY <1>2, <3>2, Vectors, ThinnedKeeps
    <3>4. \A j \in 1..Len(periodic_timeouts') : New(periodic_timeouts'[j])
      BY <2>4, <3>2
    <3>5. Apart'
      BY <1>1, <1>2, <3>2 DEF Apart
    <3> QED
      BY <2>3, <2>6, <3>3, <3>4, <3>5 DEF Contents, StoredOK, New
  <2> QED
    BY <2>7, <2>8
<1> QED
  BY <1>3, <1>4, RemoveCases

\* Calling a callback starts a new period of its timeout and of no other.
LEMMA InvokeContents ==
  ASSUME Constants, Basic, Contents, InvokeTimeout
  PROVE  Contents'
<1> DEFINE h == Current.handle
           New(x) == EntryOK(x, next_id', since', cancelled')
<1>1. /\ i + 1 \in 1..Len(periodic_timeouts)
      /\ Current = periodic_timeouts[i + 1] /\ Current \in Entry
      /\ UNCHANGED <<now, pending_periodic_timeout_additions, next_id, cancelled>>
      /\ Len(periodic_timeouts') = Len(periodic_timeouts)
      /\ periodic_timeouts'[i + 1].processed
      /\ \A j \in 1..Len(periodic_timeouts) :
           /\ j # i + 1 => periodic_timeouts'[j] = periodic_timeouts[j]
           /\ periodic_timeouts'[j].handle = periodic_timeouts[j].handle
           /\ periodic_timeouts'[j].remove = periodic_timeouts[j].remove
  BY InvokedEntry
<1>2. since' = [since EXCEPT ![h + 1] = now]
  BY DEF InvokeTimeout
<1>3. h \in Nat /\ h < next_id /\ h + 1 \in 1..next_id
  <2>1. h < next_id
    BY <1>1 DEF Contents, StoredOK, EntryOK
  <2> QED
    BY <1>1, <2>1, EntryFields, Numbers DEF Constants
<1> HIDE DEF h
<1>4. \A j \in 1..next_id : since'[j] = IF j = h + 1 THEN now ELSE since[j]
  BY <1>2, <1>3, Numbers, ExceptSeq
<1>5. ASSUME NEW x \in Entry, EntryOK(x, next_id, since, cancelled), x.handle # h
      PROVE  New(x)
  <2>1. x.handle \in Nat /\ x.handle < next_id
    BY <1>5, EntryFields DEF Constants, EntryOK
  <2>2. x.handle + 1 \in 1..next_id /\ x.handle + 1 # h + 1
    BY <1>3, <1>5, <2>1, Numbers
  <2>3. since'[x.handle + 1] = since[x.handle + 1]
    BY <1>4, <2>2
  <2> QED
    BY <1>1, <1>5, <2>3 DEF EntryOK
<1>6. /\ Distinct(periodic_timeouts) /\ Distinct(pending_periodic_timeout_additions)
      /\ Apart /\ HistoryOK /\ PendingOK
      /\ \A j \in 1..Len(periodic_timeouts) :
           EntryOK(periodic_timeouts[j], next_id, since, cancelled)
      /\ \A j \in 1..Len(pending_periodic_timeout_additions) :
           EntryOK(pending_periodic_timeout_additions[j], next_id, since, cancelled)
  BY DEF Contents, StoredOK, PendingOK
<1>7. New(periodic_timeouts'[i + 1])
  BY <1>1, <1>6 DEF EntryOK
<1> HIDE DEF New
<1>8. \A j \in 1..Len(periodic_timeouts) :
         j # i + 1 => periodic_timeouts[j].handle # h
  BY <1>1, <1>6 DEF Distinct, h
<1>9. \A j \in 1..Len(periodic_timeouts') : New(periodic_timeouts'[j])
  BY <1>1, <1>5, <1>6, <1>7, <1>8, Vectors
<1>10. \A j \in 1..Len(pending_periodic_timeout_additions) :
          pending_periodic_timeout_additions[j].handle # h
  BY <1>1, <1>6 DEF Apart, h
<1>11. \A j \in 1..Len(pending_periodic_timeout_additions) :
          New(pending_periodic_timeout_additions[j])
  BY <1>5, <1>6, <1>10, Vectors
<1>12. StoredOK'
  <2>1. Distinct(periodic_timeouts')
    BY <1>1, <1>6 DEF Distinct
  <2> QED
    BY <1>9, <2>1 DEF StoredOK, New
<1>13. PendingOK'
  BY <1>1, <1>6, <1>11 DEF PendingOK, New
<1>14. Apart'
  BY <1>1, <1>6 DEF Apart
<1>15. HistoryOK'
  <2>1. now \in Nat /\ now <= now
    BY Numbers
  <2> QED
    BY <1>1, <1>4, <1>6, <2>1 DEF HistoryOK
<1> QED
  BY <1>12, <1>13, <1>14, <1>15 DEF Contents

\* When no entry is marked, resetting reaches all processed entries, and
\* gives each a timeout that is a period after its call.
LEMMA ResetEntries ==
  ASSUME Constants, Basic, Contents, ProcessedInv, ResetTimeouts,
         NEW k \in 1..Len(periodic_timeouts), NEW e,
         e = ResetProcessed(periodic_timeouts, now)[k]
  PROVE  /\ EntryOK(e, next_id, since, cancelled)
         /\ e.handle = periodic_timeouts[k].handle /\ ~ e.processed
<1> DEFINE s == periodic_timeouts
           UpToHere == \A j \in 1..k : s[j].processed
<1>0. /\ s \in Seq(Entry) /\ Len(s) \in Nat /\ s[k] \in Entry /\ now \in Nat
      /\ DOMAIN s = 1..Len(s)
  BY Vectors, Numbers
<1>1. /\ e.handle = s[k].handle /\ e.period = s[k].period /\ e.remove = s[k].remove
      /\ IF UpToHere THEN e.processed = FALSE /\ e.timeout = UpTo(now + s[k].period)
                     ELSE e = s[k]
  <2> DEFINE r == ResetProcessed(s, now)
  <2>1. /\ r[k].handle = s[k].handle /\ r[k].period = s[k].period
        /\ r[k].remove = s[k].remove
        /\ IF \A j \in 1..k : s[j].processed
           THEN r[k].processed = FALSE /\ r[k].timeout = UpTo(now + s[k].period)
           ELSE r[k] = s[k]
    BY <1>0, ResetProcessedProperties, Zenon DEF Constants
  <2>2. e = r[k]
    OBVIOUS
  <2> HIDE DEF r
  <2> QED
    BY <2>1, <2>2, Zenon
<1>2. pc = "sweep" /\ \A j \in 1..Len(s) : ~ s[j].remove
  BY <1>0 DEF ResetTimeouts, Marked
<1>3. s[k].processed => UpToHere
  <2>1. \A j \in 1..k : j \in 1..Len(s) /\ (j = k \/ j < k)
    BY <1>0
  <2> QED
    BY <1>2, <2>1 DEF ProcessedInv, ProcessedInSweep
<1>4. EntryOK(s[k], next_id, since, cancelled)
  BY DEF Contents, StoredOK
<1> HIDE DEF UpToHere
<1>5. CASE UpToHere
  <2>1. s[k].handle + 1 \in 1..next_id /\ s[k].period \in Nat
    BY <1>0, <1>4, EntryFields, Numbers DEF EntryOK, Constants
  <2>2. since[s[k].handle + 1] \in Nat /\ since[s[k].handle + 1] <= now
    BY <2>1, Numbers DEF Contents, HistoryOK
  <2> DEFINE x == since[s[k].handle + 1] + s[k].period
             y == now + s[k].period
  <2>3. x \in Nat /\ y \in Nat /\ x <= y
    BY <1>0, <2>1, <2>2
  <2> HIDE DEF x, y
  <2>4. UpTo(x) \in Nat /\ UpTo(y) \in Nat /\ UpTo(x) <= UpTo(y)
    BY <2>3, UpToBounds DEF Constants
  <2>5. e.timeout = UpTo(y) /\ ~ e.processed
    BY <1>1, <1>5 DEF y
  <2>6. e.timeout >= UpTo(x)
    BY <2>4, <2>5
  <2>7. e.timeout >= UpTo(since[e.handle + 1] + e.period)
    BY <1>1, <2>6 DEF x
  <2> QED
    BY <1>1, <1>4, <2>5, <2>7 DEF EntryOK
<1>6. CASE ~ UpToHere
  <2>1. e = s[k]
    BY <1>1, <1>6
  <2> QED
    BY <1>3, <1>4, <1>6, <2>1
<1> QED
  BY <1>5, <1>6

LEMMA ResetContents ==
  ASSUME Constants, Basic, Contents, ProcessedInv, ResetTimeouts
  PROVE  /\ Contents'
         /\ \A j \in 1..Len(periodic_timeouts') : ~ periodic_timeouts'[j].processed
<1>1. /\ UNCHANGED <<now, pending_periodic_timeout_additions, next_id, since, cancelled>>
      /\ pc # "crashed"
  BY DEF ResetTimeouts, history
<1>2. /\ Distinct(periodic_timeouts')
      /\ \A j \in 1..Len(periodic_timeouts') :
           \E k \in 1..Len(periodic_timeouts) :
             periodic_timeouts'[j] = ResetProcessed(periodic_timeouts, now)[k]
  BY <1>1, ResetOrders DEF Inv
<1>3. \A j \in 1..Len(periodic_timeouts') :
         /\ EntryOK(periodic_timeouts'[j], next_id, since, cancelled)
         /\ ~ periodic_timeouts'[j].processed
         /\ \E k \in 1..Len(periodic_timeouts) :
              periodic_timeouts'[j].handle = periodic_timeouts[k].handle
  BY <1>2, ResetEntries
<1>4. StoredOK'
  BY <1>1, <1>2, <1>3 DEF StoredOK
<1>5. PendingOK' /\ HistoryOK'
  BY <1>1 DEF Contents, PendingOK, HistoryOK
<1>6. Apart'
  BY <1>1, <1>3 DEF Contents, Apart
<1> QED
  BY <1>3, <1>4, <1>5, <1>6 DEF Contents

\* An entry moves from the pending vector to the other.
LEMMA MergeContents ==
  ASSUME Constants, Basic, Contents, MergePending
  PROVE  /\ Contents'
         /\ \A j \in 1..Len(periodic_timeouts') :
              \/ ~ periodic_timeouts'[j].processed
              \/ \E m \in 1..Len(periodic_timeouts) :
                   periodic_timeouts'[j] = periodic_timeouts[m]
<1> DEFINE e == Head(pending_periodic_timeout_additions)
           Old(x) == EntryOK(x, next_id, since, cancelled)
<1>1. /\ pending_periodic_timeout_additions # <<>>
      /\ periodic_timeouts' = InsertTimeout(periodic_timeouts, e)
      /\ pending_periodic_timeout_additions' = Tail(pending_periodic_timeout_additions)
      /\ UNCHANGED <<now, next_id, since, cancelled>>
  BY DEF MergePending, history
<1>2. /\ 1 \in 1..Len(pending_periodic_timeout_additions) /\ e \in Entry
      /\ e = pending_periodic_timeout_additions[1]
  BY <1>1, Vectors, FirstEntry
<1> HIDE DEF e
<1>3. /\ Distinct(periodic_timeouts) /\ Distinct(pending_periodic_timeout_additions)
      /\ Apart /\ HistoryOK
      /\ \A j \in 1..Len(periodic_timeouts) : Old(periodic_timeouts[j])
      /\ \A j \in 1..Len(pending_periodic_timeout_additions) :
           /\ Old(pending_periodic_timeout_additions[j])
           /\ ~ pending_periodic_timeout_additions[j].remove
           /\ ~ pending_periodic_timeout_additions[j].processed
  BY DEF Contents, StoredOK, PendingOK
<1> HIDE DEF Old
<1>4. Old(e) /\ ~ e.processed
  BY <1>2, <1>3
<1>5. /\ \A j \in 1..Len(periodic_timeouts) : periodic_timeouts[j].handle # e.handle
      /\ \A j \in 1..Len(pending_periodic_timeout_additions) :
           j > 1 => pending_periodic_timeout_additions[j].handle # e.handle
  <2>1. \A j \in 1..Len(pending_periodic_timeout_additions) : j > 1 => j # 1
    OBVIOUS
  <2> QED
    BY <1>2, <1>3, <2>1 DEF Apart, Distinct
<1>6. /\ \A j \in 1..Len(periodic_timeouts') :
           \/ periodic_timeouts'[j] = e
           \/ \E m \in 1..Len(periodic_timeouts) :
                periodic_timeouts'[j] = periodic_timeouts[m]
      /\ /\ Distinct(periodic_timeouts)
         /\ \A j \in 1..Len(periodic_timeouts) : periodic_timeouts[j].handle # e.handle
         => Distinct(periodic_timeouts')
  BY <1>1, <1>2, Vectors, InsertContents
<1>7. Distinct(periodic_timeouts')
  BY <1>3, <1>5, <1>6
<1>8. /\ Distinct(pending_periodic_timeout_additions')
      /\ \A j \in 1..Len(pending_periodic_timeout_additions') :
           \E m \in 1..Len(pending_periodic_timeout_additions) :
             m > 1 /\ pending_periodic_timeout_additions'[j]
                        = pending_periodic_timeout_additions[m]
  BY <1>1, <1>3, Vectors, TailThins, ThinnedKeeps
<1>9. \A j \in 1..Len(periodic_timeouts') : Old(periodic_timeouts'[j])
  BY <1>3, <1>4, <1>6
<1>10. \A j \in 1..Len(pending_periodic_timeout_additions') :
          /\ Old(pending_periodic_timeout_additions'[j])
          /\ ~ pending_periodic_timeout_additions'[j].remove
          /\ ~ pending_periodic_timeout_additions'[j].processed
          /\ pending_periodic_timeout_additions'[j].handle # e.handle
  BY <1>3, <1>5, <1>8
<1>11. Apart'
  <2> SUFFICES ASSUME NEW j \in 1..Len(periodic_timeouts'),
                      NEW k \in 1..Len(pending_periodic_timeout_additions')
               PROVE  periodic_timeouts'[j].handle # pending_periodic_timeout_additions'[k].handle
    BY DEF Apart
  <2>1. CASE periodic_timeouts'[j] = e
    BY <1>10, <2>1
  <2>2. ASSUME NEW m \in 1..Len(periodic_timeouts),
               periodic_timeouts'[j] = periodic_timeouts[m]
        PROVE  periodic_timeouts'[j].handle # pending_periodic_timeout_additions'[k].handle
    BY <1>3, <1>8, <2>2 DEF Apart
  <2> QED
    BY <1>6, <2>1, <2>2
<1>12. StoredOK' /\ PendingOK' /\ HistoryOK'
  BY <1>1, <1>3, <1>7, <1>8, <1>9, <1>10 DEF StoredOK, PendingOK, HistoryOK, Old
<1> QED
  BY <1>4, <1>6, <1>11, <1>12 DEF Contents

LEMMA EraseThins ==
  ASSUME Constants, Basic, EraseMarked
  PROVE  /\ periodic_timeouts' \in Seq(Entry)
         /\ Thinned(periodic_timeouts', periodic_timeouts)
<1>1. PICK k \in 1..Len(periodic_timeouts) : periodic_timeouts' = RemoveAt(periodic_timeouts, k)
  BY Vectors DEF EraseMarked, Marked
<1> QED
  BY <1>1, Vectors, RemoveThins

LEMMA StepContents ==
  ASSUME Inv, Basic', [Next]_vars, pc # "crashed"
  PROVE  Contents'
<1>0. Constants /\ Basic
  BY ConstantsAssumed DEF Inv
<1>2. Contents /\ ProcessedInv
  BY DEF Inv
<1>3. CASE \/ UNCHANGED vars \/ Tick \/ EpollWait \/ BatchAbandoned
           \/ CallProcessPeriodicTimeouts \/ ReadTimer \/ SkipRemoved \/ CallbackReturns
           \/ CallbackThrows \/ StopAtUnexpired \/ StopAtEnd \/ DestroyedEntry \/ RearmTimer
  <2>1. UNCHANGED <<periodic_timeouts, pending_periodic_timeout_additions, next_id,
                    since, cancelled>>
    BY <1>3 DEF vars, loopvars, history, Tick, EpollWait, BatchAbandoned,
       CallProcessPeriodicTimeouts, ReadTimer, SkipRemoved, CallbackReturns,
       CallbackThrows, StopAtUnexpired, StopAtEnd, DestroyedEntry, RearmTimer
  <2>2. now' = now \/ now' = now + 1
    BY <1>3 DEF vars, loopvars, history, Tick, EpollWait, BatchAbandoned,
       CallProcessPeriodicTimeouts, ReadTimer, SkipRemoved, CallbackReturns,
       CallbackThrows, StopAtUnexpired, StopAtEnd, DestroyedEntry, RearmTimer
  <2>3. HistoryOK'
    <3>1. /\ now \in Nat /\ \A j \in 1..next_id : since[j] \in Nat
          /\ HistoryOK
      BY <1>0, <1>2, Numbers DEF Contents
    <3> QED
      BY <2>1, <2>2, <3>1 DEF HistoryOK
  <2> QED
    BY <1>2, <2>1, <2>3 DEF Contents, StoredOK, PendingOK, Apart
<1>4. ASSUME NEW p \in Periods[next_id], AddPeriodicTimeout(p)
      PROVE  Contents'
  BY <1>0, <1>2, <1>4, AddContents
<1>5. ASSUME NEW h \in Handles, RemoveTimeout(h)
      PROVE  Contents'
  BY <1>0, <1>2, <1>5, RemoveContents
<1>6. CASE InvokeTimeout
  BY <1>0, <1>2, <1>6, InvokeContents
<1>7. CASE EraseMarked
  <2>1. UNCHANGED <<now, pending_periodic_timeout_additions, next_id, since, cancelled>>
    BY <1>7 DEF EraseMarked, history
  <2>2. /\ periodic_timeouts' \in Seq(Entry)
        /\ Thinned(periodic_timeouts', periodic_timeouts)
    BY <1>0, <1>7, EraseThins
  <2>3. Distinct(periodic_timeouts')
    BY <1>0, <1>2, <2>2, Vectors, ThinnedKeeps DEF Contents, StoredOK
  <2>4. \A j \in 1..Len(periodic_timeouts') :
          \E m \in 1..Len(periodic_timeouts) : periodic_timeouts'[j] = periodic_timeouts[m]
    BY <2>2 DEF Thinned
  <2>5. HistoryOK' /\ Distinct(pending_periodic_timeout_additions')
    BY <1>2, <2>1 DEF Contents, PendingOK, HistoryOK
  <2> QED
    BY <1>2, <2>1, <2>3, <2>4, <2>5, ThinnedContents
<1>8. CASE ResetTimeouts
  BY <1>0, <1>2, <1>8, ResetContents
<1>9. CASE MergePending
  BY <1>0, <1>2, <1>9, MergeContents
<1> QED
  BY <1>3, <1>4, <1>5, <1>6, <1>7, <1>8, <1>9 DEF Next, LoopStep

-----------------------------------------------------------------------------
(* Where processed entries are.                                            *)

\* Steps after which no entry is processed.
LEMMA NoneProcessed ==
  ASSUME \A k \in 1..Len(periodic_timeouts') : ~ periodic_timeouts'[k].processed,
         pc' # "scan"
  PROVE  ProcessedInv'
BY DEF ProcessedInv, ProcessedPast, ProcessedInScan, ProcessedInSweep

\* Arming the timer for a new timeout requires that none is overdue.
LEMMA AddProcessed ==
  ASSUME Constants, Basic, PassInv, ProcessedInv, NEW p \in Periods[next_id],
         AddPeriodicTimeout(p), pc' # "crashed"
  PROVE  ProcessedInv'
<1> DEFINE e == NewEntry(p)
<1>1. /\ UserCode /\ UNCHANGED <<started, i>>
      /\ AddPending(e) \/ AddFirst(e) \/ AddStored(e)
  BY AddCases
<1>2. e \in Entry /\ e.processed = FALSE /\ e.timeout >= now /\ e.timeout \in Nat
  BY AddCases, NewEntryFields, EntryFields DEF Constants
<1> HIDE DEF e
<1>3. CASE AddPending(e)
  BY <1>1, <1>3 DEF AddPending, loopvars, ProcessedInv, ProcessedPast, ProcessedInScan,
                    ProcessedInSweep
<1>4. CASE AddFirst(e)
  <2>1. periodic_timeouts' = <<e>> /\ ~ processing_periodic_timeouts
        /\ (pc' = pc \/ pc' = "crashed")
    BY <1>4 DEF AddFirst, Crash, loopvars
  <2>2. \A k \in 1..Len(periodic_timeouts') : ~ periodic_timeouts'[k].processed
    BY <1>2, <2>1
  <2> QED
    BY <2>1, <2>2, NoneProcessed DEF PassInv
<1>5. CASE AddStored(e)
  <2>1. /\ ~ processing_periodic_timeouts /\ periodic_timeouts # <<>>
        /\ periodic_timeouts' = InsertTimeout(periodic_timeouts, e)
        /\ pc' = pc
        /\ ~ (Head(periodic_timeouts').timeout < Head(periodic_timeouts).timeout)
             => timer' = timer
    BY <1>5 DEF AddStored, loopvars
  <2>2. pc = "loop"
    BY <1>1, <2>1 DEF UserCode, Basic, PassInv
  <2>3. /\ \A j \in 1..Len(periodic_timeouts') :
             \/ periodic_timeouts'[j] = e
             \/ \E m \in 1..Len(periodic_timeouts) :
                  periodic_timeouts'[j] = periodic_timeouts[m]
        /\ periodic_timeouts'[1] = e \/ periodic_timeouts'[1] = periodic_timeouts[1]
        /\ Len(periodic_timeouts') = Len(periodic_timeouts) + 1
        /\ periodic_timeouts' \in Seq(Entry)
    <3>1. /\ periodic_timeouts' = InsertTimeout(periodic_timeouts, e)
          /\ periodic_timeouts \in Seq(Entry) /\ Timed(Entry) /\ Ordered(periodic_timeouts)
      BY <2>1, Vectors
    <3>2. periodic_timeouts' \in Seq(Entry)
      BY <1>2, <3>1, InsertKeepsOrder
    <3> QED
      BY <1>2, <3>1, <3>2, InsertContents
  <2>4. /\ Head(periodic_timeouts) = periodic_timeouts[1]
        /\ Head(periodic_timeouts') = periodic_timeouts'[1]
        /\ 1 \in 1..Len(periodic_timeouts) /\ periodic_timeouts[1] \in Entry
    <3>1. periodic_timeouts' # <<>>
      BY <2>3, Vectors, EmptySeq
    <3> QED
      BY <2>1, <2>3, <3>1, Vectors, FirstEntry
  <2>5. ASSUME NEW m \in 1..Len(periodic_timeouts), periodic_timeouts[m].processed
        PROVE  timer' = Disarmed /\ periodic_timeouts[m].timeout <= started
    <3>1. timer = Disarmed /\ periodic_timeouts[m].timeout <= started
      BY <2>5 DEF ProcessedInv, ProcessedPast
    <3>2. m = 1 \/ 1 < m
      BY Vectors
    <3>3. periodic_timeouts[1].timeout \in Nat /\ periodic_timeouts[m].timeout \in Nat
      BY <2>4, Vectors, EntryFields DEF Constants
    <3>4. periodic_timeouts[1].timeout <= periodic_timeouts[m].timeout
      BY <2>4, <3>2, <3>3 DEF Basic, Ordered
    <3>5. started <= now /\ started \in Nat /\ now \in Nat
      BY Numbers DEF PassInv
    <3>6. ~ (e.timeout < periodic_timeouts[1].timeout)
      BY <1>2, <3>1, <3>3, <3>4, <3>5
    <3>7. ~ (periodic_timeouts'[1].timeout < periodic_timeouts[1].timeout)
      BY <2>3, <3>3, <3>6
    <3> QED
      BY <2>1, <2>4, <3>1, <3>7
  <2>6. ProcessedPast'
    BY <1>1, <1>2, <2>1, <2>2, <2>3, <2>5 DEF ProcessedPast
  <2> QED
    BY <2>1, <2>2, <2>6 DEF ProcessedInv, ProcessedInScan, ProcessedInSweep
<1> QED
  BY <1>1, <1>3, <1>4, <1>5

LEMMA RemoveProcessed ==
  ASSUME Constants, Basic, PassInv, ProcessedInv, NEW h \in Handles, RemoveTimeout(h),
         pc' # "crashed"
  PROVE  ProcessedInv'
<1>1. /\ pc \in {"loop", "scan"} /\ pc' = pc /\ UNCHANGED <<timer, started, i>>
      /\ processing_periodic_timeouts <=> pc = "scan"
  BY RemoveCases DEF PassInv
<1>2. CASE \A j \in 1..Len(periodic_timeouts') :
             /\ j \in 1..Len(periodic_timeouts)
             /\ periodic_timeouts'[j].processed = periodic_timeouts[j].processed
             /\ periodic_timeouts'[j].timeout = periodic_timeouts[j].timeout
             /\ periodic_timeouts[j].remove => periodic_timeouts'[j].remove
  <2>1. ProcessedPast'
    BY <1>1, <1>2 DEF ProcessedInv, ProcessedPast
  <2>2. ProcessedInScan'
    BY <1>1, <1>2 DEF ProcessedInv, ProcessedInScan
  <2> QED
    BY <1>1, <2>1, <2>2 DEF ProcessedInv, ProcessedInSweep
<1>3. ASSUME NEW k \in 1..Len(periodic_timeouts), pc = "loop",
             periodic_timeouts' = RemoveAt(periodic_timeouts, k)
      PROVE  ProcessedInv'
  <2>1. Thinned(periodic_timeouts', periodic_timeouts)
    BY <1>3, Vectors, RemoveThins
  <2>2. \A j \in 1..Len(periodic_timeouts') :
          \E m \in 1..Len(periodic_timeouts) : periodic_timeouts'[j] = periodic_timeouts[m]
    BY <2>1 DEF Thinned
  <2>3. ProcessedPast'
    BY <1>1, <1>3, <2>2 DEF ProcessedInv, ProcessedPast
  <2> QED
    BY <1>1, <1>3, <2>3 DEF ProcessedInv, ProcessedInScan, ProcessedInSweep
<1>4. ASSUME NEW k \in 1..Len(periodic_timeouts),
             periodic_timeouts' = [periodic_timeouts EXCEPT ![k].remove = TRUE]
      PROVE  ProcessedInv'
  <2>1. /\ Len(periodic_timeouts') = Len(periodic_timeouts)
        /\ \A j \in 1..Len(periodic_timeouts) :
             /\ periodic_timeouts[j].remove => periodic_timeouts'[j].remove
             /\ periodic_timeouts'[j].timeout = periodic_timeouts[j].timeout
             /\ periodic_timeouts'[j].processed = periodic_timeouts[j].processed
    BY <1>4, MarkedEntry
  <2> QED
    BY <1>2, <2>1
<1>5. CASE periodic_timeouts # <<>> /\ periodic_timeouts' = Front(periodic_timeouts)
  <2>1. \A j \in 1..Len(periodic_timeouts') :
          j \in 1..Len(periodic_timeouts) /\ periodic_timeouts'[j] = periodic_timeouts[j]
    BY <1>5, Vectors, FrontThins
  <2> QED
    BY <1>2, <2>1
<1>6. CASE UNCHANGED periodic_timeouts
  BY <1>2, <1>6
<1>7. \/ \E k \in 1..Len(periodic_timeouts) :
           \/ periodic_timeouts' = [periodic_timeouts EXCEPT ![k].remove = TRUE]
           \/ pc = "loop" /\ periodic_timeouts' = RemoveAt(periodic_timeouts, k)
      \/ periodic_timeouts # <<>> /\ periodic_timeouts' = Front(periodic_timeouts)
      \/ UNCHANGED periodic_timeouts
  BY <1>1, RemoveCases
<1> QED
  BY <1>3, <1>4, <1>5, <1>6, <1>7

LEMMA InvokeProcessed ==
  ASSUME Constants, Basic, PassInv, ProcessedInv, InvokeTimeout
  PROVE  ProcessedInv'
<1>1. /\ pc = "scan" /\ i + 1 \in 1..Len(periodic_timeouts) /\ i \in Nat
      /\ Current = periodic_timeouts[i + 1] /\ Current.timeout <= started
      /\ i' = i + 1 /\ UNCHANGED <<timer, pc, started>>
      /\ Len(periodic_timeouts') = Len(periodic_timeouts)
      /\ periodic_timeouts'[i + 1].processed
      /\ \A j \in 1..Len(periodic_timeouts) :
           /\ j # i + 1 => periodic_timeouts'[j] = periodic_timeouts[j]
           /\ periodic_timeouts'[j].timeout = periodic_timeouts[j].timeout
  BY InvokedEntry, Numbers
<1>2. ProcessedPast'
  <2>1. timer = Disarmed
    BY <1>1 DEF PassInv
  <2> QED
    BY <1>1, <2>1 DEF ProcessedInv, ProcessedPast
<1>3. ProcessedInScan'
  <2>1. \A k \in 1..Len(periodic_timeouts) :
          /\ k = i + 1 \/ k <= i \/ k > i + 1
          /\ k <= i => k # i + 1 /\ k <= i + 1
          /\ k > i + 1 => k # i + 1 /\ ~ (k <= i + 1) /\ ~ (k <= i)
          /\ k = i + 1 => k <= i + 1
    BY <1>1, Vectors
  <2> QED
    BY <1>1, <2>1 DEF ProcessedInv, ProcessedInScan
<1> QED
  BY <1>1, <1>2, <1>3 DEF ProcessedInv, ProcessedInSweep

LEMMA StepProcessed ==
  ASSUME Inv, [Next]_vars, pc # "crashed", pc' # "crashed"
  PROVE  ProcessedInv'
<1>0. Constants /\ Basic /\ PassInv /\ Contents /\ ProcessedInv
  BY ConstantsAssumed DEF Inv, Basic
<1>a. i \in Nat /\ Len(periodic_timeouts) \in Nat
  BY <1>0, Vectors, Numbers
<1>1. CASE UNCHANGED vars \/ Tick \/ EpollWait \/ BatchAbandoned \/ CallbackReturns
  <2>1. UNCHANGED <<periodic_timeouts, pc, timer, i, started>>
    BY <1>1 DEF vars, loopvars, Tick, EpollWait, BatchAbandoned, CallbackReturns
  <2> QED
    BY <1>0, <2>1 DEF ProcessedInv, ProcessedPast, ProcessedInScan, ProcessedInSweep
<1>2. CASE CallProcessPeriodicTimeouts
  BY <1>0, <1>2, NoneProcessed
  DEF CallProcessPeriodicTimeouts, PassInv, ProcessedInv, ProcessedPast
<1>3. CASE ReadTimer
  <2>1. /\ UNCHANGED periodic_timeouts /\ pc = "read" /\ pc' = "scan" /\ i' = 0
        /\ \A k \in 1..Len(periodic_timeouts) : ~ periodic_timeouts[k].processed /\ ~ (k <= 0)
    BY <1>0, <1>a, <1>3 DEF ReadTimer, ProcessedInv, ProcessedPast
  <2> QED
    BY <2>1 DEF ProcessedInv, ProcessedPast, ProcessedInScan, ProcessedInSweep
<1>4. ASSUME NEW p \in Periods[next_id], AddPeriodicTimeout(p)
      PROVE  ProcessedInv'
  BY <1>0, <1>4, AddProcessed
<1>5. ASSUME NEW h \in Handles, RemoveTimeout(h)
      PROVE  ProcessedInv'
  BY <1>0, <1>5, RemoveProcessed
<1>6. CASE SkipRemoved
  <2>1. /\ UNCHANGED <<periodic_timeouts, pc, timer, started>> /\ pc = "scan"
        /\ i' = i + 1 /\ periodic_timeouts[i + 1].remove
    BY <1>6 DEF SkipRemoved, AtEntry, Scanning, Current
  <2>2. \A k \in 1..Len(periodic_timeouts) :
          /\ k <= i + 1 => k <= i \/ k = i + 1
          /\ ~ (k <= i + 1) => ~ (k <= i)
    BY <1>a
  <2>3. ProcessedInScan'
    BY <1>0, <2>1, <2>2 DEF ProcessedInv, ProcessedInScan
  <2> QED
    BY <1>0, <2>1, <2>3 DEF ProcessedInv, ProcessedPast, ProcessedInSweep
<1>7. CASE InvokeTimeout
  BY <1>0, <1>7, InvokeProcessed
<1>8. CASE CallbackThrows
  BY <1>0, <1>8 DEF CallbackThrows, ProcessedInv, ProcessedPast, ProcessedInScan,
                    ProcessedInSweep
<1>9. CASE StopAtUnexpired \/ StopAtEnd \/ DestroyedEntry
  <2>1. /\ UNCHANGED <<periodic_timeouts, timer, started>> /\ pc = "scan" /\ pc' = "sweep"
    BY <1>9 DEF StopAtUnexpired, StopAtEnd, DestroyedEntry, AtEntry, Scanning, EndPass, Crash
  <2>2. \A j, k \in 1..Len(periodic_timeouts) : j < k /\ k <= i => j <= i
    BY <1>a
  <2>3. ProcessedInSweep'
    BY <1>0, <2>1, <2>2 DEF ProcessedInv, ProcessedInScan, ProcessedInSweep
  <2> QED
    BY <1>0, <2>1, <2>3 DEF ProcessedInv, ProcessedPast, ProcessedInScan
<1>10. CASE EraseMarked
  <2>1. UNCHANGED <<pc, timer, started>> /\ pc = "sweep"
    BY <1>10 DEF EraseMarked, loopvars
  <2>2. Thinned(periodic_timeouts', periodic_timeouts)
    BY <1>0, <1>10, EraseThins
  <2>3. ProcessedPast'
    BY <1>0, <2>1, <2>2 DEF Thinned, ProcessedInv, ProcessedPast
  <2>4. ProcessedInSweep'
    BY <1>0, <2>1, <2>2 DEF Thinned, ProcessedInv, ProcessedInSweep
  <2> QED
    BY <2>1, <2>3, <2>4 DEF ProcessedInv, ProcessedInScan
<1>11. CASE ResetTimeouts
  BY <1>0, <1>11, ResetContents, NoneProcessed DEF ResetTimeouts
<1>12. CASE MergePending
  <2>1. /\ pc = "merge" /\ pc' = "merge"
        /\ \A k \in 1..Len(periodic_timeouts) : ~ periodic_timeouts[k].processed
    BY <1>0, <1>12 DEF MergePending, loopvars, ProcessedInv, ProcessedPast
  <2>2. \A j \in 1..Len(periodic_timeouts') :
          \/ ~ periodic_timeouts'[j].processed
          \/ \E m \in 1..Len(periodic_timeouts) :
               periodic_timeouts'[j] = periodic_timeouts[m]
    BY <1>0, <1>12, MergeContents
  <2> QED
    BY <2>1, <2>2, NoneProcessed
<1>13. CASE RearmTimer
  BY <1>0, <1>13, NoneProcessed DEF RearmTimer, ProcessedInv, ProcessedPast
<1> QED
  BY <1>1, <1>2, <1>3, <1>4, <1>5, <1>6, <1>7, <1>8, <1>9, <1>10, <1>11, <1>12, <1>13
  DEF Next, LoopStep

LEMMA CrashedStays ==
  ASSUME Inv, [Next]_vars, pc = "crashed"
  PROVE  pc' = "crashed"
<1>1. CASE UNCHANGED vars
  BY <1>1 DEF vars, loopvars
<1>2. ~ Next
  BY DEF Next, LoopStep, Tick, AddPeriodicTimeout, RemoveTimeout, UserCode,
     EpollWait, BatchAbandoned, CallProcessPeriodicTimeouts, ReadTimer, SkipRemoved,
     InvokeTimeout, CallbackReturns, CallbackThrows, StopAtUnexpired, StopAtEnd,
     DestroyedEntry, AtEntry, Scanning, EraseMarked, ResetTimeouts, MergePending,
     RearmTimer, Inv, Basic
<1> QED
  BY <1>1, <1>2

LEMMA Invariance == Spec => []Inv
<1>1. Inv /\ [Next]_vars => Inv'
  BY StepBasic, StepContents, StepProcessed, CrashedStays DEF Inv
<1> QED
  BY <1>1, InitInv, PTL DEF Spec

\* The members of ioloop keep their types: in particular process_periodic_timeouts
\* never goes past the entries its range-for began with.
THEOREM TypeCorrect == Spec => []TypeOK
<1>1. Inv => TypeOK
  BY DEF Inv, Basic
<1> QED
  BY <1>1, Invariance, PTL

\* periodic_timeouts_ stays sorted, and resetting the processed entries up to
\* the first that was not processed resets all of them.
THEOREM StaysOrdered == Spec => []OrderIsKept
<1>1. ASSUME Inv PROVE OrderIsKept
  <2>0. Basic /\ Constants
    BY <1>1, ConstantsAssumed DEF Inv
  <2>1. DOMAIN periodic_timeouts = 1..Len(periodic_timeouts)
    BY <2>0, Vectors
  <2>2. ASSUME NEW j \in 1..Len(periodic_timeouts), NEW k \in 1..Len(periodic_timeouts),
               j < k
        PROVE  /\ periodic_timeouts[j].timeout <= periodic_timeouts[k].timeout
               /\ (pc = "sweep" /\ Marked = {} /\ periodic_timeouts[k].processed)
                     => periodic_timeouts[j].processed
    <3>1. periodic_timeouts[j].timeout <= periodic_timeouts[k].timeout
      BY <2>0, <2>2 DEF Basic, Ordered
    <3>2. Marked = {} => ~ periodic_timeouts[j].remove
      BY <2>1 DEF Marked
    <3> QED
      BY <1>1, <2>2, <3>1, <3>2 DEF Inv, ProcessedInv, ProcessedInSweep
  <2> QED
    BY <2>1, <2>2 DEF OrderIsKept
<1> QED
  BY <1>1, Invariance, PTL

-----------------------------------------------------------------------------
(* The timer is armed for the earliest timeout.                            *)

ArmedInv ==
  (pc \in {"loop", "read"} /\ periodic_timeouts # <<>> /\ ~ thrown)
    => Armed(timer, periodic_timeouts[1].timeout, now)

LEMMA FirstTypes ==
  ASSUME Constants, NEW s \in Seq(Entry), s # <<>>
  PROVE  /\ Head(s) = s[1] /\ s[1] \in Entry
         /\ s[1].timeout \in Instants /\ s[1].timeout \in Nat
BY FirstEntry, EntryFields DEF Constants

LEMMA AddArms ==
  ASSUME Constants, Basic, Basic', PassInv, ArmedInv, NEW p \in Periods[next_id],
         AddPeriodicTimeout(p), pc' # "crashed"
  PROVE  ArmedInv'
<1> DEFINE e == NewEntry(p)
<1>1. /\ UNCHANGED <<now, thrown>>
      /\ AddPending(e) \/ AddFirst(e) \/ AddStored(e)
  BY AddCases
<1>2. e \in Entry /\ e.timeout \in Instants /\ e.timeout \in Nat
  BY AddCases, NewEntryFields, EntryFields DEF Constants
<1> HIDE DEF e
<1>3. now \in Instants
  BY Numbers
<1>4. CASE AddPending(e)
  BY <1>1, <1>4 DEF AddPending, loopvars, PassInv, ArmedInv
<1>5. CASE AddFirst(e)
  <2>1. periodic_timeouts'[1] = e /\ timer' \in SetOneshot(e.timeout, now)
    BY <1>5 DEF AddFirst
  <2>2. Armed(timer', e.timeout, now)
    BY <1>2, <1>3, <2>1, OneshotArms DEF Armed, Constants
  <2> QED
    BY <1>1, <2>1, <2>2 DEF ArmedInv
<1>6. CASE AddStored(e)
  <2> DEFINE old == Head(periodic_timeouts).timeout
             new == Head(periodic_timeouts').timeout
  <2>1. /\ periodic_timeouts # <<>> /\ pc' = pc
        /\ periodic_timeouts' = InsertTimeout(periodic_timeouts, e)
        /\ IF new < old THEN timer' \in SetOneshot(new, now) ELSE timer' = timer
    BY <1>6 DEF AddStored, loopvars
  <2>2. periodic_timeouts' # <<>>
    <3>1. Len(periodic_timeouts') = Len(periodic_timeouts) + 1
      BY <1>2, <2>1, Vectors, InsertContents
    <3> QED
      BY <3>1, Vectors, EmptySeq
  <2>3. /\ new = periodic_timeouts'[1].timeout /\ new \in Instants /\ new \in Nat
        /\ old = periodic_timeouts[1].timeout /\ old \in Instants /\ old \in Nat
    BY <2>1, <2>2, FirstTypes DEF Basic, TypeOK
  <2> HIDE DEF old, new
  <2>4. CASE new < old
    <3>1. Armed(timer', new, now)
      BY <1>3, <2>1, <2>3, <2>4, OneshotArms DEF Armed, Constants
    <3> QED
      BY <1>1, <2>3, <3>1 DEF ArmedInv
  <2>5. CASE ~ (new < old)
    <3>1. timer' = timer /\ old <= new /\ now <= now /\ timer \in Instants \cup {Disarmed}
      BY <2>1, <2>3, <2>5, Numbers
    <3>2. Armed(timer, old, now) => Armed(timer, new, now)
      BY <1>3, <2>3, <3>1, ArmedStays DEF Constants
    <3> QED
      BY <1>1, <2>1, <2>3, <3>1, <3>2 DEF ArmedInv
  <2> QED
    BY <2>4, <2>5
<1> QED
  BY <1>1, <1>4, <1>5, <1>6

\* Removing entries leaves the timer early.
LEMMA RemoveStaysArmed ==
  ASSUME Constants, Basic, Basic', PassInv, ArmedInv, NEW h \in Handles, RemoveTimeout(h),
         pc' # "crashed"
  PROVE  ArmedInv'
<1>1. /\ UNCHANGED <<timer, now, thrown>> /\ pc' = pc
      /\ processing_periodic_timeouts <=> pc = "scan"
  BY RemoveCases DEF PassInv
<1>2. CASE pc = "scan" \/ periodic_timeouts' = periodic_timeouts
  BY <1>1, <1>2 DEF ArmedInv
<1>3. CASE pc # "scan" /\ periodic_timeouts' # periodic_timeouts
  <2>1. Thinned(periodic_timeouts', periodic_timeouts)
    <3>1. \/ \E k \in 1..Len(periodic_timeouts) :
               periodic_timeouts' = RemoveAt(periodic_timeouts, k)
          \/ periodic_timeouts # <<>> /\ periodic_timeouts' = Front(periodic_timeouts)
      BY <1>1, <1>3, RemoveCases
    <3> QED
      BY <3>1, Vectors, RemoveThins, FrontThins
  <2>2. /\ periodic_timeouts \in Seq(Entry) /\ periodic_timeouts' \in Seq(Entry)
        /\ Ordered(periodic_timeouts) /\ Timed(Entry)
        /\ now \in Instants /\ now <= now /\ timer \in Instants \cup {Disarmed}
    BY Vectors, Numbers DEF Basic, TypeOK
  <2> SUFFICES ASSUME pc \in {"loop", "read"}, periodic_timeouts' # <<>>, ~ thrown
               PROVE  Armed(timer, periodic_timeouts'[1].timeout, now)
    BY <1>1 DEF ArmedInv
  <2>3. /\ periodic_timeouts # <<>>
        /\ periodic_timeouts'[1].timeout >= periodic_timeouts[1].timeout
    BY <2>1, <2>2, ThinnedFirst
  <2>4. /\ periodic_timeouts[1].timeout \in Instants /\ periodic_timeouts[1].timeout \in Nat
        /\ periodic_timeouts'[1].timeout \in Instants /\ periodic_timeouts'[1].timeout \in Nat
    BY <2>2, <2>3, FirstTypes
  <2>5. Armed(timer, periodic_timeouts[1].timeout, now)
    BY <2>3 DEF ArmedInv
  <2>6. periodic_timeouts[1].timeout <= periodic_timeouts'[1].timeout
    BY <2>3, <2>4
  <2> QED
    BY <2>2, <2>4, <2>5, <2>6, ArmedStays DEF Constants
<1> QED
  BY <1>2, <1>3

LEMMA StepArmed == Inv /\ Inv' /\ ArmedInv /\ [Next]_vars => ArmedInv'
<1> SUFFICES ASSUME Inv, Inv', ArmedInv, [Next]_vars, pc' # "crashed"
             PROVE  ArmedInv'
  BY DEF ArmedInv
<1>0. Constants /\ Basic /\ Basic' /\ PassInv
  BY ConstantsAssumed, CrashedStays DEF Inv, Basic
<1>1. CASE UNCHANGED vars
  BY <1>1 DEF vars, loopvars, history, ArmedInv
<1>2. CASE Tick
  <2>1. /\ UNCHANGED <<periodic_timeouts, timer, pc, thrown>>
        /\ now \in Instants /\ now' \in Instants /\ now <= now'
        /\ timer \in Instants \cup {Disarmed} /\ periodic_timeouts \in Seq(Entry)
    BY <1>0, <1>2 DEF Tick, loopvars, history, Basic, TypeOK, Instants
  <2> SUFFICES ASSUME pc \in {"loop", "read"}, periodic_timeouts # <<>>, ~ thrown
               PROVE  Armed(timer, periodic_timeouts[1].timeout, now')
    BY <2>1 DEF ArmedInv
  <2>2. /\ periodic_timeouts[1].timeout \in Instants
        /\ periodic_timeouts[1].timeout <= periodic_timeouts[1].timeout
    BY <1>0, <2>1, FirstTypes DEF Instants
  <2>3. Armed(timer, periodic_timeouts[1].timeout, now)
    BY DEF ArmedInv
  <2> QED
    BY <1>0, <2>1, <2>2, <2>3, ArmedStays DEF Constants
<1>3. ASSUME NEW p \in Periods[next_id], AddPeriodicTimeout(p)
      PROVE  ArmedInv'
  BY <1>0, <1>3, AddArms
<1>4. ASSUME NEW h \in Handles, RemoveTimeout(h)
      PROVE  ArmedInv'
  BY <1>0, <1>4, RemoveStaysArmed
<1>5. CASE EpollWait \/ BatchAbandoned \/ CallProcessPeriodicTimeouts
  BY <1>5 DEF EpollWait, BatchAbandoned, CallProcessPeriodicTimeouts, history, ArmedInv
<1>6. CASE ReadTimer \/ SkipRemoved \/ InvokeTimeout
  BY <1>6 DEF ReadTimer, SkipRemoved, InvokeTimeout, AtEntry, Scanning, ArmedInv
<1>7. CASE CallbackReturns \/ CallbackThrows
  BY <1>0, <1>7 DEF CallbackReturns, CallbackThrows, history, Basic, ArmedInv
<1>8. CASE StopAtUnexpired \/ StopAtEnd \/ DestroyedEntry
  BY <1>8 DEF StopAtUnexpired, StopAtEnd, DestroyedEntry, EndPass, Crash, ArmedInv
<1>9. CASE EraseMarked \/ ResetTimeouts \/ MergePending
  BY <1>9 DEF EraseMarked, ResetTimeouts, MergePending, loopvars, ArmedInv
<1>10. CASE RearmTimer
  <2> SUFFICES ASSUME periodic_timeouts # <<>>
               PROVE  Armed(timer', periodic_timeouts[1].timeout, now)
    BY <1>10 DEF RearmTimer, history, ArmedInv
  <2>1. /\ Head(periodic_timeouts) = periodic_timeouts[1]
        /\ periodic_timeouts[1].timeout \in Instants
    BY <1>0, Vectors, FirstTypes
  <2>2. timer' \in SetOneshot(periodic_timeouts[1].timeout, now)
    BY <1>10, <2>1 DEF RearmTimer
  <2> QED
    BY <1>0, <2>1, <2>2, Numbers, OneshotArms DEF Armed, Constants
<1> QED
  BY <1>1, <1>2, <1>3, <1>4, <1>5, <1>6, <1>7, <1>8, <1>9, <1>10 DEF Next, LoopStep

\* While periodic timeouts wait, the timer is armed for the earliest of them,
\* at most MaxLatency late, whatever user code adds and removes between and
\* within passes of process_periodic_timeouts, as long as no periodic callback
\* throws and undefined behaviour has not ended the program.
THEOREM StaysArmed == Spec => []EarliestIsArmed
<1>1. Init => ArmedInv
  BY DEF Init, ArmedInv
<1>2. ASSUME Inv, ArmedInv PROVE EarliestIsArmed
  <2>1. periodic_timeouts # <<>> => Head(periodic_timeouts) = periodic_timeouts[1]
    BY <1>2, FirstEntry DEF Inv, Basic, TypeOK
  <2> QED
    BY <1>2, <2>1 DEF ArmedInv, EarliestIsArmed, Armed, Soon
<1> QED
  BY <1>1, <1>2, StepArmed, Invariance, PTL DEF Spec

-----------------------------------------------------------------------------
(* When callbacks are called.                                              *)

LEMMA FiringStep ==
  ASSUME [Next]_vars, firing' # firing, firing' # NoHandle
  PROVE  InvokeTimeout
<1>1. ~ \E p : AddPeriodicTimeout(p)
  BY AddCases DEF AddPending, AddFirst, AddStored, Crash, loopvars
<1>2. ~ \E h \in Handles : RemoveTimeout(h)
  BY DEF RemoveTimeout, RemoveStored, RemovePending, Crash, loopvars
<1> QED
  BY <1>1, <1>2 DEF Next, LoopStep, vars, loopvars, history, Tick, EpollWait,
     BatchAbandoned, CallProcessPeriodicTimeouts, ReadTimer, SkipRemoved, CallbackReturns,
     CallbackThrows, StopAtUnexpired, StopAtEnd, DestroyedEntry, EndPass, Crash,
     EraseMarked, ResetTimeouts, MergePending, RearmTimer

\* The entry whose callback is called waited for its call.
LEMMA FiringEntry ==
  ASSUME Inv, [Next]_vars, firing' # firing, firing' # NoHandle
  PROVE  /\ i + 1 \in 1..Len(periodic_timeouts)
         /\ Current = periodic_timeouts[i + 1] /\ Current \in Entry
         /\ firing' = Current.handle
         /\ ~ Current.remove /\ ~ Current.processed /\ Current.timeout <= started
         /\ EntryOK(Current, next_id, since, cancelled)
         /\ PassInv /\ Contents
<1>0. Constants /\ Basic /\ InvokeTimeout
  BY ConstantsAssumed, FiringStep DEF Inv
<1>1. /\ pc = "scan" /\ i + 1 \in 1..Len(periodic_timeouts)
      /\ Current = periodic_timeouts[i + 1] /\ Current \in Entry
      /\ ~ Current.remove /\ Current.timeout <= started
      /\ firing' = Current.handle
  BY <1>0, InvokedEntry
<1>2. ~ (i + 1 <= i)
  BY <1>0, Numbers
<1>3. PassInv /\ Contents /\ ProcessedInv
  BY <1>1 DEF Inv, Basic
<1>4. ~ Current.processed
  BY <1>1, <1>2, <1>3 DEF ProcessedInv, ProcessedInScan
<1>5. EntryOK(Current, next_id, since, cancelled)
  BY <1>1, <1>3 DEF Contents, StoredOK
<1> QED
  BY <1>1, <1>3, <1>4, <1>5

\* process_periodic_timeouts never calls a timeout that remove_timeout found
\* stored, whether it erased or only marked it.
THEOREM RemovedStaysSilent == Spec => RemovedNeverFires
<1>1. ASSUME Inv, [Next]_vars, firing' # firing, firing' # NoHandle
      PROVE  firing' \notin cancelled
  BY <1>1, FiringEntry DEF EntryOK
<1>2. Inv /\ [Next]_vars
        => [firing' # firing /\ firing' # NoHandle => firing' \notin cancelled]_vars
  BY <1>1
<1> QED
  BY <1>2, Invariance, PTL DEF Spec, RemovedNeverFires

\* process_periodic_timeouts calls a callback at the earliest a period after
\* its last call, or after add_periodic_timeout, although entries are reset
\* and sorted while callbacks of the same pass add and remove others.
THEOREM PeriodIsKept == Spec => KeepsPeriod
<1> DEFINE Waited == now >= UpTo(since[firing' + 1] + Current.period)
<1>1. ASSUME Inv, [Next]_vars, firing' # firing, firing' # NoHandle
      PROVE  Waited
  <2>0. Constants /\ Basic
    BY <1>1, ConstantsAssumed DEF Inv
  <2>1. /\ Current \in Entry /\ firing' = Current.handle /\ ~ Current.processed
        /\ Current.timeout <= started /\ EntryOK(Current, next_id, since, cancelled)
        /\ PassInv
    BY <1>1, FiringEntry
  <2> DEFINE x == since[Current.handle + 1] + Current.period
  <2>2. Current.timeout >= UpTo(x)
    BY <2>1 DEF EntryOK
  <2>3. x \in Nat
    <3>1. /\ Current.handle \in Nat /\ Current.handle < next_id /\ next_id \in Nat
          /\ Current.period \in Nat
      BY <2>0, <2>1, EntryFields, Numbers DEF EntryOK, Constants
    <3>2. Current.handle + 1 \in 1..next_id
      BY <3>1
    <3>3. since[Current.handle + 1] \in Nat
      BY <2>0, <3>2, Numbers
    <3> QED
      BY <3>1, <3>3
  <2>4. Waited <=> now >= UpTo(x)
    BY <2>1
  <2> HIDE DEF x
  <2>5. UpTo(x) \in Nat
    BY <2>0, <2>3, UpToBounds DEF Constants
  <2>6. /\ Current.timeout \in Nat /\ started \in Nat /\ now \in Nat /\ started <= now
    BY <2>0, <2>1, EntryFields, Numbers DEF Constants, PassInv
  <2> QED
    BY <2>1, <2>2, <2>4, <2>5, <2>6
<1>2. Inv /\ [Next]_vars => [firing' # firing /\ firing' # NoHandle => Waited]_vars
  BY <1>1
<1> QED
  BY <1>2, Invariance, PTL DEF Spec, KeepsPeriod
=============================================================================
