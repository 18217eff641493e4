----------------------- MODULE IoLoopCallbacksProofs -----------------------
(***************************************************************************)
(* Proofs about IoLoopCallbacks for any number of threads and callbacks    *)
(* and any eventfd limit.                                                  *)
(***************************************************************************)
EXTENDS IoLoopCallbacks, SequenceTheorems, TLAPS

-----------------------------------------------------------------------------
(* Type correctness.                                                       *)

\* An argument is a callback from the call of add_callback to its return.
ArgOK ==
  \A t \in Actors : at[t] \in {"lock", "push", "write", "unlock"}
                      <=> arg[t] \in Callbacks

\* The strengthening of TypeOK that AddPush needs.
TypeInv == TypeOK /\ ArgOK

LEMMA MembersType ==
  ASSUME NEW S, NEW s \in Seq(S)
  PROVE  Members(s) \subseteq S
BY ElementOfSeq, LenProperties DEF Members

LEMMA TypeStep == TypeInv /\ [Next]_vars => TypeInv'
<1> SUFFICES ASSUME TypeInv, [Next]_vars
             PROVE  TypeInv'
  OBVIOUS
<1> USE CallbacksAssumption, EfdMaxAssumption, ThreadsAssumption
      DEF TypeInv, TypeOK, ArgOK, Callback, Actors
<1>1. CASE UNCHANGED vars
  BY <1>1 DEF vars, shared, calls, looping, history
<1>2. ASSUME NEW t \in Actors, NEW c \in Callbacks, AddCall(t, c)
      PROVE  TypeInv'
  BY <1>2 DEF AddCall, MayCall, shared, looping, history
<1>3. ASSUME NEW t \in Actors, AddLock(t)
      PROVE  TypeInv'
  BY <1>3 DEF AddLock, looping, history
<1>4. ASSUME NEW t \in Actors, AddPush(t)
      PROVE  TypeInv'
  <2>1. arg[t] \in Callbacks
    BY <1>4 DEF AddPush
  <2>2. new_callbacks' \in Seq(Callbacks)
    BY <1>4, <2>1, AppendProperties DEF AddPush
  <2> QED
    BY <1>4, <2>2 DEF AddPush, looping, history
<1>5. ASSUME NEW t \in Actors, AddWrite(t)
      PROVE  TypeInv'
  BY <1>5 DEF AddWrite, looping, history
<1>6. ASSUME NEW t \in Actors, AddWriteFails(t)
      PROVE  TypeInv'
  BY <1>6 DEF AddWriteFails, shared, looping
<1>7. ASSUME NEW t \in Actors, AddUnlock(t)
      PROVE  TypeInv'
  BY <1>7 DEF AddUnlock, looping, history
<1>8. ASSUME NEW t \in Actors, StopClear(t)
      PROVE  TypeInv'
  BY <1>8 DEF StopClear, MayCall, looping, history
<1>9. ASSUME NEW t \in Actors, StopWrite(t)
      PROVE  TypeInv'
  BY <1>9 DEF StopWrite, looping, history
<1>10. CASE Start
  BY <1>10 DEF Start, calls, history
<1>11. CASE TestKeepRunning
  BY <1>11 DEF TestKeepRunning, shared, calls, history
<1>12. CASE EpollWait
  BY <1>12 DEF EpollWait, Ready, shared, calls, history
<1>13. CASE EpollInterrupted
  BY <1>13 DEF EpollInterrupted, shared, calls, history
<1>14. CASE BatchDone
  BY <1>14 DEF BatchDone, shared, calls, history
<1>15. CASE ProcessStop
  BY <1>15 DEF ProcessStop, calls, history
<1>16. CASE ReadEventfd
  BY <1>16 DEF ReadEventfd, calls, history
<1>17. CASE LockCallbacks
  BY <1>17 DEF LockCallbacks, calls, history
<1>18. CASE MoveCallbacks
  BY <1>18 DEF MoveCallbacks, calls, history
<1>19. CASE UnlockCallbacks
  BY <1>19 DEF UnlockCallbacks, calls, history
<1>20. CASE RunCallback
  <2>1. /\ Head(callbacks) \in Callbacks
        /\ callbacks' \in Seq(Callbacks)
    BY <1>20, HeadTailProperties DEF RunCallback
  <2>2. settled' \in Seq(Callbacks)
    BY <1>20, <2>1, AppendProperties DEF RunCallback
  <2> QED
    BY <1>20, <2>1, <2>2 DEF RunCallback, shared, calls
<1>21. CASE CallbackReturns
  BY <1>21 DEF CallbackReturns, shared, calls, history
<1>22. CASE CallbackThrows
  <2>1. settled' \in Seq(Callbacks)
    BY <1>22, ConcatProperties DEF CallbackThrows
  <2>2. lost' \subseteq Callbacks
    BY <1>22, MembersType DEF CallbackThrows
  <2> QED
    BY <1>22, <2>1, <2>2 DEF CallbackThrows, shared, calls
<1>23. CASE CallbacksDone
  BY <1>23 DEF CallbacksDone, shared, calls, history
<1> QED
  BY <1>1, <1>2, <1>3, <1>4, <1>5, <1>6, <1>7, <1>8, <1>9, <1>10, <1>11,
     <1>12, <1>13, <1>14, <1>15, <1>16, <1>17, <1>18, <1>19, <1>20, <1>21,
     <1>22, <1>23 DEF Next, CallStep, LoopStep

LEMMA TypeInit == Init => TypeInv
BY CallbacksAssumption, EfdMaxAssumption
   DEF Init, TypeInv, TypeOK, ArgOK, Callback, Actors

\* The members of ioloop keep their types in every interleaving.
THEOREM TypeCorrect == Spec => []TypeOK
<1>1. TypeInv => TypeOK
  BY DEF TypeInv
<1> QED
  BY <1>1, TypeInit, TypeStep, PTL DEF Spec

-----------------------------------------------------------------------------
(* Mutual exclusion on new_callbacks_.                                     *)

\* Who holds the mutex, and when the loop thread may be in add_callback: the
\* facts that make VectorIsProtected inductive.
LockInv ==
  /\ \A t \in Actors : at[t] \in {"push", "write", "unlock"} => mutex = t
  /\ pc \in {"move", "unlock"} => mutex = Loop
  /\ at[Loop] # "out" => (pc = "idle" \/ running # NoCallback)
  /\ running # NoCallback => pc = "run"

LEMMA LockInit == Init => LockInv
BY DEF Init, LockInv, Actors

LEMMA LockStep == TypeInv /\ LockInv /\ [Next]_vars => LockInv'
<1> SUFFICES ASSUME TypeInv, LockInv, [Next]_vars
             PROVE  LockInv'
  OBVIOUS
<1> USE ThreadsAssumption, CallbacksAssumption
      DEF TypeInv, TypeOK, LockInv, Actors
<1>1. CASE UNCHANGED vars
  BY <1>1 DEF vars, shared, calls, looping, history
<1>2. ASSUME NEW t \in Actors, NEW c \in Callbacks, AddCall(t, c)
      PROVE  LockInv'
  BY <1>2 DEF AddCall, MayCall, shared, looping
<1>3. ASSUME NEW t \in Actors, AddLock(t)
      PROVE  LockInv'
  BY <1>3 DEF AddLock, looping
<1>4. ASSUME NEW t \in Actors, AddPush(t)
      PROVE  LockInv'
  BY <1>4 DEF AddPush, looping
<1>5. ASSUME NEW t \in Actors, AddWrite(t)
      PROVE  LockInv'
  BY <1>5 DEF AddWrite, looping
<1>6. ASSUME NEW t \in Actors, AddWriteFails(t)
      PROVE  LockInv'
  BY <1>6 DEF AddWriteFails, shared, looping
<1>7. ASSUME NEW t \in Actors, AddUnlock(t)
      PROVE  LockInv'
  BY <1>7 DEF AddUnlock, looping
<1>8. ASSUME NEW t \in Actors, StopClear(t)
      PROVE  LockInv'
  BY <1>8 DEF StopClear, MayCall, looping
<1>9. ASSUME NEW t \in Actors, StopWrite(t)
      PROVE  LockInv'
  BY <1>9 DEF StopWrite, looping
<1>10. CASE Start
  BY <1>10 DEF Start, calls
<1>11. CASE TestKeepRunning
  BY <1>11 DEF TestKeepRunning, shared, calls
<1>12. CASE EpollWait \/ EpollInterrupted \/ BatchDone
  BY <1>12 DEF EpollWait, EpollInterrupted, BatchDone, shared, calls
<1>13. CASE ProcessStop \/ ReadEventfd
  BY <1>13 DEF ProcessStop, ReadEventfd, calls
<1>14. CASE LockCallbacks
  BY <1>14 DEF LockCallbacks, calls
<1>15. CASE MoveCallbacks
  BY <1>15 DEF MoveCallbacks, calls
<1>16. CASE UnlockCallbacks
  BY <1>16 DEF UnlockCallbacks, calls
<1>17. CASE RunCallback
  <2>1. Head(callbacks) \in Callbacks
    BY <1>17, HeadTailProperties DEF RunCallback
  <2> QED
    BY <1>17, <2>1 DEF RunCallback, shared, calls
<1>18. CASE CallbackReturns \/ CallbackThrows
  BY <1>18 DEF CallbackReturns, CallbackThrows, shared, calls
<1>19. CASE CallbacksDone
  BY <1>19 DEF CallbacksDone, shared, calls
<1> QED
  BY <1>1, <1>2, <1>3, <1>4, <1>5, <1>6, <1>7, <1>8, <1>9, <1>10, <1>11,
     <1>12, <1>13, <1>14, <1>15, <1>16, <1>17, <1>18, <1>19
     DEF Next, CallStep, LoopStep

\* add_callback and process_callbacks never touch new_callbacks_ at once.
THEOREM MutualExclusion == Spec => []VectorIsProtected
<1>1. TypeInv /\ LockInv => VectorIsProtected
  BY ThreadsAssumption DEF TypeInv, TypeOK, LockInv, VectorIsProtected, Actors
<1> QED
  BY <1>1, TypeInit, TypeStep, LockInit, LockStep, PTL DEF Spec

-----------------------------------------------------------------------------
(* No wakeup is lost.                                                      *)

LEMMA MembersAppend ==
  ASSUME NEW S, NEW s \in Seq(S), NEW c \in S
  PROVE  Members(Append(s, c)) = Members(s) \cup {c}
<1>1. /\ Append(s, c) \in Seq(S)
      /\ Len(Append(s, c)) = Len(s) + 1
      /\ \A i \in 1..Len(s) : Append(s, c)[i] = s[i]
      /\ Append(s, c)[Len(s) + 1] = c
  BY AppendProperties
<1>2. /\ Len(s) \in Nat
      /\ DOMAIN s = 1..Len(s)
      /\ DOMAIN Append(s, c) = 1..(Len(s) + 1)
  BY <1>1, LenProperties
<1>3. 1..(Len(s) + 1) = (1..Len(s)) \cup {Len(s) + 1}
  BY <1>2
<1> QED
  BY <1>1, <1>2, <1>3 DEF Members

LEMMA WakeupInit == Init => NoLostWakeup
BY DEF Init, NoLostWakeup, Members

LEMMA WakeupStep ==
  TypeInv /\ LockInv /\ NoLostWakeup /\ [Next]_vars => NoLostWakeup'
<1> SUFFICES ASSUME TypeInv, LockInv, NoLostWakeup, [Next]_vars
             PROVE  NoLostWakeup'
  OBVIOUS
<1> USE EfdMaxAssumption DEF TypeInv, TypeOK, NoLostWakeup
<1>1. CASE UNCHANGED vars
  BY <1>1 DEF vars, shared, calls, looping, history
<1>2. ASSUME NEW t \in Actors, NEW c \in Callbacks, AddCall(t, c)
      PROVE  NoLostWakeup'
  BY <1>2 DEF AddCall, MayCall, shared, looping, history
<1>3. ASSUME NEW t \in Actors, AddLock(t)
      PROVE  NoLostWakeup'
  BY <1>3 DEF AddLock, looping, history
<1>4. ASSUME NEW t \in Actors, AddPush(t)
      PROVE  NoLostWakeup'
  <2>1. arg[t] \in Callbacks
    BY <1>4 DEF AddPush, ArgOK
  <2>2. Members(new_callbacks') = Members(new_callbacks) \cup {arg[t]}
    BY <1>4, <2>1, MembersAppend DEF AddPush
  <2> QED
    BY <1>4, <2>2 DEF AddPush, looping, history
<1>5. ASSUME NEW t \in Actors, AddWrite(t)
      PROVE  NoLostWakeup'
  BY <1>5 DEF AddWrite
<1>6. ASSUME NEW t \in Actors, AddWriteFails(t)
      PROVE  NoLostWakeup'
  BY <1>6 DEF AddWriteFails, shared, looping
<1>7. ASSUME NEW t \in Actors, AddUnlock(t)
      PROVE  NoLostWakeup'
  BY <1>7 DEF AddUnlock, looping, history
<1>8. ASSUME NEW t \in Actors, StopClear(t) \/ StopWrite(t)
      PROVE  NoLostWakeup'
  BY <1>8 DEF StopClear, StopWrite, MayCall, looping, history
<1>9. CASE Start \/ TestKeepRunning \/ EpollWait \/ EpollInterrupted \/ BatchDone
  BY <1>9 DEF Start, TestKeepRunning, EpollWait, EpollInterrupted, BatchDone,
              shared, calls, history
<1>10. CASE ProcessStop \/ UnlockCallbacks
  BY <1>10 DEF ProcessStop, UnlockCallbacks, calls, history
<1>11. CASE ReadEventfd
  BY <1>11 DEF ReadEventfd, calls, history
<1>12. CASE LockCallbacks
  BY <1>12 DEF LockCallbacks, calls, history
<1>13. CASE MoveCallbacks
  BY <1>13 DEF MoveCallbacks, Members
<1>14. CASE RunCallback \/ CallbackReturns \/ CallbackThrows \/ CallbacksDone
  <2>1. pc = "run"
    BY <1>14 DEF RunCallback, CallbackReturns, CallbackThrows, CallbacksDone,
                 LockInv
  <2> QED
    BY <1>14, <2>1 DEF RunCallback, CallbackReturns, CallbackThrows,
                       CallbacksDone, shared, calls, history
<1> QED
  BY <1>1, <1>2, <1>3, <1>4, <1>5, <1>6, <1>7, <1>8, <1>9, <1>10, <1>11,
     <1>12, <1>13, <1>14 DEF Next, CallStep, LoopStep

\* Every callback queued by a successful add_callback has its wakeup under
\* way, with any number of threads calling add_callback at once.
THEOREM WakeupsAreKept == Spec => []NoLostWakeup
BY TypeInit, TypeStep, LockInit, LockStep, WakeupInit, WakeupStep, PTL DEF Spec

-----------------------------------------------------------------------------
(* Events stay signalled until their handler reads them.                   *)

LEMMA SignalledStep ==
  TypeInv /\ DispatchedEventsStaySignalled /\ [Next]_vars
    => DispatchedEventsStaySignalled'
<1> SUFFICES ASSUME TypeInv, DispatchedEventsStaySignalled, [Next]_vars
             PROVE  DispatchedEventsStaySignalled'
  OBVIOUS
<1> USE EfdMaxAssumption DEF TypeInv, TypeOK, DispatchedEventsStaySignalled
<1>1. CASE UNCHANGED vars
  BY <1>1 DEF vars, shared, looping
<1>2. ASSUME NEW t \in Actors, NEW c \in Callbacks, AddCall(t, c)
      PROVE  DispatchedEventsStaySignalled'
  BY <1>2 DEF AddCall, shared, looping
<1>3. ASSUME NEW t \in Actors, CallStep(t) \/ AddWriteFails(t) \/ StopClear(t)
      PROVE  DispatchedEventsStaySignalled'
  BY <1>3 DEF CallStep, AddLock, AddPush, AddWrite, AddWriteFails, AddUnlock,
              StopClear, StopWrite, shared, looping
<1>4. CASE EpollWait
  BY <1>4 DEF EpollWait, Ready, Events, shared
<1>5. CASE ProcessStop \/ ReadEventfd
  BY <1>5 DEF ProcessStop, ReadEventfd
<1>6. CASE Start \/ TestKeepRunning \/ EpollInterrupted \/ BatchDone
             \/ LockCallbacks \/ MoveCallbacks \/ UnlockCallbacks
  BY <1>6 DEF Start, TestKeepRunning, EpollInterrupted, BatchDone,
              LockCallbacks, MoveCallbacks, UnlockCallbacks, shared
<1>7. CASE RunCallback \/ CallbackReturns \/ CallbackThrows \/ CallbacksDone
  BY <1>7 DEF RunCallback, CallbackReturns, CallbackThrows, CallbacksDone, shared
<1> QED
  BY <1>1, <1>2, <1>3, <1>4, <1>5, <1>6, <1>7 DEF Next, LoopStep

\* No read of process_callbacks or process_stop finds its eventfd drained.
THEOREM ReadsSucceed == Spec => []DispatchedEventsStaySignalled
<1>1. Init => DispatchedEventsStaySignalled
  BY DEF Init, DispatchedEventsStaySignalled
<1> QED
  BY <1>1, TypeInit, TypeStep, SignalledStep, PTL DEF Spec

-----------------------------------------------------------------------------
(* The two vectors implement one FIFO queue.                               *)

\* Callbacks that are, or were, in one of the vectors.
Handed == Members(settled) \cup Members(callbacks) \cup Members(new_callbacks)

\* The local vector exists only between the move and the end of the run, and
\* what a caller is about to push is new.
QueueInv ==
  /\ pc \notin {"unlock", "run"} => callbacks = <<>>
  /\ \A t \in Actors : at[t] \in {"lock", "push"} => arg[t] \notin Handed
  /\ \A t, u \in Actors : arg[t] = arg[u] /\ arg[t] # NoCallback => t = u

LEMMA MembersConcat ==
  ASSUME NEW S, NEW s \in Seq(S), NEW r \in Seq(S)
  PROVE  Members(s \o r) = Members(s) \cup Members(r)
<1>1. /\ s \o r \in Seq(S)
      /\ Len(s \o r) = Len(s) + Len(r)
      /\ \A i \in 1 .. Len(s) + Len(r) : (s \o r)[i] =
                     IF i <= Len(s) THEN s[i] ELSE r[i - Len(s)]
  BY ConcatProperties
<1>2. /\ Len(s) \in Nat /\ DOMAIN s = 1..Len(s)
      /\ Len(r) \in Nat /\ DOMAIN r = 1..Len(r)
      /\ DOMAIN (s \o r) = 1..(Len(s) + Len(r))
  BY <1>1, LenProperties
<1>3. Members(s \o r) \subseteq Members(s) \cup Members(r)
  BY <1>1, <1>2 DEF Members
<1>4. Members(s) \subseteq Members(s \o r)
  BY <1>1, <1>2 DEF Members
<1>5. Members(r) \subseteq Members(s \o r)
  <2> SUFFICES ASSUME NEW j \in 1..Len(r)
               PROVE  r[j] \in Members(s \o r)
    BY <1>2 DEF Members
  <2>1. /\ Len(s) + j \in 1 .. Len(s) + Len(r)
        /\ ~ (Len(s) + j <= Len(s))
        /\ (Len(s) + j) - Len(s) = j
    BY <1>2
  <2>2. (s \o r)[Len(s) + j] = r[j]
    BY <1>1, <2>1
  <2> QED
    BY <1>2, <2>1, <2>2 DEF Members
<1> QED
  BY <1>3, <1>4, <1>5

LEMMA MembersHeadTail ==
  ASSUME NEW S, NEW s \in Seq(S), s # <<>>
  PROVE  /\ s = <<Head(s)>> \o Tail(s)
         /\ Members(s) = {Head(s)} \cup Members(Tail(s))
<1>1. /\ Head(s) \in S /\ Tail(s) \in Seq(S)
      /\ <<Head(s)>> \in Seq(S) /\ Len(<<Head(s)>>) = 1
      /\ <<Head(s)>>[1] = Head(s)
  BY HeadTailProperties
<1>2. s = <<Head(s)>> \o Tail(s)
  <2> DEFINE r == <<Head(s)>> \o Tail(s)
  <2>1. /\ r \in Seq(S)
        /\ Len(r) = 1 + Len(Tail(s))
        /\ \A i \in 1 .. 1 + Len(Tail(s)) : r[i] =
               IF i <= 1 THEN <<Head(s)>>[i] ELSE Tail(s)[i - 1]
    BY <1>1, ConcatProperties
  <2>2. /\ Len(Tail(s)) = Len(s) - 1 /\ Len(s) \in Nat \ {0}
        /\ \A i \in 1 .. Len(Tail(s)) : Tail(s)[i] = s[i+1]
        /\ Head(s) = s[1]
    BY HeadTailProperties, EmptySeq, LenProperties
  <2>3. Len(r) = Len(s)
    BY <2>1, <2>2
  <2>4. \A i \in 1 .. Len(s) : s[i] = r[i]
    BY <1>1, <2>1, <2>2
  <2> QED
    BY <2>1, <2>3, <2>4, SeqEqual
<1>3. Members(<<Head(s)>>) = {Head(s)}
  BY DEF Members
<1>4. Members(<<Head(s)>> \o Tail(s)) = Members(<<Head(s)>>) \cup Members(Tail(s))
  BY <1>1, MembersConcat
<1> QED
  BY <1>2, <1>3, <1>4, Zenon

\* Taking the first half of a concatenation, one element or all of it.
LEMMA ConcatSplit ==
  ASSUME NEW S, NEW s \in Seq(S), NEW r \in Seq(S), s # <<>>
  PROVE  /\ s \o r # <<>>
         /\ Head(s \o r) = Head(s)
         /\ Tail(s \o r) = Tail(s) \o r
         /\ SubSeq(s \o r, 1, Len(s)) = s
         /\ SubSeq(s \o r, Len(s) + 1, Len(s \o r)) = r
         /\ Len(s) \in 1..Len(s \o r)
<1> DEFINE c == s \o r
<1>1. /\ c \in Seq(S)
      /\ Len(c) = Len(s) + Len(r)
      /\ \A i \in 1 .. Len(s) + Len(r) : c[i] =
               IF i <= Len(s) THEN s[i] ELSE r[i - Len(s)]
  BY ConcatProperties
<1>2. Len(s) \in Nat \ {0} /\ Len(r) \in Nat
  BY EmptySeq, LenProperties
<1>3. c # <<>>
  BY <1>1, <1>2, EmptySeq
<1>4. Head(c) = Head(s)
  BY <1>1, <1>2
<1>5. Tail(c) = Tail(s) \o r
  <2>1. /\ Tail(c) \in Seq(S) /\ Len(Tail(c)) = Len(c) - 1
        /\ \A i \in 1 .. Len(Tail(c)) : Tail(c)[i] = c[i+1]
    BY <1>1, <1>3, HeadTailProperties
  <2>2. /\ Tail(s) \in Seq(S) /\ Len(Tail(s)) = Len(s) - 1
        /\ \A i \in 1 .. Len(Tail(s)) : Tail(s)[i] = s[i+1]
    BY HeadTailProperties
  <2>3. /\ Tail(s) \o r \in Seq(S)
        /\ Len(Tail(s) \o r) = Len(Tail(s)) + Len(r)
        /\ \A i \in 1 .. Len(Tail(s)) + Len(r) : (Tail(s) \o r)[i] =
               IF i <= Len(Tail(s)) THEN Tail(s)[i] ELSE r[i - Len(Tail(s))]
    BY <2>2, ConcatProperties
  <2> HIDE DEF c
  <2>4. Len(Tail(c)) = Len(Tail(s) \o r)
    BY <1>1, <1>2, <2>1, <2>2, <2>3
  <2>5. \A i \in 1 .. Len(Tail(c)) : Tail(c)[i] = (Tail(s) \o r)[i]
    BY <1>1, <1>2, <2>1, <2>2, <2>3
  <2> QED
    BY <2>1, <2>3, <2>4, <2>5, SeqEqual
<1>6. SubSeq(c, 1, Len(s)) = s
  <2>1. SubSeq(c, 1, Len(s)) = SubSeq(s, 1, Len(s))
    BY <1>2, SubSeqOfConcat1
  <2> QED
    BY <2>1, SubSeqFull
<1>7. SubSeq(c, Len(s) + 1, Len(c)) = r
  <2>1. CASE r = <<>>
    BY <1>1, <1>2, <2>1, SubSeqEmpty
  <2>2. CASE r # <<>>
    <3>1. Len(r) \in Nat \ {0}
      BY <2>2, EmptySeq
    <3>2. SubSeq(c, Len(s) + 1, Len(s) + Len(r))
            = SubSeq(r, (Len(s) + 1) - Len(s), (Len(s) + Len(r)) - Len(s))
      BY <1>2, <3>1, SubSeqOfConcat2
    <3>3. (Len(s) + 1) - Len(s) = 1 /\ (Len(s) + Len(r)) - Len(s) = Len(r)
      BY <1>2
    <3> QED
      BY <1>1, <3>2, <3>3, SubSeqFull
  <2> QED
    BY <2>1, <2>2
<1> QED
  BY <1>1, <1>2, <1>3, <1>4, <1>5, <1>6, <1>7

LEMMA QueueInit == Init => QueueInv
BY CallbacksAssumption DEF Init, QueueInv, Handed, Members, Actors

LEMMA QueueStep ==
  TypeInv /\ LockInv /\ QueueInv /\ [Next]_vars => QueueInv'
<1> SUFFICES ASSUME TypeInv, LockInv, QueueInv, [Next]_vars
             PROVE  QueueInv'
  OBVIOUS
<1> USE CallbacksAssumption, ThreadsAssumption
      DEF TypeInv, TypeOK, ArgOK, Callback, QueueInv
<1>1. CASE UNCHANGED vars
  BY <1>1 DEF vars, shared, calls, looping, history, Handed
<1>2. ASSUME NEW t \in Actors, NEW c \in Callbacks, AddCall(t, c)
      PROVE  QueueInv'
  <2>1. Handed' = Handed
    BY <1>2 DEF AddCall, shared, looping, history, Handed
  <2>2. c \notin Handed /\ \A u \in Actors : arg[u] # c
    BY <1>2 DEF AddCall, Used, Handed
  <2> QED
    BY <1>2, <2>1, <2>2 DEF AddCall, MayCall, looping
<1>3. ASSUME NEW t \in Actors, AddPush(t)
      PROVE  QueueInv'
  <2>1. arg[t] \in Callbacks
    BY <1>3 DEF AddPush
  <2>2. Members(new_callbacks') = Members(new_callbacks) \cup {arg[t]}
    BY <1>3, <2>1, MembersAppend DEF AddPush
  <2>3. Handed' = Handed \cup {arg[t]}
    BY <1>3, <2>2 DEF AddPush, looping, history, Handed
  <2>4. \A u \in Actors : at'[u] \in {"lock", "push"} => u # t
    BY <1>3 DEF AddPush
  <2> QED
    BY <1>3, <2>1, <2>3, <2>4 DEF AddPush, looping
<1>4. ASSUME NEW t \in Actors,
             AddLock(t) \/ AddWrite(t) \/ AddWriteFails(t) \/ AddUnlock(t)
               \/ StopClear(t) \/ StopWrite(t)
      PROVE  QueueInv'
  <2>1. Handed' = Handed
    BY <1>4 DEF AddLock, AddWrite, AddWriteFails, AddUnlock, StopClear,
                StopWrite, shared, looping, history, Handed
  <2> QED
    BY <1>4, <2>1 DEF AddLock, AddWrite, AddWriteFails, AddUnlock, StopClear,
                      StopWrite, MayCall, looping
<1>5. CASE Start \/ TestKeepRunning \/ EpollWait \/ EpollInterrupted
             \/ BatchDone \/ ProcessStop \/ ReadEventfd \/ LockCallbacks
             \/ UnlockCallbacks \/ CallbackReturns \/ CallbacksDone
  BY <1>5 DEF Start, TestKeepRunning, EpollWait, EpollInterrupted, BatchDone,
              ProcessStop, ReadEventfd, LockCallbacks, UnlockCallbacks,
              CallbackReturns, CallbacksDone, shared, calls, history, Handed
<1>6. CASE MoveCallbacks
  <2>1. callbacks = <<>> /\ Members(<<>>) = {}
    BY <1>6 DEF MoveCallbacks, Members
  <2>2. Handed' = Handed
    BY <1>6, <2>1 DEF MoveCallbacks, history, Handed
  <2> QED
    BY <1>6, <2>2 DEF MoveCallbacks, calls
<1>7. CASE RunCallback
  <2>1. /\ Head(callbacks) \in Callbacks
        /\ Members(settled') = Members(settled) \cup {Head(callbacks)}
    BY <1>7, HeadTailProperties, MembersAppend DEF RunCallback
  <2>2. Members(callbacks) = {Head(callbacks)} \cup Members(callbacks')
    BY <1>7, MembersHeadTail DEF RunCallback
  <2>3. Handed' = Handed
    BY <1>7, <2>1, <2>2 DEF RunCallback, shared, Handed
  <2> QED
    BY <1>7, <2>3 DEF RunCallback, calls
<1>8. CASE CallbackThrows
  <2>1. Members(settled \o callbacks) = Members(settled) \cup Members(callbacks)
    BY MembersConcat
  <2>2. Members(<<>>) = {}
    BY DEF Members
  <2>3. Handed' = Handed
    BY <1>8, <2>1, <2>2 DEF CallbackThrows, shared, Handed
  <2> QED
    BY <1>8, <2>3 DEF CallbackThrows, calls
<1> QED
  BY <1>1, <1>2, <1>3, <1>4, <1>5, <1>6, <1>7, <1>8
     DEF Next, CallStep, LoopStep

LEMMA QueueRefinesInit == Init => Queue!Init
BY ConcatEmptySeq, EmptySeq DEF Init, Queue!Init

LEMMA QueueRefinesStep ==
  TypeInv /\ LockInv /\ QueueInv /\ [Next]_vars => [Queue!Next]_(Queue!vars)
<1> SUFFICES ASSUME TypeInv, LockInv, QueueInv, [Next]_vars
             PROVE  [Queue!Next]_(Queue!vars)
  OBVIOUS
<1> DEFINE pend == callbacks \o new_callbacks
<1> USE DEF TypeInv, TypeOK, Queue!vars
<1>0. pend \in Seq(Callbacks)
  BY ConcatProperties
<1>1. ASSUME UNCHANGED <<callbacks, new_callbacks, settled, lost>>
      PROVE  UNCHANGED Queue!vars
  BY <1>1
<1>2. ASSUME NEW t \in Actors, AddPush(t)
      PROVE  Queue!Submit(arg[t]) /\ arg[t] \in Callbacks
  <2>1. arg[t] \in Callbacks /\ arg[t] \notin Handed
    BY <1>2 DEF AddPush, ArgOK, QueueInv
  <2>2. arg[t] \notin Queue!Members(pend) \cup Queue!Members(settled)
    BY <2>1, MembersConcat DEF Handed, Queue!Members, Members
  <2>3. callbacks \o Append(new_callbacks, arg[t]) = Append(pend, arg[t])
    <3>1. /\ Append(new_callbacks, arg[t]) = new_callbacks \o <<arg[t]>>
          /\ Append(pend, arg[t]) = pend \o <<arg[t]>>
      BY <1>0, <2>1, AppendIsConcat
    <3>2. <<arg[t]>> \in Seq(Callbacks)
      BY <2>1
    <3> QED
      BY <3>1, <3>2, ConcatAssociative
  <2> QED
    BY <1>2, <2>1, <2>2, <2>3 DEF AddPush, looping, history, Queue!Submit
<1>3. CASE MoveCallbacks
  <2>1. callbacks = <<>>
    BY <1>3 DEF MoveCallbacks, QueueInv
  <2>2. new_callbacks \o <<>> = <<>> \o new_callbacks
    BY ConcatEmptySeq
  <2> QED
    BY <1>3, <2>1, <2>2 DEF MoveCallbacks, history
<1>4. CASE RunCallback
  <2>1. /\ pend # <<>>
        /\ Head(pend) = Head(callbacks)
        /\ Tail(pend) = Tail(callbacks) \o new_callbacks
    BY <1>4, ConcatSplit DEF RunCallback
  <2>2. Queue!RunNext
    BY <1>4, <2>1 DEF RunCallback, shared, Queue!RunNext
  <2> QED
    BY <2>2 DEF Queue!Next
<1>5. CASE CallbackThrows /\ callbacks # <<>>
  <2>1. /\ Len(callbacks) \in 1..Len(pend)
        /\ SubSeq(pend, 1, Len(callbacks)) = callbacks
        /\ SubSeq(pend, Len(callbacks) + 1, Len(pend)) = new_callbacks
    BY <1>5, ConcatSplit
  <2>2. /\ pend' = new_callbacks
        /\ settled' = settled \o callbacks
        /\ lost' = lost \cup Queue!Members(callbacks)
    BY <1>5, ConcatEmptySeq
       DEF CallbackThrows, shared, Members, Queue!Members
  <2>3. Queue!Abandon
    <3> HIDE DEF pend
    <3>1. \E n \in 1..Len(pend) :
            /\ pend' = SubSeq(pend, n + 1, Len(pend))
            /\ settled' = settled \o SubSeq(pend, 1, n)
            /\ lost' = lost \cup Queue!Members(SubSeq(pend, 1, n))
      BY <2>1, <2>2, Zenon
    <3> QED
      BY <3>1 DEF Queue!Abandon, pend
  <2> QED
    BY <2>3 DEF Queue!Next
<1>6. CASE CallbackThrows /\ callbacks = <<>>
  <2>1. settled \o <<>> = settled /\ Members(<<>>) = {}
    BY ConcatEmptySeq DEF Members
  <2> QED
    BY <1>6, <2>1 DEF CallbackThrows, shared
<1>7. ASSUME NEW t \in Actors,
             \/ AddLock(t) \/ AddWrite(t) \/ AddWriteFails(t) \/ AddUnlock(t)
             \/ StopClear(t) \/ StopWrite(t) \/ \E c \in Callbacks : AddCall(t, c)
      PROVE  UNCHANGED <<callbacks, new_callbacks, settled, lost>>
  BY <1>7 DEF AddCall, AddLock, AddWrite, AddWriteFails, AddUnlock, StopClear,
              StopWrite, shared, looping, history
<1>8. CASE Start \/ TestKeepRunning \/ EpollWait \/ EpollInterrupted
             \/ BatchDone \/ ProcessStop \/ ReadEventfd \/ LockCallbacks
             \/ UnlockCallbacks \/ CallbackReturns \/ CallbacksDone
  BY <1>8 DEF Start, TestKeepRunning, EpollWait, EpollInterrupted, BatchDone,
              ProcessStop, ReadEventfd, LockCallbacks, UnlockCallbacks,
              CallbackReturns, CallbacksDone, shared, history
<1>9. CASE UNCHANGED vars
  BY <1>9 DEF vars, shared, looping, history
<1> QED
  BY <1>1, <1>2, <1>3, <1>4, <1>5, <1>6, <1>7, <1>8, <1>9
     DEF Next, CallStep, LoopStep, Queue!Next

\* add_callback and process_callbacks implement the FIFO queue of
\* CallbackQueue: every step of any thread is a step of the queue or none.
THEOREM ImplementsQueue == Spec => FIFOQueue
BY TypeInit, TypeStep, LockInit, LockStep, QueueInit, QueueStep,
   QueueRefinesInit, QueueRefinesStep, PTL DEF Spec, FIFOQueue, Queue!Spec
=============================================================================
