----------------------- MODULE IoLoopHandlersProofs -----------------------
(***************************************************************************)
(* Proofs about IoLoopHandlers for any set of descriptors and any bounds.  *)
(***************************************************************************)
EXTENDS IoLoopHandlers, FiniteSetTheorems, SequenceTheorems, TLAPS

\* Where the loop thread is: events and a called handler exist only while
\* the handlers are processed, so only then are removals put off.
LoopInv ==
  /\ pc = "dispatch" => processing_handlers
  /\ batch # {} \/ calling # 0 => pc = "dispatch"
  /\ pc = "prune" => pruned <= Len(removed_handlers)
  /\ Len(removed_handlers) <= MaxRemovals

\* A handler's file was opened before, and no descriptor holds a later one.
FilesInv ==
  \A fd \in FDs :
    /\ file[fd] <= files /\ added_for[fd] <= files
    /\ handlers[fd] # 0 => added_for[fd] # 0

\* The inductive invariant.
Inv ==
  /\ TypeOK
  /\ LoopInv
  /\ FilesInv
  /\ InterestMatchesHandlers
  /\ SizeCoversInterest
  /\ EventsPointToHandlers

LEMMA InitInv == Init => Inv
<1> SUFFICES ASSUME Init PROVE Inv
  OBVIOUS
<1> USE BoundsAssumption DEF Init
<1>1. TypeOK
  <2>1. wanted \in [FDs -> BOOLEAN] /\ removed_handlers \in Seq(FDs)
    BY EmptySeq
  <2>2. calling \in 0..Own
    BY DEF Own
  <2>3. /\ file \in [FDs -> 0..MaxFiles] /\ added_for \in [FDs -> 0..MaxFiles]
        /\ epoll \in [FDs -> 0..MaxNodes] /\ handlers \in [FDs -> 0..MaxNodes]
    OBVIOUS
  <2>4. /\ files \in 0..MaxFiles /\ nodes \in 0..MaxNodes
        /\ pruned \in 0..MaxRemovals /\ size_events \in Nat
    OBVIOUS
  <2>5. /\ processing_handlers \in BOOLEAN /\ interrupted \in BOOLEAN
        /\ del_failed \in BOOLEAN
    BY Zenon
  <2> QED
    BY <2>1, <2>2, <2>3, <2>4, <2>5 DEF TypeOK
<1>2. LoopInv
  BY EmptySeq DEF LoopInv
<1>3. FilesInv /\ InterestMatchesHandlers /\ EventsPointToHandlers
  BY DEF FilesInv, InterestMatchesHandlers, EventsPointToHandlers
<1>4. SizeCoversInterest
  <2>1. Interest = {}
    BY DEF Interest
  <2>2. Cardinality(Interest) = 0
    BY <2>1, FS_EmptySet
  <2> QED
    BY <2>2 DEF SizeCoversInterest
<1> QED
  BY <1>1, <1>2, <1>3, <1>4 DEF Inv

\* Registering a descriptor adds one to the interest list.
LEMMA InterestGrows ==
  ASSUME BoundsAssumption, TypeOK, NEW fd \in FDs, NEW n \in Nodes,
         epoll[fd] = 0, epoll' = [epoll EXCEPT ![fd] = n]
  PROVE  Cardinality(Interest') = Cardinality(Interest) + 1
<1>1. Interest' = Interest \cup {fd} /\ fd \notin Interest
  BY DEF Interest, TypeOK, Nodes
<1>2. IsFiniteSet(Interest)
  BY BoundsAssumption, FS_Subset DEF Interest
<1> QED
  BY <1>1, <1>2, FS_AddElement

\* epoll::del on a listed descriptor takes one off, on any other none.
LEMMA InterestShrinks ==
  ASSUME BoundsAssumption, TypeOK, NEW fd \in FDs,
         epoll' = [epoll EXCEPT ![fd] = 0]
  PROVE  /\ Cardinality(Interest) \in Nat
         /\ epoll[fd] # 0 => Cardinality(Interest') = Cardinality(Interest) - 1
                             /\ Cardinality(Interest) >= 1
         /\ epoll[fd] = 0 => Interest' = Interest
<1>1. Interest' = Interest \ {fd} /\ (epoll[fd] # 0 <=> fd \in Interest)
  BY DEF Interest, TypeOK
<1>2. IsFiniteSet(Interest)
  BY BoundsAssumption, FS_Subset DEF Interest
<1>3. Cardinality(Interest) \in Nat
  BY <1>2, FS_CardinalityType
<1>4. ASSUME fd \in Interest
      PROVE  Cardinality(Interest') = Cardinality(Interest) - 1
             /\ Cardinality(Interest) >= 1
  <2>1. Cardinality(Interest \ {fd}) = Cardinality(Interest) - 1
    BY <1>2, <1>4, FS_RemoveElement
  <2>2. Cardinality(Interest \ {fd}) \in Nat
    BY <1>2, FS_RemoveElement, FS_CardinalityType
  <2> QED
    BY <1>1, <1>3, <2>1, <2>2
<1> QED
  BY <1>1, <1>3, <1>4

LEMMA StepInv == Inv /\ [Next]_vars => Inv'
<1> SUFFICES ASSUME Inv, [Next]_vars
             PROVE  Inv'
  OBVIOUS
<1> USE BoundsAssumption DEF Inv
<1>0. ASSUME UNCHANGED <<epoll, size_events>>
      PROVE  SizeCoversInterest'
  BY <1>0 DEF SizeCoversInterest, Interest
<1>1. CASE UNCHANGED vars
  BY <1>1, <1>0 DEF vars, kernel, members, looping, history, TypeOK, LoopInv,
     FilesInv, InterestMatchesHandlers, EventsPointToHandlers, LiveNodes
<1>2. ASSUME NEW fd \in FDs, OpenFd(fd)
      PROVE  Inv'
  <2> USE <1>2 DEF OpenFd, members, looping, history
  <2>1. TypeOK'
    BY DEF TypeOK
  <2>2. LoopInv'
    BY DEF LoopInv
  <2>3. FilesInv'
    BY DEF FilesInv, TypeOK
  <2>4. InterestMatchesHandlers'
    BY DEF InterestMatchesHandlers, FilesInv, TypeOK
  <2>5. EventsPointToHandlers'
    BY DEF EventsPointToHandlers, LiveNodes
  <2> QED
    BY <1>0, <2>1, <2>2, <2>3, <2>4, <2>5
<1>3. ASSUME NEW fd \in FDs, CloseFd(fd)
      PROVE  Inv'
  <2> USE <1>3 DEF CloseFd, members, looping, history
  <2>1. TypeOK'
    BY DEF TypeOK
  <2>2. LoopInv'
    BY DEF LoopInv
  <2>3. FilesInv'
    BY DEF FilesInv, TypeOK
  <2>4. InterestMatchesHandlers'
    BY DEF InterestMatchesHandlers, FilesInv, TypeOK
  <2>5. EventsPointToHandlers'
    BY DEF EventsPointToHandlers, LiveNodes
  <2>6. SizeCoversInterest'
    <3>1. /\ Cardinality(Interest) \in Nat
          /\ epoll[fd] # 0 => Cardinality(Interest') = Cardinality(Interest) - 1
          /\ epoll[fd] = 0 => Interest' = Interest
      BY InterestShrinks
    <3> QED
      BY <3>1 DEF SizeCoversInterest, TypeOK
  <2> QED
    BY <2>1, <2>2, <2>3, <2>4, <2>5, <2>6
<1>4. ASSUME NEW fd \in FDs, AddHandler(fd)
      PROVE  Inv'
  <2> USE <1>4 DEF AddHandler, EpollAdd, looping
  <2>1. TypeOK'
    BY DEF TypeOK
  <2>2. LoopInv'
    BY DEF LoopInv
  <2>3. FilesInv'
    BY DEF FilesInv, TypeOK
  <2>4. InterestMatchesHandlers'
    BY DEF InterestMatchesHandlers, FilesInv, TypeOK
  <2>5. EventsPointToHandlers'
    <3>1. 0 \notin batch
      BY DEF TypeOK, Nodes, Own
    <3>2. \A g \in FDs : handlers[g] # 0 => handlers'[g] = handlers[g]
      BY DEF TypeOK
    <3> QED
      BY <3>1, <3>2 DEF EventsPointToHandlers, LiveNodes
  <2>6. SizeCoversInterest'
    <3>1. nodes + 1 \in Nodes
      BY DEF TypeOK, Nodes
    <3>2. Cardinality(Interest') = Cardinality(Interest) + 1
      BY <3>1, InterestGrows
    <3>3. Cardinality(Interest) \in Nat
      BY FS_Subset, FS_CardinalityType DEF Interest
    <3> QED
      BY <3>2, <3>3 DEF SizeCoversInterest, TypeOK
  <2> QED
    BY <2>1, <2>2, <2>3, <2>4, <2>5, <2>6
<1>5. ASSUME NEW fd \in FDs, EpollDel(fd)
      PROVE  size_events' \in Nat /\ SizeCoversInterest'
  <2>1. /\ Cardinality(Interest) \in Nat
        /\ epoll[fd] # 0 => Cardinality(Interest') = Cardinality(Interest) - 1
                            /\ Cardinality(Interest) >= 1
        /\ epoll[fd] = 0 => Interest' = Interest
    BY <1>5, InterestShrinks DEF EpollDel
  <2>2. DelError(fd) = "none" => epoll[fd] # 0
    BY DEF DelError
  <2>3. CASE DelError(fd) = "none"
    BY <1>5, <2>1, <2>2, <2>3 DEF EpollDel, SizeCoversInterest, TypeOK
  <2>4. CASE DelError(fd) # "none"
    BY <1>5, <2>1, <2>4 DEF EpollDel, SizeCoversInterest, TypeOK
  <2> QED
    BY <2>3, <2>4
<1>6. ASSUME NEW fd \in FDs, EpollDel(fd), handlers' = [handlers EXCEPT ![fd] = 0],
             batch' = {}, calling' = 0,
             UNCHANGED <<file, files, added_for>>
      PROVE  /\ epoll' \in [FDs -> 0..MaxNodes] /\ handlers' \in [FDs -> 0..MaxNodes]
             /\ FilesInv' /\ InterestMatchesHandlers' /\ EventsPointToHandlers'
  <2>1. epoll' \in [FDs -> 0..MaxNodes] /\ handlers' \in [FDs -> 0..MaxNodes]
    BY <1>6 DEF EpollDel, TypeOK
  <2>2. FilesInv'
    BY <1>6 DEF FilesInv, TypeOK
  <2>3. InterestMatchesHandlers'
    BY <1>6 DEF InterestMatchesHandlers, EpollDel, TypeOK
  <2>4. EventsPointToHandlers'
    BY <1>6 DEF EventsPointToHandlers
  <2> QED
    BY <2>1, <2>2, <2>3, <2>4
<1>7. ASSUME NEW fd \in FDs, RemoveHandler(fd), processing_handlers
      PROVE  Inv'
  <2> USE <1>7 DEF RemoveHandler, PostponeRemoval, looping
  <2>0. /\ removed_handlers' = Append(removed_handlers, fd)
        /\ removed_handlers \in Seq(FDs)
    BY DEF TypeOK
  <2>1. /\ removed_handlers' \in Seq(FDs)
        /\ Len(removed_handlers') = Len(removed_handlers) + 1
        /\ Len(removed_handlers) \in Nat
    BY <2>0, AppendProperties, LenProperties
  <2>2. TypeOK'
    BY <2>1 DEF TypeOK
  <2>3. LoopInv'
    <3>1. /\ Len(removed_handlers) < MaxRemovals /\ (pc = "idle" \/ calling # 0)
          /\ UNCHANGED <<pc, batch, calling, pruned, processing_handlers>>
      BY DEF UserCode
    <3>2. Len(removed_handlers') <= MaxRemovals
      BY ONLY <2>1, <3>1, BoundsAssumption DEF BoundsAssumption
    <3>3. pc # "prune"
      BY ONLY <3>1, LoopInv DEF LoopInv
    <3> QED
      BY ONLY <3>1, <3>2, <3>3, LoopInv DEF LoopInv
  <2>4. FilesInv' /\ InterestMatchesHandlers'
    BY DEF FilesInv, InterestMatchesHandlers
  <2>5. EventsPointToHandlers'
    BY DEF EventsPointToHandlers, LiveNodes
  <2> QED
    BY <1>0, <2>2, <2>3, <2>4, <2>5
<1>8. ASSUME NEW fd \in FDs, RemoveHandler(fd), ~ processing_handlers
      PROVE  Inv'
  <2>1. batch = {} /\ calling = 0
    BY <1>8 DEF LoopInv
  <2>2. /\ size_events' \in Nat /\ SizeCoversInterest'
        /\ epoll' \in [FDs -> 0..MaxNodes] /\ handlers' \in [FDs -> 0..MaxNodes]
        /\ FilesInv' /\ InterestMatchesHandlers' /\ EventsPointToHandlers'
    BY <1>5, <1>6, <1>8, <2>1 DEF RemoveHandler, RemoveAtOnce, looping
  <2>3. del_failed' \in BOOLEAN
    BY <1>8 DEF RemoveHandler, RemoveAtOnce
  <2>4. TypeOK'
    BY <1>8, <2>2, <2>3 DEF RemoveHandler, RemoveAtOnce, looping, TypeOK
  <2>5. LoopInv'
    BY <1>8 DEF RemoveHandler, RemoveAtOnce, looping, LoopInv
  <2> QED
    BY <2>2, <2>4, <2>5
<1>9. CASE Start \/ StartReturns
  <2> USE <1>9 DEF Start, StartReturns, kernel, members, history
  <2>1. TypeOK' /\ LoopInv'
    BY DEF TypeOK, LoopInv
  <2>2. FilesInv' /\ InterestMatchesHandlers' /\ EventsPointToHandlers'
    BY DEF FilesInv, InterestMatchesHandlers, EventsPointToHandlers, LiveNodes
  <2> QED
    BY <1>0, <2>1, <2>2
<1>10. CASE EpollWait
  <2> USE <1>10 DEF EpollWait, kernel, history
  <2>1. Registered \subseteq Nodes /\ Registered \subseteq LiveNodes
    BY DEF Registered, LiveNodes, InterestMatchesHandlers, TypeOK, Nodes
  <2>2. TypeOK'
    BY <2>1 DEF TypeOK
  <2>3. LoopInv'
    BY DEF LoopInv
  <2>4. FilesInv' /\ InterestMatchesHandlers'
    BY DEF FilesInv, InterestMatchesHandlers
  <2>5. EventsPointToHandlers'
    <3>1. calling = 0
      BY DEF LoopInv
    <3> QED
      BY <2>1, <3>1 DEF EventsPointToHandlers, LiveNodes
  <2> QED
    BY <1>0, <2>2, <2>3, <2>4, <2>5
<1>11. ASSUME NEW node \in Nodes \cup {Own}, CallHandler(node)
       PROVE  Inv'
  <2> USE <1>11 DEF CallHandler, kernel, members, history
  <2>1. TypeOK'
    <3>1. node \in 0..Own
      BY DEF Nodes, Own
    <3> QED
      BY <3>1 DEF TypeOK
  <2>2. LoopInv'
    BY DEF LoopInv
  <2>3. FilesInv' /\ InterestMatchesHandlers'
    BY DEF FilesInv, InterestMatchesHandlers
  <2>4. EventsPointToHandlers'
    BY DEF EventsPointToHandlers, LiveNodes
  <2> QED
    BY <1>0, <2>1, <2>2, <2>3, <2>4
<1>12. CASE HandlerReturns \/ HandlerThrows
  <2> USE <1>12 DEF HandlerReturns, HandlerThrows, kernel, members, history
  <2>1. TypeOK'
    <3>1. processing_handlers' \in BOOLEAN /\ interrupted' \in BOOLEAN
      BY DEF TypeOK
    <3>2. calling' \in 0..Own
      BY DEF Own
    <3> QED
      BY <3>1, <3>2 DEF TypeOK
  <2>2. LoopInv'
    BY DEF LoopInv
  <2>3. FilesInv' /\ InterestMatchesHandlers'
    BY DEF FilesInv, InterestMatchesHandlers
  <2>4. EventsPointToHandlers'
    BY DEF EventsPointToHandlers, LiveNodes
  <2> QED
    BY <1>0, <2>1, <2>2, <2>3, <2>4
<1>13. CASE BatchDone
  <2> USE <1>13 DEF BatchDone, kernel, history
  <2>1. Len(removed_handlers) \in Nat
    BY LenProperties DEF TypeOK
  <2>2. TypeOK' /\ LoopInv'
    <3>1. processing_handlers' \in BOOLEAN
      OBVIOUS
    <3>2. TypeOK'
      BY <3>1 DEF TypeOK
    <3>3. LoopInv'
      BY <2>1 DEF LoopInv
    <3> QED
      BY <3>2, <3>3
  <2>3. FilesInv' /\ InterestMatchesHandlers' /\ EventsPointToHandlers'
    BY DEF FilesInv, InterestMatchesHandlers, EventsPointToHandlers, LiveNodes
  <2> QED
    BY <1>0, <2>2, <2>3
<1>14. CASE PruneHandler
  <2> DEFINE fd == removed_handlers[pruned + 1]
  <2>1. /\ Len(removed_handlers) \in Nat /\ pruned \in Nat
        /\ pruned < Len(removed_handlers)
    BY <1>14, LenProperties DEF PruneHandler, Pruning, TypeOK
  <2>2. fd \in FDs
    BY <2>1, ElementOfSeq DEF TypeOK
  <2>3. batch = {} /\ calling = 0
    BY <1>14 DEF PruneHandler, Pruning, LoopInv
  <2> HIDE DEF fd
  <2>4. /\ EpollDel(fd) /\ handlers' = [handlers EXCEPT ![fd] = 0]
        /\ pruned' = pruned + 1
        /\ UNCHANGED <<file, files, processing_handlers, removed_handlers, nodes,
                       pc, batch, calling, added_for, wanted, interrupted,
                       del_failed>>
    BY <1>14 DEF PruneHandler, history, fd
  <2>5. size_events' \in Nat /\ SizeCoversInterest'
    BY <1>5, <2>2, <2>4
  <2>6. /\ epoll' \in [FDs -> 0..MaxNodes] /\ handlers' \in [FDs -> 0..MaxNodes]
        /\ FilesInv' /\ InterestMatchesHandlers' /\ EventsPointToHandlers'
    BY <1>6, <2>2, <2>3, <2>4
  <2>7. TypeOK'
    <3>1. pruned' \in 0..MaxRemovals
      BY <2>1, <2>4 DEF LoopInv
    <3> QED
      BY <2>4, <2>5, <2>6, <3>1 DEF TypeOK
  <2>8. LoopInv'
    BY <2>1, <2>3, <2>4 DEF LoopInv
  <2> QED
    BY <2>5, <2>6, <2>7, <2>8
<1>15. CASE PruneThrows
  <2> USE <1>15 DEF PruneThrows, Pruning, kernel, members
  <2>1. TypeOK'
    <3>1. interrupted' \in BOOLEAN /\ del_failed' \in BOOLEAN
      OBVIOUS
    <3> QED
      BY <3>1 DEF TypeOK
  <2>2. LoopInv'
    BY DEF LoopInv
  <2>3. FilesInv' /\ InterestMatchesHandlers' /\ EventsPointToHandlers'
    BY DEF FilesInv, InterestMatchesHandlers, EventsPointToHandlers, LiveNodes
  <2> QED
    BY <1>0, <2>1, <2>2, <2>3
<1>16. CASE PruneDone
  <2> USE <1>16 DEF PruneDone, kernel, history
  <2>1. removed_handlers' \in Seq(FDs) /\ Len(removed_handlers') = 0
    BY EmptySeq
  <2>2. TypeOK'
    BY <2>1 DEF TypeOK
  <2>3. LoopInv'
    BY <2>1 DEF LoopInv
  <2>4. FilesInv' /\ InterestMatchesHandlers' /\ EventsPointToHandlers'
    BY DEF FilesInv, InterestMatchesHandlers, EventsPointToHandlers, LiveNodes
  <2> QED
    BY <1>0, <2>2, <2>3, <2>4
<1> QED
  BY <1>1, <1>2, <1>3, <1>4, <1>7, <1>8, <1>9, <1>10, <1>11, <1>12, <1>13,
     <1>14, <1>15, <1>16 DEF Next, LoopStep

LEMMA Invariance == Spec => []Inv
BY InitInv, StepInv, PTL DEF Spec

\* The members of ioloop keep their types; size_events never underflows.
THEOREM TypeCorrect == Spec => []TypeOK
<1>1. Inv => TypeOK
  BY DEF Inv
<1> QED
  BY <1>1, Invariance, PTL

\* No event of a batch and no handler being called is ever a node that was
\* erased from handlers_, with any number of descriptors and handlers.
THEOREM NoDanglingEvent == Spec => []EventsPointToHandlers
<1>1. Inv => EventsPointToHandlers
  BY DEF Inv
<1> QED
  BY <1>1, Invariance, PTL

\* handlers_ and the kernel's interest list agree in every reachable state.
THEOREM InterestAgrees == Spec => []InterestMatchesHandlers
<1>1. Inv => InterestMatchesHandlers
  BY DEF Inv
<1> QED
  BY <1>1, Invariance, PTL

\* epoll_events_ is never sized below the number of registered descriptors.
THEOREM SizeSuffices == Spec => []SizeCoversInterest
<1>1. Inv => SizeCoversInterest
  BY DEF Inv
<1> QED
  BY <1>1, Invariance, PTL

-----------------------------------------------------------------------------
(* User code's wishes and handlers_.  As long as no exception leaves       *)
(* start(), the two differ only by the removals put off, which are for     *)
(* descriptors whose handler is still there until pruning comes to it.     *)

WantedInv ==
  /\ pc \in {"idle", "wait"} => removed_handlers = <<>>
  /\ \A j \in 1..Len(removed_handlers) :
       /\ ~ wanted[removed_handlers[j]]
       /\ pc = "dispatch" => handlers[removed_handlers[j]] # 0
       /\ pc = "prune" /\ j <= pruned => handlers[removed_handlers[j]] = 0
  /\ \A fd \in FDs :
       /\ wanted[fd] => handlers[fd] # 0
       /\ handlers[fd] # 0 /\ ~ wanted[fd] =>
            \E j \in 1..Len(removed_handlers) : removed_handlers[j] = fd

WishInv ==
  /\ processing_handlers => pc = "dispatch"
  /\ ~ interrupted => WantedInv

LEMMA InitWish == Init => WishInv
BY EmptySeq DEF Init, WishInv, WantedInv

LEMMA StepWish == Inv /\ WishInv /\ [Next]_vars => WishInv'
<1> SUFFICES ASSUME Inv, WishInv, [Next]_vars
             PROVE  WishInv'
  OBVIOUS
<1>0. /\ removed_handlers \in Seq(FDs) /\ Len(removed_handlers) \in Nat
      /\ \A j \in 1..Len(removed_handlers) : removed_handlers[j] \in FDs
      /\ handlers \in [FDs -> 0..MaxNodes] /\ wanted \in [FDs -> BOOLEAN]
      /\ pruned \in Nat
  BY LenProperties, ElementOfSeq, BoundsAssumption DEF Inv, TypeOK
<1>1. CASE UNCHANGED vars
  BY <1>1 DEF vars, members, looping, history, WishInv, WantedInv
<1>2. ASSUME NEW fd \in FDs, OpenFd(fd) \/ CloseFd(fd)
      PROVE  WishInv'
  BY <1>2 DEF OpenFd, CloseFd, members, looping, history, WishInv, WantedInv
<1>3. ASSUME NEW fd \in FDs, AddHandler(fd)
      PROVE  WishInv'
  <2>1. /\ UNCHANGED <<processing_handlers, removed_handlers, pc, pruned, interrupted>>
        /\ pc = "idle" \/ (pc = "dispatch" /\ handlers[fd] = 0)
        /\ handlers' = [handlers EXCEPT ![fd] = nodes + 1] /\ nodes + 1 # 0
        /\ wanted' = [wanted EXCEPT ![fd] = TRUE]
    BY <1>3, BoundsAssumption DEF AddHandler, UserCode, looping, Inv, LoopInv, TypeOK
  <2> SUFFICES ASSUME ~ interrupted PROVE WantedInv'
    BY <2>1 DEF WishInv
  <2>2. WantedInv
    BY DEF WishInv
  <2>3. \A j \in 1..Len(removed_handlers) : removed_handlers[j] # fd
    BY <1>0, <1>3, <2>1, <2>2, EmptySeq DEF WantedInv, AddHandler
  <2>4. \A g \in FDs \ {fd} : handlers'[g] = handlers[g] /\ wanted'[g] = wanted[g]
    BY <1>0, <2>1
  <2>5. handlers'[fd] # 0 /\ wanted'[fd] = TRUE
    BY <1>0, <2>1
  <2> QED
    BY <1>0, <2>1, <2>2, <2>3, <2>4, <2>5 DEF WantedInv
<1>4. ASSUME NEW fd \in FDs, RemoveHandler(fd)
      PROVE  WishInv'
  <2>1. /\ UNCHANGED <<processing_handlers, pc, pruned, interrupted>>
        /\ wanted' = [wanted EXCEPT ![fd] = FALSE] /\ handlers[fd] # 0
    BY <1>4 DEF RemoveHandler, looping
  <2> SUFFICES ASSUME ~ interrupted PROVE WantedInv'
    BY <2>1 DEF WishInv
  <2>2. WantedInv
    BY DEF WishInv
  <2>3. /\ ~ wanted'[fd]
        /\ \A g \in FDs \ {fd} : wanted'[g] = wanted[g]
    BY <1>0, <2>1
  <2>4. CASE processing_handlers
    <3>1. pc = "dispatch"
      BY <2>4 DEF WishInv
    <3>2. removed_handlers' = Append(removed_handlers, fd) /\ UNCHANGED handlers
      BY <1>4, <2>4 DEF RemoveHandler, PostponeRemoval
    <3>3. /\ Len(removed_handlers') = Len(removed_handlers) + 1
          /\ removed_handlers'[Len(removed_handlers) + 1] = fd
          /\ \A j \in 1..Len(removed_handlers) : removed_handlers'[j] = removed_handlers[j]
      BY <1>0, <3>2, AppendProperties
    <3>4. /\ \A j \in 1..Len(removed_handlers') :
               j \in 1..Len(removed_handlers) \/ j = Len(removed_handlers) + 1
          /\ \A j \in 1..Len(removed_handlers) : j \in 1..Len(removed_handlers')
          /\ Len(removed_handlers) + 1 \in 1..Len(removed_handlers')
      BY <1>0, <3>3
    <3>5. \A j \in 1..Len(removed_handlers') :
            ~ wanted'[removed_handlers'[j]] /\ handlers'[removed_handlers'[j]] # 0
      BY <1>0, <2>1, <2>2, <2>3, <3>1, <3>2, <3>3, <3>4 DEF WantedInv
    <3>6. ASSUME NEW g \in FDs
          PROVE  /\ wanted'[g] => handlers'[g] # 0
                 /\ handlers'[g] # 0 /\ ~ wanted'[g] =>
                      \E j \in 1..Len(removed_handlers') : removed_handlers'[j] = g
      BY <2>1, <2>2, <2>3, <3>2, <3>3, <3>4 DEF WantedInv
    <3> QED
      BY <2>1, <3>1, <3>5, <3>6 DEF WantedInv
  <2>5. CASE ~ processing_handlers
    <3>1. pc = "idle" /\ removed_handlers = <<>>
      BY <1>4, <2>2, <2>5 DEF RemoveHandler, UserCode, Inv, LoopInv, WantedInv
    <3>2. handlers' = [handlers EXCEPT ![fd] = 0] /\ UNCHANGED removed_handlers
      BY <1>4, <2>5 DEF RemoveHandler, RemoveAtOnce
    <3>3. handlers'[fd] = 0 /\ \A g \in FDs \ {fd} : handlers'[g] = handlers[g]
      BY <1>0, <3>2
    <3>4. Len(removed_handlers) = 0
      BY <3>1, EmptySeq
    <3> QED
      BY <2>1, <2>2, <2>3, <3>1, <3>2, <3>3, <3>4 DEF WantedInv
  <2> QED
    BY <2>4, <2>5
<1>5. CASE Start \/ StartReturns \/ EpollWait
  <2>1. /\ UNCHANGED <<handlers, removed_handlers, wanted, interrupted>>
        /\ pc \in {"idle", "wait"} /\ pc' \in {"idle", "wait", "dispatch"}
    BY <1>5 DEF Start, StartReturns, EpollWait, members, history
  <2>2. processing_handlers' => pc' = "dispatch"
    BY <1>5 DEF Start, StartReturns, EpollWait, members, WishInv
  <2>3. ASSUME ~ interrupted PROVE WantedInv'
    <3>1. Len(removed_handlers) = 0 /\ removed_handlers = <<>> /\ WantedInv
      BY <2>1, <2>3, EmptySeq DEF WishInv, WantedInv
    <3> QED
      BY <2>1, <3>1 DEF WantedInv
  <2> QED
    BY <2>1, <2>2, <2>3 DEF WishInv
<1>6. ASSUME NEW node \in Nodes \cup {Own}, CallHandler(node)
      PROVE  WishInv'
  BY <1>6 DEF CallHandler, members, history, WishInv, WantedInv
<1>7. CASE HandlerReturns
  BY <1>7 DEF HandlerReturns, members, history, WishInv, WantedInv
<1>8. CASE HandlerThrows \/ PruneThrows
  BY <1>8 DEF HandlerThrows, PruneThrows, Pruning, members, WishInv
<1>9. CASE BatchDone
  <2>1. /\ UNCHANGED <<handlers, removed_handlers, wanted, interrupted>>
        /\ processing_handlers' = FALSE /\ pruned' = 0
        /\ pc' = IF removed_handlers = <<>> THEN "wait" ELSE "prune"
    BY <1>9 DEF BatchDone, history
  <2>2. \A j \in 1..Len(removed_handlers) : ~ (j <= pruned')
    BY <1>0, <2>1
  <2> QED
    BY <2>1, <2>2 DEF WishInv, WantedInv
<1>10. CASE PruneHandler
  <2> DEFINE fd == removed_handlers[pruned + 1]
  <2>1. pruned + 1 \in 1..Len(removed_handlers)
    BY <1>0, <1>10 DEF PruneHandler, Pruning
  <2>2. fd \in FDs
    BY <1>0, <2>1
  <2>3. /\ handlers' = [handlers EXCEPT ![fd] = 0] /\ pruned' = pruned + 1
        /\ pc = "prune"
        /\ UNCHANGED <<processing_handlers, removed_handlers, wanted, interrupted, pc>>
    BY <1>10 DEF PruneHandler, Pruning, history
  <2>4. ~ interrupted => ~ wanted[fd]
    BY <2>1 DEF WishInv, WantedInv
  <2> HIDE DEF fd
  <2>5. handlers'[fd] = 0 /\ \A g \in FDs \ {fd} : handlers'[g] = handlers[g]
    BY <1>0, <2>2, <2>3
  <2>6. \A j \in 1..Len(removed_handlers) :
          j <= pruned' => j <= pruned \/ removed_handlers[j] = fd
    <3>1. \A j \in 1..Len(removed_handlers) : j <= pruned' => j <= pruned \/ j = pruned + 1
      BY <1>0, <2>3
    <3> QED
      BY <3>1 DEF fd
  <2>7. ASSUME ~ interrupted PROVE WantedInv'
    <3>1. WantedInv
      BY <2>7 DEF WishInv
    <3>2. \A g \in FDs : handlers'[g] # 0 => handlers[g] # 0 /\ g # fd
      BY <2>5
    <3>3. \A g \in FDs : handlers[g] = 0 => handlers'[g] = 0
      BY <2>5
    <3>4. \A j \in 1..Len(removed_handlers') :
            /\ ~ wanted'[removed_handlers'[j]]
            /\ j <= pruned' => handlers'[removed_handlers'[j]] = 0
      BY <1>0, <2>3, <2>5, <2>6, <3>1, <3>3 DEF WantedInv
    <3>5. \A g \in FDs :
            /\ wanted'[g] => handlers'[g] # 0
            /\ handlers'[g] # 0 /\ ~ wanted'[g] =>
                 \E j \in 1..Len(removed_handlers') : removed_handlers'[j] = g
      BY <2>3, <2>4, <2>5, <2>7, <3>1, <3>2 DEF WantedInv
    <3> QED
      BY <2>3, <3>4, <3>5 DEF WantedInv
  <2> QED
    BY <2>3, <2>7 DEF WishInv
<1>11. CASE PruneDone
  <2>1. /\ UNCHANGED <<handlers, wanted, interrupted, processing_handlers>>
        /\ removed_handlers' = <<>> /\ pc' = "wait" /\ pc = "prune"
        /\ pruned = Len(removed_handlers)
    BY <1>11 DEF PruneDone, history
  <2>2. Len(removed_handlers') = 0
    BY <2>1, EmptySeq
  <2>3. \A j \in 1..Len(removed_handlers) : j <= pruned
    BY <1>0, <2>1
  <2>4. ASSUME ~ interrupted PROVE WantedInv'
    <3>1. \A fd \in FDs : wanted[fd] <=> handlers[fd] # 0
      BY <2>1, <2>3, <2>4 DEF WishInv, WantedInv
    <3> QED
      BY <2>1, <2>2, <3>1 DEF WantedInv
  <2> QED
    BY <2>1, <2>4 DEF WishInv
<1> QED
  BY <1>1, <1>2, <1>3, <1>4, <1>5, <1>6, <1>7, <1>8, <1>9, <1>10, <1>11 DEF Next, LoopStep

\* Whenever start() comes back to epoll_wait, handlers_ holds exactly the
\* handlers that were added and not removed, whatever order of additions,
\* removals and reuse the handlers of a batch produced, unless an exception
\* has left start().
THEOREM WishesAreCarriedOut == Spec => []WantedAreHandled
<1>1. Inv /\ WishInv => WantedAreHandled
  <2> SUFFICES ASSUME Inv, WishInv, pc = "wait", ~ interrupted, NEW fd \in FDs
               PROVE  wanted[fd] <=> handlers[fd] # 0
    BY DEF WantedAreHandled
  <2>1. Len(removed_handlers) = 0 /\ WantedInv
    BY EmptySeq DEF WishInv, WantedInv
  <2> QED
    BY <2>1 DEF WantedInv
<1> QED
  BY <1>1, InitWish, StepWish, Invariance, PTL DEF Spec
=============================================================================
