------------------------ MODULE TaskPipelineProofs ------------------------
(***************************************************************************)
(* Proofs about TaskPipeline, for any numbers of tasks, posts and workers  *)
(* and any queue capacities.                                               *)
(***************************************************************************)
EXTENDS TaskPipeline, TLAPS

USE DEF LifeStates, WorkerStates, LoopStates, Stoppers, Errors, Kinds

\* The sequence operations the queues are changed with keep their type.
LEMMA QueueTypes ==
    ASSUME NEW S, NEW q \in Seq(S)
    PROVE  /\ \A x \in S : Append(q, x) \in Seq(S)
           /\ q # <<>> => Head(q) \in S /\ Tail(q) \in Seq(S)
           /\ \A i \in 1 .. Len(q) : q[i] \in S
  OBVIOUS

\* A part of the type invariant survives a step that leaves its variables
\* alone.
LEMMA StutterTypes ==
    ASSUME TypeOK
    PROVE  /\ UNCHANGED lifeVars  => LifeTypeOK'
           /\ UNCHANGED poolVars  => PoolTypeOK'
           /\ UNCHANGED queueVars => QueueTypeOK'
           /\ UNCHANGED loopVars  => LoopTypeOK'
           /\ UNCHANGED statVars  => StatTypeOK'
<1>1. UNCHANGED lifeVars => LifeTypeOK'
  BY DEF TypeOK, LifeTypeOK, lifeVars
<1>2. UNCHANGED poolVars => PoolTypeOK'
  BY DEF TypeOK, PoolTypeOK, poolVars
<1>3. UNCHANGED queueVars => QueueTypeOK'
  BY DEF TypeOK, QueueTypeOK, queueVars
<1>4. UNCHANGED loopVars => LoopTypeOK'
  BY DEF TypeOK, LoopTypeOK, loopVars, drainVars
<1>5. UNCHANGED statVars => StatTypeOK'
  BY DEF TypeOK, StatTypeOK, statVars
<1> QED
  BY <1>1, <1>2, <1>3, <1>4, <1>5

\* The initial state is well typed.
LEMMA InitTypes == Init => TypeOK
<1> SUFFICES ASSUME Init PROVE TypeOK
  OBVIOUS
<1>1. LifeTypeOK
  <2>1. life \in LifeStates /\ stopper \in [Stoppers -> {"off", "armed", "marked", "done"}]
    BY DEF Init
  <2>2. runDone \in BOOLEAN /\ callerDone \in BOOLEAN
    BY DEF Init
  <2> QED
    BY <2>1, <2>2 DEF LifeTypeOK
<1>2. PoolTypeOK
  BY DEF Init, PoolTypeOK
<1>3. QueueTypeOK
  BY DEF Init, QueueTypeOK
<1>4. LoopTypeOK
  BY DEF Init, LoopTypeOK
<1>5. StatTypeOK
  BY DEF Init, StatTypeOK
<1> QED
  BY <1>1, <1>2, <1>3, <1>4, <1>5 DEF TypeOK

\* Every step of every goroutine keeps each variable in its type.
LEMMA StepTypes == TypeOK /\ [Next]_vars => TypeOK'
<1> SUFFICES ASSUME TypeOK, [Next]_vars PROVE TypeOK'
  OBVIOUS
<1>1. CASE RunStart
  <2>1. LifeTypeOK'
    BY <1>1 DEF TypeOK, LifeTypeOK, RunStart
  <2>2. LoopTypeOK'
    BY <1>1 DEF TypeOK, LoopTypeOK, RunStart, drainVars
  <2> QED
    BY <1>1, <2>1, <2>2, StutterTypes
    DEF TypeOK, RunStart
<1>2. CASE CallerCancel
  <2>1. LifeTypeOK'
    BY <1>2 DEF TypeOK, LifeTypeOK, CallerCancel
  <2> QED
    BY <1>2, <2>1, StutterTypes
    DEF TypeOK, CallerCancel
<1>3. ASSUME NEW s \in Stoppers, StopperMark(s) PROVE TypeOK'
  <2>1. LifeTypeOK'
    BY <1>3 DEF TypeOK, LifeTypeOK, StopperMark, Marked
  <2> QED
    BY <1>3, <2>1, StutterTypes
    DEF TypeOK, StopperMark
<1>4. ASSUME NEW s \in Stoppers, StopperCancel(s) PROVE TypeOK'
  <2>1. LifeTypeOK'
    BY <1>4 DEF TypeOK, LifeTypeOK, StopperCancel
  <2> QED
    BY <1>4, <2>1, StutterTypes
    DEF TypeOK, StopperCancel
<1>5. ASSUME NEW p \in Posts, Post(p) PROVE TypeOK'
  <2>1. QueueTypeOK'
    BY <1>5, QueueTypes DEF TypeOK, QueueTypeOK, Post
  <2>2. StatTypeOK'
    BY <1>5 DEF TypeOK, StatTypeOK, Post
  <2> QED
    BY <1>5, <2>1, <2>2, StutterTypes
    DEF TypeOK, Post
<1>6. ASSUME NEW t \in Tasks, SubmitBegin(t) PROVE TypeOK'
  <2>1. PoolTypeOK'
    BY <1>6, QueueTypes DEF TypeOK, PoolTypeOK, SubmitBegin
  <2> QED
    BY <1>6, <2>1, StutterTypes
    DEF TypeOK, SubmitBegin
<1>7. ASSUME NEW t \in Tasks, TaskContextEnds(t) PROVE TypeOK'
  <2>1. PoolTypeOK'
    BY <1>7 DEF TypeOK, PoolTypeOK, TaskContextEnds
  <2> QED
    BY <1>7, <2>1, StutterTypes
    DEF TypeOK, TaskContextEnds
<1>8. CASE SubmitCommit
  <2>1. PoolTypeOK'
    BY <1>8 DEF TypeOK, PoolTypeOK, SubmitCommit
  <2>2. StatTypeOK'
    BY <1>8 DEF TypeOK, StatTypeOK, PoolTypeOK, SubmitCommit
  <2> QED
    BY <1>8, <2>1, <2>2, StutterTypes
    DEF TypeOK, SubmitCommit
<1>9. CASE PondSkip
  <2>1. PoolTypeOK'
    BY <1>9, QueueTypes DEF TypeOK, PoolTypeOK, PondSkip
  <2> QED
    BY <1>9, <2>1, StutterTypes
    DEF TypeOK, PondSkip
<1>10. ASSUME NEW w \in Workers, PondStart(w) PROVE TypeOK'
  <2>1. PoolTypeOK'
    BY <1>10, QueueTypes, ItemAssumption DEF TypeOK, PoolTypeOK, PondStart
  <2> QED
    BY <1>10, <2>1, StutterTypes
    DEF TypeOK, PondStart
<1>11. ASSUME NEW w \in Workers, GateOpens(w) PROVE TypeOK'
  <2>1. PoolTypeOK'
    BY <1>11 DEF TypeOK, PoolTypeOK, GateOpens
  <2> QED
    BY <1>11, <2>1, StutterTypes
    DEF TypeOK, GateOpens
<1>12. ASSUME NEW w \in Workers, LinkRunCancel(w) PROVE TypeOK'
  <2>1. PoolTypeOK'
    BY <1>12 DEF TypeOK, PoolTypeOK, LinkRunCancel
  <2> QED
    BY <1>12, <2>1, StutterTypes
    DEF TypeOK, LinkRunCancel
<1>13. ASSUME NEW w \in Workers, NEW o \in Outcomes, WorkReturns(w, o) PROVE TypeOK'
  <2>1. PoolTypeOK'
    BY <1>13, OutcomeAssumption, ItemAssumption DEF TypeOK, PoolTypeOK, WorkReturns, WorkErr
  <2>2. StatTypeOK'
    BY <1>13, OutcomeAssumption DEF TypeOK, StatTypeOK, PoolTypeOK, WorkReturns, WorkErr
  <2> QED
    BY <1>13, <2>1, <2>2, StutterTypes
    DEF TypeOK, WorkReturns
<1>14. ASSUME NEW w \in Workers, CountCancelled(w) PROVE TypeOK'
  <2>1. PoolTypeOK'
    BY <1>14 DEF TypeOK, PoolTypeOK, CountCancelled
  <2>2. StatTypeOK'
    BY <1>14 DEF TypeOK, StatTypeOK, PoolTypeOK, CountCancelled
  <2> QED
    BY <1>14, <2>1, <2>2, StutterTypes
    DEF TypeOK, CountCancelled
<1>15. ASSUME NEW w \in Workers, Deliver(w) PROVE TypeOK'
  <2>1. PoolTypeOK'
    BY <1>15, ItemAssumption DEF TypeOK, PoolTypeOK, Deliver, Release
  <2>2. QueueTypeOK'
    BY <1>15, QueueTypes DEF TypeOK, QueueTypeOK, PoolTypeOK, Deliver, Release
  <2> QED
    BY <1>15, <2>1, <2>2, StutterTypes
    DEF TypeOK, Deliver
<1>16. ASSUME NEW w \in Workers, Abandon(w) PROVE TypeOK'
  <2>1. PoolTypeOK'
    BY <1>16, ItemAssumption DEF TypeOK, PoolTypeOK, Abandon, Release
  <2> QED
    BY <1>16, <2>1, StutterTypes
    DEF TypeOK, Abandon
<1>17. CASE TickBegin
  <2>1. Len(completionQueue) \in Nat /\ Len(postQueue) \in Nat
    BY DEF TypeOK, QueueTypeOK
  <2>2. \A i \in 1 .. Len(completionQueue) : completionQueue[i].task \in Tasks
    <3>1. \A i \in 1 .. Len(completionQueue) :
              completionQueue[i] \in [task : Tasks, err : Errors]
      BY QueueTypes DEF TypeOK, QueueTypeOK
    <3> QED
      BY <3>1
  <2>3. \A i \in 1 .. Len(postQueue) : postQueue[i] \in Posts
    BY DEF TypeOK, QueueTypeOK
  <2>4. eligible' \in SUBSET (Tasks \cup Posts)
    BY <1>17, <2>2, <2>3 DEF TypeOK, LoopTypeOK, TickBegin
  <2>5. remainC' \in Nat /\ remainP' \in Nat /\ budget' \in Nat
    BY <1>17, <2>1, ConfigAssumption
    DEF TypeOK, LoopTypeOK, TickBegin, EligibleCompletions, EligiblePosts,
        DrainBudget, Least
  <2>6. LoopTypeOK'
    BY <1>17, <2>4, <2>5 DEF TypeOK, LoopTypeOK, TickBegin
  <2> QED
    BY <1>17, <2>6, StutterTypes
    DEF TypeOK, TickBegin
<1>18. CASE DrainTakeCompletion
  <2>1. QueueTypeOK'
    BY <1>18, QueueTypes DEF TypeOK, QueueTypeOK, DrainTakeCompletion, Spent, NextPreference
  <2>2. Head(completionQueue) \in [task : Tasks, err : Errors]
    BY <1>18, QueueTypes DEF TypeOK, QueueTypeOK, DrainTakeCompletion
  <2>3. LoopTypeOK'
    BY <1>18, <2>2 DEF TypeOK, LoopTypeOK, DrainTakeCompletion, Spent, NextPreference
  <2> QED
    BY <1>18, <2>1, <2>3, StutterTypes
    DEF TypeOK, DrainTakeCompletion
<1>19. CASE DrainTakePost
  <2>1. QueueTypeOK'
    BY <1>19, QueueTypes DEF TypeOK, QueueTypeOK, DrainTakePost, Spent, NextPreference
  <2>2. LoopTypeOK'
    BY <1>19, QueueTypes DEF TypeOK, LoopTypeOK, QueueTypeOK, DrainTakePost, Spent, NextPreference, drainVars
  <2> QED
    BY <1>19, <2>1, <2>2, StutterTypes
    DEF TypeOK, DrainTakePost
<1>20. CASE DrainEnd
  <2>1. LoopTypeOK'
    BY <1>20 DEF TypeOK, LoopTypeOK, DrainEnd, drainVars
  <2> QED
    BY <1>20, <2>1, StutterTypes
    DEF TypeOK, DrainEnd
<1>21. ASSUME NEW b \in BOOLEAN, RunCallback(b) PROVE TypeOK'
  <2>1. LoopTypeOK'
    BY <1>21 DEF TypeOK, LoopTypeOK, RunCallback, drainVars
  <2>2. StatTypeOK'
    BY <1>21 DEF TypeOK, StatTypeOK, RunCallback
  <2> QED
    BY <1>21, <2>1, <2>2, StutterTypes
    DEF TypeOK, RunCallback
<1>22. ASSUME NEW b \in BOOLEAN, TickEnd(b) PROVE TypeOK'
  <2>1. LoopTypeOK'
    BY <1>22 DEF TypeOK, LoopTypeOK, TickEnd, drainVars
  <2> QED
    BY <1>22, <2>1, StutterTypes
    DEF TypeOK, TickEnd
<1>23. CASE LoopExit
  <2>1. LoopTypeOK'
    BY <1>23 DEF TypeOK, LoopTypeOK, LoopExit, drainVars
  <2> QED
    BY <1>23, <2>1, StutterTypes
    DEF TypeOK, LoopExit
<1>24. CASE FinalizeMark
  <2>1. LifeTypeOK'
    BY <1>24 DEF TypeOK, LifeTypeOK, FinalizeMark, Marked
  <2>2. LoopTypeOK'
    BY <1>24 DEF TypeOK, LoopTypeOK, FinalizeMark, Marked, drainVars
  <2> QED
    BY <1>24, <2>1, <2>2, StutterTypes
    DEF TypeOK, FinalizeMark
<1>25. CASE FinalizeCancel
  <2>1. LifeTypeOK'
    BY <1>25 DEF TypeOK, LifeTypeOK, FinalizeCancel
  <2>2. LoopTypeOK'
    BY <1>25 DEF TypeOK, LoopTypeOK, FinalizeCancel, drainVars
  <2> QED
    BY <1>25, <2>1, <2>2, StutterTypes
    DEF TypeOK, FinalizeCancel
<1>26. CASE PoolStopped
  <2>1. LoopTypeOK'
    BY <1>26 DEF TypeOK, LoopTypeOK, PoolStopped, drainVars
  <2>2. StatTypeOK'
    BY <1>26 DEF TypeOK, StatTypeOK, PoolStopped
  <2> QED
    BY <1>26, <2>1, <2>2, StutterTypes
    DEF TypeOK, PoolStopped
<1>27. CASE FinalizeDiscard
  <2>1. LifeTypeOK'
    BY <1>27 DEF TypeOK, LifeTypeOK, FinalizeDiscard, Discarded
  <2>2. QueueTypeOK'
    BY <1>27, QueueTypes DEF TypeOK, QueueTypeOK, FinalizeDiscard, Discarded
  <2>3. LoopTypeOK'
    BY <1>27 DEF TypeOK, LoopTypeOK, FinalizeDiscard, Discarded, drainVars
  <2> QED
    BY <1>27, <2>1, <2>2, <2>3, StutterTypes
    DEF TypeOK, FinalizeDiscard
<1>28. CASE Returned
  BY <1>28, StutterTypes DEF TypeOK, Returned, vars
<1>29. CASE UNCHANGED vars
  BY <1>29, StutterTypes DEF TypeOK, vars
<1> QED
  BY <1>1, <1>2, <1>3, <1>4, <1>5, <1>6, <1>7, <1>8, <1>9, <1>10, <1>11,
     <1>12, <1>13, <1>14, <1>15, <1>16, <1>17, <1>18, <1>19, <1>20, <1>21,
     <1>22, <1>23, <1>24, <1>25, <1>26, <1>27, <1>28, <1>29
  DEF Next, WorkerStep, TickStep, FinalizeStep

\* Type correctness of the pipeline.
THEOREM TypeCorrect == Spec => []TypeOK
  BY InitTypes, StepTypes, PTL DEF Spec

-----------------------------------------------------------------------------
(***************************************************************************)
(* The lifecycle.  The shutdown order of Run is not inductive by itself:   *)
(* it needs to know which goroutine has already marked the server          *)
(* stopping, where finalizeLifecycle is, and that lifeMu is held across a  *)
(* submission only while the server runs.                                  *)
(***************************************************************************)
LifeInv ==
    /\ runDone => life \in {"stopping", "stopped"}
    /\ gate # NoItem => life = "running"
    /\ \A s \in Stoppers : stopper[s] \in {"marked", "done"}
                             => life \in {"stopping", "stopped"}
    /\ pc \in {"cancel", "wait", "discard"} => life = "stopping"
    /\ pc = "returned" <=> life = "stopped"
    /\ pc = "new" <=> life = "created"
    /\ life = "created" => \A s \in Stoppers : stopper[s] = "off"

\* LifeInv is inductive and every step moves the lifecycle along an edge.
LEMMA LifeStep ==
    ASSUME TypeOK, LifeInv, [Next]_vars
    PROVE  LifeInv' /\ (life' # life => <<life, life'>> \in LifeEdges)
<1> USE ItemAssumption DEF TypeOK, LifeTypeOK, LifeInv, LifeEdges, LifeMuFree
<1>1. CASE RunStart
  BY <1>1 DEF RunStart, poolVars
<1>2. CASE CallerCancel
  BY <1>2 DEF CallerCancel, poolVars, loopVars
<1>3. ASSUME NEW s \in Stoppers, StopperMark(s)
      PROVE  LifeInv' /\ (life' # life => <<life, life'>> \in LifeEdges)
  BY <1>3 DEF StopperMark, Marked, poolVars, loopVars
<1>4. ASSUME NEW s \in Stoppers, StopperCancel(s)
      PROVE  LifeInv' /\ (life' # life => <<life, life'>> \in LifeEdges)
  BY <1>4 DEF StopperCancel, ReadyToCancel, poolVars, loopVars
<1>5. ASSUME NEW t \in Tasks, SubmitBegin(t)
      PROVE  LifeInv' /\ (life' # life => <<life, life'>> \in LifeEdges)
  BY <1>5 DEF SubmitBegin, lifeVars, loopVars
<1>6. CASE SubmitCommit
  BY <1>6 DEF SubmitCommit, lifeVars, loopVars
<1>7. CASE TickBegin \/ DrainTakeCompletion \/ DrainTakePost \/ DrainEnd
           \/ LoopExit \/ (\E b \in BOOLEAN : RunCallback(b) \/ TickEnd(b))
  <2>1. UNCHANGED <<lifeVars, gate>>
        /\ pc \in {"select", "drain", "callback", "tick"}
        /\ pc' \in {"select", "drain", "callback", "tick", "mark"}
    BY <1>7 DEF TickBegin, DrainTakeCompletion, DrainTakePost, DrainEnd,
                LoopExit, RunCallback, TickEnd, poolVars
  <2> QED
    BY <2>1 DEF lifeVars
<1>8. CASE FinalizeMark
  BY <1>8 DEF FinalizeMark, Marked, poolVars
<1>9. CASE FinalizeCancel
  BY <1>9 DEF FinalizeCancel, poolVars
<1>10. CASE PoolStopped
  BY <1>10 DEF PoolStopped, lifeVars, poolVars
<1>11. CASE FinalizeDiscard
  BY <1>11 DEF FinalizeDiscard, poolVars
<1>12. CASE UNCHANGED <<lifeVars, gate, pc>>
  BY <1>12 DEF lifeVars
<1>13. CASE \/ \E p \in Posts : Post(p)
            \/ \E t \in Tasks : TaskContextEnds(t)
            \/ PondSkip \/ Returned \/ UNCHANGED vars
            \/ \E w \in Workers : WorkerStep(w)
  <2>1. UNCHANGED <<lifeVars, gate, pc>>
    BY <1>13 DEF Post, TaskContextEnds, PondSkip, Returned, vars, WorkerStep,
        PondStart, GateOpens, LinkRunCancel, WorkReturns, CountCancelled,
        Deliver, Abandon, Release, poolVars, loopVars
  <2> QED
    BY <1>12, <2>1
<1> QED
  BY <1>1, <1>3, <1>2, <1>4, <1>5, <1>6, <1>7, <1>8, <1>9, <1>10, <1>11,
     <1>13 DEF Next, TickStep, FinalizeStep

LEMMA InitLife == Init => LifeInv
  BY DEF Init, LifeInv

\* LifeInv holds in every reachable state.
LEMMA LifeInvariant == Spec => []LifeInv
  BY InitLife, LifeStep, TypeCorrect, PTL DEF Spec

\* The shutdown order Run documents: whichever goroutine begins a shutdown,
\* the worker context is cancelled only after Post and SubmitTask stopped
\* accepting.
THEOREM ShutdownOrder == Spec => []CancelAfterMark
<1>1. LifeInv => CancelAfterMark
  BY DEF LifeInv, CancelAfterMark
<1> QED
  BY <1>1, LifeInvariant, PTL

\* markLifecycleStopping and finalizeLifecycle only move the lifecycle
\* forward, in whatever order they run.
THEOREM LifecycleAdvances == Spec => LifeOnlyAdvances
<1>1. TypeOK /\ LifeInv /\ [Next]_vars
        => [life' # life => <<life, life'>> \in LifeEdges]_vars
  BY LifeStep
<1> QED
  BY <1>1, LifeInvariant, TypeCorrect, PTL DEF Spec, LifeOnlyAdvances

-----------------------------------------------------------------------------
(***************************************************************************)
(* What is left when the server has stopped.  The pool is empty from the   *)
(* moment StopAndWait has returned, because nothing is submitted once      *)
(* acceptance has ended; a callback is taken only between two locks.       *)
(***************************************************************************)
PoolEmpty == taskQueue = <<>> /\ \A w \in Workers : wpc[w] = "idle"

QuietInv ==
    /\ pc \in {"discard", "returned"} => PoolEmpty
    /\ pc # "callback" => current = NoItem
    /\ pc = "returned" => completionQueue = <<>> /\ postQueue = <<>>

LEMMA QuietStep ==
    ASSUME TypeOK, LifeInv, QuietInv, [Next]_vars
    PROVE  QuietInv'
<1> USE DEF QuietInv, PoolEmpty
<1>1. CASE RunStart
  BY <1>1 DEF RunStart, poolVars, queueVars, drainVars
<1>2. CASE CallerCancel \/ (\E s \in Stoppers : StopperMark(s) \/ StopperCancel(s))
  BY <1>2 DEF CallerCancel, StopperMark, StopperCancel, poolVars, queueVars, loopVars, drainVars
<1>3. ASSUME NEW p \in Posts, Post(p) PROVE QuietInv'
  BY <1>3 DEF Post, LifeInv, poolVars, loopVars, drainVars
<1>4. ASSUME NEW t \in Tasks, SubmitBegin(t) PROVE QuietInv'
  BY <1>4 DEF SubmitBegin, LifeInv, queueVars, loopVars, drainVars
<1>5. CASE SubmitCommit \/ PondSkip \/ (\E t \in Tasks : TaskContextEnds(t))
  BY <1>5 DEF SubmitCommit, PondSkip, TaskContextEnds, queueVars, loopVars, drainVars
<1>6. ASSUME NEW w \in Workers, WorkerStep(w) PROVE QuietInv'
  <2>1. wpc[w] # "idle" \/ taskQueue # <<>>
    BY <1>6 DEF WorkerStep, PondStart, GateOpens, LinkRunCancel, WorkReturns,
                CountCancelled, Deliver, Abandon
  <2>2. pc' = pc /\ current' = current
    BY <1>6 DEF WorkerStep, PondStart, GateOpens, LinkRunCancel, WorkReturns,
                CountCancelled, Deliver, Abandon, loopVars, drainVars
  <2> QED
    BY <2>1, <2>2
<1>7. CASE TickBegin \/ DrainTakeCompletion \/ DrainTakePost \/ DrainEnd
           \/ LoopExit \/ (\E b \in BOOLEAN : RunCallback(b) \/ TickEnd(b))
  <2>1. /\ pc' \in {"select", "drain", "callback", "tick", "mark"}
        /\ pc' # "callback" => current' = current \/ current' = NoItem
        /\ pc = "callback" => current' = NoItem
    BY <1>7 DEF TickBegin, DrainTakeCompletion, DrainTakePost, DrainEnd,
                LoopExit, RunCallback, TickEnd, drainVars
  <2> QED
    BY <2>1
<1>8. CASE FinalizeMark \/ FinalizeCancel
  BY <1>8 DEF FinalizeMark, FinalizeCancel, drainVars
<1>9. CASE PoolStopped
  BY <1>9 DEF PoolStopped, poolVars, drainVars
<1>10. CASE FinalizeDiscard
  BY <1>10 DEF FinalizeDiscard, Discarded, poolVars, drainVars
<1>11. CASE Returned \/ UNCHANGED vars
  BY <1>11 DEF Returned, vars, poolVars, queueVars, loopVars, drainVars
<1> QED
  BY <1>1, <1>2, <1>3, <1>4, <1>5, <1>6, <1>7, <1>8, <1>9, <1>10, <1>11
  DEF Next, TickStep, FinalizeStep

LEMMA QuietInvariant == Spec => []QuietInv
<1>1. Init => QuietInv
  BY DEF Init, QuietInv, PoolEmpty
<1> QED
  BY <1>1, QuietStep, TypeCorrect, LifeInvariant, PTL DEF Spec

\* When finalizeLifecycle has finished nothing of the pipeline is left: no
\* worker runs, nothing is queued, no callback is taken and no submission holds
\* lifeMu, whichever goroutine began the shutdown and wherever the workers were.
THEOREM StopsQuiet == Spec => []StoppedQuiescent
<1>1. LifeInv /\ QuietInv => StoppedQuiescent
  BY DEF LifeInv, QuietInv, PoolEmpty, StoppedQuiescent
<1> QED
  BY <1>1, LifeInvariant, QuietInvariant, PTL

-----------------------------------------------------------------------------
(***************************************************************************)
(* The round robin of drainAsyncCallbacks.  What the snapshot found and    *)
(* the drain has not taken is still at the front of its queue, and after a *)
(* take that passed over a waiting kind that kind is preferred.            *)
(***************************************************************************)
DrainInv ==
    /\ pc \in {"drain", "callback"} =>
          /\ remainC <= Len(completionQueue) /\ remainP <= Len(postQueue)
          /\ \A i \in 1 .. remainC : completionQueue[i].task \in eligible
          /\ \A i \in 1 .. remainP : postQueue[i] \in eligible
    /\ passed = "post" => ~asyncPreferCompletion
    /\ passed = "completion" => asyncPreferCompletion

\* The elements of a queue keep their places at its end and move up at its head.
LEMMA QueueShifts ==
    ASSUME NEW S, NEW q \in Seq(S)
    PROVE  /\ Len(q) \in Nat
           /\ \A x \in S : /\ Len(Append(q, x)) = Len(q) + 1
                           /\ \A i \in 1 .. Len(q) : Append(q, x)[i] = q[i]
                           /\ Append(q, x)[Len(q) + 1] = x
           /\ q # <<>> => /\ Len(q) > 0 /\ Head(q) = q[1] /\ Len(Tail(q)) = Len(q) - 1
                          /\ \A i \in 1 .. Len(q) - 1 : Tail(q)[i] = q[i + 1]
  OBVIOUS

LEMMA DrainStep ==
    ASSUME TypeOK, LifeInv, DrainInv, [Next]_vars
    PROVE  DrainInv'
<1> DEFINE Front == /\ remainC <= Len(completionQueue) /\ remainP <= Len(postQueue)
                    /\ \A i \in 1 .. remainC : completionQueue[i].task \in eligible
                    /\ \A i \in 1 .. remainP : postQueue[i] \in eligible
<1> DEFINE Lens == Len(completionQueue) \in Nat /\ Len(postQueue) \in Nat
<1>0. remainC \in Nat /\ remainP \in Nat /\ Lens
  BY QueueShifts DEF TypeOK, LoopTypeOK, QueueTypeOK
<1>1. CASE UNCHANGED <<queueVars, loopVars>>
  BY <1>1 DEF queueVars, loopVars, drainVars, DrainInv
<1>2. ASSUME NEW p \in Posts, Post(p) PROVE DrainInv'
  <2>1. postQueue \in Seq(Posts)
    BY DEF TypeOK, QueueTypeOK
  <2>2. /\ Len(postQueue') = Len(postQueue) + 1
        /\ \A i \in 1 .. Len(postQueue) : postQueue'[i] = postQueue[i]
    BY <1>2, <2>1, QueueShifts DEF Post
  <2>3. UNCHANGED <<completionQueue, pc, remainC, remainP, eligible, passed, asyncPreferCompletion>>
    BY <1>2 DEF Post, loopVars, drainVars
  <2> QED
    BY <1>0, <2>2, <2>3 DEF DrainInv
<1>3. ASSUME NEW w \in Workers, Deliver(w) PROVE DrainInv'
  <2>1. completionQueue \in Seq([task : Tasks, err : Errors])
    BY DEF TypeOK, QueueTypeOK
  <2>2. [task |-> wtask[w], err |-> werr[w]] \in [task : Tasks, err : Errors]
    BY <1>3 DEF TypeOK, PoolTypeOK, Deliver
  <2>3. /\ Len(completionQueue') = Len(completionQueue) + 1
        /\ \A i \in 1 .. Len(completionQueue) : completionQueue'[i] = completionQueue[i]
    BY <1>3, <2>1, <2>2, QueueShifts DEF Deliver
  <2>4. UNCHANGED <<postQueue, pc, remainC, remainP, eligible, passed, asyncPreferCompletion>>
    BY <1>3 DEF Deliver, loopVars, drainVars
  <2> QED
    BY <1>0, <2>3, <2>4 DEF DrainInv
<1>4. CASE TickBegin
  <2>1. UNCHANGED <<queueVars, asyncPreferCompletion, passed>>
    BY <1>4 DEF TickBegin
  <2>2. CASE life = "running"
    <3>1. /\ remainC' = Len(completionQueue) /\ remainP' = Len(postQueue)
          /\ eligible' = {completionQueue[i].task : i \in 1 .. Len(completionQueue)}
                         \cup {postQueue[i] : i \in 1 .. Len(postQueue)}
      BY <1>4, <2>2 DEF TickBegin, EligibleCompletions, EligiblePosts
    <3> QED
      BY <1>0, <2>1, <3>1 DEF DrainInv, queueVars
  <2>3. CASE life # "running"
    BY <1>4, <2>1, <2>3 DEF TickBegin, DrainInv
  <2> QED
    BY <2>2, <2>3
<1>5. CASE DrainTakeCompletion
  <2>1. completionQueue \in Seq([task : Tasks, err : Errors]) /\ completionQueue # <<>>
    BY <1>5 DEF TypeOK, QueueTypeOK, DrainTakeCompletion
  <2>2. /\ Len(completionQueue') = Len(completionQueue) - 1
        /\ \A i \in 1 .. Len(completionQueue) - 1 : completionQueue'[i] = completionQueue[i + 1]
    BY <1>5, <2>1, QueueShifts DEF DrainTakeCompletion
  <2>3. /\ UNCHANGED <<postQueue, remainP, eligible>>
        /\ remainC > 0 /\ remainC' = remainC - 1 /\ pc = "drain" /\ pc' = "callback"
    BY <1>5 DEF DrainTakeCompletion, Spent
  <2>4. Front
    BY <2>3 DEF DrainInv
  <2>5. \A i \in 1 .. remainC' : completionQueue'[i].task \in eligible
    <3> TAKE i \in 1 .. remainC'
    <3>1. i \in 1 .. Len(completionQueue) - 1 /\ i + 1 \in 1 .. remainC
      BY <1>0, <2>3, <2>4
    <3> QED
      BY <2>2, <2>4, <3>1
  <2>6. (passed = "post" => ~asyncPreferCompletion)' /\ (passed = "completion" => asyncPreferCompletion)'
    <3>1. (passed' = "post" => remainP # 0) /\ passed' # "completion"
      BY <1>0, <1>5 DEF DrainTakeCompletion
    <3>2. asyncPreferCompletion \/ remainP = 0
      BY <1>5 DEF DrainTakeCompletion, TakesCompletion
    <3>3. asyncPreferCompletion' = ~asyncPreferCompletion
      BY <1>5 DEF DrainTakeCompletion, NextPreference
    <3> QED
      BY <3>1, <3>2, <3>3
  <2> QED
    BY <1>0, <2>2, <2>3, <2>4, <2>5, <2>6 DEF DrainInv
<1>6. CASE DrainTakePost
  <2>1. postQueue \in Seq(Posts) /\ postQueue # <<>>
    BY <1>6 DEF TypeOK, QueueTypeOK, DrainTakePost
  <2>2. /\ Len(postQueue') = Len(postQueue) - 1
        /\ \A i \in 1 .. Len(postQueue) - 1 : postQueue'[i] = postQueue[i + 1]
    BY <1>6, <2>1, QueueShifts DEF DrainTakePost
  <2>3. /\ UNCHANGED <<completionQueue, remainC, eligible>>
        /\ remainP > 0 /\ remainP' = remainP - 1 /\ pc = "drain" /\ pc' = "callback"
    BY <1>6 DEF DrainTakePost, Spent
  <2>4. Front
    BY <2>3 DEF DrainInv
  <2>5. \A i \in 1 .. remainP' : postQueue'[i] \in eligible
    <3> TAKE i \in 1 .. remainP'
    <3>1. i \in 1 .. Len(postQueue) - 1 /\ i + 1 \in 1 .. remainP
      BY <1>0, <2>3, <2>4
    <3> QED
      BY <2>2, <2>4, <3>1
  <2>6. (passed = "post" => ~asyncPreferCompletion)' /\ (passed = "completion" => asyncPreferCompletion)'
    BY <1>0, <1>6 DEF DrainTakePost, TakesCompletion, NextPreference
  <2> QED
    BY <1>0, <2>2, <2>3, <2>4, <2>5, <2>6 DEF DrainInv
<1>7. ASSUME NEW b \in BOOLEAN, RunCallback(b) PROVE DrainInv'
  BY <1>7 DEF RunCallback, queueVars, DrainInv
<1>8. CASE RunStart \/ DrainEnd \/ LoopExit \/ (\E b \in BOOLEAN : TickEnd(b)) \/ FinalizeStep
  <2>1. /\ pc' \notin {"drain", "callback"}
        /\ UNCHANGED <<passed, asyncPreferCompletion>>
    BY <1>8 DEF RunStart, DrainEnd, LoopExit, TickEnd, FinalizeStep, FinalizeMark,
                FinalizeCancel, PoolStopped, FinalizeDiscard, drainVars
  <2> QED
    BY <2>1 DEF DrainInv
<1>9. CASE \/ CallerCancel \/ SubmitCommit \/ PondSkip \/ Returned \/ UNCHANGED vars
           \/ \E s \in Stoppers : StopperMark(s) \/ StopperCancel(s)
           \/ \E t \in Tasks : SubmitBegin(t) \/ TaskContextEnds(t)
           \/ \E w \in Workers : WorkerStep(w) /\ ~Deliver(w)
  <2>1. UNCHANGED <<queueVars, loopVars>>
    BY <1>9 DEF CallerCancel, SubmitCommit, PondSkip, Returned, vars, StopperMark,
        StopperCancel, SubmitBegin, TaskContextEnds, WorkerStep, PondStart, GateOpens,
        LinkRunCancel, WorkReturns, CountCancelled, Abandon
  <2> QED
    BY <1>1, <2>1
<1> QED
  BY <1>2, <1>3, <1>4, <1>5, <1>6, <1>7, <1>8, <1>9 DEF Next, TickStep

LEMMA DrainInvariant == Spec => []DrainInv
<1>1. Init => DrainInv
  BY DEF Init, DrainInv
<1> QED
  BY <1>1, DrainStep, TypeCorrect, LifeInvariant, PTL DEF Spec

\* A drain takes only what was queued when it began, and no waiting kind of
\* callback is passed over twice in a row, for any budget and any load.
THEOREM RoundRobinHolds == Spec => RoundRobin
<1> DEFINE Fair == current' # current =>
         /\ current' # NoItem => current' \in eligible
         /\ passed = "post" /\ remainP > 0 => current' \notin Tasks
         /\ passed = "completion" /\ remainC > 0 => current' \notin Posts
<1>1. ASSUME TypeOK, DrainInv, [Next]_vars PROVE [Fair]_vars
  <2>1. CASE DrainTakeCompletion
    <3>1. /\ completionQueue \in Seq([task : Tasks, err : Errors]) /\ completionQueue # <<>>
          /\ remainC \in Nat /\ remainP \in Nat
      BY <1>1, <2>1 DEF TypeOK, QueueTypeOK, LoopTypeOK, DrainTakeCompletion
    <3>2. Head(completionQueue) = completionQueue[1] /\ completionQueue[1].task \in Tasks
      <4>1. /\ Head(completionQueue) = completionQueue[1]
            /\ Head(completionQueue) \in [task : Tasks, err : Errors]
        BY <3>1, QueueShifts, QueueTypes
      <4> QED
        BY <4>1
    <3>3. current' \in eligible
      BY <1>1, <2>1, <3>1, <3>2 DEF DrainTakeCompletion, DrainInv
    <3> QED
      BY <1>1, <2>1, <3>1, <3>2, <3>3, ItemAssumption
      DEF DrainTakeCompletion, DrainInv, TakesCompletion
  <2>2. CASE DrainTakePost
    <3>1. /\ postQueue \in Seq(Posts) /\ postQueue # <<>>
          /\ remainC \in Nat /\ remainP \in Nat
      BY <1>1, <2>2 DEF TypeOK, QueueTypeOK, LoopTypeOK, DrainTakePost
    <3>2. Head(postQueue) = postQueue[1] /\ postQueue[1] \in Posts
      BY <3>1
    <3>3. current' \in eligible
      BY <1>1, <2>2, <3>1, <3>2 DEF DrainTakePost, DrainInv
    <3> QED
      BY <1>1, <2>2, <3>1, <3>2, <3>3, ItemAssumption
      DEF DrainTakePost, DrainInv, TakesCompletion
  <2>3. CASE \E b \in BOOLEAN : RunCallback(b)
    BY <2>3, ItemAssumption DEF RunCallback
  <2>4. CASE ~DrainTakeCompletion /\ ~DrainTakePost /\ ~(\E b \in BOOLEAN : RunCallback(b))
    <3>1. current' = current
      BY <1>1, <2>4 DEF Next, TickStep, FinalizeStep, WorkerStep, RunStart, CallerCancel,
          StopperMark, StopperCancel, Post, SubmitBegin, SubmitCommit, TaskContextEnds,
          PondStart, PondSkip, GateOpens, LinkRunCancel, WorkReturns, CountCancelled,
          Deliver, Abandon, TickBegin, DrainEnd, TickEnd, LoopExit, FinalizeMark,
          FinalizeCancel, PoolStopped, FinalizeDiscard, Returned, vars, loopVars, drainVars
    <3> QED
      BY <3>1
  <2> QED
    BY <2>1, <2>2, <2>3, <2>4
<1> QED
  BY <1>1, TypeCorrect, DrainInvariant, PTL DEF Spec, RoundRobin

-----------------------------------------------------------------------------
(***************************************************************************)
(* The statistics of tasks.  A task is in one place at a time: being       *)
(* submitted, queued, with one worker, skipped, completed and waiting, or  *)
(* taken by the drain; its counters tell how far it is.                    *)
(***************************************************************************)
Elems(q) == {q[i] : i \in 1 .. Len(q)}
Distinct(q) == \A i, j \in 1 .. Len(q) : q[i] = q[j] => i = j

Completed == {completionQueue[i].task : i \in 1 .. Len(completionQueue)}
CompletedOnce ==
    \A i, j \in 1 .. Len(completionQueue) :
        completionQueue[i].task = completionQueue[j].task => i = j

Unheld(t) == \A w \in Workers : wtask[w] # t

CountsOf(t) ==
    /\ executed[t] <= finished[t] /\ finished[t] <= accepted[t]
    /\ cancelled[t] <= accepted[t] /\ accepted[t] <= 1
    /\ gate = t => accepted[t] = 0
    /\ accepted[t] = 0 /\ gate # t => t \notin Elems(taskQueue) /\ Unheld(t)

QueuedOf(t) ==
    t \in Elems(taskQueue) =>
        finished[t] = 0 /\ cancelled[t] = 0 /\ t \notin skipped /\ Unheld(t)

SkippedOf(t) ==
    t \in skipped =>
        /\ accepted[t] = 1 /\ finished[t] = 0
        /\ cancelled[t] = IF pc \in {"discard", "returned"} THEN 1 ELSE 0
        /\ Unheld(t)

WorkedOf(t) ==
    \A w \in Workers : wtask[w] = t =>
        /\ t \notin Completed /\ current # t /\ executed[t] = 0
        /\ wpc[w] \in {"gated", "running"} => finished[t] = 0 /\ cancelled[t] = 0
        /\ wpc[w] = "running" => accepted[t] = 1
        /\ wpc[w] = "counting" => /\ finished[t] = 1 /\ cancelled[t] = 0
                                  /\ werr[w] = "ctx" => t \in ended
        /\ wpc[w] = "delivering" => finished[t] = 1 /\ (werr[w] = "ctx" => cancelled[t] = 1)

CompletedOf(t) ==
    /\ t \in Completed => finished[t] = 1 /\ executed[t] = 0 /\ current # t
    /\ current = t => finished[t] = 1 /\ executed[t] = 0

TaskInv(t) == CountsOf(t) /\ QueuedOf(t) /\ SkippedOf(t) /\ WorkedOf(t) /\ CompletedOf(t)

CountInv ==
    /\ Distinct(taskQueue) /\ CompletedOnce /\ ContextErrorCounted
    /\ \A v, w \in Workers : wtask[v] = wtask[w] /\ wtask[v] # NoItem => v = w
    /\ \A t \in Tasks : TaskInv(t)

\* The elements of a queue without repetitions, when one comes and one goes.
LEMMA QueueElems ==
    ASSUME NEW S, NEW q \in Seq(S), Distinct(q)
    PROVE  /\ \A x \in S : /\ Elems(Append(q, x)) = Elems(q) \cup {x}
                           /\ x \notin Elems(q) => Distinct(Append(q, x))
           /\ q # <<>> => /\ Head(q) \in Elems(q) /\ Distinct(Tail(q))
                          /\ Elems(Tail(q)) = Elems(q) \ {Head(q)}
<1>1. ASSUME NEW x \in S PROVE /\ Elems(Append(q, x)) = Elems(q) \cup {x}
                               /\ x \notin Elems(q) => Distinct(Append(q, x))
  <2>1. /\ Len(q) \in Nat /\ Len(Append(q, x)) = Len(q) + 1
        /\ \A i \in 1 .. Len(q) : Append(q, x)[i] = q[i]
        /\ Append(q, x)[Len(q) + 1] = x
    BY QueueShifts
  <2>2. \A i \in 1 .. Len(q) + 1 : i \in 1 .. Len(q) \/ i = Len(q) + 1
    BY <2>1
  <2>3. Elems(Append(q, x)) \subseteq Elems(q) \cup {x}
    BY <2>1, <2>2 DEF Elems
  <2>4. Elems(q) \cup {x} \subseteq Elems(Append(q, x))
    BY <2>1 DEF Elems
  <2>5. x \notin Elems(q) => Distinct(Append(q, x))
    BY <2>1, <2>2 DEF Elems, Distinct
  <2> QED
    BY <2>3, <2>4, <2>5
<1>2. ASSUME q # <<>> PROVE /\ Head(q) \in Elems(q) /\ Distinct(Tail(q))
                            /\ Elems(Tail(q)) = Elems(q) \ {Head(q)}
  <2>1. /\ Len(q) \in Nat /\ Len(q) > 0 /\ Head(q) = q[1] /\ Len(Tail(q)) = Len(q) - 1
        /\ \A i \in 1 .. Len(q) - 1 : Tail(q)[i] = q[i + 1]
    BY <1>2, QueueShifts
  <2>2. Head(q) \in Elems(q) /\ Distinct(Tail(q))
    BY <2>1 DEF Elems, Distinct
  <2>3. ASSUME NEW y \in Elems(Tail(q)) PROVE y \in Elems(q) \ {Head(q)}
    <3>1. PICK i \in 1 .. Len(q) - 1 : y = q[i + 1]
      BY <2>1, <2>3 DEF Elems
    <3> QED
      BY <2>1, <3>1 DEF Elems, Distinct
  <2>4. ASSUME NEW y \in Elems(q) \ {Head(q)} PROVE y \in Elems(Tail(q))
    <3>1. PICK i \in 1 .. Len(q) : y = q[i] /\ i # 1
      BY <2>1, <2>4 DEF Elems
    <3>2. i - 1 \in 1 .. Len(q) - 1 /\ Tail(q)[i - 1] = y
      BY <2>1, <3>1
    <3> QED
      BY <2>1, <3>2 DEF Elems
  <2> QED
    BY <2>2, <2>3, <2>4
<1> QED
  BY <1>1, <1>2

\* The same for the completion queue, by the tasks of its records.
LEMMA CompletionElems ==
    ASSUME QueueTypeOK, CompletedOnce, ContextErrorCounted
    PROVE  /\ \A r \in [task : Tasks, err : Errors] :
                completionQueue' = Append(completionQueue, r) =>
                    /\ Completed' = Completed \cup {r.task}
                    /\ r.task \notin Completed => CompletedOnce'
                    /\ cancelled' = cancelled /\ (r.err = "ctx" => cancelled[r.task] = 1)
                         => ContextErrorCounted'
           /\ completionQueue # <<>> /\ completionQueue' = Tail(completionQueue) =>
                    /\ Head(completionQueue).task \in Completed
                    /\ Completed' = Completed \ {Head(completionQueue).task}
                    /\ CompletedOnce'
                    /\ cancelled' = cancelled => ContextErrorCounted'
<1> DEFINE q == completionQueue
<1>0. q \in Seq([task : Tasks, err : Errors])
  BY DEF QueueTypeOK
<1>1. ASSUME NEW r \in [task : Tasks, err : Errors], q' = Append(q, r)
      PROVE  /\ Completed' = Completed \cup {r.task}
             /\ r.task \notin Completed => CompletedOnce'
             /\ cancelled' = cancelled /\ (r.err = "ctx" => cancelled[r.task] = 1)
                         => ContextErrorCounted'
  <2>1. /\ Len(q) \in Nat /\ Len(q') = Len(q) + 1
        /\ \A i \in 1 .. Len(q) : q'[i] = q[i]
        /\ q'[Len(q) + 1] = r
    BY <1>0, <1>1, QueueShifts
  <2>2. \A i \in 1 .. Len(q) + 1 : i \in 1 .. Len(q) \/ i = Len(q) + 1
    BY <2>1
  <2>3. Completed' \subseteq Completed \cup {r.task}
    BY <2>1, <2>2 DEF Completed
  <2>4. Completed \cup {r.task} \subseteq Completed'
    BY <2>1 DEF Completed
  <2>5. r.task \notin Completed => CompletedOnce'
    BY <2>1, <2>2 DEF Completed, CompletedOnce
  <2>6. cancelled' = cancelled /\ (r.err = "ctx" => cancelled[r.task] = 1)
          => ContextErrorCounted'
    BY <2>1, <2>2 DEF ContextErrorCounted
  <2> QED
    BY <2>3, <2>4, <2>5, <2>6
<1>2. ASSUME q # <<>>, q' = Tail(q)
      PROVE  /\ Head(q).task \in Completed
             /\ Completed' = Completed \ {Head(q).task}
             /\ CompletedOnce'
             /\ cancelled' = cancelled => ContextErrorCounted'
  <2>1. /\ Len(q) \in Nat /\ Len(q) > 0 /\ Head(q) = q[1] /\ Len(q') = Len(q) - 1
        /\ \A i \in 1 .. Len(q) - 1 : q'[i] = q[i + 1]
    BY <1>0, <1>2, QueueShifts
  <2>2. Head(q).task \in Completed /\ CompletedOnce'
    BY <2>1 DEF Completed, CompletedOnce
  <2>3. ASSUME NEW y \in Completed' PROVE y \in Completed \ {Head(q).task}
    <3>1. PICK i \in 1 .. Len(q) - 1 : y = q[i + 1].task
      BY <2>1, <2>3 DEF Completed
    <3> QED
      BY <2>1, <3>1 DEF Completed, CompletedOnce
  <2>4. ASSUME NEW y \in Completed \ {Head(q).task} PROVE y \in Completed'
    <3>1. PICK i \in 1 .. Len(q) : y = q[i].task /\ i # 1
      BY <2>1, <2>4 DEF Completed
    <3>2. i - 1 \in 1 .. Len(q) - 1 /\ q'[i - 1] = q[i]
      BY <2>1, <3>1
    <3> QED
      BY <2>1, <3>1, <3>2 DEF Completed
  <2>5. cancelled' = cancelled => ContextErrorCounted'
    BY <2>1 DEF ContextErrorCounted
  <2> QED
    BY <2>2, <2>3, <2>4, <2>5
<1> QED
  BY <1>1, <1>2

LEMMA CountStep ==
    ASSUME TypeOK, LifeInv, QuietInv, CountInv, [Next]_vars
    PROVE  CountInv'
<1> USE DEF TaskInv, CountsOf, QueuedOf, SkippedOf, WorkedOf, CompletedOf, Unheld
<1>0. /\ PoolTypeOK /\ QueueTypeOK /\ StatTypeOK /\ NoItem \notin Tasks
      /\ Tasks \cap Posts = {} /\ NoItem \notin Posts
  BY ItemAssumption DEF TypeOK
<1>a. /\ Distinct(taskQueue) /\ CompletedOnce /\ ContextErrorCounted
      /\ \A v, w \in Workers : wtask[v] = wtask[w] /\ wtask[v] # NoItem => v = w
      /\ \A t \in Tasks : TaskInv(t)
  BY DEF CountInv
<1> DEFINE Late == pc \in {"discard", "returned"}
\* A step that touches neither a task's place nor its counters.
<1>1. ASSUME UNCHANGED <<poolVars, completionQueue, accepted, finished, cancelled, executed>>,
             current' = current \/ current' \notin Tasks, Late' = Late
      PROVE  CountInv'
  <2>1. /\ Distinct(taskQueue)' /\ CompletedOnce' /\ ContextErrorCounted'
        /\ Completed' = Completed /\ Elems(taskQueue)' = Elems(taskQueue)
        /\ UNCHANGED <<gate, skipped, wpc, wtask, werr, ended>>
    BY <1>1, <1>a DEF poolVars, Completed, CompletedOnce, ContextErrorCounted
  <2>2. ASSUME NEW t \in Tasks PROVE TaskInv(t)'
    BY <1>1, <1>a, <2>1
  <2> QED
    BY <1>a, <2>1, <2>2 DEF CountInv
<1>2. CASE RunStart \/ CallerCancel \/ (\E s \in Stoppers : StopperMark(s) \/ StopperCancel(s))
           \/ (\E p \in Posts : Post(p)) \/ TickBegin \/ DrainEnd \/ LoopExit
           \/ (\E b \in BOOLEAN : TickEnd(b)) \/ FinalizeMark \/ FinalizeCancel
           \/ Returned \/ UNCHANGED vars
  <2>1. /\ UNCHANGED <<poolVars, completionQueue, accepted, finished, cancelled, executed, current>>
        /\ Late' = Late
    BY <1>2 DEF RunStart, CallerCancel, StopperMark, StopperCancel, Post, TickBegin, DrainEnd,
        LoopExit, TickEnd, FinalizeMark, FinalizeCancel, Returned, vars, queueVars, loopVars,
        drainVars, statVars
  <2> QED
    BY <1>1, <2>1
<1>3. CASE DrainTakePost
  <2>1. Head(postQueue) \in Posts
    BY <1>0, <1>3 DEF QueueTypeOK, DrainTakePost
  <2>2. /\ UNCHANGED <<poolVars, completionQueue, accepted, finished, cancelled, executed>>
        /\ current' \notin Tasks /\ Late' = Late
    BY <1>0, <1>3, <2>1 DEF DrainTakePost, statVars
  <2> QED
    BY <1>1, <2>2
<1>4. ASSUME NEW s \in Tasks, SubmitBegin(s) PROVE CountInv'
  <2>1. /\ s \notin Elems(taskQueue) /\ accepted[s] = 0 /\ gate = NoItem /\ gate' = s
        /\ taskQueue' = Append(taskQueue, s)
        /\ UNCHANGED <<skipped, wpc, wtask, werr, ended, completionQueue, pc, current,
                       accepted, finished, cancelled, executed>>
    BY <1>0, <1>a, <1>4 DEF SubmitBegin, LifeMuFree, queueVars, loopVars, drainVars, statVars
  <2>2. Elems(taskQueue') = Elems(taskQueue) \cup {s} /\ Distinct(taskQueue')
    BY <1>0, <1>a, <2>1, QueueElems DEF PoolTypeOK
  <2>3. Completed' = Completed /\ CompletedOnce' /\ ContextErrorCounted'
    BY <1>a, <2>1 DEF Completed, CompletedOnce, ContextErrorCounted
  <2>4. ASSUME NEW t \in Tasks PROVE TaskInv(t)'
    BY <1>0, <1>a, <2>1, <2>2, <2>3 DEF StatTypeOK
  <2> QED
    BY <1>a, <2>1, <2>2, <2>3, <2>4 DEF CountInv
<1>5. CASE SubmitCommit
  <2>1. /\ gate \in Tasks /\ gate' = NoItem
        /\ accepted' = [accepted EXCEPT ![gate] = @ + 1]
        /\ UNCHANGED <<taskQueue, skipped, wpc, wtask, werr, ended, completionQueue, pc, current,
                       finished, cancelled, executed>>
    BY <1>0, <1>5 DEF SubmitCommit, queueVars, loopVars, drainVars, PoolTypeOK
  <2>2. Completed' = Completed /\ CompletedOnce' /\ ContextErrorCounted'
    BY <1>a, <2>1 DEF Completed, CompletedOnce, ContextErrorCounted
  <2>3. ASSUME NEW t \in Tasks PROVE TaskInv(t)'
    BY <1>0, <1>a, <2>1, <2>2 DEF StatTypeOK
  <2> QED
    BY <1>a, <2>1, <2>2, <2>3 DEF CountInv
<1>6. CASE (\E t \in Tasks : TaskContextEnds(t)) \/ (\E w \in Workers : LinkRunCancel(w))
  <2>1. /\ ended \subseteq ended'
        /\ UNCHANGED <<gate, taskQueue, skipped, wpc, wtask, werr, completionQueue, pc, current,
                       accepted, finished, cancelled, executed>>
    BY <1>6 DEF TaskContextEnds, LinkRunCancel, queueVars, loopVars, drainVars, statVars
  <2>2. Completed' = Completed /\ CompletedOnce' /\ ContextErrorCounted'
    BY <1>a, <2>1 DEF Completed, CompletedOnce, ContextErrorCounted
  <2>3. ASSUME NEW t \in Tasks PROVE TaskInv(t)'
    BY <1>0, <1>a, <2>1, <2>2
  <2> QED
    BY <1>a, <2>1, <2>2, <2>3 DEF CountInv
<1>7. ASSUME NEW v \in Workers, PondStart(v) PROVE CountInv'
  <2> DEFINE s == Head(taskQueue)
  <2>1. /\ wpc[v] = "idle" /\ wtask[v] = NoItem
        /\ wpc' = [wpc EXCEPT ![v] = "gated"] /\ wtask' = [wtask EXCEPT ![v] = s]
        /\ taskQueue' = Tail(taskQueue)
        /\ UNCHANGED <<gate, skipped, werr, ended, completionQueue, pc, current,
                       accepted, finished, cancelled, executed>>
    BY <1>0, <1>7 DEF PondStart, PoolTypeOK, queueVars, loopVars, drainVars, statVars
  <2>2. /\ s \in Tasks /\ s \in Elems(taskQueue)
        /\ Elems(taskQueue') = Elems(taskQueue) \ {s} /\ Distinct(taskQueue')
    BY <1>0, <1>a, <1>7, QueueElems DEF PondStart, PoolTypeOK
  <2>3. Completed' = Completed /\ CompletedOnce' /\ ContextErrorCounted'
    BY <1>a, <2>1 DEF Completed, CompletedOnce, ContextErrorCounted
  <2>4. /\ finished[s] = 0 /\ cancelled[s] = 0 /\ s \notin skipped /\ Unheld(s)
        /\ executed[s] = 0 /\ s \notin Completed /\ current # s
    BY <1>0, <1>a, <2>2 DEF StatTypeOK
  <2> HIDE DEF s
  <2>5. ASSUME NEW t \in Tasks PROVE TaskInv(t)'
    BY <1>0, <1>a, <2>1, <2>2, <2>3, <2>4 DEF PoolTypeOK
  <2>6. \A u, w \in Workers : wtask'[u] = wtask'[w] /\ wtask'[u] # NoItem => u = w
    BY <1>0, <1>a, <2>1, <2>2, <2>4 DEF PoolTypeOK
  <2> QED
    BY <2>2, <2>3, <2>5, <2>6 DEF CountInv
<1>8. CASE PondSkip
  <2> DEFINE s == Head(taskQueue)
  <2>1. /\ gate = NoItem /\ ~Late /\ skipped' = skipped \cup {s}
        /\ taskQueue' = Tail(taskQueue)
        /\ UNCHANGED <<gate, wpc, wtask, werr, ended, completionQueue, pc, current,
                       accepted, finished, cancelled, executed>>
    BY <1>8 DEF PondSkip, LifeInv, QuietInv, PoolEmpty, queueVars, loopVars, drainVars, statVars
  <2>2. /\ s \in Tasks /\ s \in Elems(taskQueue)
        /\ Elems(taskQueue') = Elems(taskQueue) \ {s} /\ Distinct(taskQueue')
    BY <1>0, <1>a, <1>8, QueueElems DEF PondSkip, PoolTypeOK
  <2>3. Completed' = Completed /\ CompletedOnce' /\ ContextErrorCounted'
    BY <1>a, <2>1 DEF Completed, CompletedOnce, ContextErrorCounted
  <2> HIDE DEF s
  <2>4. finished[s] = 0 /\ cancelled[s] = 0 /\ Unheld(s) /\ accepted[s] = 1
    <3>1. TaskInv(s) /\ gate # s /\ accepted[s] \in Nat
      BY <1>0, <1>a, <2>1, <2>2 DEF StatTypeOK
    <3> QED
      BY <2>2, <3>1
  <2>5. ASSUME NEW t \in Tasks PROVE TaskInv(t)'
    BY <1>0, <1>a, <2>1, <2>2, <2>3, <2>4
  <2> QED
    BY <1>a, <2>1, <2>2, <2>3, <2>5 DEF CountInv
<1>9. ASSUME NEW v \in Workers, GateOpens(v) PROVE CountInv'
  <2>1. /\ wpc[v] = "gated" /\ wtask[v] # gate /\ wtask[v] \in Tasks
        /\ wpc' = [wpc EXCEPT ![v] = "running"]
        /\ UNCHANGED <<gate, taskQueue, skipped, wtask, werr, ended, completionQueue, pc, current,
                       accepted, finished, cancelled, executed>>
    BY <1>0, <1>9 DEF GateOpens, StartGateOpen, PoolTypeOK, queueVars, loopVars, drainVars, statVars
  <2>2. accepted[wtask[v]] = 1
    BY <1>0, <1>a, <2>1 DEF StatTypeOK
  <2>3. Completed' = Completed /\ CompletedOnce' /\ ContextErrorCounted'
    BY <1>a, <2>1 DEF Completed, CompletedOnce, ContextErrorCounted
  <2>4. ASSUME NEW t \in Tasks PROVE TaskInv(t)'
    BY <1>0, <1>a, <2>1, <2>2, <2>3 DEF PoolTypeOK
  <2> QED
    BY <1>a, <2>1, <2>3, <2>4 DEF CountInv
<1>10. ASSUME NEW v \in Workers, NEW o \in Outcomes, WorkReturns(v, o) PROVE CountInv'
  <2>1. /\ wpc[v] = "running" /\ wtask[v] \in Tasks
        /\ wpc' = [wpc EXCEPT ![v] = "counting"]
        /\ werr' = [werr EXCEPT ![v] = WorkErr(o, wtask[v])]
        /\ finished' = [finished EXCEPT ![wtask[v]] = @ + 1]
        /\ UNCHANGED <<gate, taskQueue, skipped, wtask, ended, completionQueue, pc, current,
                       accepted, cancelled, executed>>
    BY <1>0, <1>10 DEF WorkReturns, PoolTypeOK, queueVars, loopVars, drainVars
  <2>2. WorkErr(o, wtask[v]) = "ctx" => wtask[v] \in ended
    BY OutcomeAssumption DEF WorkErr
  <2>3. /\ finished[wtask[v]] = 0 /\ cancelled[wtask[v]] = 0 /\ accepted[wtask[v]] = 1
        /\ executed[wtask[v]] = 0 /\ wtask[v] \notin Completed /\ current # wtask[v]
        /\ wtask[v] \notin skipped /\ wtask[v] \notin Elems(taskQueue)
        /\ \A w \in Workers : wtask[w] = wtask[v] => w = v
    BY <1>0, <1>a, <2>1
  <2>4. Completed' = Completed /\ CompletedOnce' /\ ContextErrorCounted'
    BY <1>a, <2>1 DEF Completed, CompletedOnce, ContextErrorCounted
  <2>5. ASSUME NEW t \in Tasks PROVE TaskInv(t)'
    BY <1>0, <1>a, <2>1, <2>2, <2>3, <2>4 DEF PoolTypeOK, StatTypeOK
  <2> QED
    BY <1>a, <2>1, <2>4, <2>5 DEF CountInv
<1>11. ASSUME NEW v \in Workers, CountCancelled(v) PROVE CountInv'
  <2>1. /\ wpc[v] = "counting" /\ wtask[v] \in Tasks
        /\ wpc' = [wpc EXCEPT ![v] = "delivering"]
        /\ cancelled' = [cancelled EXCEPT ![wtask[v]] = IF wtask[v] \in ended THEN @ + 1 ELSE @]
        /\ UNCHANGED <<gate, taskQueue, skipped, wtask, werr, ended, completionQueue, pc, current,
                       accepted, finished, executed>>
    BY <1>0, <1>11 DEF CountCancelled, EffectiveContextEnded, PoolTypeOK, queueVars, loopVars, drainVars
  <2>2. /\ finished[wtask[v]] = 1 /\ cancelled[wtask[v]] = 0 /\ accepted[wtask[v]] = 1
        /\ werr[v] = "ctx" => wtask[v] \in ended
        /\ executed[wtask[v]] = 0 /\ wtask[v] \notin Completed /\ current # wtask[v]
        /\ wtask[v] \notin skipped /\ wtask[v] \notin Elems(taskQueue)
        /\ \A w \in Workers : wtask[w] = wtask[v] => w = v
    BY <1>0, <1>a, <2>1 DEF StatTypeOK
  <2>3. Completed' = Completed /\ CompletedOnce'
    BY <1>a, <2>1 DEF Completed, CompletedOnce
  <2>4. ContextErrorCounted'
    <3>1. ASSUME NEW i \in 1 .. Len(completionQueue)
          PROVE  cancelled'[completionQueue[i].task] = cancelled[completionQueue[i].task]
      <4>1. completionQueue[i].task \in Completed
        BY DEF Completed
      <4> QED
        BY <1>0, <2>1, <2>2, <4>1 DEF StatTypeOK
    <3> QED
      BY <1>a, <2>1, <3>1 DEF ContextErrorCounted
  <2>5. ASSUME NEW t \in Tasks PROVE TaskInv(t)'
    BY <1>0, <1>a, <2>1, <2>2, <2>3 DEF PoolTypeOK, StatTypeOK
  <2> QED
    BY <1>a, <2>1, <2>3, <2>4, <2>5 DEF CountInv
<1>12. ASSUME NEW v \in Workers, Deliver(v) \/ Abandon(v) PROVE CountInv'
  <2>1. /\ wpc[v] = "delivering" /\ wtask[v] \in Tasks
        /\ wpc' = [wpc EXCEPT ![v] = "idle"] /\ wtask' = [wtask EXCEPT ![v] = NoItem]
        /\ werr' = [werr EXCEPT ![v] = "nil"]
        /\ UNCHANGED <<gate, taskQueue, skipped, ended, pc, current,
                       accepted, finished, cancelled, executed>>
    BY <1>0, <1>12 DEF Deliver, Abandon, Release, PoolTypeOK, loopVars, drainVars, statVars
  <2>2. /\ finished[wtask[v]] = 1 /\ werr[v] = "ctx" => cancelled[wtask[v]] = 1
        /\ executed[wtask[v]] = 0 /\ wtask[v] \notin Completed /\ current # wtask[v]
        /\ wtask[v] \notin skipped /\ wtask[v] \notin Elems(taskQueue)
        /\ \A w \in Workers : wtask[w] = wtask[v] => w = v
    BY <1>0, <1>a, <2>1 DEF StatTypeOK
  <2>3. /\ CompletedOnce' /\ ContextErrorCounted'
        /\ Completed' \in {Completed, Completed \cup {wtask[v]}}
    <3>1. CASE Deliver(v)
      <4> DEFINE r == [task |-> wtask[v], err |-> werr[v]]
      <4>1. r \in [task : Tasks, err : Errors] /\ r.task = wtask[v] /\ r.err = werr[v]
        BY <1>0, <2>1 DEF PoolTypeOK
      <4>2. completionQueue' = Append(completionQueue, r)
        BY <3>1 DEF Deliver
      <4> HIDE DEF r
      <4> QED
        BY <1>0, <1>a, <2>1, <2>2, <4>1, <4>2, CompletionElems
    <3>2. CASE Abandon(v)
      <4>1. completionQueue' = completionQueue
        BY <3>2 DEF Abandon, queueVars
      <4> QED
        BY <1>a, <2>1, <4>1 DEF Completed, CompletedOnce, ContextErrorCounted
    <3> QED
      BY <1>12, <3>1, <3>2
  <2>4. ASSUME NEW t \in Tasks PROVE TaskInv(t)'
    <3>1. \A w \in Workers : w # v => wtask'[w] = wtask[w] /\ wpc'[w] = wpc[w] /\ werr'[w] = werr[w]
      BY <1>0, <2>1 DEF PoolTypeOK
    <3>2. wtask'[v] = NoItem
      BY <1>0, <2>1 DEF PoolTypeOK
    <3> QED
      BY <1>0, <1>a, <2>1, <2>2, <2>3, <3>1, <3>2
  <2>5. \A u, w \in Workers : wtask'[u] = wtask'[w] /\ wtask'[u] # NoItem => u = w
    BY <1>0, <1>a, <2>1 DEF PoolTypeOK
  <2> QED
    BY <1>a, <2>1, <2>3, <2>4, <2>5 DEF CountInv
<1>13. CASE DrainTakeCompletion
  <2> DEFINE s == Head(completionQueue).task
  <2>1. /\ ~Late /\ ~Late' /\ current' = s
        /\ completionQueue # <<>> /\ completionQueue' = Tail(completionQueue)
        /\ UNCHANGED <<gate, taskQueue, skipped, wpc, wtask, werr, ended,
                       accepted, finished, cancelled, executed>>
    BY <1>13 DEF DrainTakeCompletion, poolVars, statVars
  <2>2. /\ s \in Completed /\ Completed' = Completed \ {s} /\ CompletedOnce'
        /\ ContextErrorCounted'
    BY <1>0, <1>a, <2>1, CompletionElems
  <2>3. s \in Tasks
    <3>1. Head(completionQueue) \in [task : Tasks, err : Errors]
      BY <1>0, <2>1, QueueTypes DEF QueueTypeOK
    <3> QED
      BY <3>1
  <2> HIDE DEF s
  <2>4. ASSUME NEW t \in Tasks PROVE TaskInv(t)'
    BY <1>0, <1>a, <2>1, <2>2, <2>3
  <2> QED
    BY <1>a, <2>1, <2>2, <2>4 DEF CountInv
<1>14. ASSUME NEW b \in BOOLEAN, RunCallback(b) PROVE CountInv'
  <2>1. /\ ~Late /\ ~Late' /\ current' = NoItem
        /\ executed' = IF current \in Tasks THEN [executed EXCEPT ![current] = @ + 1] ELSE executed
        /\ UNCHANGED <<gate, taskQueue, skipped, wpc, wtask, werr, ended, completionQueue,
                       accepted, finished, cancelled>>
    BY <1>14 DEF RunCallback, poolVars, queueVars
  <2>2. Completed' = Completed /\ CompletedOnce' /\ ContextErrorCounted'
    BY <1>a, <2>1 DEF Completed, CompletedOnce, ContextErrorCounted
  <2>3. ASSUME NEW t \in Tasks PROVE TaskInv(t)'
    <3>1. executed'[t] = IF current = t THEN 1 ELSE executed[t]
      BY <1>0, <1>a, <2>1 DEF StatTypeOK
    <3> QED
      BY <1>0, <1>a, <2>1, <2>2, <3>1
  <2> QED
    BY <1>a, <2>1, <2>2, <2>3 DEF CountInv
<1>15. CASE PoolStopped
  <2>1. /\ pc = "wait" /\ pc' = "discard" /\ \A w \in Workers : wpc[w] = "idle"
        /\ cancelled' = [t \in Tasks |-> IF t \in skipped THEN cancelled[t] + 1 ELSE cancelled[t]]
        /\ UNCHANGED <<gate, taskQueue, skipped, wpc, wtask, werr, ended, completionQueue,
                       accepted, finished, current, executed>>
    BY <1>15 DEF PoolStopped, CanceledTasks, poolVars, queueVars, drainVars
  <2>2. Completed' = Completed /\ CompletedOnce'
    BY <1>a, <2>1 DEF Completed, CompletedOnce
  <2>4. ContextErrorCounted'
    <3>1. ASSUME NEW i \in 1 .. Len(completionQueue)
          PROVE  cancelled'[completionQueue[i].task] = cancelled[completionQueue[i].task]
      <4>1. completionQueue[i].task \in Completed
        BY DEF Completed
      <4>2. completionQueue[i] \in [task : Tasks, err : Errors]
        <5>1. completionQueue \in Seq([task : Tasks, err : Errors])
          BY <1>0 DEF QueueTypeOK
        <5> QED
          BY <5>1, QueueTypes
      <4>3. completionQueue[i].task \in Tasks
        BY <4>2
      <4>4. completionQueue[i].task \notin skipped
        BY <1>a, <4>1, <4>3
      <4> QED
        BY <2>1, <4>3, <4>4
    <3> QED
      BY <1>a, <2>1, <3>1 DEF ContextErrorCounted
  <2>5. \A w \in Workers : wtask[w] = NoItem
    BY <1>0, <2>1 DEF PoolTypeOK
  <2>6. ASSUME NEW t \in Tasks PROVE TaskInv(t)'
    <3>1. cancelled'[t] = IF t \in skipped THEN cancelled[t] + 1 ELSE cancelled[t]
      BY <2>1
    <3>2. t \in skipped => cancelled[t] = 0 /\ accepted[t] = 1 /\ t \notin Elems(taskQueue)
      BY <1>a, <2>1
    <3> QED
      BY <1>0, <1>a, <2>1, <2>2, <2>5, <3>1, <3>2 DEF StatTypeOK
  <2> QED
    BY <1>a, <2>1, <2>2, <2>4, <2>6 DEF CountInv
<1>16. CASE FinalizeDiscard
  <2>1. /\ pc = "discard" /\ pc' = "returned" /\ completionQueue' = <<>>
        /\ UNCHANGED <<gate, taskQueue, skipped, wpc, wtask, werr, ended,
                       accepted, finished, cancelled, current, executed>>
    BY <1>16 DEF FinalizeDiscard, Discarded, poolVars, drainVars, statVars
  <2>2. Completed' = {} /\ CompletedOnce' /\ ContextErrorCounted'
    BY <2>1 DEF Completed, CompletedOnce, ContextErrorCounted
  <2>3. ASSUME NEW t \in Tasks PROVE TaskInv(t)'
    BY <1>0, <1>a, <2>1, <2>2
  <2> QED
    BY <1>a, <2>1, <2>2, <2>3 DEF CountInv
<1> QED
  BY <1>2, <1>3, <1>4, <1>5, <1>6, <1>7, <1>8, <1>9, <1>10, <1>11, <1>12, <1>13, <1>14,
     <1>15, <1>16
  DEF Next, WorkerStep, TickStep, FinalizeStep

\* CountInv holds in every reachable state.
LEMMA CountInvariant == Spec => []CountInv
<1>1. Init => CountInv
  BY ItemAssumption DEF Init, CountInv, TaskInv, CountsOf, QueuedOf, SkippedOf, WorkedOf,
     CompletedOf, Unheld, Elems, Distinct, Completed, CompletedOnce, ContextErrorCounted
<1> QED
  BY <1>1, CountStep, TypeCorrect, LifeInvariant, QuietInvariant, PTL DEF Spec

\* What Stats reports of a task is consistent at every moment, for any number
\* of workers: TasksAccepted is counted before anything else of a task, a task
\* that a worker and finalizeLifecycle both may see cancelled is counted once,
\* and a completion that carries the context's error belongs to a task counted
\* cancelled.
THEOREM CountersAreExact == Spec => []CountersExact
<1>1. TypeOK /\ CountInv => CountersExact
  BY DEF TypeOK, StatTypeOK, CountInv, TaskInv, CountsOf, CountersExact, AcceptedFirst,
     CountedOnce
<1> QED
  BY <1>1, TypeCorrect, CountInvariant, PTL

=============================================================================
