---------------------------- MODULE TaskPipeline ----------------------------
(***************************************************************************)
(* The background-task and Post pipeline of golem.Server (golem/tasks.go)  *)
(* and the lifecycle of Server.Run (golem/loop.go): user goroutines that   *)
(* call Post and SubmitTask, the workers of the Pond pool, the tick        *)
(* goroutine that drains callbacks, and the goroutines that begin a        *)
(* shutdown.  A section the code runs under lifeMu is one step, except     *)
(* SubmitTask: a worker may start the wrapper before TasksAccepted is      *)
(* counted, so its two halves are two steps and "gate" holds the task      *)
(* whose submission owns lifeMu in between.                                *)
(*                                                                         *)
(* The statistics counters are kept per task and per post: the number the  *)
(* code reports is the sum.                                                *)
(***************************************************************************)
EXTENDS Integers, Sequences

CONSTANTS
    Tasks,                          \* submissions user code may make
    Posts,                          \* Post calls user code may make
    Workers,                        \* worker goroutines of the Pond pool
    NoItem,                         \* no task, no callback
    Outcomes,                       \* ways user work may end
    TaskQueueCapacity,
    PostQueueCapacity,
    TaskCompletionQueueCapacity,
    AsyncCallbacksPerTick

\* normalizeTaskConfig: a negative value panics, zero becomes the default.
ASSUME ConfigAssumption ==
    /\ TaskQueueCapacity \in Nat \ {0}
    /\ PostQueueCapacity \in Nat \ {0}
    /\ TaskCompletionQueueCapacity \in Nat \ {0}
    /\ AsyncCallbacksPerTick \in Nat \ {0}

ASSUME OutcomeAssumption == Outcomes \subseteq {"nil", "error", "panic"}

ASSUME ItemAssumption ==
    /\ NoItem \notin Tasks
    /\ NoItem \notin Posts
    /\ Tasks \cap Posts = {}

VARIABLES
    life,               \* Server.life
    runDone,            \* the independent run context has been cancelled
    callerDone,         \* the context given to Run has ended
    stopper,            \* the goroutines that stop accepting, then cancel
    gate,               \* task whose SubmitTask holds lifeMu, start gate closed
    taskQueue,          \* accepted tasks waiting in the pool
    skipped,            \* queued tasks Pond dropped after its context ended
    wpc, wtask, werr,   \* per worker: where it is, its task, its workErr
    ended,              \* tasks whose effective context has ended
    completionQueue,    \* [task, err] records
    postQueue,          \* posts
    asyncPreferCompletion,
    pc,                 \* where the Run goroutine is
    remainC, remainP, budget,   \* locals of drainAsyncCallbacks
    current,            \* task or post whose callback was taken, or NoItem
    eligible, passed,   \* history: what the last snapshot saw queued, and the
                        \* kind of callback the last take passed over
    accepted, finished, cancelled, executed, postAccepted, postExecuted

lifeVars  == <<life, runDone, callerDone, stopper>>
poolVars  == <<gate, taskQueue, skipped, wpc, wtask, werr, ended>>
queueVars == <<completionQueue, postQueue>>
drainVars == <<remainC, remainP, budget, current, eligible, passed>>
loopVars  == <<asyncPreferCompletion, pc, drainVars>>
statVars  == <<accepted, finished, cancelled, executed, postAccepted,
               postExecuted>>
vars == <<lifeVars, poolVars, queueVars, loopVars, statVars>>

LifeStates   == {"created", "running", "stopping", "stopped"}
WorkerStates == {"idle", "gated", "running", "counting", "delivering"}
LoopStates   == {"new", "select", "drain", "callback", "tick",
                 "mark", "cancel", "wait", "discard", "returned"}
Stoppers     == {"afterFunc", "listener"}
Errors       == {"nil", "error", "ctx", "panicked"}

Kinds        == {"none", "completion", "post"}

Init ==
    /\ life = "created" /\ runDone = FALSE /\ callerDone = FALSE
    /\ stopper = [s \in Stoppers |-> "off"]
    /\ gate = NoItem /\ taskQueue = <<>> /\ skipped = {}
    /\ wpc = [w \in Workers |-> "idle"]
    /\ wtask = [w \in Workers |-> NoItem]
    /\ werr = [w \in Workers |-> "nil"]
    /\ ended = {}
    /\ completionQueue = <<>> /\ postQueue = <<>>
    /\ asyncPreferCompletion = TRUE
    /\ pc = "new" /\ remainC = 0 /\ remainP = 0 /\ budget = 0
    /\ current = NoItem /\ eligible = {} /\ passed = "none"
    /\ accepted = [t \in Tasks |-> 0]
    /\ finished = [t \in Tasks |-> 0]
    /\ cancelled = [t \in Tasks |-> 0]
    /\ executed = [t \in Tasks |-> 0]
    /\ postAccepted = [p \in Posts |-> 0]
    /\ postExecuted = [p \in Posts |-> 0]

-----------------------------------------------------------------------------
(* lifeMu and the lifecycle *)

LifeMuFree == gate = NoItem

\* The value of life after markLifecycleStopping.
Marked(state) == IF state = "running" THEN "stopping" ELSE state

\* Run: the pool is built and, unless the caller's context is already done,
\* acceptance opens and the two stoppers are armed.
RunStart ==
    /\ pc = "new" /\ life = "created" /\ LifeMuFree
    /\ IF callerDone
         THEN /\ life' = "stopping"
              /\ pc' = "mark"
              /\ UNCHANGED stopper
         ELSE /\ life' = "running"
              /\ pc' = "select"
              /\ stopper' = [s \in Stoppers |-> "armed"]
    /\ UNCHANGED <<runDone, callerDone, poolVars, queueVars, statVars>>
    /\ UNCHANGED <<asyncPreferCompletion, drainVars>>

\* The context the user gave to Run ends.
CallerCancel ==
    /\ ~callerDone
    /\ callerDone' = TRUE
    /\ UNCHANGED <<life, runDone, stopper, poolVars, queueVars, loopVars,
                   statVars>>

\* First half of the AfterFunc callback and of the listener goroutine's error
\* path: stop accepting.
StopperMark(s) ==
    /\ stopper[s] = "armed" /\ LifeMuFree
    /\ s = "afterFunc" => callerDone
    /\ life' = Marked(life)
    /\ stopper' = [stopper EXCEPT ![s] = "marked"]
    /\ UNCHANGED <<runDone, callerDone, poolVars, queueVars, loopVars,
                   statVars>>

ReadyEarly(s) == stopper[s] = "armed"   \* mutation: cancel, never mark
ReadyToCancel(s) == stopper[s] = "marked"

\* Second half: cancel the run context.
StopperCancel(s) ==
    /\ ReadyToCancel(s)
    /\ runDone' = TRUE
    /\ stopper' = [stopper EXCEPT ![s] = "done"]
    /\ UNCHANGED <<life, callerDone, poolVars, queueVars, loopVars, statVars>>

-----------------------------------------------------------------------------
(* Post and SubmitTask, called from any goroutine *)

\* A rejected call (not running, queue full) changes nothing but a rejection
\* counter, so only accepted calls are steps.
Post(p) ==
    /\ LifeMuFree /\ life = "running"
    /\ postAccepted[p] = 0
    /\ Len(postQueue) < PostQueueCapacity
    /\ postQueue' = Append(postQueue, p)
    /\ postAccepted' = [postAccepted EXCEPT ![p] = @ + 1]
    /\ UNCHANGED <<lifeVars, poolVars, completionQueue, loopVars, accepted,
                   finished, cancelled, executed, postExecuted>>

\* TrySubmitErr succeeds; lifeMu stays held and the start gate closed.
SubmitBegin(t) ==
    /\ LifeMuFree /\ life = "running"
    /\ accepted[t] = 0
    /\ Len(taskQueue) < TaskQueueCapacity
    /\ taskQueue' = Append(taskQueue, t)
    /\ gate' = t
    /\ UNCHANGED <<lifeVars, skipped, wpc, wtask, werr, ended, queueVars,
                   loopVars, statVars>>

\* TasksAccepted is counted, the gate opens and lifeMu is released.
SubmitCommit ==
    /\ gate # NoItem
    /\ accepted' = [accepted EXCEPT ![gate] = @ + 1]
    /\ gate' = NoItem
    /\ UNCHANGED <<lifeVars, taskQueue, skipped, wpc, wtask, werr, ended,
                   queueVars, loopVars, finished, cancelled, executed,
                   postAccepted, postExecuted>>

\* The context a caller gave to SubmitTask ends.
TaskContextEnds(t) ==
    /\ accepted[t] = 1 /\ t \notin ended
    /\ ended' = ended \cup {t}
    /\ UNCHANGED <<lifeVars, gate, taskQueue, skipped, wpc, wtask, werr,
                   queueVars, loopVars, statVars>>

-----------------------------------------------------------------------------
(* The workers: Pond (external) and runSubmittedTask *)

\* An idle worker takes the oldest queued task.
PondStart(w) ==
    /\ wpc[w] = "idle" /\ taskQueue # <<>> /\ ~runDone
    /\ wpc' = [wpc EXCEPT ![w] = "gated"]
    /\ wtask' = [wtask EXCEPT ![w] = Head(taskQueue)]
    /\ taskQueue' = Tail(taskQueue)
    /\ UNCHANGED <<lifeVars, gate, skipped, werr, ended, queueVars, loopVars,
                   statVars>>

\* Once the pool's context has ended, queued tasks are not executed.
PondSkip ==
    /\ taskQueue # <<>> /\ runDone
    /\ skipped' = skipped \cup {Head(taskQueue)}
    /\ taskQueue' = Tail(taskQueue)
    /\ UNCHANGED <<lifeVars, gate, wpc, wtask, werr, ended, queueVars,
                   loopVars, statVars>>

StartGateOpen(w) == wtask[w] # gate

\* The wrapper waits for the start gate before it calls user work.
GateOpens(w) ==
    /\ wpc[w] = "gated" /\ StartGateOpen(w)
    /\ wpc' = [wpc EXCEPT ![w] = "running"]
    /\ UNCHANGED <<lifeVars, gate, taskQueue, skipped, wtask, werr, ended,
                   queueVars, loopVars, statVars>>

\* context.AfterFunc(runCtx, effCancel) runs in a goroutine of its own.
LinkRunCancel(w) ==
    /\ runDone /\ wpc[w] \in {"running", "counting"}
    /\ wtask[w] \notin ended
    /\ ended' = ended \cup {wtask[w]}
    /\ UNCHANGED <<lifeVars, gate, taskQueue, skipped, wpc, wtask, werr,
                   queueVars, loopVars, statVars>>

\* The error the completion will carry.
WorkErr(outcome, t) ==
    IF outcome = "panic" THEN "panicked"
    ELSE IF outcome = "nil" /\ t \in ended THEN "ctx" ELSE outcome

\* User work returns or panics; TasksFinished is counted.
WorkReturns(w, outcome) ==
    /\ wpc[w] = "running"
    /\ wpc' = [wpc EXCEPT ![w] = "counting"]
    /\ werr' = [werr EXCEPT ![w] = WorkErr(outcome, wtask[w])]
    /\ finished' = [finished EXCEPT ![wtask[w]] = @ + 1]
    /\ UNCHANGED <<lifeVars, gate, taskQueue, skipped, wtask, ended, queueVars,
                   loopVars, accepted, cancelled, executed, postAccepted,
                   postExecuted>>

EffectiveContextEnded(t) == t \in ended

\* The effective context is read again to count TasksCancelled.
CountCancelled(w) ==
    /\ wpc[w] = "counting"
    /\ wpc' = [wpc EXCEPT ![w] = "delivering"]
    /\ cancelled' = [cancelled EXCEPT ![wtask[w]] =
                        IF EffectiveContextEnded(wtask[w]) THEN @ + 1 ELSE @]
    /\ UNCHANGED <<lifeVars, gate, taskQueue, skipped, wtask, werr, ended,
                   queueVars, loopVars, accepted, finished, executed,
                   postAccepted, postExecuted>>

\* The worker is free again; its locals are gone.
Release(w) ==
    /\ wpc' = [wpc EXCEPT ![w] = "idle"]
    /\ wtask' = [wtask EXCEPT ![w] = NoItem]
    /\ werr' = [werr EXCEPT ![w] = "nil"]
    /\ UNCHANGED <<gate, taskQueue, skipped, ended>>

CompletionRoom == Len(completionQueue) < TaskCompletionQueueCapacity

WaitForRoom == runDone /\ CompletionRoom    \* mutation: no escape when full
MayAbandon == runDone

\* The select of runSubmittedTask: a full completion queue holds the worker.
Deliver(w) ==
    /\ wpc[w] = "delivering" /\ CompletionRoom
    /\ completionQueue' = Append(completionQueue,
            [task |-> wtask[w], err |-> werr[w]])
    /\ Release(w)
    /\ UNCHANGED <<lifeVars, postQueue, loopVars, statVars>>

\* ... and its other case: the run context ended.
Abandon(w) ==
    /\ wpc[w] = "delivering" /\ MayAbandon
    /\ Release(w)
    /\ UNCHANGED <<lifeVars, queueVars, loopVars, statVars>>

-----------------------------------------------------------------------------
(* The tick goroutine *)

Least(a, b) == IF a < b THEN a ELSE b

EligiblePosts == Len(postQueue)
EligibleCompletions == Len(completionQueue)

CompletionBudget == Least(EligibleCompletions, AsyncCallbacksPerTick) \* mutation
DrainBudget == Least(EligibleCompletions + EligiblePosts, AsyncCallbacksPerTick)

\* A tick begins: drainAsyncCallbacks snapshots what is eligible.
TickBegin ==
    /\ pc = "select" /\ LifeMuFree
    /\ IF life = "running"
         THEN /\ pc' = "drain"
              /\ remainC' = EligibleCompletions
              /\ remainP' = EligiblePosts
              /\ budget' = DrainBudget
              /\ eligible' = {completionQueue[i].task :
                                i \in 1 .. Len(completionQueue)}
                             \cup {postQueue[i] : i \in 1 .. Len(postQueue)}
         ELSE /\ pc' = "tick"
              /\ UNCHANGED <<remainC, remainP, budget, eligible>>
    /\ UNCHANGED <<lifeVars, poolVars, queueVars, statVars,
                   asyncPreferCompletion, current, passed>>

\* The queue the round-robin takes from next, given what the snapshot left.
TakesCompletion(prefer) == IF prefer THEN remainC > 0 ELSE remainP = 0

KeepPreference == TRUE                  \* mutation: completions always first
NextPreference == ~asyncPreferCompletion

Spent(n) == n - 1

\* One iteration up to the unlock: a callback is taken off its queue.
DrainTakeCompletion ==
    /\ pc = "drain" /\ LifeMuFree /\ life = "running" /\ budget > 0
    /\ TakesCompletion(asyncPreferCompletion)
    /\ remainC > 0 /\ completionQueue # <<>>
    /\ current' = Head(completionQueue).task
    /\ passed' = IF remainP > 0 THEN "post" ELSE "none"
    /\ completionQueue' = Tail(completionQueue)
    /\ remainC' = Spent(remainC)
    /\ budget' = budget - 1
    /\ asyncPreferCompletion' = NextPreference
    /\ pc' = "callback"
    /\ UNCHANGED <<lifeVars, poolVars, postQueue, remainP, eligible, statVars>>

DrainTakePost ==
    /\ pc = "drain" /\ LifeMuFree /\ life = "running" /\ budget > 0
    /\ ~TakesCompletion(asyncPreferCompletion)
    /\ remainP > 0 /\ postQueue # <<>>
    /\ current' = Head(postQueue)
    /\ passed' = IF remainC > 0 THEN "completion" ELSE "none"
    /\ postQueue' = Tail(postQueue)
    /\ remainP' = Spent(remainP)
    /\ budget' = budget - 1
    /\ asyncPreferCompletion' = NextPreference
    /\ pc' = "callback"
    /\ UNCHANGED <<lifeVars, poolVars, completionQueue, remainC, eligible,
                   statVars>>

\* The drain ends: its count is used up or the server stopped accepting.
DrainEnd ==
    /\ pc = "drain" /\ LifeMuFree
    /\ budget = 0 \/ life # "running"
    /\ pc' = "tick"
    /\ UNCHANGED <<lifeVars, poolVars, queueVars, statVars,
                   asyncPreferCompletion, drainVars>>

\* The callback is counted and called, without lifeMu.  A panic in it is not
\* recovered: it unwinds Run through finalizeLifecycle.
RunCallback(panics) ==
    /\ pc = "callback"
    /\ executed' = IF current \in Tasks
                     THEN [executed EXCEPT ![current] = @ + 1]
                     ELSE executed
    /\ postExecuted' = IF current \in Posts
                         THEN [postExecuted EXCEPT ![current] = @ + 1]
                         ELSE postExecuted
    /\ current' = NoItem
    /\ pc' = IF panics THEN "mark" ELSE "drain"
    /\ UNCHANGED <<lifeVars, poolVars, queueVars, asyncPreferCompletion,
                   remainC, remainP, budget, eligible, passed, accepted,
                   finished, cancelled, postAccepted>>

\* The rest of the tick; a failed replication pass ends the loop.
TickEnd(fails) ==
    /\ pc = "tick"
    /\ pc' = IF fails THEN "mark" ELSE "select"
    /\ UNCHANGED <<lifeVars, poolVars, queueVars, statVars,
                   asyncPreferCompletion, drainVars>>

\* The loop sees the run context done.
LoopExit ==
    /\ pc = "select" /\ runDone
    /\ pc' = "mark"
    /\ UNCHANGED <<lifeVars, poolVars, queueVars, statVars,
                   asyncPreferCompletion, drainVars>>

\* finalizeLifecycle, in its four steps.
FinalizeMark ==
    /\ pc = "mark" /\ LifeMuFree
    /\ life' = Marked(life)
    /\ pc' = "cancel"
    /\ UNCHANGED <<runDone, callerDone, stopper, poolVars, queueVars, statVars,
                   asyncPreferCompletion, drainVars>>

FinalizeCancel ==
    /\ pc = "cancel"
    /\ runDone' = TRUE
    /\ pc' = "wait"
    /\ UNCHANGED <<life, callerDone, stopper, poolVars, queueVars, statVars,
                   asyncPreferCompletion, drainVars>>

SkippedOrEnded == skipped \cup ended    \* mutation: counts tasks that ran
CanceledTasks == skipped

\* StopAndWait returns; the tasks Pond cancelled are added to TasksCancelled.
PoolStopped ==
    /\ pc = "wait"
    /\ taskQueue = <<>> /\ \A w \in Workers : wpc[w] = "idle"
    /\ cancelled' = [t \in Tasks |-> IF t \in CanceledTasks THEN cancelled[t] + 1
                                       ELSE cancelled[t]]
    /\ pc' = "discard"
    /\ UNCHANGED <<lifeVars, poolVars, queueVars, asyncPreferCompletion,
                   drainVars, accepted, finished, executed, postAccepted,
                   postExecuted>>

DiscardOne(queue) == IF queue = <<>> THEN queue ELSE Tail(queue)  \* mutation
Discarded(queue) == <<>>

FinalizeDiscard ==
    /\ pc = "discard" /\ LifeMuFree
    /\ life' = "stopped"
    /\ postQueue' = Discarded(postQueue)
    /\ completionQueue' = Discarded(completionQueue)
    /\ pc' = "returned"
    /\ UNCHANGED <<runDone, callerDone, stopper, poolVars, statVars,
                   asyncPreferCompletion, drainVars>>

\* Run has returned and every other goroutine may rest.
Returned == pc = "returned" /\ UNCHANGED vars

-----------------------------------------------------------------------------
WorkerStep(w) ==
    \/ PondStart(w) \/ GateOpens(w) \/ LinkRunCancel(w)
    \/ \E o \in Outcomes : WorkReturns(w, o)
    \/ CountCancelled(w) \/ Deliver(w) \/ Abandon(w)

TickStep ==
    \/ TickBegin \/ DrainTakeCompletion \/ DrainTakePost \/ DrainEnd
    \/ RunCallback(FALSE) \/ TickEnd(FALSE) \/ LoopExit

FinalizeStep == FinalizeMark \/ FinalizeCancel \/ PoolStopped \/ FinalizeDiscard

Next ==
    \/ RunStart \/ CallerCancel
    \/ \E s \in Stoppers : StopperMark(s) \/ StopperCancel(s)
    \/ \E p \in Posts : Post(p)
    \/ \E t \in Tasks : SubmitBegin(t) \/ TaskContextEnds(t)
    \/ SubmitCommit \/ PondSkip
    \/ \E w \in Workers : WorkerStep(w)
    \/ TickStep \/ RunCallback(TRUE) \/ TickEnd(TRUE) \/ FinalizeStep
    \/ Returned

Spec == Init /\ [][Next]_vars

(***************************************************************************)
(* Fairness.  The goroutines of a live process run; user work is assumed   *)
(* to return (SubmitTask: "Work that ignores context cancellation can      *)
(* delay Run's return indefinitely"); Go's select picks among the ready    *)
(* cases at random, so a loop that finds the run context done again and    *)
(* again takes that case.  Nothing makes the listener fail.                *)
(***************************************************************************)
Fairness ==
    /\ WF_vars(TickStep) /\ SF_vars(LoopExit) /\ WF_vars(FinalizeStep)
    /\ WF_vars(SubmitCommit) /\ WF_vars(PondSkip)
    /\ WF_vars(StopperMark("afterFunc"))
    /\ \A s \in Stoppers : WF_vars(StopperCancel(s))
    /\ \A w \in Workers : WF_vars(WorkerStep(w))

FairSpec == Spec /\ Fairness

-----------------------------------------------------------------------------
(* Properties *)

LifeTypeOK ==
    /\ life \in LifeStates /\ runDone \in BOOLEAN /\ callerDone \in BOOLEAN
    /\ stopper \in [Stoppers -> {"off", "armed", "marked", "done"}]

PoolTypeOK ==
    /\ gate \in Tasks \cup {NoItem} /\ taskQueue \in Seq(Tasks)
    /\ skipped \in SUBSET Tasks /\ ended \in SUBSET Tasks
    /\ wpc \in [Workers -> WorkerStates]
    /\ wtask \in [Workers -> Tasks \cup {NoItem}]
    /\ werr \in [Workers -> Errors]
    /\ \A w \in Workers : wtask[w] = NoItem <=> wpc[w] = "idle"

QueueTypeOK ==
    /\ completionQueue \in Seq([task : Tasks, err : Errors])
    /\ postQueue \in Seq(Posts)

LoopTypeOK ==
    /\ asyncPreferCompletion \in BOOLEAN /\ pc \in LoopStates
    /\ remainC \in Nat /\ remainP \in Nat /\ budget \in Nat
    /\ current \in Tasks \cup Posts \cup {NoItem}
    /\ eligible \in SUBSET (Tasks \cup Posts) /\ passed \in Kinds

StatTypeOK ==
    /\ accepted \in [Tasks -> Nat] /\ finished \in [Tasks -> Nat]
    /\ cancelled \in [Tasks -> Nat] /\ executed \in [Tasks -> Nat]
    /\ postAccepted \in [Posts -> Nat] /\ postExecuted \in [Posts -> Nat]

\* Every variable stays in its type.
TypeOK == LifeTypeOK /\ PoolTypeOK /\ QueueTypeOK /\ LoopTypeOK /\ StatTypeOK

\* The shutdown order Run documents: the worker context is never cancelled
\* while Post and SubmitTask still accept.
CancelAfterMark == runDone => life \in {"stopping", "stopped"}

\* No task is counted finished, cancelled or executed before TasksAccepted
\* counts it, and its completion runs only once the work has finished.
AcceptedFirst ==
    \A t \in Tasks : /\ executed[t] <= finished[t]
                     /\ finished[t] <= accepted[t]
                     /\ cancelled[t] <= accepted[t]

\* TasksCancelled counts an accepted task at most once, although a worker and
\* finalizeLifecycle both add to it; TasksFinished and
\* TaskCompletionsExecuted too.
CountedOnce ==
    \A t \in Tasks : cancelled[t] <= 1 /\ finished[t] <= 1 /\ executed[t] <= 1

\* A completion that carries the context's error has been counted cancelled.
ContextErrorCounted ==
    \A i \in 1 .. Len(completionQueue) :
        completionQueue[i].err = "ctx" => cancelled[completionQueue[i].task] = 1

\* What Stats reports of a task is consistent at every moment: the start gate
\* of SubmitTask keeps workers from overtaking TasksAccepted, a task that both
\* a worker and finalizeLifecycle see cancelled is counted once, and the two
\* readings of the effective context agree with the error that is delivered.
CountersExact == AcceptedFirst /\ CountedOnce /\ ContextErrorCounted

\* When the server is stopped nothing of the pipeline is left: no worker runs,
\* no task, completion or post is queued, no callback is taken.
StoppedQuiescent ==
    life = "stopped" =>
        /\ \A w \in Workers : wpc[w] = "idle"
        /\ taskQueue = <<>> /\ completionQueue = <<>> /\ postQueue = <<>>
        /\ current = NoItem /\ gate = NoItem

\* No state is left for an earlier one, whatever order the caller's context,
\* the listener and the tick loop reach markLifecycleStopping in.
LifeEdges == {<<"created", "running">>, <<"created", "stopping">>,
              <<"running", "stopping">>, <<"stopping", "stopped">>}
LifeOnlyAdvances == [][life' # life => <<life, life'>> \in LifeEdges]_vars

\* A drain takes only what was queued when it began, so a callback that posts
\* cannot extend its own drain; and a kind of callback that is waiting is
\* passed over at most once in a row, also when the budget ends the drain in
\* between: sustained completions cannot starve Post, nor posts completions.
RoundRobin ==
    [][current' # current =>
         /\ current' # NoItem => current' \in eligible
         /\ passed = "post" /\ remainP > 0 => current' \notin Tasks
         /\ passed = "completion" /\ remainC > 0 => current' \notin Posts]_vars

\* While the server runs, every accepted task gets its completion callback and
\* every accepted post runs: a full completion queue never wedges the workers
\* and the loop against each other.
WorkCompletes ==
    /\ \A t \in Tasks : accepted[t] = 1 ~> executed[t] = 1 \/ life # "running"
    /\ \A p \in Posts : postAccepted[p] = 1 ~> postExecuted[p] = 1 \/ life # "running"

\* Once a shutdown has begun Run returns.
RunReturns == life = "stopping" ~> life = "stopped"

=============================================================================
