------------------------------ MODULE WorkerPool ------------------------------
(***************************************************************************)
(* The bounded worker pool of runtime/worker_pool.cpp: a mutex protected   *)
(* queue, the worker loop, submit, cancel_pending, shutdown(drain), the    *)
(* release of the owning handle and the destructor of the shared state.    *)
(*                                                                         *)
(* A critical section of the code is one action.  Everything the code does *)
(* outside the mutex (running a task, notifying after unlock, settling the *)
(* abandoned tasks, joining) is an action of its own, so that the other    *)
(* threads interleave with it.  Condition variables are program counters:  *)
(* a thread at "wait" is blocked until a notify moves it, a notify_one     *)
(* moves one waiter of the scheduler's choice, and a wakeup may be         *)
(* spurious.  not_full has no waiter and `draining` no reader; both are    *)
(* left out.                                                               *)
(***************************************************************************)
EXTENDS Integers, Sequences, FiniteSets

CONSTANTS
  Workers,         \* the threads WorkerPool::create starts
  Clients,         \* threads outside the pool that call its operations
  MaxTasks,        \* bound on the tasks the pool accepts
  QueueDepth,      \* Config::queue_depth
  MaxRefusals      \* bound on the refused submissions

\* WorkerPool::create refuses zero workers and a zero queue depth.
ASSUME PoolAssumption ==
  /\ IsFiniteSet(Workers) /\ Workers # {}
  /\ MaxTasks \in Nat
  /\ QueueDepth \in Nat \ {0}
  /\ MaxRefusals \in Nat

\* A task is named by its place in the order of acceptance; 0 is the empty
\* QueuedTask a worker holds between two tasks.
Tasks == 1..MaxTasks
NoTask == 0

VARIABLES
  queue,       \* State::queue
  stopping,    \* State::stopping
  active,      \* State::active
  threads,     \* State::threads, as the set of workers the vector holds
  stats,       \* State::stats
  promise,     \* what the future of each task shows
  tokens,      \* the tasks whose CancellationToken is cancelled
  wpc,         \* where each worker is in its loop
  wtask,       \* the worker's local `task`
  outcome,     \* the worker's local `outcome`
  cpc,         \* where each client is in shutdown, or "idle"
  abandoned,   \* shutdown's local `abandoned`
  owner        \* "held", "released" (handle destroyed) or "destroyed" (~State ran)

vars == <<queue, stopping, active, threads, stats, promise, tokens,
          wpc, wtask, outcome, cpc, abandoned, owner>>

workerVars == <<wpc, wtask, outcome>>
clientVars == <<cpc, abandoned>>

Outcomes == {"value", "failed", "cancelled"}
WorkerPC == {"loop", "wait", "picked", "settle", "exit"}
ClientPC == {"idle", "drain", "recheck", "notify", "abandon", "count", "clear"}

Stats == [submitted : Nat, completed : Nat, failed : Nat, cancelled : Nat,
          refused : Nat, reentrant_refusals : Nat, peak_pending : Nat]

-----------------------------------------------------------------------------
Init ==
  /\ queue = <<>>
  /\ stopping = FALSE
  /\ active = 0
  /\ threads = Workers
  /\ stats = [submitted |-> 0, completed |-> 0, failed |-> 0, cancelled |-> 0,
              refused |-> 0, reentrant_refusals |-> 0, peak_pending |-> 0]
  /\ promise = [t \in Tasks |-> "unsubmitted"]
  /\ tokens = {}
  /\ wpc = [w \in Workers |-> "loop"]
  /\ wtask = [w \in Workers |-> NoTask]
  /\ outcome = [w \in Workers |-> "failed"]
  /\ cpc = [c \in Clients |-> "idle"]
  /\ abandoned = [c \in Clients |-> <<>>]
  /\ owner = "held"

Refusals == stats.refused + stats.reentrant_refusals

Waiting == {w \in Workers : wpc[w] = "wait"}

NotifyOneNotEmptyForgotten == wpc' = wpc

\* not_empty.notify_one(): one waiter, if there is one, re-evaluates its predicate.
NotifyOneNotEmpty ==
  IF Waiting = {} THEN wpc' = wpc
  ELSE \E w \in Waiting : wpc' = [wpc EXCEPT ![w] = "loop"]

\* not_empty.notify_all()
NotifyAllNotEmpty == wpc' = [w \in Workers |-> IF wpc[w] = "wait" THEN "loop" ELSE wpc[w]]

NotifyIdleForgotten == cpc' = cpc

\* idle.notify_all()
NotifyIdle == cpc' = [c \in Clients |-> IF cpc[c] = "drain" THEN "recheck" ELSE cpc[c]]

-----------------------------------------------------------------------------
(* Operations of the clients.                                               *)

Calls(c) == owner = "held" /\ cpc[c] = "idle"

\* submit() from a thread that is not a worker of this pool, with room left.
SubmitAccepted(c) ==
  /\ Calls(c)
  /\ stats.submitted < MaxTasks
  /\ ~stopping
  /\ Len(queue) < QueueDepth
  /\ queue' = Append(queue, stats.submitted + 1)
  /\ promise' = [promise EXCEPT ![stats.submitted + 1] = "pending"]
  /\ stats' = [stats EXCEPT !.submitted = @ + 1,
                            !.peak_pending = IF Len(queue) + 1 > @ THEN Len(queue) + 1 ELSE @]
  /\ NotifyOneNotEmpty
  /\ UNCHANGED <<stopping, active, threads, tokens, wtask, outcome, clientVars, owner>>

\* submit() with a full queue: CapacityExceeded.
SubmitRefused(c) ==
  /\ Calls(c)
  /\ ~stopping
  /\ Len(queue) >= QueueDepth
  /\ Refusals < MaxRefusals
  /\ stats' = [stats EXCEPT !.refused = @ + 1]
  /\ UNCHANGED <<queue, stopping, active, threads, promise, tokens, workerVars, clientVars, owner>>

\* cancel_pending(): cancels the token of every task that is still queued.
CancelPending(c) ==
  /\ Calls(c)
  /\ tokens' = tokens \cup {queue[i] : i \in 1..Len(queue)}
  /\ UNCHANGED <<queue, stopping, active, threads, stats, promise, workerVars, clientVars, owner>>

Idle == queue = <<>> /\ active = 0

AbandonQueueByCopy(c) ==
  /\ abandoned' = [abandoned EXCEPT ![c] = queue]
  /\ queue' = queue

\* shutdown(false) moves every queued task into its local `abandoned`.
AbandonQueue(c) ==
  /\ abandoned' = [abandoned EXCEPT ![c] = queue]
  /\ queue' = <<>>

\* The first critical section of shutdown(drain).  A pool that is already down
\* returns at once (no step).  A drain passes when the pool is idle and waits on
\* `idle` otherwise; an abort takes the queue into `abandoned`.  Calls do not
\* overlap: the only caller, Engine::shutdown, lets one thread through.
ShutdownBegin(c, drain) ==
  /\ Calls(c)
  /\ ~(stopping /\ threads = {})
  /\ \A d \in Clients : cpc[d] = "idle"
  /\ stopping' = TRUE
  /\ IF drain
       THEN /\ cpc' = [cpc EXCEPT ![c] = IF Idle THEN "notify" ELSE "drain"]
            /\ UNCHANGED <<queue, abandoned>>
       ELSE /\ cpc' = [cpc EXCEPT ![c] = "notify"]
            /\ AbandonQueue(c)
  /\ UNCHANGED <<active, threads, stats, promise, tokens, workerVars, owner>>

\* The draining thread was notified (or woke spuriously): it evaluates its
\* predicate again under the mutex.
DrainRecheck(c) ==
  /\ cpc[c] = "recheck"
  /\ cpc' = [cpc EXCEPT ![c] = IF Idle THEN "notify" ELSE "drain"]
  /\ UNCHANGED <<queue, stopping, active, threads, stats, promise, tokens, workerVars, abandoned, owner>>

\* not_empty.notify_all() after the mutex is released.
ShutdownNotify(c) ==
  /\ cpc[c] = "notify"
  /\ NotifyAllNotEmpty
  /\ cpc' = [cpc EXCEPT ![c] = "abandon"]
  /\ UNCHANGED <<queue, stopping, active, threads, stats, promise, tokens, wtask, outcome, abandoned, owner>>

\* One abandoned task: cancel its token and settle its promise, outside the mutex.
\* A promise that is already settled throws future_error, which is swallowed and
\* leaves the counter alone.
ShutdownSettle(c) ==
  /\ cpc[c] = "abandon"
  /\ abandoned[c] # <<>>
  /\ LET t == Head(abandoned[c]) IN
       /\ tokens' = tokens \cup {t}
       /\ IF promise[t] = "pending"
            THEN /\ promise' = [promise EXCEPT ![t] = "cancelled"]
                 /\ cpc' = [cpc EXCEPT ![c] = "count"]
            ELSE UNCHANGED <<promise, cpc>>
  /\ abandoned' = [abandoned EXCEPT ![c] = Tail(@)]
  /\ UNCHANGED <<queue, stopping, active, threads, stats, workerVars, owner>>

\* ++stats.cancelled, under the mutex again.
ShutdownCount(c) ==
  /\ cpc[c] = "count"
  /\ stats' = [stats EXCEPT !.cancelled = @ + 1]
  /\ cpc' = [cpc EXCEPT ![c] = "abandon"]
  /\ UNCHANGED <<queue, stopping, active, threads, promise, tokens, workerVars, abandoned, owner>>

ShutdownDetach(c) ==
  /\ cpc[c] = "abandon"
  /\ abandoned[c] = <<>>
  /\ cpc' = [cpc EXCEPT ![c] = "clear"]
  /\ UNCHANGED <<queue, stopping, active, threads, stats, promise, tokens, workerVars, abandoned, owner>>

\* Every abandoned task is settled, and the join loop returns when every thread of
\* the vector has finished.
ShutdownJoin(c) ==
  /\ cpc[c] = "abandon"
  /\ abandoned[c] = <<>>
  /\ \A w \in threads : wpc[w] = "exit"
  /\ cpc' = [cpc EXCEPT ![c] = "clear"]
  /\ UNCHANGED <<queue, stopping, active, threads, stats, promise, tokens, workerVars, abandoned, owner>>

\* threads.clear(), under the mutex; shutdown returns.
ShutdownClear(c) ==
  /\ cpc[c] = "clear"
  /\ threads' = {}
  /\ cpc' = [cpc EXCEPT ![c] = "idle"]
  /\ UNCHANGED <<queue, stopping, active, stats, promise, tokens, workerVars, abandoned, owner>>

-----------------------------------------------------------------------------
(* The worker loop.                                                         *)

\* The critical section at the top of the loop: block, leave, or take a task.
WorkerBlock(w) ==
  /\ wpc[w] = "loop"
  /\ queue = <<>> /\ ~stopping
  /\ wpc' = [wpc EXCEPT ![w] = "wait"]
  /\ UNCHANGED <<queue, stopping, active, threads, stats, promise, tokens, wtask, outcome, clientVars, owner>>

WorkerExit(w) ==
  /\ wpc[w] = "loop"
  /\ queue = <<>> /\ stopping
  /\ wpc' = [wpc EXCEPT ![w] = "exit"]
  /\ UNCHANGED <<queue, stopping, active, threads, stats, promise, tokens, wtask, outcome, clientVars, owner>>

WorkerTakeUncounted(w) ==
  /\ wpc[w] = "loop"
  /\ queue # <<>>
  /\ wtask' = [wtask EXCEPT ![w] = Head(queue)]
  /\ queue' = Tail(queue)
  /\ wpc' = [wpc EXCEPT ![w] = "picked"]
  /\ UNCHANGED <<active, stopping, threads, stats, promise, tokens, outcome, clientVars, owner>>

WorkerTake(w) ==
  /\ wpc[w] = "loop"
  /\ queue # <<>>
  /\ wtask' = [wtask EXCEPT ![w] = Head(queue)]
  /\ queue' = Tail(queue)
  /\ active' = active + 1
  /\ wpc' = [wpc EXCEPT ![w] = "picked"]
  /\ UNCHANGED <<stopping, threads, stats, promise, tokens, outcome, clientVars, owner>>

\* A spurious wakeup from not_empty.wait, or from idle.wait.
SpuriousWakeup ==
  \/ /\ \E w \in Waiting : wpc' = [wpc EXCEPT ![w] = "loop"]
     /\ UNCHANGED <<queue, stopping, active, threads, stats, promise, tokens, wtask, outcome, clientVars, owner>>
  \/ /\ \E c \in Clients : cpc[c] = "drain" /\ cpc' = [cpc EXCEPT ![c] = "recheck"]
     /\ UNCHANGED <<queue, stopping, active, threads, stats, promise, tokens, workerVars, abandoned, owner>>

AnswersIgnoringToken(t) == Outcomes

\* What a task can answer: a cancelled token answers for it; otherwise the function
\* returns a value, an error (or throws), or a cancellation of its own.
Answers(t) == IF t \in tokens THEN {"cancelled"} ELSE Outcomes

\* The task runs without the mutex.
WorkerRun(w) ==
  /\ wpc[w] = "picked"
  /\ \E o \in Answers(wtask[w]) : outcome' = [outcome EXCEPT ![w] = o]
  /\ wpc' = [wpc EXCEPT ![w] = "settle"]
  /\ UNCHANGED <<queue, stopping, active, threads, stats, promise, tokens, wtask, clientVars, owner>>

\* submit() called by the function a worker of this pool is running: refused.
ReentrantSubmit(w) ==
  /\ wpc[w] = "picked"
  /\ wtask[w] \notin tokens
  /\ Refusals < MaxRefusals
  /\ stats' = [stats EXCEPT !.reentrant_refusals = @ + 1]
  /\ UNCHANGED <<queue, stopping, active, threads, promise, tokens, workerVars, clientVars, owner>>

CountOutcomeTwoWay(o) ==
  IF o = "value" THEN [stats EXCEPT !.completed = @ + 1] ELSE [stats EXCEPT !.failed = @ + 1]

CountOutcome(o) ==
  CASE o = "value"     -> [stats EXCEPT !.completed = @ + 1]
    [] o = "cancelled" -> [stats EXCEPT !.cancelled = @ + 1]
    [] o = "failed"    -> [stats EXCEPT !.failed = @ + 1]

\* The critical section after the task: count it, settle its promise (unless it is
\* already settled: future_error is swallowed), and report an idle pool.
WorkerSettle(w) ==
  /\ wpc[w] = "settle"
  /\ active' = active - 1
  /\ stats' = CountOutcome(outcome[w])
  /\ promise' = [promise EXCEPT ![wtask[w]] = IF @ = "pending" THEN outcome[w] ELSE @]
  /\ IF queue = <<>> /\ active = 1 THEN NotifyIdle ELSE cpc' = cpc
  /\ wtask' = [wtask EXCEPT ![w] = NoTask]
  /\ outcome' = [outcome EXCEPT ![w] = "failed"]
  /\ wpc' = [wpc EXCEPT ![w] = "loop"]
  /\ UNCHANGED <<queue, stopping, threads, tokens, abandoned, owner>>

-----------------------------------------------------------------------------
(* The owning handle.                                                       *)

\* ~WorkerPool drops its reference to the shared state; nobody is inside a call.
Release ==
  /\ owner = "held"
  /\ \A c \in Clients : cpc[c] = "idle"
  /\ owner' = "released"
  /\ UNCHANGED <<queue, stopping, active, threads, stats, promise, tokens, workerVars, clientVars>>

\* Every worker's lambda holds a reference as well, so ~State runs only when the
\* handle is gone and every worker has left its loop.
DestroyState ==
  /\ owner = "released"
  /\ \A w \in Workers : wpc[w] = "exit"
  /\ owner' = "destroyed"
  /\ stopping' = TRUE
  /\ promise' = [t \in Tasks |->
                   IF t \in {queue[i] : i \in 1..Len(queue)} /\ promise[t] = "pending"
                     THEN "failed" ELSE promise[t]]
  /\ queue' = <<>>
  /\ threads' = {}
  /\ UNCHANGED <<active, stats, tokens, workerVars, clientVars>>

WorkerStep(w) ==
  \/ WorkerBlock(w) \/ WorkerExit(w) \/ WorkerTake(w) \/ WorkerRun(w) \/ WorkerSettle(w)

ShutdownStep(c) ==
  \/ DrainRecheck(c) \/ ShutdownNotify(c) \/ ShutdownSettle(c) \/ ShutdownCount(c)
  \/ ShutdownJoin(c) \/ ShutdownClear(c)

Next ==
  \/ \E c \in Clients : \/ SubmitAccepted(c)
                         \/ SubmitRefused(c)
                         \/ CancelPending(c)
                         \/ \E drain \in BOOLEAN : ShutdownBegin(c, drain)
                         \/ ShutdownStep(c)
  \/ \E w \in Workers : WorkerStep(w) \/ ReentrantSubmit(w)
  \/ SpuriousWakeup
  \/ Release
  \/ DestroyState

Spec == Init /\ [][Next]_vars

\* A runnable thread is eventually scheduled and a task function returns.  Nobody
\* owes the pool a submission, a shutdown, a release or a spurious wakeup.
Fairness ==
  /\ \A w \in Workers : WF_vars(WorkerStep(w))
  /\ \A c \in Clients : WF_vars(ShutdownStep(c))
  /\ WF_vars(DestroyState)

FairSpec == Spec /\ Fairness

-----------------------------------------------------------------------------
(* Properties.                                                              *)

Settled(t) == promise[t] \in Outcomes
In(s, t) == \E i \in 1..Len(s) : s[i] = t
InQueue(t) == In(queue, t)
Holds(w, t) == wpc[w] \in {"picked", "settle"} /\ wtask[w] = t
Held(t) == \E w \in Workers : Holds(w, t)
InAbandoned(c, t) == In(abandoned[c], t)
IsAbandoned(t) == \E c \in Clients : InAbandoned(c, t)
Injective(s) == \A i, j \in 1..Len(s) : s[i] = s[j] => i = j

\* The variables of the pool stay within the types of worker_pool.cpp.
TypeOK ==
  /\ queue \in Seq(Tasks)
  /\ stopping \in BOOLEAN
  /\ active \in Nat
  /\ threads \subseteq Workers
  /\ stats \in Stats
  /\ promise \in [Tasks -> {"unsubmitted", "pending"} \cup Outcomes]
  /\ tokens \subseteq Tasks
  /\ wpc \in [Workers -> WorkerPC]
  /\ wtask \in [Workers -> Tasks \cup {NoTask}]
  /\ outcome \in [Workers -> Outcomes]
  /\ cpc \in [Clients -> ClientPC]
  /\ abandoned \in [Clients -> Seq(Tasks)]
  /\ owner \in {"held", "released", "destroyed"}

\* "A task's promise is set exactly once": a promise is pending exactly while its task
\* is in one place (the queue, one worker's hands, or one shutdown call's abandoned
\* list).  So no set_value of the worker or of shutdown ever meets a settled promise,
\* and no accepted task is dropped by the hand-over between the three.
SettledOnce ==
  /\ Injective(queue)
  /\ \A w, v \in Workers, t \in Tasks : Holds(w, t) /\ Holds(v, t) => w = v
  /\ \A c \in Clients : Injective(abandoned[c])
  /\ \A c, d \in Clients, t \in Tasks : InAbandoned(c, t) /\ InAbandoned(d, t) => c = d
  /\ \A t \in Tasks :
       /\ promise[t] = "pending" <=> InQueue(t) \/ Held(t) \/ IsAbandoned(t)
       /\ ~(InQueue(t) /\ Held(t))
       /\ ~(InQueue(t) /\ IsAbandoned(t))
       /\ ~(Held(t) /\ IsAbandoned(t))

\* Pool::Stats never disagrees with what the futures show, except that the shutdown
\* path settles a promise just before it counts it; `active` is the number of workers
\* between taking and settling a task; and the queue never outgrows queue_depth.
CountersMatchFutures ==
  LET With(o) == Cardinality({t \in Tasks : promise[t] = o}) IN
  /\ stats.submitted = Cardinality({t \in Tasks : promise[t] # "unsubmitted"})
  /\ stats.completed = With("value")
  /\ stats.failed = With("failed")
  /\ stats.cancelled + Cardinality({c \in Clients : cpc[c] = "count"}) = With("cancelled")
  /\ active = Cardinality({w \in Workers : wpc[w] \in {"picked", "settle"}})
  /\ Len(queue) <= stats.peak_pending /\ stats.peak_pending <= QueueDepth

\* When shutdown has returned (stopping, and the thread vector is cleared) every worker
\* has left its loop and every task that was ever accepted is settled.
QuietAfterShutdown ==
  stopping /\ threads = {} =>
    /\ \A w \in Workers : wpc[w] = "exit"
    /\ queue = <<>> /\ active = 0
    /\ \A t \in Tasks : promise[t] # "pending"

\* A task whose token was cancelled while it was queued (cancel_pending) or abandoned
\* (shutdown(false)) never reports a value or an error of its own: it reports
\* `cancelled`, whatever thread gets to it and whenever.
CancelledReportsCancelled ==
  \A t \in tokens : promise[t] \in {"pending", "cancelled"}

\* A worker that sleeps on not_empty while work is queued has been overtaken, never
\* forgotten: at least as many workers are on their way to the queue as it holds tasks,
\* or nobody is asleep.
NoLostWakeup ==
  Waiting = {} \/ Len(queue) <= Cardinality({w \in Workers : wpc[w] = "loop"})

\* Handle::get never blocks forever: every accepted task settles, whether or not the
\* pool is shut down, drained, aborted or released in the meantime.
EveryTaskSettles == \A t \in Tasks : promise[t] = "pending" ~> Settled(t)

\* A call of shutdown, draining or not, returns.
ShutdownReturns == \A c \in Clients : cpc[c] # "idle" ~> cpc[c] = "idle"

\* docs/concurrency.md, rule 5: destroying the pool stops the workers and joins every
\* thread.  The handle is released; the state destructor should follow.
DestructionStopsWorkers == owner = "released" ~> owner = "destroyed"
=============================================================================
