----------------------------- MODULE ThreadPool -----------------------------
(***************************************************************************)
(* The shared request pool of src/src/network/thread_pool.h: a bounded     *)
(* FIFO of tasks, a mutex, one condition variable, and worker threads.     *)
(*                                                                         *)
(* A critical section is one step.  What the code does after it releases   *)
(* the mutex is another step: notify_one and notify_all, running the task, *)
(* and the decrement of busy_threads.  A condition variable may also wake  *)
(* a thread on its own.                                                    *)
(*                                                                         *)
(* Definitions named Bug... are plausible mistakes in the definition that  *)
(* follows them.  Nothing refers to them; put in its place, each breaks a  *)
(* property below.                                                         *)
(***************************************************************************)
EXTENDS Naturals, Sequences, FiniteSets, Functions

CONSTANTS
  Workers,        \* the threads the constructor creates
  Submitters,     \* the threads that call submit() and begin_shutdown()
  Tasks,          \* the closures handed to submit(), one per call
  QueueCapacity,  \* queue_capacity
  NoTask          \* what a worker holds between two tasks

ASSUME WorkersAssumption == IsFiniteSet(Workers) /\ Workers # {}
ASSUME SubmittersAssumption == IsFiniteSet(Submitters)
ASSUME CapacityAssumption == QueueCapacity \in Nat \ {0}
ASSUME NoTaskAssumption == NoTask \notin Tasks

VARIABLES
  tasks,             \* the queue, oldest first
  queue_high_water,  \* longest the queue has been
  busy_threads,      \* atomic gauge of workers between pop and the decrement
  stopping,
  workerPc,          \* where each worker thread is
  task,              \* the closure each worker has moved out of the queue
  submitterPc,       \* where each submitter is
  ownerPc,           \* where the thread that owns the pool is
  accepted,          \* history: tasks submit() returned true for, in order
  started,           \* history: tasks popped by a worker, in order
  finished,          \* history: tasks whose call returned or threw
  rejected           \* history: tasks submit() returned false for

queueVars == <<tasks, queue_high_water, stopping>>
workerVars == <<busy_threads, workerPc, task>>
historyVars == <<accepted, started, finished, rejected>>
vars == <<queueVars, workerVars, submitterPc, ownerPc, historyVars>>

(* "none"   not created yet                                               *)
(* "check"  about to take the mutex and evaluate the wait predicate        *)
(* "wait"   blocked in condition.wait                                      *)
(* "run"    executing the task                                             *)
(* "after"  the task returned or threw, busy_threads not yet decremented   *)
(* "return" worker_loop returned                                           *)
WorkerPcs == {"none", "check", "wait", "run", "after", "return"}

Spawned == {w \in Workers : workerPc[w] # "none"}
Waiting == {w \in Workers : workerPc[w] = "wait"}
Checking == {w \in Workers : workerPc[w] = "check"}
NotifyingOne == {s \in Submitters : submitterPc[s] = "notify_one"}
NotifyAllPending ==
  \/ ownerPc = "notify_all"
  \/ \E s \in Submitters : submitterPc[s] = "notify_all"

Init ==
  /\ tasks = <<>>
  /\ queue_high_water = 0
  /\ busy_threads = 0
  /\ stopping = FALSE
  /\ workerPc = [w \in Workers |-> "none"]
  /\ task = [w \in Workers |-> NoTask]
  /\ submitterPc = [s \in Submitters |-> "idle"]
  /\ ownerPc = "construct"
  /\ accepted = <<>>
  /\ started = <<>>
  /\ finished = {}
  /\ rejected = {}

(***************************************************************************)
(* The owner: constructor, then begin_shutdown() and join(), which is also *)
(* what the destructor does.                                               *)
(***************************************************************************)

\* The constructor's loop creates the next worker thread.
SpawnWorker(w) ==
  /\ ownerPc = "construct"
  /\ workerPc[w] = "none"
  /\ workerPc' = [workerPc EXCEPT ![w] = "check"]
  /\ UNCHANGED <<queueVars, busy_threads, task, submitterPc, ownerPc, historyVars>>

Constructed ==
  /\ ownerPc = "construct"
  /\ Spawned = Workers
  /\ ownerPc' = "alive"
  /\ UNCHANGED <<queueVars, workerVars, submitterPc, historyVars>>

\* Thread creation throws part way: the handler of the constructor shuts the
\* workers that exist down; there is never a pool to submit to.
SpawnFails ==
  /\ ownerPc = "construct"
  /\ Spawned # Workers
  /\ stopping' = TRUE
  /\ ownerPc' = "notify_all"
  /\ UNCHANGED <<tasks, queue_high_water, workerVars, submitterPc, historyVars>>

OwnerBeginShutdown ==
  /\ ownerPc = "alive"
  /\ stopping' = TRUE
  /\ ownerPc' = "notify_all"
  /\ UNCHANGED <<tasks, queue_high_water, workerVars, submitterPc, historyVars>>

\* notify_all wakes every thread that waits.
BugWakeSome ==
  \/ \E w \in Waiting : workerPc' = [workerPc EXCEPT ![w] = "check"]
  \/ Waiting = {} /\ UNCHANGED workerPc
WakeAll ==
  workerPc' = [w \in Workers |-> IF w \in Waiting THEN "check" ELSE workerPc[w]]

OwnerNotifyAll ==
  /\ ownerPc = "notify_all"
  /\ WakeAll
  /\ ownerPc' = "join"
  /\ UNCHANGED <<queueVars, busy_threads, task, submitterPc, historyVars>>

Join ==
  /\ ownerPc = "join"
  /\ \A w \in Spawned : workerPc[w] = "return"
  /\ ownerPc' = "joined"
  /\ UNCHANGED <<queueVars, workerVars, submitterPc, historyVars>>

(***************************************************************************)
(* The callers of a constructed pool.                                      *)
(***************************************************************************)

PoolIsUsable == Spawned = Workers /\ ownerPc \in {"alive", "notify_all", "join"}

Submitted == Range(accepted) \cup rejected

CanSubmit(s, t) ==
  /\ PoolIsUsable
  /\ submitterPc[s] = "idle"
  /\ t \notin Submitted

BugFullOffByOne == stopping \/ Len(tasks) > QueueCapacity
BugIgnoresStopping == Len(tasks) >= QueueCapacity
SubmitRejects == stopping \/ Len(tasks) >= QueueCapacity

\* The critical section of submit() when it queues the task.
SubmitAccepted(s, t) ==
  /\ CanSubmit(s, t)
  /\ ~SubmitRejects
  /\ tasks' = Append(tasks, t)
  /\ queue_high_water' =
       IF Len(tasks') > queue_high_water THEN Len(tasks') ELSE queue_high_water
  /\ accepted' = Append(accepted, t)
  /\ submitterPc' = [submitterPc EXCEPT ![s] = "notify_one"]
  /\ UNCHANGED <<stopping, workerVars, ownerPc, started, finished, rejected>>

SubmitRejected(s, t) ==
  /\ CanSubmit(s, t)
  /\ SubmitRejects
  /\ rejected' = rejected \cup {t}
  /\ UNCHANGED <<queueVars, workerVars, submitterPc, ownerPc, accepted, started, finished>>

BugNotifyNobody(s) ==
  /\ submitterPc[s] = "notify_one"
  /\ submitterPc' = [submitterPc EXCEPT ![s] = "idle"]
  /\ UNCHANGED <<queueVars, workerPc, busy_threads, task, ownerPc, historyVars>>

\* notify_one() after the mutex is released: some waiting thread, if any.
NotifyOne(s) ==
  /\ submitterPc[s] = "notify_one"
  /\ submitterPc' = [submitterPc EXCEPT ![s] = "idle"]
  /\ \/ \E w \in Waiting : workerPc' = [workerPc EXCEPT ![w] = "check"]
     \/ Waiting = {} /\ UNCHANGED workerPc
  /\ UNCHANGED <<queueVars, busy_threads, task, ownerPc, historyVars>>

BeginShutdown(s) ==
  /\ PoolIsUsable
  /\ submitterPc[s] = "idle"
  /\ stopping' = TRUE
  /\ submitterPc' = [submitterPc EXCEPT ![s] = "notify_all"]
  /\ UNCHANGED <<tasks, queue_high_water, workerVars, ownerPc, historyVars>>

NotifyAll(s) ==
  /\ submitterPc[s] = "notify_all"
  /\ submitterPc' = [submitterPc EXCEPT ![s] = "idle"]
  /\ WakeAll
  /\ UNCHANGED <<queueVars, busy_threads, task, ownerPc, historyVars>>

(***************************************************************************)
(* worker_loop                                                             *)
(***************************************************************************)

WaitPredicate == stopping \/ tasks # <<>>

\* The predicate is false: the thread releases the mutex and sleeps.
Wait(w) ==
  /\ workerPc[w] = "check"
  /\ ~WaitPredicate
  /\ workerPc' = [workerPc EXCEPT ![w] = "wait"]
  /\ UNCHANGED <<queueVars, busy_threads, task, submitterPc, ownerPc, historyVars>>

SpuriousWakeup(w) ==
  /\ workerPc[w] = "wait"
  /\ workerPc' = [workerPc EXCEPT ![w] = "check"]
  /\ UNCHANGED <<queueVars, busy_threads, task, submitterPc, ownerPc, historyVars>>

BugReturnUndrained(w) ==
  /\ workerPc[w] = "check"
  /\ WaitPredicate
  /\ stopping
  /\ workerPc' = [workerPc EXCEPT ![w] = "return"]
  /\ UNCHANGED <<queueVars, busy_threads, task, submitterPc, ownerPc, historyVars>>

Return(w) ==
  /\ workerPc[w] = "check"
  /\ WaitPredicate
  /\ stopping /\ tasks = <<>>
  /\ workerPc' = [workerPc EXCEPT ![w] = "return"]
  /\ UNCHANGED <<queueVars, busy_threads, task, submitterPc, ownerPc, historyVars>>

BugPopNewest(w) ==
  /\ workerPc[w] = "check"
  /\ WaitPredicate
  /\ tasks # <<>>
  /\ task' = [task EXCEPT ![w] = tasks[Len(tasks)]]
  /\ tasks' = SubSeq(tasks, 1, Len(tasks) - 1)
  /\ busy_threads' = busy_threads + 1
  /\ workerPc' = [workerPc EXCEPT ![w] = "run"]
  /\ started' = Append(started, tasks[Len(tasks)])
  /\ UNCHANGED <<queue_high_water, stopping, submitterPc, ownerPc,
                 accepted, finished, rejected>>

BugPopKeepsFront(w) ==
  /\ workerPc[w] = "check"
  /\ WaitPredicate
  /\ tasks # <<>>
  /\ task' = [task EXCEPT ![w] = Head(tasks)]
  /\ tasks' = tasks
  /\ busy_threads' = busy_threads + 1
  /\ workerPc' = [workerPc EXCEPT ![w] = "run"]
  /\ started' = Append(started, Head(tasks))
  /\ UNCHANGED <<queue_high_water, stopping, submitterPc, ownerPc,
                 accepted, finished, rejected>>

Pop(w) ==
  /\ workerPc[w] = "check"
  /\ WaitPredicate
  /\ tasks # <<>>
  /\ task' = [task EXCEPT ![w] = Head(tasks)]
  /\ tasks' = Tail(tasks)
  /\ busy_threads' = busy_threads + 1
  /\ workerPc' = [workerPc EXCEPT ![w] = "run"]
  /\ started' = Append(started, Head(tasks))
  /\ UNCHANGED <<queue_high_water, stopping, submitterPc, ownerPc,
                 accepted, finished, rejected>>

\* task() returns, or throws and the exception is swallowed.
RunTask(w) ==
  /\ workerPc[w] = "run"
  /\ workerPc' = [workerPc EXCEPT ![w] = "after"]
  /\ finished' = finished \cup {task[w]}
  /\ UNCHANGED <<queueVars, busy_threads, task, submitterPc, ownerPc,
                 accepted, started, rejected>>

BugDecrementTwice(w) ==
  /\ workerPc[w] = "after"
  /\ busy_threads' = busy_threads - 2
  /\ task' = [task EXCEPT ![w] = NoTask]
  /\ workerPc' = [workerPc EXCEPT ![w] = "check"]
  /\ UNCHANGED <<queueVars, submitterPc, ownerPc, historyVars>>

\* fetch_sub, and the closure is destroyed at the end of the iteration.
FinishIteration(w) ==
  /\ workerPc[w] = "after"
  /\ busy_threads' = busy_threads - 1
  /\ task' = [task EXCEPT ![w] = NoTask]
  /\ workerPc' = [workerPc EXCEPT ![w] = "check"]
  /\ UNCHANGED <<queueVars, submitterPc, ownerPc, historyVars>>

OwnerStep ==
  \/ \E w \in Workers : SpawnWorker(w)
  \/ Constructed
  \/ SpawnFails
  \/ OwnerBeginShutdown
  \/ OwnerNotifyAll
  \/ Join

SubmitterStep(s) ==
  \/ \E t \in Tasks : SubmitAccepted(s, t) \/ SubmitRejected(s, t)
  \/ NotifyOne(s)
  \/ BeginShutdown(s)
  \/ NotifyAll(s)

WorkerStep(w) ==
  \/ Wait(w)
  \/ SpuriousWakeup(w)
  \/ Return(w)
  \/ Pop(w)
  \/ RunTask(w)
  \/ FinishIteration(w)

Next ==
  \/ OwnerStep
  \/ \E s \in Submitters : SubmitterStep(s)
  \/ \E w \in Workers : WorkerStep(w)

Spec == Init /\ [][Next]_vars

(***************************************************************************)
(* The scheduler runs every thread that can run, and a task that is called *)
(* returns or throws.  Nothing makes a caller submit or shut down, and     *)
(* nothing relies on spurious wakeups.                                     *)
(***************************************************************************)
Fairness ==
  /\ WF_vars(OwnerNotifyAll)
  /\ WF_vars(Join)
  /\ \A s \in Submitters : WF_vars(NotifyOne(s)) /\ WF_vars(NotifyAll(s))
  /\ \A w \in Workers :
       WF_vars(Wait(w) \/ Return(w) \/ Pop(w) \/ RunTask(w) \/ FinishIteration(w))

FairSpec == Spec /\ Fairness

-----------------------------------------------------------------------------
\* Every variable has its type, and busy_threads never wraps below zero.
TypeOK ==
  /\ tasks \in Seq(Tasks)
  /\ queue_high_water \in Nat
  /\ busy_threads \in Nat
  /\ stopping \in BOOLEAN
  /\ workerPc \in [Workers -> WorkerPcs]
  /\ task \in [Workers -> Tasks \cup {NoTask}]
  /\ submitterPc \in [Submitters -> {"idle", "notify_one", "notify_all"}]
  /\ ownerPc \in {"construct", "alive", "notify_all", "join", "joined"}
  /\ accepted \in Seq(Tasks)
  /\ started \in Seq(Tasks)
  /\ finished \in SUBSET Tasks
  /\ rejected \in SUBSET Tasks

\* Tasks are popped in the order submit() accepted them, none is lost or
\* duplicated between the two, and a rejected task is never queued.
FifoNoLoss ==
  /\ accepted = started \o tasks
  /\ \A i, j \in DOMAIN accepted : accepted[i] = accepted[j] => i = j
  /\ Range(accepted) \cap rejected = {}

\* A task that was popped is held by exactly one worker until its call ends,
\* and is never called again after that.
RunsOnce ==
  /\ Range(started) = finished \cup {task[w] : w \in {v \in Workers : workerPc[v] = "run"}}
  /\ \A w \in Workers : workerPc[w] = "run" => task[w] \notin finished
  /\ \A v, w \in Workers :
       workerPc[v] = "run" /\ workerPc[w] = "run" /\ task[v] = task[w] => v = w

\* The queue never exceeds the configured capacity and the high-water mark
\* that /metrics reports is never below the queue or above the capacity.
QueueBounded ==
  Len(tasks) <= queue_high_water /\ queue_high_water <= QueueCapacity

\* No lost wakeup: while a worker sleeps, every queued task has an awake
\* worker about to look at the queue, or a notify_one still to be issued.
\* The notification is sent after the mutex is released, so this spans
\* several steps of several threads.
NoLostWakeup ==
  Waiting # {} =>
    Len(tasks) <= Cardinality(Checking) + Cardinality(NotifyingOne)

\* A worker sleeps through a shutdown only while notify_all is on its way.
NoSleepAfterStop == stopping /\ Waiting # {} => NotifyAllPending

\* A worker returns only once the queue is empty for good: submit() rejects
\* from then on, so what was accepted before begin_shutdown() is not dropped.
ReturnOnlyDrained ==
  (\E w \in Workers : workerPc[w] = "return") => stopping /\ tasks = <<>>

\* When join() returns, every task that was ever accepted has been called
\* and its call has ended, and the busy gauge is back to zero.
JoinedMeansDrained ==
  ownerPc = "joined" => Range(accepted) = finished /\ busy_threads = 0

\* Once stopping is set the accepted set never grows and stopping never
\* reverts, whichever thread set it.
ClosedStaysClosed ==
  [][stopping => stopping' /\ accepted' = accepted]_vars

\* Every accepted task is eventually called to its end, also when shutdown
\* begins while it is queued.
AcceptedTasksFinish ==
  \A t \in Tasks : (t \in Range(accepted)) ~> (t \in finished)

\* begin_shutdown() ends every worker thread, even one that was asleep.
ShutdownStopsWorkers ==
  stopping ~> (\A w \in Spawned : workerPc[w] = "return")

\* The pool does what TaskExecutor promises.
Executor ==
  INSTANCE TaskExecutor WITH
    queue <- tasks,
    running <- {task[w] : w \in {v \in Workers : workerPc[v] = "run"}},
    refused <- rejected,
    closed <- stopping

ImplementsTaskExecutor == Executor!Spec
=============================================================================
