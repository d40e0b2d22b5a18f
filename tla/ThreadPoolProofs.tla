-------------------------- MODULE ThreadPoolProofs --------------------------
(***************************************************************************)
(* Proofs about ThreadPool for every finite set of workers and submitters, *)
(* every set of tasks and every positive capacity.                         *)
(***************************************************************************)
EXTENDS ThreadPool, SequenceTheorems, FiniteSetTheorems, TLAPS

\* The provers that try a leaf which names none.
USE SMTT(20), ZenonT(30)

\* Workers between pop and the decrement of busy_threads.
Working == {w \in Workers : workerPc[w] \in {"run", "after"}}

\* The gauge is exact, so it never goes below zero.
BusyIsExact == busy_threads = Cardinality(Working)

-----------------------------------------------------------------------------
(* Subsets of the threads are finite.                                      *)

\* What moving one thread into or out of a set of threads does to its size.
LEMMA CardinalityMoves ==
  ASSUME NEW S, IsFiniteSet(S), NEW A \in SUBSET S, NEW x \in S
  PROVE  /\ IsFiniteSet(A) /\ Cardinality(A) \in Nat
         /\ x \notin A => Cardinality(A \cup {x}) = Cardinality(A) + 1
         /\ x \in A => Cardinality(A \ {x}) = Cardinality(A) - 1
         /\ x \in A => Cardinality(A) > 0
<1>1. IsFiniteSet(A) BY FS_Subset
<1>2. Cardinality(A) \in Nat BY <1>1, FS_CardinalityType
<1>3. Cardinality(A \cup {x}) = IF x \in A THEN Cardinality(A) ELSE Cardinality(A) + 1
  BY <1>1, FS_AddElement
<1>4. Cardinality(A \ {x}) = IF x \in A THEN Cardinality(A) - 1 ELSE Cardinality(A)
  BY <1>1, FS_RemoveElement
<1>5. x \in A => Cardinality(A) # 0 BY <1>1, FS_EmptySet
<1> QED BY <1>1, <1>2, <1>3, <1>4, <1>5

-----------------------------------------------------------------------------
(* Type correctness.                                                       *)

\* A worker that runs a task holds one.
HoldsTask == \A w \in Workers : workerPc[w] = "run" => task[w] \in Tasks

\* The strengthening of TypeOK that the actions preserve.
TypeInv == TypeOK /\ BusyIsExact /\ HoldsTask

\* A pool about to be constructed is type correct and has no busy worker.
LEMMA TypeInit == Init => TypeInv
<1> SUFFICES ASSUME Init PROVE TypeInv OBVIOUS
<1>1. Working = {} BY DEF Init, Working
<1>2. <<>> \in Seq(Tasks) BY EmptySeq
<1>3. TypeOK /\ HoldsTask BY <1>2, ZenonT(30) DEF Init, TypeOK, WorkerPcs, HoldsTask
<1> QED BY <1>1, <1>3, FS_EmptySet DEF TypeInv, BusyIsExact, Init

\* No step of the owner, a submitter or a worker breaks the types or the
\* busy_threads gauge.
LEMMA TypeNext == TypeInv /\ [Next]_vars => TypeInv'
<1> SUFFICES ASSUME TypeInv, [Next]_vars PROVE TypeInv' OBVIOUS
<1> USE DEF TypeInv, HoldsTask, WorkerPcs
<1>0. CASE UNCHANGED vars
  BY <1>0 DEF vars, queueVars, workerVars, historyVars, TypeOK, BusyIsExact, Working
<1>1. ASSUME NEW w \in Workers, SpawnWorker(w) PROVE TypeInv'
  <2>1. Working' = Working BY <1>1 DEF SpawnWorker, Working, TypeOK
  <2> QED BY <1>1, <2>1 DEF SpawnWorker, TypeOK, BusyIsExact, queueVars, historyVars
<1>2. CASE Constructed \/ SpawnFails \/ OwnerBeginShutdown \/ Join
  BY <1>2, ZenonT(30) DEF Constructed, SpawnFails, OwnerBeginShutdown, Join, TypeOK, BusyIsExact,
    Working, queueVars, workerVars, historyVars
<1>3. CASE OwnerNotifyAll
  <2>1. Working' = Working BY <1>3 DEF OwnerNotifyAll, WakeAll, Waiting, Working, TypeOK
  <2> QED BY <1>3, <2>1 DEF OwnerNotifyAll, WakeAll, TypeOK, BusyIsExact, queueVars, historyVars
<1>4. ASSUME NEW s \in Submitters, NEW t \in Tasks, SubmitAccepted(s, t) PROVE TypeInv'
  <2>1. Append(tasks, t) \in Seq(Tasks) /\ Append(accepted, t) \in Seq(Tasks)
    BY AppendProperties DEF TypeOK
  <2>2. Len(tasks') \in Nat BY <1>4, <2>1, LenProperties DEF SubmitAccepted
  <2> QED BY <1>4, <2>1, <2>2 DEF SubmitAccepted, TypeOK, BusyIsExact, Working, workerVars
<1>5. ASSUME NEW s \in Submitters, NEW t \in Tasks, SubmitRejected(s, t) PROVE TypeInv'
  BY <1>5 DEF SubmitRejected, TypeOK, BusyIsExact, Working, queueVars, workerVars
<1>6. ASSUME NEW s \in Submitters, NotifyOne(s) PROVE TypeInv'
  <2>1. Working' = Working BY <1>6 DEF NotifyOne, Waiting, Working, TypeOK
  <2> QED BY <1>6, <2>1 DEF NotifyOne, Waiting, TypeOK, BusyIsExact, queueVars, historyVars
<1>7. ASSUME NEW s \in Submitters, BeginShutdown(s) PROVE TypeInv'
  BY <1>7 DEF BeginShutdown, TypeOK, BusyIsExact, Working, workerVars, historyVars
<1>8. ASSUME NEW s \in Submitters, NotifyAll(s) PROVE TypeInv'
  <2>1. Working' = Working BY <1>8 DEF NotifyAll, WakeAll, Waiting, Working, TypeOK
  <2> QED BY <1>8, <2>1 DEF NotifyAll, WakeAll, TypeOK, BusyIsExact, queueVars, historyVars
<1>9. ASSUME NEW w \in Workers, Wait(w) \/ SpuriousWakeup(w) \/ Return(w) PROVE TypeInv'
  <2>1. Working' = Working BY <1>9 DEF Wait, SpuriousWakeup, Return, Working, TypeOK
  <2> QED BY <1>9, <2>1 DEF Wait, SpuriousWakeup, Return, TypeOK, BusyIsExact,
        queueVars, historyVars
<1>10. ASSUME NEW w \in Workers, Pop(w) PROVE TypeInv'
  <2>1. Head(tasks) \in Tasks /\ Tail(tasks) \in Seq(Tasks)
    BY <1>10, HeadTailProperties DEF Pop, TypeOK
  <2>2. Append(started, Head(tasks)) \in Seq(Tasks) BY <2>1, AppendProperties DEF TypeOK
  <2>3. Working' = Working \cup {w} /\ w \notin Working BY <1>10 DEF Pop, Working, TypeOK
  <2>4. Working \in SUBSET Workers /\ IsFiniteSet(Workers) BY WorkersAssumption DEF Working
  <2>5. Cardinality(Working \cup {w}) = Cardinality(Working) + 1
    BY <2>3, <2>4, CardinalityMoves
  <2>6. BusyIsExact' BY <1>10, <2>3, <2>5 DEF Pop, BusyIsExact
  <2> QED BY <1>10, <2>1, <2>2, <2>6 DEF Pop, TypeOK
<1>11. ASSUME NEW w \in Workers, RunTask(w) PROVE TypeInv'
  <2>1. Working' = Working BY <1>11 DEF RunTask, Working, TypeOK
  <2>2. task[w] \in Tasks BY <1>11 DEF RunTask
  <2> QED BY <1>11, <2>1, <2>2 DEF RunTask, TypeOK, BusyIsExact, queueVars
<1>12. ASSUME NEW w \in Workers, FinishIteration(w) PROVE TypeInv'
  <2>1. Working' = Working \ {w} /\ w \in Working BY <1>12 DEF FinishIteration, Working, TypeOK
  <2>2. /\ Cardinality(Working \ {w}) = Cardinality(Working) - 1
        /\ Cardinality(Working) \in Nat /\ Cardinality(Working) > 0
    BY <2>1, CardinalityMoves, WorkersAssumption, ZenonT(30) DEF Working
  <2>3. BusyIsExact' /\ busy_threads' \in Nat
    BY <1>12, <2>1, <2>2 DEF FinishIteration, BusyIsExact
  <2> QED BY <1>12, <2>3 DEF FinishIteration, TypeOK, queueVars, historyVars
<1> QED
  BY <1>0, <1>1, <1>2, <1>3, <1>4, <1>5, <1>6, <1>7, <1>8, <1>9, <1>10, <1>11, <1>12
  DEF Next, OwnerStep, SubmitterStep, WorkerStep

\* Every reachable state is type correct: in particular busy_threads, an
\* unsigned counter, is never decremented below zero.
THEOREM TypeCorrect == Spec => []TypeOK
<1>1. TypeInv => TypeOK BY DEF TypeInv
<1> QED BY TypeInit, TypeNext, <1>1, PTL DEF Spec

\* The strengthened type invariant, for use in the proofs that follow.
LEMMA AlwaysTypeInv == Spec => []TypeInv
BY TypeInit, TypeNext, PTL DEF Spec

-----------------------------------------------------------------------------
(* Sequences.                                                              *)

\* Appending to a sequence adds one element to its range.
LEMMA RangeAppend ==
  ASSUME NEW S, NEW s \in Seq(S), NEW e \in S
  PROVE  Range(Append(s, e)) = Range(s) \cup {e}
<1>1. Append(s, e) \in Seq(S) /\ Len(Append(s, e)) = Len(s) + 1
  BY AppendProperties
<1>2. DOMAIN Append(s, e) = 1..(Len(s) + 1) /\ DOMAIN s = 1..Len(s) /\ Len(s) \in Nat
  BY <1>1, LenProperties
<1> QED BY <1>2, AppendProperties DEF Range

\* Moving the head of one sequence to the end of another keeps their
\* concatenation.
LEMMA MoveHead ==
  ASSUME NEW S, NEW s \in Seq(S), NEW t \in Seq(S), t # <<>>
  PROVE  Append(s, Head(t)) \o Tail(t) = s \o t
<1>1. /\ Head(t) \in S /\ Tail(t) \in Seq(S) /\ Len(Tail(t)) = Len(t) - 1
      /\ \A i \in 1..Len(Tail(t)) : Tail(t)[i] = t[i + 1]
  BY HeadTailProperties
<1>2. /\ Append(s, Head(t)) \in Seq(S) /\ Len(Append(s, Head(t))) = Len(s) + 1
      /\ \A i \in 1..Len(s) : Append(s, Head(t))[i] = s[i]
      /\ Append(s, Head(t))[Len(s) + 1] = Head(t)
  BY <1>1, AppendProperties
<1>3. Head(t) = t[1] /\ Len(s) \in Nat /\ Len(t) \in Nat /\ Len(t) # 0
  BY LenProperties, EmptySeq
<1>4. /\ Append(s, Head(t)) \o Tail(t) \in Seq(S)
      /\ Len(Append(s, Head(t)) \o Tail(t)) = Len(s) + Len(t)
      /\ \A i \in 1..(Len(s) + Len(t)) : (Append(s, Head(t)) \o Tail(t))[i] =
           IF i <= Len(s) + 1 THEN Append(s, Head(t))[i] ELSE Tail(t)[i - (Len(s) + 1)]
  BY <1>1, <1>2, <1>3, ConcatProperties
<1>5. /\ s \o t \in Seq(S) /\ Len(s \o t) = Len(s) + Len(t)
      /\ \A i \in 1..(Len(s) + Len(t)) :
           (s \o t)[i] = IF i <= Len(s) THEN s[i] ELSE t[i - Len(s)]
  BY ConcatProperties
<1>6. ASSUME NEW i \in 1..(Len(s) + Len(t))
      PROVE (Append(s, Head(t)) \o Tail(t))[i] = (s \o t)[i]
  <2>1. CASE i <= Len(s) BY <2>1, <1>2, <1>3, <1>4, <1>5
  <2>2. CASE i = Len(s) + 1 BY <2>2, <1>2, <1>3, <1>4, <1>5
  <2>3. CASE i > Len(s) + 1
    <3>1. i - (Len(s) + 1) \in 1..Len(Tail(t)) BY <2>3, <1>1, <1>3
    <3>2. Tail(t)[i - (Len(s) + 1)] = t[i - Len(s)] BY <3>1, <1>1, <1>3
    <3> QED BY <2>3, <3>2, <1>3, <1>4, <1>5
  <2> QED BY <2>1, <2>2, <2>3, <1>3
<1> QED BY <1>4, <1>5, <1>6, SeqEqual

-----------------------------------------------------------------------------
(* The queue: FIFO order, no loss, no duplicate, bounded.                  *)

\* What holds of the queue, its history and the high-water mark together.
QueueInv == FifoNoLoss /\ QueueBounded

\* The queue starts empty.
LEMMA QueueInit == Init => QueueInv
<1> SUFFICES ASSUME Init PROVE QueueInv OBVIOUS
<1>1. <<>> \in Seq(Tasks) /\ Len(<<>>) = 0 BY EmptySeq
<1>2. <<>> \o <<>> = <<>> BY <1>1, ConcatEmptySeq
<1> QED BY <1>1, <1>2, CapacityAssumption DEF Init, QueueInv, FifoNoLoss, QueueBounded, Range

\* submit() and the pop in worker_loop keep the queue FIFO and bounded.
LEMMA QueueNext == TypeInv /\ QueueInv /\ [Next]_vars => QueueInv'
<1> SUFFICES ASSUME TypeInv, QueueInv, [Next]_vars PROVE QueueInv' OBVIOUS
<1> USE DEF TypeInv, QueueInv
<1>1. ASSUME UNCHANGED <<tasks, queue_high_water, accepted, started, rejected>> PROVE QueueInv'
  BY <1>1 DEF FifoNoLoss, QueueBounded
<1>2. ASSUME NEW s \in Submitters, NEW t \in Tasks, SubmitAccepted(s, t) PROVE QueueInv'
  <2>1. /\ t \notin Range(accepted) /\ t \notin rejected
        /\ accepted' = Append(accepted, t) /\ tasks' = Append(tasks, t)
        /\ started' = started /\ rejected' = rejected /\ Len(tasks) < QueueCapacity
    BY <1>2, LenProperties, CapacityAssumption
    DEF SubmitAccepted, CanSubmit, Submitted, SubmitRejects, TypeOK
  <2>2. accepted' = started' \o tasks'
    <3>1. <<t>> \in Seq(Tasks) OBVIOUS
    <3>2. accepted' = accepted \o <<t>> BY <2>1, AppendIsConcat DEF TypeOK
    <3>3. tasks' = tasks \o <<t>> BY <2>1, AppendIsConcat DEF TypeOK
    <3>4. (started \o tasks) \o <<t>> = started \o (tasks \o <<t>>)
      BY <3>1, ConcatAssociative DEF TypeOK
    <3> QED BY <2>1, <3>2, <3>3, <3>4 DEF FifoNoLoss
  <2>3. \A i, j \in DOMAIN accepted' : accepted'[i] = accepted'[j] => i = j
    <3>1. /\ Len(accepted) \in Nat
          /\ DOMAIN accepted = 1..Len(accepted)
          /\ DOMAIN accepted' = 1..(Len(accepted) + 1)
          /\ \A i \in 1..Len(accepted) : accepted'[i] = accepted[i]
          /\ accepted'[Len(accepted) + 1] = t
      BY <2>1, AppendProperties, LenProperties DEF TypeOK
    <3>2. \A i \in 1..Len(accepted) : accepted[i] # t BY <2>1, <3>1 DEF Range
    <3> QED BY <3>1, <3>2 DEF FifoNoLoss
  <2>4. Range(accepted') \cap rejected' = {}
    <3>1. Range(Append(accepted, t)) = Range(accepted) \cup {t} BY RangeAppend DEF TypeOK
    <3> QED BY <2>1, <3>1 DEF FifoNoLoss
  <2>5. QueueBounded'
    <3>1. Len(tasks') = Len(tasks) + 1 /\ Len(tasks) \in Nat
      BY <2>1, AppendProperties, LenProperties DEF TypeOK
    <3>2. queue_high_water' =
            IF Len(tasks') > queue_high_water THEN Len(tasks') ELSE queue_high_water
      BY <1>2 DEF SubmitAccepted
    <3> QED BY <2>1, <3>1, <3>2, CapacityAssumption DEF QueueBounded, TypeOK
  <2> QED BY <2>2, <2>3, <2>4, <2>5 DEF FifoNoLoss
<1>3. ASSUME NEW s \in Submitters, NEW t \in Tasks, SubmitRejected(s, t) PROVE QueueInv'
  BY <1>3 DEF SubmitRejected, CanSubmit, Submitted, queueVars, FifoNoLoss, QueueBounded
<1>4. ASSUME NEW w \in Workers, Pop(w) PROVE QueueInv'
  <2>1. accepted' = started' \o tasks'
    BY <1>4, MoveHead DEF Pop, FifoNoLoss, TypeOK
  <2>2. Len(tasks') \in Nat /\ Len(tasks') <= Len(tasks) /\ Len(tasks) \in Nat
    BY <1>4, HeadTailProperties, LenProperties DEF Pop, TypeOK
  <2>3. QueueBounded' BY <1>4, <2>2, CapacityAssumption DEF Pop, QueueBounded, TypeOK
  <2> QED BY <1>4, <2>1, <2>3, ZenonT(30) DEF Pop, FifoNoLoss
<1>5. ASSUME NEW w \in Workers, WorkerStep(w), ~Pop(w) PROVE QueueInv'
  BY <1>1, <1>5 DEF WorkerStep, Wait, SpuriousWakeup, Return, RunTask, FinishIteration,
    queueVars, historyVars
<1>6. ASSUME NEW s \in Submitters, NotifyOne(s) \/ BeginShutdown(s) \/ NotifyAll(s)
      PROVE QueueInv'
  BY <1>1, <1>6 DEF NotifyOne, BeginShutdown, NotifyAll, queueVars, historyVars
<1>7. CASE OwnerStep
  BY <1>1, <1>7 DEF OwnerStep, SpawnWorker, Constructed, SpawnFails, OwnerBeginShutdown,
    OwnerNotifyAll, Join, queueVars, historyVars
<1>8. CASE UNCHANGED vars
  BY <1>1, <1>8 DEF vars, queueVars, historyVars
<1> QED BY <1>2, <1>3, <1>4, <1>5, <1>6, <1>7, <1>8 DEF Next, SubmitterStep

\* Tasks leave the queue in the order submit() accepted them, none lost or
\* duplicated, and a rejected task never enters it.
THEOREM QueueIsFifo == Spec => []FifoNoLoss
<1>1. QueueInv => FifoNoLoss BY DEF QueueInv
<1> QED BY QueueInit, QueueNext, AlwaysTypeInv, <1>1, PTL DEF Spec

\* The queue never exceeds its capacity, nor does the reported high-water mark.
THEOREM QueueIsBounded == Spec => []QueueBounded
<1>1. QueueInv => QueueBounded BY DEF QueueInv
<1> QED BY QueueInit, QueueNext, AlwaysTypeInv, <1>1, PTL DEF Spec

\* The queue invariant, for use in the proofs that follow.
LEMMA AlwaysQueueInv == Spec => []QueueInv
BY QueueInit, QueueNext, AlwaysTypeInv, PTL DEF Spec

-----------------------------------------------------------------------------
(* Every popped task is called once.                                       *)

\* The tasks whose call has begun and not ended.
RunningTasks == {task[w] : w \in {v \in Workers : workerPc[v] = "run"}}

\* The head of the queue has not been started before.
LEMMA HeadIsFresh ==
  ASSUME TypeInv, QueueInv, tasks # <<>>
  PROVE  Head(tasks) \in Tasks /\ Head(tasks) \notin Range(started)
<1> USE DEF TypeInv, QueueInv
<1>1. /\ Len(started) \in Nat /\ Len(tasks) \in Nat /\ Len(tasks) # 0
      /\ DOMAIN started = 1..Len(started)
  BY LenProperties, EmptySeq DEF TypeOK
<1>2. /\ Len(accepted) = Len(started) + Len(tasks)
      /\ DOMAIN accepted = 1..(Len(started) + Len(tasks))
      /\ \A i \in 1..(Len(started) + Len(tasks)) :
           accepted[i] = IF i <= Len(started) THEN started[i] ELSE tasks[i - Len(started)]
  BY ConcatProperties, LenProperties DEF FifoNoLoss, TypeOK
<1>3. Head(tasks) = tasks[1] /\ Head(tasks) \in Tasks
  BY HeadTailProperties DEF TypeOK
<1>4. accepted[Len(started) + 1] = Head(tasks)
  BY <1>1, <1>2, <1>3
<1>5. \A i \in 1..Len(started) : started[i] # Head(tasks)
  BY <1>1, <1>2, <1>4 DEF FifoNoLoss
<1> QED BY <1>1, <1>3, <1>5 DEF Range

\* No task runs before the pool exists.
LEMMA RunsOnceInit == Init => RunsOnce
BY DEF Init, RunsOnce, Range

\* A pop takes a fresh task and the end of its call retires it for good.
LEMMA RunsOnceNext == TypeInv /\ QueueInv /\ RunsOnce /\ [Next]_vars => RunsOnce'
<1> SUFFICES ASSUME TypeInv, QueueInv, RunsOnce, [Next]_vars PROVE RunsOnce' OBVIOUS
<1>1. ASSUME UNCHANGED <<started, finished, task>>,
             \A w \in Workers : (workerPc'[w] = "run") = (workerPc[w] = "run")
      PROVE RunsOnce'
  BY <1>1 DEF RunsOnce
<1>2. ASSUME NEW w \in Workers, Pop(w) PROVE RunsOnce'
  <2>1. Head(tasks) \in Tasks /\ Head(tasks) \notin Range(started)
    BY <1>2, HeadIsFresh DEF Pop
  <2>2. Range(started') = Range(started) \cup {Head(tasks)}
    BY <1>2, <2>1, RangeAppend DEF Pop, TypeInv, TypeOK
  <2>3. /\ finished' = finished
        /\ \A v \in Workers : /\ task'[v] = IF v = w THEN Head(tasks) ELSE task[v]
                              /\ (workerPc'[v] = "run") = (v = w \/ workerPc[v] = "run")
        /\ workerPc[w] # "run"
    BY <1>2 DEF Pop, TypeInv, TypeOK
  <2> QED BY <2>1, <2>2, <2>3 DEF RunsOnce
<1>3. ASSUME NEW w \in Workers, RunTask(w) PROVE RunsOnce'
  <2>1. /\ finished' = finished \cup {task[w]} /\ started' = started /\ task' = task
        /\ \A v \in Workers : (workerPc'[v] = "run") = (v # w /\ workerPc[v] = "run")
        /\ workerPc[w] = "run"
    BY <1>3 DEF RunTask, TypeInv, TypeOK
  <2> QED BY <2>1 DEF RunsOnce
<1>4. ASSUME NEW w \in Workers, FinishIteration(w) PROVE RunsOnce'
  <2>1. /\ finished' = finished /\ started' = started
        /\ \A v \in Workers : /\ (workerPc'[v] = "run") = (workerPc[v] = "run")
                              /\ v # w => task'[v] = task[v]
        /\ workerPc[w] # "run"
    BY <1>4 DEF FinishIteration, historyVars, TypeInv, TypeOK
  <2> QED BY <2>1 DEF RunsOnce
<1>5. ASSUME NEW w \in Workers, Wait(w) \/ SpuriousWakeup(w) \/ Return(w) PROVE RunsOnce'
  BY <1>1, <1>5 DEF Wait, SpuriousWakeup, Return, historyVars, TypeInv, TypeOK
<1>6. ASSUME NEW s \in Submitters, SubmitterStep(s) PROVE RunsOnce'
  BY <1>1, <1>6 DEF SubmitterStep, SubmitAccepted, SubmitRejected, NotifyOne, BeginShutdown,
    NotifyAll, WakeAll, Waiting, workerVars, historyVars, TypeInv, TypeOK
<1>7. CASE OwnerStep
  BY <1>1, <1>7 DEF OwnerStep, SpawnWorker, Constructed, SpawnFails, OwnerBeginShutdown,
    OwnerNotifyAll, Join, WakeAll, Waiting, workerVars, historyVars, TypeInv, TypeOK
<1>8. CASE UNCHANGED vars
  BY <1>1, <1>8 DEF vars, workerVars, historyVars
<1> QED BY <1>2, <1>3, <1>4, <1>5, <1>6, <1>7, <1>8 DEF Next, WorkerStep

\* A popped task is held by one worker until its call ends and is never
\* called again.
THEOREM TasksRunOnce == Spec => []RunsOnce
BY RunsOnceInit, RunsOnceNext, AlwaysTypeInv, AlwaysQueueInv, PTL DEF Spec

-----------------------------------------------------------------------------
(* Shutdown.                                                               *)

\* Tasks are accepted only by a pool whose constructor succeeded.
AcceptedByFullPool == accepted # <<>> => \A w \in Workers : workerPc[w] # "none"

\* join() has seen every thread it knows of return.
JoinedWorkers == ownerPc = "joined" => \A w \in Workers : workerPc[w] \in {"none", "return"}

\* What the shutdown protocol keeps true while workers leave one by one.
ShutdownInv ==
  ReturnOnlyDrained /\ NoSleepAfterStop /\ AcceptedByFullPool /\ JoinedWorkers

\* No worker has returned and none sleeps before the pool exists.
LEMMA ShutdownInit == Init => ShutdownInv
BY DEF Init, ShutdownInv, ReturnOnlyDrained, NoSleepAfterStop, AcceptedByFullPool,
  JoinedWorkers, Waiting

\* begin_shutdown(), the wake-ups and the returns of workers keep ShutdownInv.
LEMMA ShutdownNext == TypeInv /\ ShutdownInv /\ [Next]_vars => ShutdownInv'
<1> SUFFICES ASSUME TypeOK, ShutdownInv, [Next]_vars PROVE ShutdownInv' BY DEF TypeInv
<1> USE DEF ShutdownInv, ReturnOnlyDrained, NoSleepAfterStop, AcceptedByFullPool,
     JoinedWorkers, Waiting, NotifyAllPending, TypeOK
<1>1. ASSUME NEW w \in Workers, SpawnWorker(w) PROVE ShutdownInv'
  BY <1>1 DEF SpawnWorker, queueVars, historyVars
<1>2. CASE Constructed BY <1>2 DEF Constructed, queueVars, workerVars, historyVars
<1>3. CASE SpawnFails BY <1>3 DEF SpawnFails, workerVars, historyVars
<1>4. CASE OwnerBeginShutdown BY <1>4 DEF OwnerBeginShutdown, workerVars, historyVars
<1>5. CASE OwnerNotifyAll BY <1>5 DEF OwnerNotifyAll, WakeAll, queueVars, historyVars
<1>6. CASE Join BY <1>6 DEF Join, Spawned, queueVars, workerVars, historyVars
<1>7. ASSUME NEW s \in Submitters, NEW t \in Tasks, SubmitAccepted(s, t) PROVE ShutdownInv'
  BY <1>7 DEF SubmitAccepted, CanSubmit, PoolIsUsable, Spawned, SubmitRejects, workerVars
<1>8. ASSUME NEW s \in Submitters, NEW t \in Tasks, SubmitRejected(s, t) PROVE ShutdownInv'
  BY <1>8 DEF SubmitRejected, queueVars, workerVars
<1>9. ASSUME NEW s \in Submitters, NotifyOne(s) PROVE ShutdownInv'
  BY <1>9 DEF NotifyOne, queueVars, historyVars
<1>10. ASSUME NEW s \in Submitters, BeginShutdown(s) PROVE ShutdownInv'
  BY <1>10 DEF BeginShutdown, workerVars, historyVars
<1>11. ASSUME NEW s \in Submitters, NotifyAll(s) PROVE ShutdownInv'
  BY <1>11 DEF NotifyAll, WakeAll, queueVars, historyVars
<1>12. ASSUME NEW w \in Workers, Wait(w) PROVE ShutdownInv'
  BY <1>12 DEF Wait, WaitPredicate, queueVars, historyVars
<1>13. ASSUME NEW w \in Workers, SpuriousWakeup(w) PROVE ShutdownInv'
  BY <1>13 DEF SpuriousWakeup, queueVars, historyVars
<1>14. ASSUME NEW w \in Workers, Return(w) PROVE ShutdownInv'
  BY <1>14 DEF Return, queueVars, historyVars
<1>15. ASSUME NEW w \in Workers, Pop(w) PROVE ShutdownInv'
  BY <1>15 DEF Pop
<1>16. ASSUME NEW w \in Workers, RunTask(w) PROVE ShutdownInv'
  BY <1>16 DEF RunTask, queueVars
<1>17. ASSUME NEW w \in Workers, FinishIteration(w) PROVE ShutdownInv'
  BY <1>17 DEF FinishIteration, queueVars, historyVars
<1>18. CASE UNCHANGED vars
  BY <1>18 DEF vars, queueVars, workerVars, historyVars
<1> QED
  BY <1>1, <1>2, <1>3, <1>4, <1>5, <1>6, <1>7, <1>8, <1>9, <1>10, <1>11, <1>12, <1>13, ZenonT(30),
     <1>14, <1>15, <1>16, <1>17, <1>18
  DEF Next, OwnerStep, SubmitterStep, WorkerStep

\* The shutdown invariant, for use in the proofs that follow.
LEMMA AlwaysShutdownInv == Spec => []ShutdownInv
BY ShutdownInit, ShutdownNext, AlwaysTypeInv, PTL DEF Spec

\* A worker returns only after shutdown began and the queue was drained.
THEOREM WorkersReturnDrained == Spec => []ReturnOnlyDrained
<1>1. ShutdownInv => ReturnOnlyDrained BY DEF ShutdownInv
<1> QED BY AlwaysShutdownInv, <1>1, PTL

\* No worker sleeps through a shutdown unless its notify_all is still to come.
THEOREM NobodySleepsAfterStop == Spec => []NoSleepAfterStop
<1>1. ShutdownInv => NoSleepAfterStop BY DEF ShutdownInv
<1> QED BY AlwaysShutdownInv, <1>1, PTL

\* Once every worker returned, no accepted task is queued or running.
LEMMA DrainedWhenJoined ==
  TypeInv /\ QueueInv /\ RunsOnce /\ ShutdownInv => JoinedMeansDrained
<1> SUFFICES ASSUME TypeInv, QueueInv, RunsOnce, ShutdownInv, ownerPc = "joined"
             PROVE  Range(accepted) = finished /\ busy_threads = 0
  BY DEF JoinedMeansDrained
<1>1. \A w \in Workers : workerPc[w] \in {"none", "return"}
  BY DEF ShutdownInv, JoinedWorkers
<1>2. Working = {} BY <1>1 DEF Working
<1>3. busy_threads = 0 BY <1>2, FS_EmptySet DEF TypeInv, BusyIsExact
<1>4. Range(started) = finished BY <1>1 DEF RunsOnce
<1>5. tasks \in Seq(Tasks) /\ started \in Seq(Tasks) /\ accepted = started \o tasks
  BY DEF TypeInv, TypeOK, QueueInv, FifoNoLoss
<1>6. CASE accepted = <<>>
  <2>1. started = <<>> BY <1>5, <1>6, ConcatSimplifications, ZenonT(30)
  <2> QED BY <1>3, <1>4, <1>6, <2>1
<1>7. CASE accepted # <<>>
  <2>1. PICK w \in Workers : workerPc[w] = "return"
    BY <1>1, <1>7, WorkersAssumption DEF ShutdownInv, AcceptedByFullPool
  <2>2. tasks = <<>> BY <2>1 DEF ShutdownInv, ReturnOnlyDrained
  <2>3. accepted = started BY <1>5, <2>2, ConcatEmptySeq
  <2> QED BY <1>3, <1>4, <2>3
<1> QED BY <1>6, <1>7

\* When join() returns, every accepted task has been called to its end.
THEOREM JoinDrains == Spec => []JoinedMeansDrained
<1>1. Spec => []RunsOnce BY TasksRunOnce
<1> QED BY AlwaysTypeInv, AlwaysQueueInv, <1>1, AlwaysShutdownInv, DrainedWhenJoined, PTL

\* What was accepted when shutdown begins is all that is ever accepted.
THEOREM ClosedForGood == Spec => ClosedStaysClosed
<1>1. TypeInv /\ [Next]_vars => [stopping => stopping' /\ accepted' = accepted]_vars
  BY DEF Next, OwnerStep, SpawnWorker, Constructed, SpawnFails, OwnerBeginShutdown,
    OwnerNotifyAll, Join, SubmitterStep, SubmitAccepted, SubmitRejected, SubmitRejects,
    NotifyOne, BeginShutdown, NotifyAll, WorkerStep, Wait, SpuriousWakeup, Return, Pop,
    RunTask, FinishIteration, vars, queueVars, historyVars
<1> QED BY <1>1, AlwaysTypeInv, PTL DEF Spec, ClosedStaysClosed

-----------------------------------------------------------------------------
(* Wakeups: notify_one is issued after the mutex is released.              *)

\* The threads that can still be told about a queued task.
LEMMA ThreadSetsFinite ==
  /\ Checking \in SUBSET Workers /\ IsFiniteSet(Checking) /\ Cardinality(Checking) \in Nat
  /\ NotifyingOne \in SUBSET Submitters /\ IsFiniteSet(NotifyingOne)
  /\ Cardinality(NotifyingOne) \in Nat
<1>1. Checking \in SUBSET Workers /\ NotifyingOne \in SUBSET Submitters
  BY DEF Checking, NotifyingOne
<1>2. IsFiniteSet(Checking) /\ IsFiniteSet(NotifyingOne)
  BY <1>1, FS_Subset, WorkersAssumption, SubmittersAssumption
<1> QED BY <1>1, <1>2, FS_CardinalityType

\* Nobody sleeps before the pool exists.
LEMMA WakeupInit == Init => NoLostWakeup
BY DEF Init, NoLostWakeup, Waiting

\* A queued task, a notification and a worker that goes to sleep keep the
\* balance NoLostWakeup states, in whatever order they interleave.
LEMMA WakeupNext == TypeInv /\ NoLostWakeup /\ [Next]_vars => NoLostWakeup'
<1> SUFFICES ASSUME TypeOK, NoLostWakeup, [Next]_vars, Waiting' # {}
             PROVE  Len(tasks') <= Cardinality(Checking') + Cardinality(NotifyingOne')
  BY DEF TypeInv, NoLostWakeup
<1>0. /\ Len(tasks) \in Nat
      /\ Cardinality(Checking) \in Nat /\ Cardinality(NotifyingOne) \in Nat
  BY ThreadSetsFinite, LenProperties DEF TypeOK
<1>1. ASSUME NEW w \in Workers, Checking' = Checking \cup {w}, w \notin Checking
      PROVE  Cardinality(Checking') = Cardinality(Checking) + 1
  BY <1>1, ThreadSetsFinite, FS_AddElement, ZenonT(30)
<1>2. ASSUME NEW w \in Workers, Checking' = Checking \ {w}, w \in Checking
      PROVE  Cardinality(Checking') = Cardinality(Checking) - 1
  BY <1>2, ThreadSetsFinite, FS_RemoveElement, ZenonT(30)
<1>3. ASSUME NEW w \in Workers, SpawnWorker(w) \/ SpuriousWakeup(w) \/ FinishIteration(w)
      PROVE  Len(tasks') <= Cardinality(Checking') + Cardinality(NotifyingOne')
  <2>1. Checking' = Checking \cup {w} /\ w \notin Checking
    BY <1>3 DEF SpawnWorker, SpuriousWakeup, FinishIteration, Checking, TypeOK
  <2>2. tasks' = tasks /\ NotifyingOne' = NotifyingOne
    BY <1>3 DEF SpawnWorker, SpuriousWakeup, FinishIteration, NotifyingOne, queueVars
  <2>3. CASE Waiting # {}
    <3>1. Cardinality(Checking') = Cardinality(Checking) + 1 BY <2>1, <1>1, ZenonT(30)
    <3> QED BY <2>2, <2>3, <3>1, <1>0 DEF NoLostWakeup
  <2>4. CASE Waiting = {}
    BY <1>3, <2>4 DEF SpawnWorker, SpuriousWakeup, FinishIteration, Waiting, TypeOK
  <2> QED BY <2>3, <2>4
<1>4. ASSUME NEW w \in Workers, Wait(w)
      PROVE  Len(tasks') <= Cardinality(Checking') + Cardinality(NotifyingOne')
  <2>1. Len(tasks') = 0 BY <1>4, EmptySeq DEF Wait, WaitPredicate, queueVars
  <2>2. Cardinality(Checking') \in Nat /\ NotifyingOne' = NotifyingOne
    <3>1. Checking' = Checking \ {w} BY <1>4 DEF Wait, Checking, TypeOK
    <3>2. IsFiniteSet(Checking \ {w}) BY ThreadSetsFinite, FS_RemoveElement
    <3> QED BY <1>4, <3>1, <3>2, FS_CardinalityType DEF Wait, NotifyingOne
  <2> QED BY <2>1, <2>2, <1>0
<1>5. ASSUME NEW w \in Workers, Pop(w) \/ Return(w)
      PROVE  Len(tasks') <= Cardinality(Checking') + Cardinality(NotifyingOne')
  <2>1. /\ Checking' = Checking \ {w} /\ w \in Checking
        /\ NotifyingOne' = NotifyingOne /\ Waiting' = Waiting
    BY <1>5 DEF Pop, Return, Checking, NotifyingOne, Waiting, TypeOK
  <2>2. Cardinality(Checking') = Cardinality(Checking) - 1 /\ Cardinality(Checking) > 0
    <3>1. Cardinality(Checking') = Cardinality(Checking) - 1 BY <2>1, <1>2
    <3>2. Cardinality(Checking) # 0 BY <2>1, ThreadSetsFinite, FS_EmptySet
    <3> QED BY <3>1, <3>2, <1>0
  <2>3. CASE Pop(w)
    <3>1. Len(tasks') = Len(tasks) - 1 BY <2>3, HeadTailProperties DEF Pop, TypeOK
    <3> QED BY <2>1, <2>2, <3>1, <1>0 DEF NoLostWakeup
  <2>4. CASE Return(w)
    <3>1. Len(tasks') = 0 BY <2>4, EmptySeq DEF Return, queueVars
    <3> QED BY <2>1, <2>2, <3>1, <1>0
  <2> QED BY <1>5, <2>3, <2>4
<1>6. ASSUME NEW s \in Submitters, NEW t \in Tasks, SubmitAccepted(s, t)
      PROVE  Len(tasks') <= Cardinality(Checking') + Cardinality(NotifyingOne')
  <2>1. /\ NotifyingOne' = NotifyingOne \cup {s} /\ s \notin NotifyingOne
        /\ Checking' = Checking /\ Waiting' = Waiting
    BY <1>6 DEF SubmitAccepted, CanSubmit, NotifyingOne, Checking, Waiting, workerVars, TypeOK
  <2>2. Cardinality(NotifyingOne') = Cardinality(NotifyingOne) + 1
    BY <2>1, ThreadSetsFinite, FS_AddElement, ZenonT(30)
  <2>3. Len(tasks') = Len(tasks) + 1
    BY <1>6, AppendProperties DEF SubmitAccepted, TypeOK
  <2> QED BY <2>1, <2>2, <2>3, <1>0 DEF NoLostWakeup
<1>7. ASSUME NEW s \in Submitters, NotifyOne(s)
      PROVE  Len(tasks') <= Cardinality(Checking') + Cardinality(NotifyingOne')
  <2>1. NotifyingOne' = NotifyingOne \ {s} /\ s \in NotifyingOne /\ tasks' = tasks
    BY <1>7 DEF NotifyOne, NotifyingOne, queueVars, TypeOK
  <2>2. Cardinality(NotifyingOne') = Cardinality(NotifyingOne) - 1
    BY <2>1, ThreadSetsFinite, FS_RemoveElement, ZenonT(30)
  <2>3. Waiting # {} BY <1>7 DEF NotifyOne, Waiting
  <2>4. PICK w \in Waiting : workerPc' = [workerPc EXCEPT ![w] = "check"]
    BY <1>7, <2>3 DEF NotifyOne
  <2>5. w \in Workers /\ Checking' = Checking \cup {w} /\ w \notin Checking
    BY <2>4 DEF Waiting, Checking, TypeOK
  <2>6. Cardinality(Checking') = Cardinality(Checking) + 1 BY <2>5, <1>1
  <2> QED BY <2>1, <2>2, <2>3, <2>6, <1>0 DEF NoLostWakeup
<1>8. ASSUME UNCHANGED <<tasks, workerPc>>, NotifyingOne' = NotifyingOne
      PROVE  Len(tasks') <= Cardinality(Checking') + Cardinality(NotifyingOne')
  BY <1>8 DEF NoLostWakeup, Waiting, Checking
<1>9. ASSUME NEW s \in Submitters, NEW t \in Tasks, SubmitRejected(s, t)
      PROVE  Len(tasks') <= Cardinality(Checking') + Cardinality(NotifyingOne')
  BY <1>8, <1>9 DEF SubmitRejected, NotifyingOne, queueVars, workerVars
<1>10. ASSUME NEW s \in Submitters, BeginShutdown(s)
       PROVE  Len(tasks') <= Cardinality(Checking') + Cardinality(NotifyingOne')
  BY <1>8, <1>10 DEF BeginShutdown, NotifyingOne, workerVars, TypeOK
<1>11. ASSUME WakeAll
       PROVE  Len(tasks') <= Cardinality(Checking') + Cardinality(NotifyingOne')
  BY <1>11 DEF WakeAll, Waiting
<1>12. ASSUME NEW w \in Workers, RunTask(w)
       PROVE  Len(tasks') <= Cardinality(Checking') + Cardinality(NotifyingOne')
  <2>1. Checking' = Checking /\ Waiting' = Waiting
    BY <1>12 DEF RunTask, Checking, Waiting, TypeOK
  <2> QED BY <1>12, <2>1 DEF RunTask, NoLostWakeup, NotifyingOne, queueVars
<1>13. CASE Constructed \/ SpawnFails \/ OwnerBeginShutdown \/ Join
  BY <1>8, <1>13 DEF Constructed, SpawnFails, OwnerBeginShutdown, Join, NotifyingOne,
    queueVars, workerVars
<1>14. CASE UNCHANGED vars
  BY <1>8, <1>14 DEF vars, queueVars, workerVars, NotifyingOne
<1> QED
  BY <1>3, <1>4, <1>5, <1>6, <1>7, <1>9, <1>10, <1>11, <1>12, <1>13, <1>14
  DEF Next, OwnerStep, OwnerNotifyAll, SubmitterStep, NotifyAll, WorkerStep

\* No wakeup is lost: while a worker sleeps, each queued task has an awake
\* worker on its way to the queue or a notify_one still to be issued.
THEOREM WakeupsAreNotLost == Spec => []NoLostWakeup
BY WakeupInit, WakeupNext, AlwaysTypeInv, PTL DEF Spec

-----------------------------------------------------------------------------
(* ThreadPool implements TaskExecutor.                                     *)

\* The initial state maps to the initial state of TaskExecutor.
LEMMA ExecutorInit == Init => Executor!Init
BY DEF Init, Executor!Init

\* Every step of the pool maps to a step of TaskExecutor or to a stutter.
LEMMA ExecutorNext ==
  TypeInv /\ QueueInv /\ RunsOnce /\ [Next]_vars => [Executor!Next]_(Executor!abstractVars)
<1> SUFFICES ASSUME TypeInv, QueueInv, RunsOnce, [Next]_vars
             PROVE  Executor!Next \/ UNCHANGED Executor!abstractVars
  OBVIOUS
<1>1. ASSUME UNCHANGED <<tasks, finished, rejected, stopping, task>>,
             \A w \in Workers : (workerPc'[w] = "run") = (workerPc[w] = "run")
      PROVE  UNCHANGED Executor!abstractVars
  BY <1>1 DEF Executor!abstractVars
<1>2. Submitted = Executor!Known
  <2>1. Range(accepted) = Range(started) \cup Range(tasks)
    BY RangeConcatenation DEF TypeInv, TypeOK, QueueInv, FifoNoLoss
  <2> QED BY <2>1 DEF Submitted, Executor!Known, RunsOnce, Range
<1>3. ASSUME NEW s \in Submitters, NEW t \in Tasks, SubmitAccepted(s, t) PROVE Executor!Next
  <2>1. Executor!Accept(t)
    BY <1>2, <1>3, LenProperties, CapacityAssumption
    DEF SubmitAccepted, CanSubmit, SubmitRejects, workerVars, Executor!Accept, TypeInv, TypeOK
  <2> QED BY <2>1 DEF Executor!Next
<1>4. ASSUME NEW s \in Submitters, NEW t \in Tasks, SubmitRejected(s, t) PROVE Executor!Next
  <2>1. Executor!Refuse(t)
    BY <1>2, <1>4
    DEF SubmitRejected, CanSubmit, SubmitRejects, queueVars, workerVars, Executor!Refuse
  <2> QED BY <2>1 DEF Executor!Next
<1>5. ASSUME NEW w \in Workers, Pop(w) PROVE Executor!Next
  <2>1. RunningTasks' = RunningTasks \cup {Head(tasks)}
    BY <1>5 DEF Pop, RunningTasks, TypeInv, TypeOK
  <2>2. Executor!Start BY <1>5, <2>1, ZenonT(30) DEF Pop, RunningTasks, Executor!Start
  <2> QED BY <2>2 DEF Executor!Next
<1>6. ASSUME NEW w \in Workers, RunTask(w) PROVE Executor!Next
  <2>1. task[w] \in RunningTasks /\ task[w] \in Tasks
    BY <1>6 DEF RunTask, RunningTasks, TypeInv, HoldsTask
  <2>2. RunningTasks' = RunningTasks \ {task[w]}
    <3>1. /\ task' = task /\ workerPc[w] = "run"
          /\ \A v \in Workers : (workerPc'[v] = "run") = (v # w /\ workerPc[v] = "run")
      BY <1>6 DEF RunTask, TypeInv, TypeOK
    <3> QED BY <3>1 DEF RunningTasks, RunsOnce
  <2>3. PICK t \in Tasks : t = task[w] BY <2>1
  <2>4. Executor!Finish(t)
    BY <1>6, <2>1, <2>2, <2>3 DEF RunTask, RunningTasks, queueVars, Executor!Finish
  <2> QED BY <2>4 DEF Executor!Next
<1>7. ASSUME NEW w \in Workers, FinishIteration(w) PROVE UNCHANGED Executor!abstractVars
  <2>1. RunningTasks' = RunningTasks
    BY <1>7 DEF FinishIteration, RunningTasks, TypeInv, TypeOK
  <2> QED BY <1>7, <2>1 DEF FinishIteration, RunningTasks, queueVars, historyVars,
        Executor!abstractVars
<1>8. ASSUME NEW w \in Workers, Wait(w) \/ SpuriousWakeup(w) \/ Return(w)
      PROVE  UNCHANGED Executor!abstractVars
  BY <1>1, <1>8 DEF Wait, SpuriousWakeup, Return, queueVars, historyVars, TypeInv, TypeOK
<1>9. ASSUME UNCHANGED <<tasks, finished, rejected, workerVars>>, stopping' = TRUE
      PROVE  Executor!Next
  BY <1>9 DEF workerVars, Executor!Next, Executor!Close
<1>10. ASSUME NEW s \in Submitters, NotifyOne(s) \/ NotifyAll(s)
       PROVE  UNCHANGED Executor!abstractVars
  BY <1>1, <1>10 DEF NotifyOne, NotifyAll, WakeAll, Waiting, queueVars, historyVars,
    TypeInv, TypeOK
<1>11. ASSUME NEW s \in Submitters, BeginShutdown(s) PROVE Executor!Next
  BY <1>9, <1>11 DEF BeginShutdown, historyVars
<1>12. CASE SpawnFails \/ OwnerBeginShutdown
  BY <1>9, <1>12, ZenonT(30) DEF SpawnFails, OwnerBeginShutdown, historyVars
<1>13. CASE Constructed \/ OwnerNotifyAll \/ Join \/ \E w \in Workers : SpawnWorker(w)
  BY <1>1, <1>13 DEF Constructed, OwnerNotifyAll, Join, SpawnWorker, WakeAll, Waiting,
    queueVars, workerVars, historyVars, TypeInv, TypeOK
<1>14. CASE UNCHANGED vars
  BY <1>1, <1>14 DEF vars, queueVars, workerVars, historyVars
<1> QED
  BY <1>3, <1>4, <1>5, <1>6, <1>7, <1>8, <1>10, <1>11, <1>12, <1>13, <1>14
  DEF Next, OwnerStep, SubmitterStep, WorkerStep

\* The pool keeps the promise TaskExecutor makes to its callers.
THEOREM Implements == Spec => ImplementsTaskExecutor
<1>1. Spec => []RunsOnce BY TasksRunOnce
<1> QED BY ExecutorInit, ExecutorNext, AlwaysTypeInv, AlwaysQueueInv, <1>1, PTL
    DEF Spec, ImplementsTaskExecutor, Executor!Spec
=============================================================================
