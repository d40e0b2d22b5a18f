---------------------------- MODULE TaskExecutor ----------------------------
(***************************************************************************)
(* What the request pool promises to its callers, with the threads, the    *)
(* mutex and the condition variable left out.  A task that is accepted is  *)
(* started once, in the order of acceptance, and finishes; after the       *)
(* executor is closed nothing is accepted, and what was accepted before    *)
(* still runs.  ThreadPool implements this specification.                  *)
(***************************************************************************)
EXTENDS Naturals, Sequences

CONSTANTS
  Tasks,          \* the closures handed to submit()
  QueueCapacity   \* the most tasks that may wait at a time

VARIABLES
  queue,      \* accepted tasks that have not started, oldest first
  running,    \* tasks that have started and not finished
  finished,   \* tasks that have finished
  refused,    \* tasks that were not accepted
  closed      \* no further task is accepted

abstractVars == <<queue, running, finished, refused, closed>>

Known ==
  {queue[i] : i \in DOMAIN queue} \cup running \cup finished \cup refused

Init ==
  /\ queue = <<>>
  /\ running = {}
  /\ finished = {}
  /\ refused = {}
  /\ closed = FALSE

Accept(t) ==
  /\ t \notin Known
  /\ ~closed
  /\ Len(queue) < QueueCapacity
  /\ queue' = Append(queue, t)
  /\ UNCHANGED <<running, finished, refused, closed>>

Refuse(t) ==
  /\ t \notin Known
  /\ closed \/ Len(queue) >= QueueCapacity
  /\ refused' = refused \cup {t}
  /\ UNCHANGED <<queue, running, finished, closed>>

Start ==
  /\ queue # <<>>
  /\ queue' = Tail(queue)
  /\ running' = running \cup {Head(queue)}
  /\ UNCHANGED <<finished, refused, closed>>

Finish(t) ==
  /\ t \in running
  /\ running' = running \ {t}
  /\ finished' = finished \cup {t}
  /\ UNCHANGED <<queue, refused, closed>>

Close ==
  /\ closed' = TRUE
  /\ UNCHANGED <<queue, running, finished, refused>>

Next ==
  \/ \E t \in Tasks : Accept(t) \/ Refuse(t) \/ Finish(t)
  \/ Start
  \/ Close

Spec == Init /\ [][Next]_abstractVars
=============================================================================
