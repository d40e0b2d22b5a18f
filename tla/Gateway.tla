------------------------------ MODULE Gateway ------------------------------
(***************************************************************************)
(* A request inside the process, from the parsed request to the counted    *)
(* response: main.cpp, Router::route and its handlers, the request path of *)
(* tcp_server.cpp, and the components they join - Config, RateLimiter,     *)
(* Metrics, the pool of threads and the log.                               *)
(*                                                                         *)
(* Sockets, readiness, flushing and shutdown are in TcpServer; here a      *)
(* request is one dispatch by handle_client.  The pool and the log do what *)
(* TaskExecutor and DurableLog promise.                                    *)
(*                                                                         *)
(* Definitions named Bug... are plausible mistakes in the definition that  *)
(* follows them.                                                           *)
(***************************************************************************)
EXTENDS Config, RateLimiter, Metrics, FiniteSetsExt

CONSTANTS
  Requests,       \* dispatches
  CommandLines,   \* each with the files there are and what the requests may carry
  DefaultCount, MaximumCount,   \* constants of recent_messages_response
  MaxTime         \* bound on the clock

NoQuery == -2   \* otherwise the number behind "count=", NaN for any other query

\* A request that is parsed comes from an address and may carry a number.
ASSUME GatewayAssumption ==
  /\ IsFiniteSet(Threads) /\ IsFiniteSet(Workers)
  /\ DefaultCount \in Nat
  /\ \A c \in CommandLines : \A f \in c.contents : \A r \in Requests :
       f[r].method \notin {"none", "malformed"} =>
         f[r].ip \in Addresses /\ f[r].query \in Nat \cup {NaN, NoQuery}

\* Metrics has room for the counters of 256 workers and skips any further one.
MetricsWorkers == 256
ASSUME WorkersAssumption == Cardinality(Workers) <= MetricsWorkers

VARIABLES
  commandLine,    \* argv and the files, until main has read them
  settings,       \* the settings of config that matter here
  content,        \* request -> its address, route, body and query
  progress,       \* request -> how far the worker is with it
  worker,         \* worker -> where its thread is
  tasks,          \* the queue of the pool
  busy_threads,
  job,            \* thread -> the task it runs and where it is in it
  completions,    \* worker -> its queue of completed requests
  taken,          \* worker -> the completions it swapped out of that queue
  answers,        \* request -> its response
  log, opened,    \* the messages of storage_log and whether it is open
  receipts        \* history: request -> offsets confirmed before it was dispatched

poolVars == <<tasks, busy_threads, job>>
logVars == <<log, opened>>
requestVars == <<progress, worker, completions, taken, answers, receipts>>
startVars == <<commandLine, settings, content>>
vars == <<startVars, requestVars, poolVars, logVars, limiterVars, metricsVars>>

NoCommandLine == <<>>
NoSettings == [queue_capacity |-> 0, recent_capacity |-> 0]
NoAnswer == [status |-> 0]
NoContent == [method |-> "none"]   \* never sent
Poll == [at |-> "poll"]
Idle == [at |-> "idle"]

Status(code) == [status |-> code]

-----------------------------------------------------------------------------
(* main: the configuration, the server and its routes.                     *)

routes ==
  {<<"GET", "/health">>, <<"GET", "/connections">>, <<"GET", "/metrics">>, <<"GET", "/recent">>,
   <<"POST", "/publish">>, <<"GET", "/large-response">>}
RouteOf(r) == <<content[r].method, content[r].path>>

Init ==
  /\ commandLine \in CommandLines
  /\ settings = NoSettings
  /\ content = [r \in Requests |-> NoContent]
  /\ progress = [r \in Requests |-> "new"]
  /\ worker = [w \in Workers |-> Poll]
  /\ tasks = <<>> /\ busy_threads = 0
  /\ job = [t \in Threads |-> Idle]
  /\ completions = [w \in Workers |-> <<>>]
  /\ taken = [w \in Workers |-> <<>>]
  /\ answers = [r \in Requests |-> NoAnswer]
  /\ log = <<>> /\ opened = TRUE
  /\ receipts = [r \in Requests |-> {}]
  /\ LimiterInit /\ MetricsInit(Threads)

\* from_args fails, or the log file, storage_log or the pool cannot be set up.
Exit ==
  /\ commandLine # NoCommandLine
  /\ commandLine' = NoCommandLine
  /\ UNCHANGED <<settings, content, requestVars, poolVars, logVars, limiterVars, metricsVars>>

Start ==
  /\ commandLine # NoCommandLine
  /\ LET config == FromArgs(commandLine.args, commandLine.files) IN
     /\ config # Failed
     /\ settings' = [queue_capacity |-> config.task_queue_capacity,
                     recent_capacity |-> config.recent_message_capacity]
     /\ Construct(config.rate_limit_capacity * Unit, config.rate_limit_refill_rate)
  /\ commandLine' = NoCommandLine
  /\ content' \in commandLine.contents
  /\ UNCHANGED <<requestVars, poolVars, logVars, metricsVars>>

Serving == settings # NoSettings

-----------------------------------------------------------------------------
(* The epoll worker.                                                       *)

Confirmed == {answers[r].offset : r \in {q \in Requests : progress[q] = "delivered" /\ answers[q].status = 201}}

\* handle_client: feed reports an error.
RejectMalformed(w, r) ==
  /\ worker[w] = Poll /\ progress[r] = "new" /\ content[r].method = "malformed"
  /\ progress' = [progress EXCEPT ![r] = "rejected"]
  /\ counters' = ParseError(w)
  /\ UNCHANGED <<startVars, worker, completions, taken, answers, receipts, poolVars, logVars, limiterVars,
                 poolSync, observed, durationSync, depth, high_water, scrapes>>

\* handle_client: feed reports a complete request.
StartRequest(w, r) ==
  /\ worker[w] = Poll /\ progress[r] = "new" /\ content[r].method \notin {"none", "malformed"}
  /\ progress' = [progress EXCEPT ![r] = "pending"]
  /\ counters' = RequestStarted(w)
  /\ worker' = [worker EXCEPT ![w] = [at |-> "submit", request |-> r]]
  /\ receipts' = [receipts EXCEPT ![r] = IF content[r].path = "/recent" THEN Confirmed ELSE {}]
  /\ UNCHANGED <<startVars, completions, taken, answers, poolVars, logVars, limiterVars,
                 poolSync, observed, durationSync, depth, high_water, scrapes>>

\* modify_fd fails: the connection is closed and the request with it.
DropRequest(w) ==
  /\ worker[w].at = "submit"
  /\ progress' = [progress EXCEPT ![worker[w].request] = "dropped"]
  /\ worker' = [worker EXCEPT ![w] = Poll]
  /\ UNCHANGED <<startVars, completions, taken, answers, receipts, poolVars, logVars, limiterVars, metricsVars>>

Submit(w) ==
  /\ worker[w].at = "submit" /\ Len(tasks) < settings.queue_capacity
  /\ tasks' = Append(tasks, [request |-> worker[w].request, worker |-> w])
  /\ poolSync' = [poolSync EXCEPT ![w] = counters[w].requests]
  /\ worker' = [worker EXCEPT ![w] = Poll]
  /\ UNCHANGED <<startVars, progress, completions, taken, answers, receipts, busy_threads, job, logVars,
                 limiterVars, counters, observed, durationSync, depth, high_water, scrapes>>

\* request_completed up to duration_mutex, and the delivery of the answer.
Deliver(w, r, status) ==
  /\ counters' = RequestCompleted(w, status)
  /\ progress' = [progress EXCEPT ![r] = "delivered"]
  /\ worker' = [worker EXCEPT ![w] = [at |-> "observe"]]

\* The pool is full: 503.
Refuse(w) ==
  /\ worker[w].at = "submit" /\ Len(tasks) >= settings.queue_capacity
  /\ poolSync' = [poolSync EXCEPT ![w] = counters[w].requests]
  /\ answers' = [answers EXCEPT ![worker[w].request] = Status(503)]
  /\ Deliver(w, worker[w].request, 503)
  /\ UNCHANGED <<startVars, completions, taken, receipts, poolVars, logVars, limiterVars,
                 observed, durationSync, depth, high_water, scrapes>>

\* process_completions, under completion_mutex.
SwapCompletions(w) ==
  /\ worker[w] = Poll /\ completions[w] # <<>>
  /\ taken' = [taken EXCEPT ![w] = completions[w]]
  /\ completions' = [completions EXCEPT ![w] = <<>>]
  /\ CompletionQueueSize(w, 0)
  /\ worker' = [worker EXCEPT ![w] = [at |-> "completions"]]
  /\ UNCHANGED <<startVars, progress, answers, receipts, poolVars, logVars, limiterVars,
                 counters, poolSync, observed, durationSync, scrapes>>

ProcessCompletion(w) ==
  /\ worker[w].at = "completions"
  /\ taken' = [taken EXCEPT ![w] = Tail(@)]
  /\ Deliver(w, Head(taken[w]), answers[Head(taken[w])].status)
  /\ UNCHANGED <<startVars, completions, answers, receipts, poolVars, logVars, limiterVars,
                 poolSync, observed, durationSync, depth, high_water, scrapes>>

BugObserveRequest(w) ==
  /\ worker[w].at = "observe"
  /\ ObserveDuration(w)
  /\ worker' = [worker EXCEPT ![w] = Poll]
  /\ UNCHANGED <<startVars, progress, completions, taken, answers, receipts, poolVars, logVars, limiterVars,
                 counters, poolSync, depth, high_water, scrapes>>
\* The end of request_completed, and the next completion if there is one.
ObserveRequest(w) ==
  /\ worker[w].at = "observe"
  /\ ObserveDuration(w)
  /\ worker' = [worker EXCEPT ![w] = IF taken[w] = <<>> THEN Poll ELSE [at |-> "completions"]]
  /\ UNCHANGED <<startVars, progress, completions, taken, answers, receipts, poolVars, logVars, limiterVars,
                 counters, poolSync, depth, high_water, scrapes>>

-----------------------------------------------------------------------------
(* A pool thread: the task, Router::route and the handlers.                *)

\* The response is made.
Answer(t, response) ==
  /\ answers' = [answers EXCEPT ![job[t].request] = response]
  /\ job' = [job EXCEPT ![t].at = "push"]

TakeTask(t) ==
  /\ job[t] = Idle /\ tasks # <<>>
  /\ tasks' = Tail(tasks)
  /\ busy_threads' = busy_threads + 1
  /\ job' = [job EXCEPT ![t] =
       [at |-> "check", request |-> Head(tasks).request, worker |-> Head(tasks).worker]]
  /\ UNCHANGED <<startVars, requestVars, logVars, limiterVars, metricsVars>>

\* rate_limiter.check, and 429 when it returns false.
CheckLookup(t) ==
  /\ job[t].at = "check"
  /\ Lookup(t, content[job[t].request].ip)
  /\ UNCHANGED <<startVars, requestVars, poolVars, logVars, metricsVars>>

CheckCreate(t) ==
  /\ job[t].at = "check"
  /\ Create(t)
  /\ UNCHANGED <<startVars, requestVars, poolVars, logVars, metricsVars>>

CheckConsume(t) ==
  /\ job[t].at = "check"
  /\ Consume(t)
  /\ \/ Allows(t) /\ job' = [job EXCEPT ![t].at = "route"] /\ UNCHANGED answers
     \/ ~Allows(t) /\ Answer(t, Status(429))
  /\ UNCHANGED <<startVars, progress, worker, completions, taken, receipts, tasks, busy_threads, logVars, metricsVars>>

Routed(t, route) == job[t].at = "route" /\ RouteOf(job[t].request) = route

\* 404, and the handlers that only read a constant or a gauge.
RouteSimple(t) ==
  /\ job[t].at = "route"
  /\ \/ RouteOf(job[t].request) \notin routes /\ Answer(t, Status(404))
     \/ /\ RouteOf(job[t].request) \in {<<"GET", "/health">>, <<"GET", "/connections">>, <<"GET", "/large-response">>}
        /\ Answer(t, Status(200))
  /\ UNCHANGED <<startVars, progress, worker, completions, taken, receipts, tasks, busy_threads, logVars,
                 limiterVars, metricsVars>>

RoutePublish(t) ==
  /\ Routed(t, <<"POST", "/publish">>)
  /\ LET r == job[t].request IN
     \/ content[r].body = "" /\ Answer(t, Status(400)) /\ UNCHANGED logVars
     \/ /\ content[r].body # "" /\ opened
        /\ log' = Append(log, r)
        /\ Answer(t, [status |-> 201, offset |-> Len(log) + 1])
        /\ UNCHANGED opened
     \* append throws: it is closed, the message does not fit, or a segment cannot be made
     \/ /\ content[r].body # ""
        /\ Answer(t, Status(500))
        /\ opened' \in {opened, FALSE}
        /\ UNCHANGED log
  /\ UNCHANGED <<startVars, progress, worker, completions, taken, receipts, tasks, busy_threads,
                 limiterVars, metricsVars>>

BugMostRecent(count) == SubSeq(log, 1, Min({count, settings.recent_capacity, Len(log)}))
MostRecent(count) ==
  LET n == Min({count, settings.recent_capacity, Len(log)})
  IN SubSeq(log, Len(log) - n + 1, Len(log))

RouteRecent(t) ==
  /\ Routed(t, <<"GET", "/recent">>)
  /\ LET query == content[job[t].request].query
         count == IF query = NoQuery THEN DefaultCount ELSE query
     IN \/ /\ query = NaN \/ query > MaximumCount
           /\ Answer(t, Status(400))
        \/ /\ query # NaN /\ query <= MaximumCount
           /\ Answer(t, [status |-> 200, messages |-> MostRecent(count)])
  /\ UNCHANGED <<startVars, progress, worker, completions, taken, receipts, tasks, busy_threads, logVars,
                 limiterVars, metricsVars>>

\* metrics_text: stats(), then disk_usage_bytes, which may throw.
RouteMetrics(t) ==
  /\ Routed(t, <<"GET", "/metrics">>)
  /\ \/ /\ ScrapePool(t, busy_threads, Len(tasks))
        /\ job' = [job EXCEPT ![t].at = "scrape"]
        /\ UNCHANGED answers
     \/ Answer(t, Status(500)) /\ UNCHANGED scrapes
  /\ UNCHANGED <<startVars, progress, worker, completions, taken, receipts, tasks, busy_threads, logVars,
                 limiterVars, counters, poolSync, observed, durationSync, depth, high_water>>

Scrape(t) ==
  /\ job[t].at = "scrape"
  /\ \/ (ScrapeTotals(t) \/ ScrapeHistogram(t) \/ ScrapeWorkers(t)) /\ UNCHANGED <<answers, job>>
     \/ scrapes[t].step = "done" /\ scrapes' = [scrapes EXCEPT ![t] = NoScrape] /\ Answer(t, Status(200))
  /\ UNCHANGED <<startVars, progress, worker, completions, taken, receipts, tasks, busy_threads, logVars,
                 limiterVars, counters, poolSync, observed, durationSync, depth, high_water>>

\* The completion is queued for the worker, under completion_mutex.
PushCompletion(t) ==
  /\ job[t].at = "push"
  /\ LET w == job[t].worker IN
     /\ completions' = [completions EXCEPT ![w] = Append(@, job[t].request)]
     /\ CompletionQueueSize(w, Len(completions'[w]))
  /\ job' = [job EXCEPT ![t].at = "leave"]
  /\ UNCHANGED <<startVars, progress, worker, taken, answers, receipts, tasks, busy_threads, logVars, limiterVars,
                 counters, poolSync, observed, durationSync, scrapes>>

FinishTask(t) ==
  /\ job[t].at = "leave"
  /\ busy_threads' = busy_threads - 1
  /\ job' = [job EXCEPT ![t] = Idle]
  /\ UNCHANGED <<startVars, requestVars, tasks, logVars, limiterVars, metricsVars>>

-----------------------------------------------------------------------------
Tick ==
  /\ Serving /\ clock < MaxTime
  /\ Elapse
  /\ UNCHANGED <<startVars, requestVars, poolVars, logVars, metricsVars>>

WorkerStep(w) ==
  \/ DropRequest(w) \/ Submit(w) \/ Refuse(w)
  \/ SwapCompletions(w) \/ ProcessCompletion(w) \/ ObserveRequest(w)

ThreadStep(t) ==
  \/ TakeTask(t) \/ CheckLookup(t) \/ CheckCreate(t) \/ CheckConsume(t)
  \/ RouteSimple(t) \/ RoutePublish(t) \/ RouteRecent(t) \/ RouteMetrics(t) \/ Scrape(t)
  \/ PushCompletion(t) \/ FinishTask(t)

Next ==
  \/ Exit \/ Start \/ Tick
  \/ \E w \in Workers : WorkerStep(w) \/ \E r \in Requests : RejectMalformed(w, r) \/ StartRequest(w, r)
  \/ \E t \in Threads : ThreadStep(t)

\* The threads of the workers and of the pool are scheduled.
Fairness ==
  /\ \A w \in Workers : WF_vars(WorkerStep(w))
  /\ \A t \in Threads : WF_vars(ThreadStep(t))

Spec == Init /\ [][Next]_vars /\ Fairness

-----------------------------------------------------------------------------
(* Properties.                                                             *)

\* What main reads from the command line and the file is the last setting given
\* for each key, or nothing at all.
ConfigurationSettled ==
  commandLine # NoCommandLine => LastSettingWins(commandLine.args, commandLine.files)

\* The log holds what was acknowledged with 201 and nothing else, at the offset
\* the client was told; and no address gets more into it than the limiter allows,
\* however its requests meet in the pool.
LogHoldsAcknowledged ==
  /\ \A r \in Requests : answers[r].status = 201 =>
       answers[r].offset \in DOMAIN log /\ log[answers[r].offset] = r
  /\ \A i \in DOMAIN log : answers[log[i]].status = 201
  /\ \A ip \in Addresses :
       Unit * Cardinality({i \in DOMAIN log : content[log[i]].ip = ip}) <= capacity + refill_rate * clock

\* An answer to GET /recent holds every message that was confirmed to its
\* publisher before the request was dispatched, but for those that newer messages
\* pushed out of what was asked for or of the cache.
RecentSeesConfirmed ==
  \A r \in Requests : answers[r].status = 200 /\ content[r].path = "/recent" =>
    LET shown == {answers[q].offset : q \in Range(answers[r].messages)}
        asked == IF content[r].query = NoQuery THEN DefaultCount ELSE content[r].query
    IN \A o \in receipts[r] \ shown :
         /\ \A n \in shown : n > o
         /\ Cardinality(shown) = Min({asked, settings.recent_capacity})

\* While no worker is inside a handler, every request that was started is counted
\* as completed, or is in the pool, or waits in a completion queue, or was
\* dropped with its connection; what was completed is counted once under its
\* status class and once in the histogram, and the reported depths are those of
\* the queues.
NothingUncounted ==
  (\A w \in Workers : worker[w] = Poll) =>
    /\ RequestsTotal = CompletedTotal + Len(tasks)
         + Cardinality({t \in Threads : job[t].at \notin {"idle", "leave"}})
         + SumFunction([w \in Workers |-> Len(completions[w])])
         + Cardinality({r \in Requests : progress[r] = "dropped"})
    /\ \A w \in Workers :
         /\ counters[w].completed = SumFunction(counters[w].classes)
         /\ counters[w].completed = observed[w]
         /\ depth[w] = Len(completions[w]) /\ high_water[w] >= depth[w]

\* A request that was started is answered, unless its connection was lost before
\* it reached the pool.
EveryRequestAnswered == []<>(\A r \in Requests : progress[r] # "pending")
=============================================================================
