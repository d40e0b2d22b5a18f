------------------------------ MODULE Metrics ------------------------------
(***************************************************************************)
(* Metrics of src/src/monitoring/metrics.cpp: counters that the epoll      *)
(* workers and the pool threads write with relaxed atomics, and the text   *)
(* a GET /metrics handler assembles from them while they change.           *)
(*                                                                         *)
(* Every count is kept per epoll worker; a total such as requests is the   *)
(* sum.  A relaxed load promises little: it returns a value between what   *)
(* a lock made visible to the reader and what has been written.            *)
(*                                                                         *)
(* Connections are counted in TcpServer, with the connections.             *)
(*                                                                         *)
(* Definitions named Bug... are plausible mistakes in the definition that  *)
(* follows them.                                                           *)
(***************************************************************************)
EXTENDS Naturals, Functions

CONSTANT Workers   \* epoll workers

VARIABLES
  counters,       \* worker -> its counters
  poolSync,       \* worker -> its requests when it last unlocked the mutex of the pool
  observed,       \* worker -> the completions it added to the histogram
  durationSync,   \* worker -> its completions when it last unlocked duration_mutex
  depth, high_water,   \* worker -> its completion queue, as reported
  scrapes         \* pool thread -> what prometheus_text has read so far

metricsVars == <<counters, poolSync, observed, durationSync, depth, high_water, scrapes>>

StatusClasses == 1..5
NoScrape == [step |-> "none"]

MetricsInit(threads) ==
  /\ counters = [w \in Workers |->
       [requests |-> 0, completed |-> 0, blocked |-> 0, parse_errors |-> 0,
        classes |-> [c \in StatusClasses |-> 0]]]
  /\ poolSync = [w \in Workers |-> 0]
  /\ observed = [w \in Workers |-> 0]
  /\ durationSync = [w \in Workers |-> 0]
  /\ depth = [w \in Workers |-> 0]
  /\ high_water = [w \in Workers |-> 0]
  /\ scrapes = [t \in threads |-> NoScrape]

\* Each is the new value of counters.
RequestStarted(w) == [counters EXCEPT ![w].requests = @ + 1]
ParseError(w) == [counters EXCEPT ![w].parse_errors = @ + 1]

BugRequestCompleted(w, status) ==
  [counters EXCEPT ![w].completed = @ + 1,
                   ![w].blocked = IF status = 429 THEN @ + 1 ELSE @]
RequestCompleted(w, status) ==
  [counters EXCEPT ![w].completed = @ + 1,
                   ![w].classes[status \div 100] = @ + 1,
                   ![w].blocked = IF status = 429 THEN @ + 1 ELSE @]

\* The end of request_completed, under duration_mutex.
ObserveDuration(w) ==
  /\ observed' = [observed EXCEPT ![w] = @ + 1]
  /\ durationSync' = [durationSync EXCEPT ![w] = counters[w].completed]

CompletionQueueSize(w, size) ==
  /\ depth' = [depth EXCEPT ![w] = size]
  /\ high_water' = [high_water EXCEPT ![w] = IF size > @ THEN size ELSE @]

-----------------------------------------------------------------------------
(* metrics_text and prometheus_text, run by thread t.                      *)

RequestsTotal == SumFunction([w \in Workers |-> counters[w].requests])
CompletedTotal == SumFunction([w \in Workers |-> counters[w].completed])

BugScrapePool(t, busy_threads, queue_length) ==
  scrapes' = [scrapes EXCEPT ![t] =
    [step |-> "totals", in_pool |-> busy_threads + queue_length, visible |-> 0]]
\* stats() under the mutex of the pool, which shows what the workers counted
\* before they unlocked it.
ScrapePool(t, busy_threads, queue_length) ==
  scrapes' = [scrapes EXCEPT ![t] =
    [step |-> "totals", in_pool |-> busy_threads + queue_length,
     visible |-> SumFunction(poolSync)]]

\* The loads of the totals.
ScrapeTotals(t) ==
  /\ scrapes[t].step = "totals"
  /\ \E n \in scrapes[t].visible..RequestsTotal :
       scrapes' = [scrapes EXCEPT ![t] =
         [step |-> "histogram", in_pool |-> @.in_pool, requests |-> n]]

\* The histogram, under duration_mutex.
ScrapeHistogram(t) ==
  /\ scrapes[t].step = "histogram"
  /\ scrapes' = [scrapes EXCEPT ![t] =
       [step |-> "workers", in_pool |-> @.in_pool, requests |-> @.requests,
        observed |-> SumFunction(observed),
        visible |-> SumFunction(durationSync)]]

\* The loads of the workers' counters, and the finished text.
ScrapeWorkers(t) ==
  /\ scrapes[t].step = "workers"
  /\ \E n \in scrapes[t].visible..CompletedTotal :
       scrapes' = [scrapes EXCEPT ![t] =
         [step |-> "done", in_pool |-> @.in_pool, requests |-> @.requests,
          observed |-> @.observed, completed |-> n]]

-----------------------------------------------------------------------------
(* Properties.                                                             *)

\* One text is consistent although its parts are read at different times: the
\* requests it reports include every request it reports queued or running, and
\* the workers' completions include every completion of the histogram.
ScrapeConsistent ==
  \A t \in DOMAIN scrapes : scrapes[t].step = "done" =>
    scrapes[t].requests >= scrapes[t].in_pool /\ scrapes[t].completed >= scrapes[t].observed
=============================================================================
