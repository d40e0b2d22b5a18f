# Verification of the IoT fleet gateway

TLA+ models of the gateway in `src/src`, TLC runs over small instances of them,
and TLAPS proofs, for every instance, of the request pool, the TCP server, the parser,
the ring buffer, the rate limiter and the request path that joins them. `PROJECT.json` lists
components, runs, mutants, the map from definitions to source lines, findings,
hazards and theorems.

## 1. The system

One process. `main` reads its settings, installs signal handlers, registers the
routes and calls `TCPServer::start`.

| Part | Source | State it owns | Modelled in |
|---|---|---|---|
| request pool | `network/thread_pool.h` | bounded task queue, `stopping`, `busy_threads`, threads | `TaskExecutor`, `ThreadPool` |
| TCP server | `network/tcp_server.*` | shutdown flag; per worker: listener, eventfd, completion queue, `outstanding_tasks`, `draining` | `TcpServer` |
| epoll loop | `network/epoll_loop.*` | interest masks | `TcpServer` |
| connection manager | `network/connection_manager.*` | connections by descriptor number | `TcpServer` |
| start, routes, signals | `main.cpp`, `http/router.*` | settings, route table | `Gateway`; signals in `TcpServer` |
| configuration | `core/config.*` | none after the start | `Config` |
| persistent log | `storage/mmap_log.*` | segment files, mapping, index, next offset | `DurableLog`, `MmapLog` |
| recent cache | `storage/circular_buffer.h` | ring of recent messages | `CircularBuffer` |
| HTTP parser | `http/http_parser.*` | buffer and verdict per connection | `HttpParser`; its verdicts in `TcpServer` |
| rate limiter | `security/rate_limiter.*` | a token bucket per address | `WindowLimiter`, `RateLimiter` |
| metrics | `monitoring/metrics.*` | counters | `Metrics`; `open_connections` in `TcpServer` |
| response, logger | `http/http_response.*`, `core/logger.h` | none that interacts | not modelled |

Interaction: an epoll worker reads and parses a request, marks the connection in
flight and submits a task. A pool thread asks the rate limiter, routes it (the
handler may append to the log, read the recent messages or assemble the metrics),
pushes a completion into the worker's queue and writes to its eventfd. The
worker matches the completion with a connection by descriptor and generation and
sends the response. A shutdown makes every worker stop accepting, close what is
idle and stay until its tasks and connections are gone.

## 2. The modules

### TaskExecutor, ThreadPool, ThreadPoolProofs

`ThreadPool` has one action per critical section and one per thing done after the
mutex is released: `SubmitAccepted` / `SubmitRejected` and `NotifyOne` for
`submit`, `BeginShutdown` and `NotifyAll` for `begin_shutdown`, `Wait`, `Return`,
`Pop`, `RunTask`, `FinishIteration` for `worker_loop`. The constructor may fail
part way (`SpawnFails`). A condition variable may wake by itself
(`SpuriousWakeup`). `accepted`, `started`, `finished` and `rejected` are history.
`TaskExecutor` is what callers may rely on; `ThreadPool` refines it by mapping
`tasks` to the queue and the tasks of workers in `"run"` to the running set.

### TcpServer, TcpServerStepsProofs, TcpServerProofs

A step is what one thread does between two accesses to state it shares with
another thread or with the kernel. The kernel part is a descriptor table with
lowest-free numbering, client sockets, listener backlogs, eventfds and epoll masks
per worker. `handle_event` for a client is one step (`SocketEvent`), written as a
function of the connection it works on (`HandleSocket`, `HandleClient`, `Dispatch`,
`FlushClient`, `CloseClient`). `accept_clients` is split at the flag check and at
`accept`; `process_completions` at the read of the eventfd, the swap of the queue
and each completion; the drain loops at each connection; the end of `worker_loop`
at each `close`. The closure given to the pool is `PoolPop`, `PoolRespond` (push)
and `PoolNotify` (write). The pool is seen through `Accepts`, the verdict
`ThreadPool` gives.

Bytes are units; a client sends chunks, and which chunk completes or spoils a
request is chosen when it is parsed. A finished parser repeats its verdict, as
`HTTPParser::feed` does. `replies`, `dispatches`, `answered` and `signalled` are
history.

Assumptions: allocation does not fail; `epoll_wait` fails only with EINTR; the
events of a batch come in any order; epoll descriptors take no number. `EpollWait`
returns all ready descriptors, where `EpollLoop::run` takes at most 64 in one batch and
leaves the others to the next; no property depends on the size of a batch, and the
instances have fewer descriptors than that.

### DurableLog, MmapLog

`files` is the page cache, `disk` the synchronized content, `linked` the number of
durable directory entries. A segment is a header and `SegmentUnits` units; a record
is a header unit, whose CRC identifies the payload, and its payload units.
`append` is `AppendCall`, then `AppendPayload` (cache and payload) and
`AppendHeader`; a rollover is `Rollover` (sync) and the four steps of
`create_segment`. `OpenExisting` is the whole of recovery: scan, truncation, index
and cache. Every operation holds the mutex, so only crashes see its steps.
`ProcessCrash` loses memory and keeps `files`. `PowerFailure` leaves each
unsynchronized unit old, new or torn and may drop an entry that is not durable.
`DurableLog` is an append-only sequence with a durable prefix. `MCMmapLog` stores
the mapped values of its two variables in the state (they are functions of it), so
that TLC computes them once per state.

Assumptions: the file system orders recovery's truncation before later writes to
that file; entries of a directory become durable in order of creation; a file that
`create_segment` removes after an error stays removed; offsets do not overflow.

### CircularBuffer, CircularBufferProofs

Constructor, `push` and `get_recent` as operators on a record of the three members,
with the index arithmetic of the code. `MmapLog` uses it for `recent_cache`.

### HttpParser, HttpParserProofs

A stream is a sequence of symbols: CR, LF, a well-formed request line, the part of a
field up to its value (`Field`), and any other byte. The sizes that the limits see are
numbers of symbols. `feed` has one action per way out: finished before, over the
total limit, no separator yet, bad headers, good headers, body. `ParseHeaders` is
`parse_headers` on the symbols before the separator. Case folding and trimming are in
the name and the value a `Field` carries. As in the code, a request line that is
directly followed by the empty line is refused as a missing request line (line 63
compares with `>=`).

### WindowLimiter, RateLimiter

`WindowLimiter` says what a limiter should do without buckets: a request is admitted
when in every window of time that ends now the address stays within the capacity and
the refill of the window. `RateLimiter` is `check` in three steps, one per lock:
`Lookup` under the shared lock, `Create` under the exclusive lock, `Consume` under the
mutex of the entry. Tokens are integers, `Unit` of them to a request; the doubles of
the code are taken to be exact, and time is whole. Its lemmas are in the first part of
`GatewayPathProofs`, its theorems in `GatewayProofs`.

### Metrics

Counters per worker, and the scrape in the parts that are read at different times:
`stats()` under the mutex of the pool, the totals, the histogram under its mutex, the
workers. A relaxed load returns any value between what the last common lock made
visible and what has been written (`poolSync`, `durationSync` record the former).

`Metrics::epoll_workers` is an array of 256, and the counters of a worker with a higher
index are not kept (`metrics.cpp:31`, `45`, `61`). The configuration does not allow more,
but a worker count of 0 stands for `hardware_concurrency`, which is not capped
(`tcp_server.cpp:112`). The model has no such test; `WorkersAssumption` of `Gateway` limits
it to 256 workers, and above that neither the counters per worker nor the theorems about
them describe the code.

### Config

Tokens instead of text: an option, or a value with the number that `parse_number`
makes of it. `FromArgs`, `LoadFile`, `Apply` and `Validate` are the functions of the
code. The code has three corners that the model keeps. A `--config` that stands where
another option expects its value is an option to the first pass and a value to the
second. `--config ""` means the defaults. A file is validated by itself, so the command
line cannot repair it.

### Gateway, GatewayPathProofs, GatewayCountsProofs, GatewayProofs

Joins `Config`, `RateLimiter`, `Metrics`, the pool and the log along the path of a
request: `StartRequest`, `Submit` or `Refuse`, `TakeTask`, the three steps of `check`,
a handler, `PushCompletion`, `SwapCompletions`, `ProcessCompletion`, `ObserveRequest`.
`commandLine` is there until `main` has read it; `Exit` is every way not to start. The
pool and the log do what `TaskExecutor` and `DurableLog` promise: a bounded queue in
order, and an append-only sequence (an offset is a position in it). `append` may also
throw, which the task turns into a 500. Sockets, signals and the drain are left to
`TcpServer`; a request whose connection fails before it is submitted is `DropRequest`.
Clients that go away later change nothing here, since a completion is counted whether
or not its connection is still there.

`gateway_http_requests_total` counts at `StartRequest`, so it includes requests that
are refused with 503, which its HELP text ("sent to the router") does not say.

## 3. Runs

| Run | Instance | Shows |
|---|---|---|
| `pool` | 2 workers, 2 submitters, 3 tasks, capacity 2 | FIFO without loss, each task once, bound, no lost wakeup, drained shutdown, refinement of `TaskExecutor`; accepted tasks finish and a shutdown ends every worker |
| `server_safety` | 1 worker with 2 clients and 2 workers with 1 client, 5 descriptor numbers | responses reach their requester; counts exact; notifications not lost; loops end with nothing left; `start` returns with everything closed |
| `server_drain` | 1 worker, 1 client, 2 chunks | no connection in flight without an owed answer, none unarmed; a shutdown ends; requests do not hold connections for ever |
| `log_crashes` | 2 segments of 3 units, records of 1 and 2 units, cache of 2 | memory equals what a restart rebuilds; refinement of `DurableLog`; only a missing header of the newest segment blocks a restart |
| `http_parser` | streams of a request line, up to two fields of 13 kinds and 5 endings, four pairs of limits, chunks of 1 to 3 symbols | the verdict and the request do not depend on the cuts; memory within the limits; one framing |
| `gateway` | 66 command lines; 1 worker, 2 threads, 3 requests, 2 addresses, one tick of the clock | the last setting wins; the log holds what was acknowledged and no more than the limiter allows; `/recent` shows confirmed messages; every request is counted once and answered; a scrape is consistent; refinement of `WindowLimiter` |

Bounds. Two workers, two submitters and a capacity below the number of tasks are
enough for full queues, racing notifications and workers that leave one by one.
Two clients are what it takes to reuse a number, and two workers to fail, drain and exit
beside each other; `FewActors` keeps TLC from having both at once (when two clients have
connected only one worker runs, and `main` is still creating the other or failed to). A send buffer of one unit against
responses of two makes every response a partial send. A segment of three units
with records of one and two reaches exact fits, padding at the end of a sealed
segment, and rollovers; two segments give a sealed and a newest one; a cache of two
wraps. Chunks of up to three symbols cut the separator of four in every way, and the
header limits lie at, above and below the sizes of the requests. In `gateway` two
threads let two checks of one new address meet, a capacity of one or two against two
or three requests reaches the limit, one tick refills, and a queue of one refuses; the
requests come in the pairs, and the one triple, in which they interact. Constants of
`recent_messages_response` are 3 instead of 100 and 1000. Deadlock checking is off
because all of these systems may stop, or come to the end of their input.

Fairness. Pool: every thread that can run does, and tasks return; nothing is
assumed of callers or of spurious wakeups. Server: the threads run, and a client
reads what is buffered for it. The last is an assumption on the environment: the
code has no drain deadline, so a client that neither reads nor closes holds the
drain. Gateway: the threads of the workers and the pool run; nothing is assumed of
clients or of the clock.

### Disagreements with the documentation

Each is a run that TLC ends with a counterexample; quotations are in `PROJECT.json`.

| Run | Behaviour of the code |
|---|---|
| `server_duplicate_dispatch` | input behind a complete request, read while the response is partly sent, dispatches the request again |
| `server_outbound_limit` | the 503 of a request that is dispatched again and refused is appended to unsent output without the limit check, so a connection stays open with more than `max_outbound_bytes` to send |
| `server_loop_lifetime` | a pool thread writes to the eventfd of a worker that has returned |
| `server_double_close` | a drain begun in `handle_event` closes the listener's number twice |
| `server_stale_event` | an event of a closed connection closes the client that took over its number |
| `log_flush_durable` | after a crash before the directory sync, `flush` does not make messages durable |

Two more are visible in the models without a run of their own. A signal delivered after
`main` installed its handler and before `start` resets `shutdown_requested`
(`tcp_server.cpp:129`) is forgotten; `ShutdownEnds` therefore speaks of requests that
come later. A crash between the creation of a segment file and its header
(`mmap_log.cpp:308`, `342`) leaves a newest segment that every later start refuses;
`OnlyHeaderBlocksRestart` states that nothing else does.

## 4. Proofs

`ThreadPoolProofs` proves, for all finite sets of workers and submitters, any set of
tasks and any positive capacity (the `ASSUME`s of `ThreadPool`):

- `TypeCorrect`, from `TypeInv`: types, plus `busy_threads` = number of workers
  between pop and decrement (without it the decrement could leave `Nat`), plus a
  running worker holds a task;
- `QueueIsFifo`, `QueueIsBounded`, from `QueueInv` (both together, given `TypeInv`);
- `TasksRunOnce`, where a pop needs that the head of the queue is fresh, which
  follows from `accepted = started \o tasks` without duplicates;
- `WorkersReturnDrained`, `NobodySleepsAfterStop`, `JoinDrains`, from `ShutdownInv`,
  which adds that only a fully constructed pool accepts tasks and that a joined
  pool has no running thread;
- `ClosedForGood`, an action property;
- `WakeupsAreNotLost`, inductive given `TypeInv`: each action moves at most one
  thread between the sets that are counted;
- `Implements`: every step of the pool is a step of `TaskExecutor` or a stutter.

The three properties behind `WorkersReturnDrained`, `NobodySleepsAfterStop` and
`ClosedForGood` are proved and not model-checked by `pool`.

`TcpServerProofs`: every safety invariant of `server_safety` and `server_drain`, for all finite sets
of workers and pool threads, any set of clients and any numbers of descriptors, chunks
and bytes that satisfy the `ASSUME`s of `TcpServer`. The inductive invariant `IInv`, with
what each part is needed for:

- `TypeOK` and `ChunksSent`: types, and no client has more unread than it sent;
- `OutstandingIsExact` and `GaugeIsExact`, inductive with the types: `outstanding_tasks`
  is the sum of four counts, and each step moves one request from one to the next
  (`OutstandingExact`, `GaugeExact`);
- `ClaimsValid`: what the pool and the completion queues hold for a worker carries a
  generation already given, and if the connection under that number has the same
  generation, it has the same client. A generation is given once, so a number that is
  reused does not revive an old claim. With `Fit` in `ConnectionsSound` this gives
  `RepliesReachRequesters`;
- `ConnectionsSound`: per connection, what the code keeps of the outbound limit
  (`OvershootBounded`: the limit holds while a request was dispatched once, and each repeated
  dispatch adds at most one 503; the limit itself is violated, see
  `server_outbound_limit`), that output exists only after a dispatch or a malformed request, and that the epoll mask
  matches what the connection waits for (`NeverStalled`);
- `InFlightOwed`: a connection in flight has its claim in the pool or in a queue
  (`InFlightAnswered`);
- `Noticed`: `NoLostCompletion` for every place of the loop between two reads of the
  eventfd, not for `epoll_wait` alone (`CompletionsNoticed`). It needs that the eventfd
  is still the worker's own, which `Phases` and `DescriptorsOwned` say;
- `IdleOutsideLoop`: `should_stop` lets a loop end with count and map at zero
  (`ExitIsClean`, with `OutstandingIsExact`);
- `DescriptorsOwned`, `Phases`, `ConnectionsOwned`: every open descriptor belongs to a
  worker that will close it, and a worker that may still accept is not disturbed by
  another one. The exception, a listener number closed twice during a drain
  (`server_double_close`), closes a number too often and never leaves one open, which
  is why `ReturnIsClean` holds all the same.

`TcpServerStepsProofs` holds what a handler does to the one connection it works on and
what each step does to each part of `IInv`; `TcpServerProofs` holds the counts, the
induction, the types and the theorems.

`CircularBufferProofs`: for every positive capacity, `NewBufferIsEmpty`, and
`PushKeepsNewest`: after a push `get_recent(n)` returns the newest `n` of what the buffer
held followed by the pushed value, wherever the ring wraps. What a whole sequence of
pushes leaves follows by an induction that the prover cannot make; `log_crashes` checks
it on its instance.

`HttpParserProofs`: for all streams, limits and chunk sizes, `VerdictIndependentOfChunks`,
`RequestMemoryBounded` (of a request that is still incomplete) and `RequestsFramedOnce`.
The first makes one exception, which the code has: a chunk
larger than a limit may be refused by the test of the total size before it is parsed
(the server reads 1 KiB at a time against limits of 16 KiB and 1 MiB). The inductive invariant says what the buffer is: before the
headers are parsed all that was received, without a separator in it; afterwards all
that follows the separator, with the parsed request and length those of the received
prefix. It needs that appending to a text does not move its first separator.
`RequestsFramedOnce` adds that the lines of a header block are taken one by one and each
content length must equal the one before.

`GatewayPathProofs` holds what the proofs about the gateway share, for all finite sets of
workers (at most 256) and threads, any requests and command lines, assuming that a parsed
request has an address and a count that is a number or absent, and that `DefaultCount` is a
number. Its first part is about the limiter by itself, its second shows `Places`: a request
is in one place only (with a worker, in the queue or with a thread) and has no answer until
a thread gives it one. The lemmas assume `FiniteSetFacts`, what they use of finite sets; the
modules with the theorems derive it from the library.

`GatewayCountsProofs`: `EveryRequestCounted` and `TextsConsistent`, from `CInv`: what each
worker counts of its own (`Local`); that the requests started are those completed, in the
pool, in completion queues or dropped (`Flow`, an equation between sums over workers, kept
because a step moves one request from one term to another); that what a lock made visible
of a counter is no more than its value (`PoolVisible`); and what a scrape has read so far
(`Scrapes`). The sums are handled by induction over finite sets of workers.

`GatewayProofs`:

- `ChecksShareOneBucket`, for all sets of addresses and threads, every capacity and rate: the
  entry that a thread carries from one lock to the next is the one of its address.
- `LimiterImplementsWindow`, from `BucketsAccount`: what a bucket holds is exactly what the
  fullest window leaves of its allowance, so the bucket is non-empty just when every window
  has room. This equality, an inequality for all windows and an equality for one, is what
  makes the invariant inductive through refill and cap.
- `GatewayImplementsWindow`: every step of the gateway is a step of the limiter or leaves it
  alone, which needs that the request a thread checks comes from an address.
- `AcknowledgedIsLogged`, from `GInv`: log and answers agree, offset by offset (`LogMatches`);
  and of each address, messages in the log and requests that have passed the limiter but not
  yet the handler together are no more than its admissions (`Admitted`), which the limiter
  bounds.
- `RecentShowsConfirmed`, from `RInv`: a message that was confirmed before a request was
  dispatched lies in the log below the length the log had at the dispatch, and an answer to
  `/recent` shows the end of a log that has grown since.

Model-checked only: the liveness properties of the runs `pool`, `server_drain` and `gateway`
(liveness under fairness is out of the prover's reach), every property of `MmapLog`, and
`ConfigurationSettled`.

## 5. Plan

1. Proofs for `MmapLog`: what a scan keeps when a record is appended.
2. Proof of `ConfigurationSettled` for command lines of every length.

## 6. Not modelled

- Formatting of responses, JSON and metrics text, and logging: text without effect on
  the rest.
- The route `/test/hold`, added when `GATEWAY_TEST_MODE` is set, which only sleeps.
- Notation of numbers, blanks and comments in the configuration; negative and
  fractional numbers (an unsigned setting given as a negative number wraps before it is
  validated).
- Rounding of the doubles in the token buckets.
- Accepted-connection counters, histogram bounds and uptime of the metrics.
- Allocation failure; `epoll_wait` failing for another reason than EINTR.
- Removal of rate-limiter buckets: the code never removes one.

The definitions named `Bug...` are not part of any specification: each is a plausible
mistake that, put in place of the definition after it, makes a property fail.
