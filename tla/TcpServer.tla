------------------------------ MODULE TcpServer ------------------------------
(***************************************************************************)
(* The network core of the gateway: src/src/network/tcp_server.cpp with    *)
(* the EpollLoop and the ConnectionManager it uses, the start and stop of  *)
(* the server in main.cpp, and the request pool as seen by its callers.    *)
(*                                                                         *)
(* Threads: main, one thread per epoll worker, the pool threads.  Each     *)
(* step is what one thread does between two accesses to state it shares    *)
(* with another thread or with the kernel; one handled socket event is one *)
(* step.  Descriptors are numbers, allocated lowest first, so that a       *)
(* number can be closed and reused.                                        *)
(*                                                                         *)
(* Bytes are counted in units.  What a client sends is a number of chunks, *)
(* one per read(); which chunk completes a request is decided when it is   *)
(* parsed.                                                                 *)
(*                                                                         *)
(* Definitions named Bug... are plausible mistakes in the definition that  *)
(* follows them.  Nothing refers to them; put in its place, each breaks a  *)
(* property below.                                                         *)
(***************************************************************************)
EXTENDS Naturals, Sequences, FiniteSets

CONSTANTS
  Workers,        \* epoll workers
  Clients,        \* TCP connections that may arrive, each at most once
  PoolThreads,    \* threads of the request pool
  MaxFd,          \* descriptors 1..MaxFd may be open at a time
  QueueCapacity,  \* task_queue_capacity
  MaxOutbound,    \* max_outbound_bytes, in units
  ResponseSizes,  \* sizes a serialized response may have, in units
  SendBuffer,     \* units the kernel buffers for a client that does not read
  MaxChunks,      \* bound: chunks one client sends
  NoConn,         \* no Connection at this descriptor
  NoJob           \* an idle pool thread

ASSUME SizesAssumption ==
  /\ MaxFd \in Nat /\ QueueCapacity \in Nat \ {0} /\ MaxOutbound \in Nat \ {0}
  /\ ResponseSizes \subseteq Nat \ {0} /\ SendBuffer \in Nat \ {0} /\ MaxChunks \in Nat
ASSUME ThreadsAssumption == IsFiniteSet(Workers) /\ IsFiniteSet(PoolThreads)

VARIABLES
  \* kernel
  fdTable,       \* what each descriptor number refers to
  sock,          \* the client sockets, with what the peer has done
  backlog,       \* clients waiting in each worker's listener
  eventfd,       \* whether each worker's completion eventfd is readable
  interest,      \* each worker's epoll interest mask per descriptor
  \* process
  shutdown_requested, worker_failed, mainPc,
  signalled,     \* history: SIGINT or SIGTERM was delivered
  open_connections,
  \* request pool
  poolQueue, poolStopping, poolThread,
  \* one entry per epoll worker
  pc,
  batch,         \* events of the current epoll_wait not handled yet
  resume,        \* where to continue after completions or a sweep
  sweep,         \* descriptors the current drain loop still has to visit
  listener_fd, completion_fd, draining, outstanding_tasks, next_generation,
  completions,   \* the queue shared with the pool threads
  completed,     \* completions swapped out and not applied yet
  connections

kernelVars == <<fdTable, sock, backlog, interest>>
processVars == <<shutdown_requested, worker_failed, mainPc, signalled>>
poolVars == <<poolQueue, poolStopping, poolThread>>
loopVars == <<listener_fd, completion_fd, draining, outstanding_tasks,
              next_generation, completions, completed>>
vars == <<kernelVars, eventfd, processVars, open_connections, poolVars,
          pc, batch, resume, sweep, loopVars, connections>>

Fds == 1..MaxFd
NoFd == 0                       \* -1 in the code
ErrorSize == 1                  \* the 400 and 503 responses
Free == [kind |-> "free"]
Listener(w) == [kind |-> "listener", of |-> w]
Eventfd(w) == [kind |-> "eventfd", of |-> w]
Client(c) == [kind |-> "client", of |-> c]

FreeFds == {f \in Fds : fdTable[f] = Free}
Lowest(S) == CHOOSE f \in S : \A g \in S : f <= g
Goto(w, label) == pc' = [pc EXCEPT ![w] = label]
Open(w) == {f \in Fds : connections[w][f] # NoConn}
Live(w) == pc[w] \notin {"new", "init", "exited"}

NewSock ==
  [state |-> "new", rx |-> 0, sent |-> 0, unread |-> 0,
   fin |-> FALSE, reset |-> FALSE, answered |-> FALSE]

NewConnection(c, g) ==
  [client |-> c, generation |-> g, parser |-> "Incomplete", pending |-> 0,
   peer_closed |-> FALSE, request_in_flight |-> FALSE,
   replies |-> {}, dispatches |-> 0]

Init ==
  /\ fdTable = [f \in Fds |-> Free]
  /\ sock = [c \in Clients |-> NewSock]
  /\ backlog = [w \in Workers |-> {}]
  /\ eventfd = [w \in Workers |-> FALSE]
  /\ interest = [w \in Workers |-> [f \in Fds |-> {}]]
  /\ shutdown_requested = FALSE
  /\ worker_failed = FALSE
  /\ mainPc = "boot"
  /\ signalled = FALSE
  /\ open_connections = 0
  /\ poolQueue = <<>>
  /\ poolStopping = FALSE
  /\ poolThread = [p \in PoolThreads |-> NoJob]
  /\ pc = [w \in Workers |-> "new"]
  /\ batch = [w \in Workers |-> {}]
  /\ resume = [w \in Workers |-> "event"]
  /\ sweep = [w \in Workers |-> {}]
  /\ listener_fd = [w \in Workers |-> NoFd]
  /\ completion_fd = [w \in Workers |-> NoFd]
  /\ draining = [w \in Workers |-> FALSE]
  /\ outstanding_tasks = [w \in Workers |-> 0]
  /\ next_generation = [w \in Workers |-> 1]
  /\ completions = [w \in Workers |-> <<>>]
  /\ completed = [w \in Workers |-> <<>>]
  /\ connections = [w \in Workers |-> [f \in Fds |-> NoConn]]

-----------------------------------------------------------------------------
(* Peers and signals: the environment.                                     *)

Peer(c) ==
  UNCHANGED <<fdTable, eventfd, interest, processVars, open_connections, poolVars,
              pc, batch, resume, sweep, loopVars, connections>>

\* The kernel hands a new connection to one of the SO_REUSEPORT listeners.
PeerConnects(c) ==
  /\ sock[c].state = "new"
  /\ \E w \in Workers :
       /\ \E f \in Fds : fdTable[f] = Listener(w)
       /\ backlog' = [backlog EXCEPT ![w] = @ \cup {c}]
  /\ sock' = [sock EXCEPT ![c].state = "open"]
  /\ Peer(c)

PeerCanAct(c) == sock[c].state = "open" /\ ~sock[c].reset

PeerSends(c) ==
  /\ PeerCanAct(c) /\ ~sock[c].fin
  /\ sock[c].sent < MaxChunks
  /\ sock' = [sock EXCEPT ![c].sent = @ + 1, ![c].rx = @ + 1]
  /\ Peer(c) /\ UNCHANGED backlog

PeerReads(c) ==
  /\ PeerCanAct(c)
  /\ sock[c].unread > 0
  /\ sock' = [sock EXCEPT ![c].unread = @ - 1]
  /\ Peer(c) /\ UNCHANGED backlog

\* shutdown(SHUT_WR): the peer stops writing and may still read.
PeerHalfCloses(c) ==
  /\ PeerCanAct(c) /\ ~sock[c].fin
  /\ sock' = [sock EXCEPT ![c].fin = TRUE]
  /\ Peer(c) /\ UNCHANGED backlog

PeerResets(c) ==
  /\ PeerCanAct(c)
  /\ sock' = [sock EXCEPT ![c].reset = TRUE, ![c].rx = 0, ![c].unread = 0]
  /\ Peer(c) /\ UNCHANGED backlog

\* handle_shutdown_signal, installed by main before it calls start().
Signal ==
  /\ ~signalled
  /\ mainPc # "returned"
  /\ signalled' = TRUE
  /\ shutdown_requested' = TRUE
  /\ UNCHANGED <<kernelVars, eventfd, worker_failed, mainPc, open_connections,
                 poolVars, pc, batch, resume, sweep, loopVars, connections>>

-----------------------------------------------------------------------------
(* main and TCPServer::start                                               *)

MainStep ==
  UNCHANGED <<kernelVars, eventfd, signalled, open_connections, poolQueue, poolThread,
              batch, resume, sweep, loopVars, connections>>

\* The flags are reset, the log is opened and the pool is created.
Start ==
  /\ mainPc = "boot"
  /\ shutdown_requested' = FALSE
  /\ worker_failed' = FALSE
  /\ mainPc' = "spawn"
  /\ MainStep /\ UNCHANGED <<poolStopping, pc>>

\* The log or the pool cannot be set up: start() returns false.
StartFails ==
  /\ mainPc = "boot"
  /\ shutdown_requested' = FALSE
  /\ worker_failed' = FALSE
  /\ mainPc' = "returned"
  /\ MainStep /\ UNCHANGED <<poolStopping, pc>>

SpawnWorker(w) ==
  /\ mainPc = "spawn"
  /\ pc[w] = "new"
  /\ Goto(w, "init")
  /\ mainPc' = IF \A v \in Workers \ {w} : pc[v] # "new" THEN "join" ELSE "spawn"
  /\ MainStep /\ UNCHANGED <<shutdown_requested, worker_failed, poolStopping>>

SpawnThrows ==
  /\ mainPc = "spawn"
  /\ worker_failed' = TRUE
  /\ shutdown_requested' = TRUE
  /\ mainPc' = "join"
  /\ MainStep /\ UNCHANGED <<poolStopping, pc>>

\* Every worker thread that was created has returned; stop the pool.
JoinWorkers ==
  /\ mainPc = "join"
  /\ \A w \in Workers : pc[w] \in {"new", "exited"}
  /\ poolStopping' = TRUE
  /\ mainPc' = "join_pool"
  /\ MainStep /\ UNCHANGED <<shutdown_requested, worker_failed, pc>>

JoinPool ==
  /\ mainPc = "join_pool"
  /\ poolQueue = <<>>
  /\ \A p \in PoolThreads : poolThread[p] = NoJob
  /\ mainPc' = "returned"
  /\ MainStep /\ UNCHANGED <<shutdown_requested, worker_failed, poolStopping, pc>>

-----------------------------------------------------------------------------
(* Pool threads: the closure that handle_client submits.                   *)

PoolStep ==
  UNCHANGED <<kernelVars, processVars, open_connections, poolStopping, pc, batch, resume,
              sweep, listener_fd, completion_fd, draining, outstanding_tasks,
              next_generation, completed, connections>>

PoolPop(p) ==
  /\ poolThread[p] = NoJob
  /\ poolQueue # <<>>
  /\ poolThread' = [poolThread EXCEPT ![p] = [phase |-> "route", job |-> Head(poolQueue)]]
  /\ poolQueue' = Tail(poolQueue)
  /\ PoolStep /\ UNCHANGED <<eventfd, completions>>

\* Route the request (an exception gives a 500) and push the completion.
PoolRespond(p) ==
  /\ poolThread[p] # NoJob
  /\ poolThread[p].phase = "route"
  /\ LET j == poolThread[p].job IN
     \E n \in ResponseSizes :
       completions' = [completions EXCEPT ![j.worker] = Append(@,
         [fd |-> j.fd, generation |-> j.generation, client |-> j.client, size |-> n])]
  /\ poolThread' = [poolThread EXCEPT ![p].phase = "notify"]
  /\ PoolStep /\ UNCHANGED <<eventfd, poolQueue>>

\* The write reaches the worker while its loop runs and owns its eventfd.
\* Once the worker has returned, its LoopState is gone and the descriptor is
\* closed: the write has no reader.
BugWakesIdleLoop(w) == pc[w] = "wait" /\ fdTable[completion_fd[w]] = Eventfd(w)
WakesLoop(w) == Live(w) /\ fdTable[completion_fd[w]] = Eventfd(w)

\* write(state.completion_fd)
PoolNotify(p) ==
  /\ poolThread[p] # NoJob
  /\ poolThread[p].phase = "notify"
  /\ LET w == poolThread[p].job.worker IN
     eventfd' = [eventfd EXCEPT ![w] = @ \/ WakesLoop(w)]
  /\ poolThread' = [poolThread EXCEPT ![p] = NoJob]
  /\ PoolStep /\ UNCHANGED <<completions, poolQueue>>

-----------------------------------------------------------------------------
(* Descriptors.                                                            *)

\* close(f): whatever the number refers to now is released, and epoll
\* forgets it.  Closing a listener resets the clients in its backlog.
\* socks holds the sockets as the handler leaves them before the close.
Close(f, socks) ==
  LET r == fdTable[f]
      gone(c) == r = Client(c) \/ \E w \in Workers : r = Listener(w) /\ c \in backlog[w]
  IN
  /\ fdTable' = [fdTable EXCEPT ![f] = Free]
  /\ interest' = [w \in Workers |-> [interest[w] EXCEPT ![f] = {}]]
  /\ backlog' = [w \in Workers |-> IF r = Listener(w) THEN {} ELSE backlog[w]]
  /\ sock' = [c \in Clients |->
       IF gone(c) THEN [socks[c] EXCEPT !.state = "closed", !.rx = 0, !.unread = 0]
                  ELSE socks[c]]

\* One connection while a handler works on it: the Connection (NoConn once
\* close_client ran), the socket behind its descriptor and its epoll mask.
View(w, f) ==
  [conn |-> connections[w][f],
   sock |-> IF fdTable[f].kind = "client" THEN sock[fdTable[f].of]
            ELSE [NewSock EXCEPT !.reset = TRUE],
   mask |-> interest[w][f]]

\* Write a view back; a view that lost its connection closes the descriptor.
Store(w, f, v) ==
  LET socks == IF fdTable[f].kind = "client"
               THEN [sock EXCEPT ![fdTable[f].of] = v.sock] ELSE sock
  IN
  /\ connections' = [connections EXCEPT ![w][f] = v.conn]
  /\ \/ /\ v.conn = NoConn
        /\ open_connections' = open_connections - 1
        /\ Close(f, socks)
     \/ /\ v.conn # NoConn
        /\ interest' = [interest EXCEPT ![w][f] = v.mask]
        /\ sock' = socks
        /\ UNCHANGED <<fdTable, backlog, open_connections>>

-----------------------------------------------------------------------------
(* Handlers of one connection, as functions of its view.                   *)

CloseClient(v) == [v EXCEPT !.conn = NoConn]

\* modify_fd, or close_client when epoll does not know the descriptor.
ModifyOrClose(v, mask) ==
  IF v.mask = {} THEN CloseClient(v) ELSE [v EXCEPT !.mask = mask]

\* The events a connection waits for while the socket takes no more output.
BugBlockedMask == {"IN", "RDHUP"}
BlockedMask == {"IN", "OUT", "RDHUP"}

\* flush_client: send until everything is out, the socket buffer is full, or
\* the socket fails.
FlushClient(v) ==
  LET room == SendBuffer - v.sock.unread
      n == IF v.conn.pending < room THEN v.conn.pending ELSE room
      sent == [v EXCEPT !.conn.pending = @ - n, !.sock.unread = @ + n]
  IN CASE v.conn.pending > 0 /\ v.sock.reset -> CloseClient(v)
       [] v.conn.pending > n /\ ~v.sock.reset -> ModifyOrClose(sent, BlockedMask)
       [] OTHER -> IF v.conn.peer_closed THEN CloseClient(sent)
                   ELSE ModifyOrClose(sent, {"IN", "RDHUP"})

\* Append n units of a response for client c; the connection is to be closed
\* once they are sent.
Reply(v, c, n) ==
  [v EXCEPT !.conn.pending = @ + n, !.conn.peer_closed = TRUE,
            !.conn.replies = @ \cup {c}, !.sock.answered = TRUE]

FitsOutbound(v, n) == v.conn.pending + n <= MaxOutbound

\* submit's verdict, as ThreadPool gives it.
Accepts == ~poolStopping /\ Len(poolQueue) < QueueCapacity

BugDispatchKeepsFlag(v) ==
  LET d == ModifyOrClose([v EXCEPT !.conn.request_in_flight = TRUE,
                                   !.conn.dispatches = @ + 1], {"RDHUP"})
  IN IF d.conn = NoConn \/ Accepts THEN d
     ELSE Reply(d, d.conn.client, ErrorSize)

\* The request is complete: mask the socket and hand the request to the
\* pool, or answer 503 at once.
Dispatch(v) ==
  LET d == ModifyOrClose([v EXCEPT !.conn.request_in_flight = TRUE,
                                   !.conn.dispatches = @ + 1], {"RDHUP"})
  IN IF d.conn = NoConn \/ Accepts THEN d
     ELSE Reply([d EXCEPT !.conn.request_in_flight = FALSE], d.conn.client, ErrorSize)

\* What the read loop of handle_client may find: the number of chunks it
\* reads and the parser's verdict on the last one.  "Incomplete" reads all of
\* them.  A parser that finished repeats its verdict on any further bytes.
Reads(v) ==
  CASE v.conn.parser = "Incomplete" ->
         {<<v.sock.rx, "Incomplete">>} \cup ((1..v.sock.rx) \X {"Complete", "Error"})
    [] v.conn.parser # "Incomplete" /\ v.sock.rx > 0 -> {<<1, v.conn.parser>>}
    [] OTHER -> {<<0, "Incomplete">>}

HandleClient(v, r) ==
  LET read == [v EXCEPT !.sock.rx = @ - r[1],
                        !.conn.parser = IF r[2] = "Incomplete" THEN @ ELSE r[2]]
      done == CASE v.sock.reset -> CloseClient(v)
                [] ~v.sock.reset /\ r[2] = "Incomplete" ->
                     [read EXCEPT !.conn.peer_closed = @ \/ v.sock.fin]
                [] ~v.sock.reset /\ r[2] = "Error" ->
                     IF FitsOutbound(read, ErrorSize)
                     THEN Reply(read, read.conn.client, ErrorSize) ELSE CloseClient(read)
                [] ~v.sock.reset /\ r[2] = "Complete" -> Dispatch(read)
  IN IF done.conn = NoConn \/ done.conn.request_in_flight THEN done ELSE FlushClient(done)

\* handle_event for a client socket.
HandleSocket(v, events, r) ==
  LET afterIn == IF "IN" \in events THEN HandleClient(v, r) ELSE v
      afterHup == IF afterIn.conn # NoConn /\ "RDHUP" \in events
                  THEN [afterIn EXCEPT !.conn.peer_closed = TRUE] ELSE afterIn
      afterOut == IF afterHup.conn # NoConn /\ "OUT" \in events
                  THEN FlushClient(afterHup) ELSE afterHup
      c == afterOut.conn
  IN IF "ERR" \in events THEN CloseClient(v)
     ELSE IF c # NoConn /\ ~c.request_in_flight /\ c.peer_closed /\ c.pending = 0
     THEN CloseClient(afterOut)
     ELSE afterOut

\* A completion meets the connection at its descriptor.
ApplyCompletion(v, k) ==
  LET idle == [v EXCEPT !.conn.request_in_flight = FALSE]
  IN IF FitsOutbound(idle, k.size) THEN FlushClient(Reply(idle, k.client, k.size))
     ELSE CloseClient([idle EXCEPT !.sock.answered = TRUE])

BugAppliesByDescriptor(conn, k) == conn # NoConn /\ conn.request_in_flight

CompletionApplies(conn, k) ==
  conn # NoConn /\ conn.generation = k.generation /\ conn.request_in_flight

\* The body of both drain loops.
BugDrainOnlyFlushes(v) == FlushClient(v)
DrainConnection(v) == IF v.conn.pending # 0 THEN FlushClient(v) ELSE CloseClient(v)

-----------------------------------------------------------------------------
(* Epoll workers.                                                          *)

\* Leaves alone what a worker's step seldom touches.
LoopStep == UNCHANGED <<mainPc, signalled, completion_fd, poolThread>>
KeepFlags == UNCHANGED <<shutdown_requested, worker_failed>>
KeepPool == UNCHANGED <<poolQueue, poolStopping>>
KeepTasks == UNCHANGED <<outstanding_tasks, completions, completed, eventfd>>
KeepDrain == UNCHANGED <<listener_fd, draining, resume, sweep>>
KeepSockets == UNCHANGED <<kernelVars, connections, open_connections>>

\* worker_loop up to loop.run: listener, eventfd and their registration.
WorkerInit(w) ==
  /\ pc[w] = "init"
  /\ Cardinality(FreeFds) >= 2
  /\ LET l == Lowest(FreeFds)
         e == Lowest(FreeFds \ {l})
     IN /\ listener_fd' = [listener_fd EXCEPT ![w] = l]
        /\ completion_fd' = [completion_fd EXCEPT ![w] = e]
        /\ fdTable' = [fdTable EXCEPT ![l] = Listener(w), ![e] = Eventfd(w)]
        /\ interest' = [interest EXCEPT ![w][l] = {"IN"}, ![w][e] = {"IN"}]
  /\ Goto(w, "wait")
  /\ UNCHANGED <<sock, backlog, eventfd, processVars, open_connections, poolVars, batch,
                 resume, sweep, draining, outstanding_tasks, next_generation,
                 completions, completed, connections>>

\* One of those calls fails: what was opened is closed and the server stops.
WorkerInitFails(w) ==
  /\ pc[w] = "init"
  /\ worker_failed' = TRUE
  /\ shutdown_requested' = TRUE
  /\ Goto(w, "exited")
  /\ LoopStep /\ KeepPool /\ KeepTasks /\ KeepDrain /\ KeepSockets
  /\ UNCHANGED <<batch, next_generation>>

Ready(w, f) ==
  LET r == fdTable[f]
      s == sock[r.of]
      level == CASE r.kind = "eventfd" -> IF eventfd[r.of] THEN {"IN"} ELSE {}
                 [] r.kind = "listener" -> IF backlog[r.of] # {} THEN {"IN"} ELSE {}
                 [] r.kind = "client" ->
                      (IF s.rx > 0 \/ s.fin THEN {"IN"} ELSE {})
                      \cup (IF s.fin THEN {"RDHUP"} ELSE {})
                      \cup (IF s.unread < SendBuffer THEN {"OUT"} ELSE {})
      hard == IF r.kind = "client" /\ s.reset THEN {"ERR"} ELSE {}
  IN IF interest[w][f] = {} THEN {} ELSE (interest[w][f] \cap level) \cup hard

\* epoll_wait: every ready descriptor (EpollLoop takes 64 at a time, more than
\* any instance has), or none after 100 ms.
EpollWait(w) ==
  /\ pc[w] = "wait"
  /\ batch' = [batch EXCEPT ![w] =
       {[fd |-> f, events |-> Ready(w, f)] : f \in {g \in Fds : Ready(w, g) # {}}}]
  /\ Goto(w, "event")
  /\ LoopStep /\ KeepFlags /\ KeepPool /\ KeepTasks /\ KeepDrain /\ KeepSockets
  /\ UNCHANGED next_generation

\* handle_event for e, the next of the batch; it drains first when the server
\* is stopping, and that is a step of its own.
TakeEvent(w, e) ==
  /\ pc[w] = "event"
  /\ ~shutdown_requested \/ draining[w]
  /\ batch' = [batch EXCEPT ![w] = @ \ {e}]

IgnoredEvent(w, e) ==
  /\ TakeEvent(w, e)
  /\ e.fd # completion_fd[w]
  /\ \/ e.fd = listener_fd[w] /\ draining[w]
     \/ e.fd # listener_fd[w] /\ connections[w][e.fd] = NoConn
  /\ LoopStep /\ KeepFlags /\ KeepPool /\ KeepTasks /\ KeepDrain /\ KeepSockets
  /\ UNCHANGED <<pc, next_generation>>

ListenerEvent(w, e) ==
  /\ TakeEvent(w, e)
  /\ e.fd = listener_fd[w] /\ ~draining[w]
  /\ Goto(w, "accept")
  /\ LoopStep /\ KeepFlags /\ KeepPool /\ KeepTasks /\ KeepDrain /\ KeepSockets
  /\ UNCHANGED next_generation

\* EPOLLERR or EPOLLHUP on the listener.
ListenerError(w, e) ==
  /\ TakeEvent(w, e)
  /\ e.fd = listener_fd[w] /\ ~draining[w]
  /\ worker_failed' = TRUE
  /\ shutdown_requested' = TRUE
  /\ LoopStep /\ KeepPool /\ KeepTasks /\ KeepDrain /\ KeepSockets
  /\ UNCHANGED <<pc, next_generation>>

SocketEvent(w, e) ==
  /\ TakeEvent(w, e)
  /\ e.fd \notin {completion_fd[w], listener_fd[w]}
  /\ connections[w][e.fd] # NoConn
  /\ LET v == View(w, e.fd)
         c == connections[w][e.fd]
     IN \E r \in IF "IN" \in e.events THEN Reads(v) ELSE {<<0, "Incomplete">>} :
          /\ Store(w, e.fd, HandleSocket(v, e.events, r))
          /\ IF r[2] = "Complete" /\ "ERR" \notin e.events /\ ~v.sock.reset
                  /\ v.mask # {} /\ Accepts
             THEN /\ poolQueue' = Append(poolQueue, [worker |-> w, fd |-> e.fd,
                                     generation |-> c.generation, client |-> c.client])
                  /\ outstanding_tasks' = [outstanding_tasks EXCEPT ![w] = @ + 1]
             ELSE UNCHANGED <<poolQueue, outstanding_tasks>>
  /\ LoopStep /\ KeepFlags /\ KeepDrain
  /\ UNCHANGED <<pc, poolStopping, completions, completed, eventfd, next_generation>>

\* accept_clients: the flag is read at the head of each round, ...
AcceptChecks(w) ==
  /\ pc[w] = "accept"
  /\ Goto(w, IF shutdown_requested THEN "event" ELSE "accepting")
  /\ LoopStep /\ KeepFlags /\ KeepPool /\ KeepTasks /\ KeepDrain /\ KeepSockets
  /\ UNCHANGED <<batch, next_generation>>

\* ... accept() takes a client, unless the backlog is empty, the process is
\* out of descriptors or the number is no longer this worker's listener ...
CanAccept(w) ==
  fdTable[listener_fd[w]] = Listener(w) /\ backlog[w] # {} /\ FreeFds # {}

AcceptReturns(w) ==
  /\ pc[w] = "accepting"
  /\ ~CanAccept(w)
  /\ Goto(w, "event")
  /\ LoopStep /\ KeepFlags /\ KeepPool /\ KeepTasks /\ KeepDrain /\ KeepSockets
  /\ UNCHANGED <<batch, next_generation>>

\* ... and the connection is registered with a fresh generation.
BugAcceptUncounted(w, c) ==
  /\ pc[w] = "accepting"
  /\ CanAccept(w)
  /\ c \in backlog[w]
  /\ LET f == Lowest(FreeFds) IN
     /\ fdTable' = [fdTable EXCEPT ![f] = Client(c)]
     /\ interest' = [interest EXCEPT ![w][f] = {"IN", "RDHUP"}]
     /\ connections' = [connections EXCEPT ![w][f] = NewConnection(c, next_generation[w])]
  /\ next_generation' = [next_generation EXCEPT ![w] = @ + 1]
  /\ backlog' = [backlog EXCEPT ![w] = @ \ {c}]
  /\ Goto(w, "accept")
  /\ LoopStep /\ KeepFlags /\ KeepPool /\ KeepTasks /\ KeepDrain
  /\ UNCHANGED <<batch, sock, open_connections>>

Accept(w, c) ==
  /\ pc[w] = "accepting"
  /\ CanAccept(w)
  /\ c \in backlog[w]
  /\ LET f == Lowest(FreeFds) IN
     /\ fdTable' = [fdTable EXCEPT ![f] = Client(c)]
     /\ interest' = [interest EXCEPT ![w][f] = {"IN", "RDHUP"}]
     /\ connections' = [connections EXCEPT ![w][f] = NewConnection(c, next_generation[w])]
  /\ next_generation' = [next_generation EXCEPT ![w] = @ + 1]
  /\ open_connections' = open_connections + 1
  /\ backlog' = [backlog EXCEPT ![w] = @ \ {c}]
  /\ Goto(w, "accept")
  /\ LoopStep /\ KeepFlags /\ KeepPool /\ KeepTasks /\ KeepDrain
  /\ UNCHANGED <<batch, sock>>

\* set_nonblocking or add_fd fails: the accepted socket is closed again.
AcceptDrops(w, c) ==
  /\ pc[w] = "accepting"
  /\ CanAccept(w)
  /\ c \in backlog[w]
  /\ backlog' = [backlog EXCEPT ![w] = @ \ {c}]
  /\ sock' = [sock EXCEPT ![c].state = "closed", ![c].rx = 0, ![c].answered = TRUE]
  /\ Goto(w, "accept")
  /\ LoopStep /\ KeepFlags /\ KeepPool /\ KeepTasks /\ KeepDrain
  /\ UNCHANGED <<batch, fdTable, interest, connections, open_connections, next_generation>>

\* process_completions: empty the eventfd, ...
ReadNotifications(w) ==
  /\ eventfd' = [eventfd EXCEPT ![w] = FALSE]
  /\ Goto(w, "swap")
  /\ LoopStep /\ KeepFlags /\ KeepPool /\ KeepSockets
  /\ UNCHANGED <<sweep, listener_fd, draining, next_generation, outstanding_tasks,
                 completions, completed>>

CompletionEvent(w, e) ==
  /\ TakeEvent(w, e)
  /\ e.fd = completion_fd[w]
  /\ resume' = [resume EXCEPT ![w] = "event"]
  /\ ReadNotifications(w)

\* on_iteration, after the last event of the batch.
OnIteration(w) ==
  /\ pc[w] = "event"
  /\ batch[w] = {}
  /\ resume' = [resume EXCEPT ![w] = "drain"]
  /\ ReadNotifications(w)
  /\ UNCHANGED batch

\* ... take the queue under its mutex, ...
SwapCompletions(w) ==
  /\ pc[w] = "swap"
  /\ completed' = [completed EXCEPT ![w] = completions[w]]
  /\ completions' = [completions EXCEPT ![w] = <<>>]
  /\ Goto(w, IF completions[w] = <<>> THEN resume[w] ELSE "complete")
  /\ LoopStep /\ KeepFlags /\ KeepPool /\ KeepDrain /\ KeepSockets
  /\ UNCHANGED <<batch, next_generation, outstanding_tasks, eventfd>>

\* The request is no longer outstanding, whether its completion applied or not.
BugRetireApplied(w, k) ==
  outstanding_tasks' = [outstanding_tasks EXCEPT ![w] =
    IF CompletionApplies(connections[w][k.fd], k) THEN @ - 1 ELSE @]
Retire(w, k) == outstanding_tasks' = [outstanding_tasks EXCEPT ![w] = @ - 1]

\* ... and apply each completion to the connection it belongs to.
ProcessCompletion(w) ==
  /\ pc[w] = "complete"
  /\ LET k == Head(completed[w]) IN
     IF CompletionApplies(connections[w][k.fd], k)
     THEN Store(w, k.fd, ApplyCompletion(View(w, k.fd), k))
     ELSE KeepSockets
  /\ Retire(w, Head(completed[w]))
  /\ completed' = [completed EXCEPT ![w] = Tail(@)]
  /\ Goto(w, IF Len(completed[w]) = 1 THEN resume[w] ELSE "complete")
  /\ LoopStep /\ KeepFlags /\ KeepPool /\ KeepDrain
  /\ UNCHANGED <<batch, next_generation, completions, eventfd>>

\* Visit every open connection once, then continue at label next.
SweepThen(w, next) ==
  /\ sweep' = [sweep EXCEPT ![w] = Open(w)]
  /\ resume' = [resume EXCEPT ![w] = next]
  /\ Goto(w, IF Open(w) = {} THEN next ELSE "sweep")

\* begin_drain up to its loop.
BeginDrain(w, next) ==
  /\ shutdown_requested /\ ~draining[w]
  /\ draining' = [draining EXCEPT ![w] = TRUE]
  /\ poolStopping' = TRUE
  /\ Close(listener_fd[w], sock)
  /\ SweepThen(w, next)
  /\ LoopStep /\ KeepFlags /\ KeepTasks
  /\ UNCHANGED <<poolQueue, batch, next_generation, connections, open_connections>>

\* handle_event has its own copy of listener_fd: worker_loop's keeps the
\* number of the closed listener.
DrainFromEvent(w) ==
  /\ pc[w] = "event"
  /\ batch[w] # {}
  /\ BeginDrain(w, "event")
  /\ UNCHANGED listener_fd

DrainFromIteration(w) ==
  /\ pc[w] = "drain"
  /\ BeginDrain(w, "flush")
  /\ listener_fd' = [listener_fd EXCEPT ![w] = NoFd]

\* The drain loop of on_iteration; without a drain there is nothing to do.
IterationDrains(w) ==
  /\ \/ pc[w] = "flush"
     \/ pc[w] = "drain" /\ (draining[w] \/ ~shutdown_requested)
  /\ \/ draining[w] /\ SweepThen(w, "stop")
     \/ ~draining[w] /\ Goto(w, "wait") /\ UNCHANGED <<sweep, resume>>
  /\ LoopStep /\ KeepFlags /\ KeepPool /\ KeepTasks /\ KeepSockets
  /\ UNCHANGED <<batch, next_generation, listener_fd, draining>>

\* One round of a drain loop.
SweepConnection(w, f) ==
  /\ pc[w] = "sweep"
  /\ f \in sweep[w]
  /\ IF connections[w][f] = NoConn \/ connections[w][f].request_in_flight
     THEN KeepSockets
     ELSE Store(w, f, DrainConnection(View(w, f)))
  /\ sweep' = [sweep EXCEPT ![w] = @ \ {f}]
  /\ Goto(w, IF sweep[w] = {f} THEN resume[w] ELSE "sweep")
  /\ LoopStep /\ KeepFlags /\ KeepPool /\ KeepTasks
  /\ UNCHANGED <<batch, next_generation, listener_fd, draining, resume>>

\* should_stop, for a worker that drains.
BugStopsWithTasks(w) == Open(w) = {}
BugStopsWithConnections(w) == outstanding_tasks[w] = 0
ShouldStop(w) == outstanding_tasks[w] = 0 /\ Open(w) = {}

LoopEnds(w) ==
  /\ pc[w] = "stop"
  /\ Goto(w, CASE ~ShouldStop(w) -> "wait"
               [] ShouldStop(w) /\ listener_fd[w] # NoFd -> "close_listener"
               [] OTHER -> "close_eventfd")
  /\ LoopStep /\ KeepFlags /\ KeepPool /\ KeepTasks /\ KeepDrain /\ KeepSockets
  /\ UNCHANGED <<batch, next_generation>>

\* The end of worker_loop.
CloseListener(w) ==
  /\ pc[w] = "close_listener"
  /\ Close(listener_fd[w], sock)
  /\ Goto(w, "close_eventfd")
  /\ LoopStep /\ KeepFlags /\ KeepPool /\ KeepTasks /\ KeepDrain
  /\ UNCHANGED <<batch, next_generation, connections, open_connections>>

WorkerReturns(w) ==
  /\ pc[w] = "close_eventfd"
  /\ Close(completion_fd[w], sock)
  /\ Goto(w, "exited")
  /\ LoopStep /\ KeepFlags /\ KeepPool /\ KeepTasks /\ KeepDrain
  /\ UNCHANGED <<batch, next_generation, connections, open_connections>>

-----------------------------------------------------------------------------
WorkerNext(w) ==
  \/ WorkerInit(w)
  \/ WorkerInitFails(w)
  \/ EpollWait(w)
  \/ \E e \in batch[w] :
       \/ IgnoredEvent(w, e)
       \/ ListenerEvent(w, e)
       \/ ListenerError(w, e)
       \/ SocketEvent(w, e)
       \/ CompletionEvent(w, e)
  \/ \E c \in Clients : Accept(w, c) \/ AcceptDrops(w, c)
  \/ AcceptChecks(w)
  \/ AcceptReturns(w)
  \/ OnIteration(w)
  \/ SwapCompletions(w)
  \/ ProcessCompletion(w)
  \/ DrainFromEvent(w)
  \/ DrainFromIteration(w)
  \/ IterationDrains(w)
  \/ \E f \in Fds : SweepConnection(w, f)
  \/ LoopEnds(w)
  \/ CloseListener(w)
  \/ WorkerReturns(w)

PoolNext(p) == PoolPop(p) \/ PoolRespond(p) \/ PoolNotify(p)

MainNext ==
  \/ Start
  \/ StartFails
  \/ \E w \in Workers : SpawnWorker(w)
  \/ SpawnThrows
  \/ JoinWorkers
  \/ JoinPool

PeerNext(c) ==
  \/ PeerConnects(c)
  \/ PeerSends(c)
  \/ PeerReads(c)
  \/ PeerHalfCloses(c)
  \/ PeerResets(c)

Next ==
  \/ MainNext
  \/ Signal
  \/ \E w \in Workers : WorkerNext(w)
  \/ \E p \in PoolThreads : PoolNext(p)
  \/ \E c \in Clients : PeerNext(c)

Spec == Init /\ [][Next]_vars

\* The threads of the process always run, and every client eventually reads
\* what is buffered for it or resets.
Fairness ==
  /\ \A w \in Workers : WF_vars(WorkerNext(w))
  /\ \A p \in PoolThreads : WF_vars(PoolNext(p))
  /\ WF_vars(MainNext)
  /\ \A c \in Clients : WF_vars(PeerReads(c))

FairSpec == Spec /\ Fairness

-----------------------------------------------------------------------------
(* Properties.                                                             *)

Jobs == [worker : Workers, fd : Fds, generation : Nat, client : Clients]
Completions == [fd : Fds, generation : Nat, client : Clients, size : ResponseSizes]
Events == [fd : Fds, events : SUBSET {"IN", "OUT", "RDHUP", "ERR"}]
Sockets ==
  [state : {"new", "open", "closed"}, rx : 0..MaxChunks, sent : 0..MaxChunks,
   unread : 0..SendBuffer, fin : BOOLEAN, reset : BOOLEAN, answered : BOOLEAN]
Connections ==
  [client : Clients, generation : Nat, parser : {"Incomplete", "Complete", "Error"},
   pending : Nat, peer_closed : BOOLEAN, request_in_flight : BOOLEAN,
   replies : SUBSET Clients, dispatches : Nat]

ASSUME NullsAssumption ==
  NoConn \notin Connections /\ NoJob \notin [phase : {"route", "notify"}, job : Jobs]

\* Every variable has its type; the counters never go below zero.
TypeOK ==
  /\ fdTable \in [Fds -> {Free} \cup {Listener(w) : w \in Workers}
                         \cup {Eventfd(w) : w \in Workers} \cup {Client(c) : c \in Clients}]
  /\ sock \in [Clients -> Sockets]
  /\ backlog \in [Workers -> SUBSET Clients]
  /\ eventfd \in [Workers -> BOOLEAN]
  /\ interest \in [Workers -> [Fds -> SUBSET {"IN", "OUT", "RDHUP"}]]
  /\ shutdown_requested \in BOOLEAN /\ worker_failed \in BOOLEAN /\ signalled \in BOOLEAN
  /\ mainPc \in {"boot", "spawn", "join", "join_pool", "returned"}
  /\ open_connections \in Nat
  /\ poolQueue \in Seq(Jobs)
  /\ Len(poolQueue) <= QueueCapacity
  /\ poolStopping \in BOOLEAN
  /\ poolThread \in [PoolThreads -> {NoJob} \cup [phase : {"route", "notify"}, job : Jobs]]
  /\ pc \in [Workers -> {"new", "init", "wait", "event", "accept", "accepting", "swap", "complete",
                         "drain", "flush", "sweep", "stop", "close_listener",
                         "close_eventfd", "exited"}]
  /\ batch \in [Workers -> SUBSET Events]
  /\ resume \in [Workers -> {"event", "drain", "flush", "stop"}]
  /\ sweep \in [Workers -> SUBSET Fds]
  /\ listener_fd \in [Workers -> Fds \cup {NoFd}]
  /\ completion_fd \in [Workers -> Fds \cup {NoFd}]
  /\ draining \in [Workers -> BOOLEAN]
  /\ outstanding_tasks \in [Workers -> Nat]
  /\ next_generation \in [Workers -> Nat]
  /\ completions \in [Workers -> Seq(Completions)]
  /\ completed \in [Workers -> Seq(Completions)]
  /\ connections \in [Workers -> [Fds -> {NoConn} \cup Connections]]

\* Requests of worker w that the pool still holds and has not answered.
Unanswered(w) ==
  {i \in DOMAIN poolQueue : poolQueue[i].worker = w}
Routing(w) ==
  {p \in PoolThreads : poolThread[p] # NoJob /\ poolThread[p].phase = "route"
                       /\ poolThread[p].job.worker = w}

\* The generation token works: a response is only ever queued on the
\* connection whose request it answers, however often its descriptor number
\* was closed and reused while the request was in the pool.
RepliesGoToRequester ==
  \A w \in Workers : \A f \in Open(w) :
    connections[w][f].replies \subseteq {connections[w][f].client}

\* outstanding_tasks counts exactly the requests in the pool's queue, in a
\* pool thread before its completion is pushed, and the completions not yet
\* applied: should_stop never sees zero too early, nor a count that stays up.
OutstandingIsExact ==
  \A w \in Workers :
    outstanding_tasks[w] = Cardinality(Unanswered(w)) + Cardinality(Routing(w))
                           + Len(completions[w]) + Len(completed[w])

\* A connection masked as in flight has a request or completion under way
\* with its generation, so it is never left waiting for an answer nobody owes.
InFlightIsOwed ==
  \A w \in Workers : \A f \in Open(w) :
    LET c == connections[w][f]
        owed(k) == k.fd = f /\ k.generation = c.generation
    IN c.request_in_flight =>
         \/ \E i \in Unanswered(w) : owed(poolQueue[i])
         \/ \E p \in Routing(w) : owed(poolThread[p].job)
         \/ \E i \in DOMAIN completions[w] : owed(completions[w][i])
         \/ \E i \in DOMAIN completed[w] : owed(completed[w][i])

\* A connection is never deaf: outside the pool it is armed for input, and
\* output the socket did not take is armed for EPOLLOUT.  (A descriptor that
\* another thread closed is no longer registered at all.)
NoStalledConnection ==
  \A w \in Workers : \A f \in Open(w) :
    LET c == connections[w][f] IN
    ~c.request_in_flight /\ interest[w][f] # {} =>
      /\ "IN" \in interest[w][f]
      /\ c.pending > 0 => "OUT" \in interest[w][f]

\* What waits to be sent on a connection is within max_outbound_bytes, as the
\* documents say of every connection.  handle_client does not keep it: it
\* appends the 503 of a refused request without a check of the limit, and a
\* request dispatched again meets output that is still unsent.
OutboundBounded ==
  \A w \in Workers : \A f \in Open(w) : connections[w][f].pending <= MaxOutbound

\* A worker blocked in epoll_wait with a completion in its queue has been, or
\* is about to be, woken through its eventfd: the order "empty the eventfd,
\* then swap the queue" loses no notification.  (After a double close the
\* eventfd may be gone; the 100 ms timeout is then all that is left.)
NoLostCompletion ==
  \A w \in Workers :
    pc[w] = "wait" /\ completions[w] # <<>> /\ fdTable[completion_fd[w]] = Eventfd(w) =>
      \/ eventfd[w]
      \/ \E p \in PoolThreads : poolThread[p] # NoJob
                                /\ poolThread[p].phase = "notify"
                                /\ poolThread[p].job.worker = w

\* Once a worker's loop ended it has no connection, no unapplied completion
\* and no request left in the pool: nothing that would touch its state again
\* has yet to produce a completion.
ExitLeavesNothing ==
  \A w \in Workers :
    pc[w] \in {"close_listener", "close_eventfd", "exited"} =>
      /\ Open(w) = {} /\ completions[w] = <<>> /\ completed[w] = <<>>
      /\ Unanswered(w) = {} /\ Routing(w) = {}

\* The open_connections gauge is the number of connections in all managers.
GaugeIsExact ==
  open_connections = Cardinality({x \in Workers \X Fds : connections[x[1]][x[2]] # NoConn})

\* When start() returns, no listener, eventfd or client socket is left open
\* and no request is left in the pool.
ReturnReleasesAll ==
  mainPc = "returned" =>
    /\ \A f \in Fds : fdTable[f] = Free
    /\ poolQueue = <<>> /\ \A p \in PoolThreads : poolThread[p] = NoJob

\* Shutdown ends: when the flag is set, by a signal or by a worker that failed,
\* start() returns, whatever was being set up, queued, in flight or half sent.
ShutdownEnds ==
  (shutdown_requested /\ mainPc # "boot") ~> (mainPc = "returned")

\* A request never holds its connection for ever: a client whose connection
\* is marked in flight is answered or loses the connection.
InFlightEnds ==
  \A c \in Clients :
    LET busy == \E w \in Workers : \E f \in Open(w) :
                  connections[w][f].client = c /\ connections[w][f].request_in_flight
    IN busy ~> ~busy

-----------------------------------------------------------------------------
(* Statements of the documentation and of comments in the code.            *)

\* "The server currently handles one request per connection".
OneRequestPerConnection ==
  \A w \in Workers : \A f \in Open(w) : connections[w][f].dispatches <= 1

\* "Each epoll loop exits only when its outstanding tasks and connections are
\* gone": no pool thread still runs a task that uses the worker's LoopState.
LoopOutlivesItsTasks ==
  \A w \in Workers : pc[w] = "exited" =>
    \A p \in PoolThreads : poolThread[p] # NoJob => poolThread[p].job.worker # w

\* "Worker ownership keeps connection maps, buffers, and socket I/O
\* thread-confined": the descriptor of a worker's connection refers to that
\* connection's socket until that worker closes it.
SocketsAreThreadConfined ==
  \A w \in Workers : \A f \in Open(w) : fdTable[f] = Client(connections[w][f].client)

\* "The peer stopped writing" (the EPOLLRDHUP branch), "a hard error" (the
\* EPOLLERR branch): the server closes an unanswered connection only when its
\* own peer closed or reset it, or when it drains.
ClosedForAReason ==
  \A c \in Clients : sock[c].state = "closed" =>
    sock[c].answered \/ sock[c].fin \/ sock[c].reset \/ shutdown_requested
=============================================================================
