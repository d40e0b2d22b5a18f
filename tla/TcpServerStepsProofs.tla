------------------------ MODULE TcpServerStepsProofs ------------------------
(***************************************************************************)
(* What each kind of step of TcpServer does to the connections, to what is *)
(* owed to them, to the descriptors and to the threads.  The first part    *)
(* says what the handlers of one connection do to it, for every state of   *)
(* the connection, and how their result is written back.                   *)
(***************************************************************************)
EXTENDS TcpServer, TLAPS

\* A leaf is for Zenon unless it names SMT.
USE Zenon

Masks == SUBSET {"IN", "OUT", "RDHUP"}

\* What is known of one connection, whatever its epoll mask: it was answered
\* as its own client only; it has output only once it was dispatched or its
\* request was malformed; and its output is within the limit.
Fit(c) ==
  /\ c.replies \subseteq {c.client}
  /\ c.request_in_flight => c.dispatches > 0
  /\ c.dispatches = 0 /\ c.parser = "Incomplete" => c.pending = 0
  /\ c.pending <= MaxOutbound + (IF c.dispatches = 0 THEN 0 ELSE c.dispatches - 1)
Sound(c) == Fit(c) /\ (c.parser = "Complete" => c.dispatches > 0)

\* Outside the pool the connection waits for what it needs.
Armed(c, mask) ==
  ~c.request_in_flight /\ mask # {} => "IN" \in mask /\ (c.pending > 0 => "OUT" \in mask)

ConnectionsSound ==
  \A w \in Workers : \A f \in Open(w) :
    Sound(connections[w][f]) /\ Armed(connections[w][f], interest[w][f])

\* What the pool and the queues of completions still owe to worker w.
Claim(k) == [fd |-> k.fd, generation |-> k.generation, client |-> k.client]
Owed(w) ==
  {Claim(poolQueue[i]) : i \in Unanswered(w)} \cup {Claim(poolThread[p].job) : p \in Routing(w)}
  \cup {Claim(completions[w][i]) : i \in DOMAIN completions[w]}
  \cup {Claim(completed[w][i]) : i \in DOMAIN completed[w]}

\* A generation is given once: what is owed names the client of the
\* connection with that number and generation, if there is one.
ClaimsValid ==
  \A w \in Workers :
    /\ \A f \in Open(w) : connections[w][f].generation < next_generation[w]
    /\ \A k \in Owed(w) :
         /\ k.generation < next_generation[w]
         /\ connections[w][k.fd] # NoConn /\ connections[w][k.fd].generation = k.generation =>
              k.client = connections[w][k.fd].client

\* Completions that were swapped out are there while they are applied.
CompletedWhileApplied ==
  \A w \in Workers : completed[w] # <<>> <=> pc[w] = "complete"

ChunksSent == \A c \in Clients : sock[c].rx <= sock[c].sent

-----------------------------------------------------------------------------
(* One connection while a handler works on it.                             *)

Views == [conn : Connections, sock : Sockets, mask : Masks]
ViewsOrClosed == [conn : {NoConn} \cup Connections, sock : Sockets, mask : Masks]

\* A handler that started on view v left view g.
Reached(g, v) ==
  /\ g \in ViewsOrClosed
  /\ g.sock.rx <= v.sock.rx /\ g.sock.sent = v.sock.sent
  /\ g.conn # NoConn =>
       Sound(g.conn) /\ g.conn.client = v.conn.client /\ g.conn.generation = v.conn.generation

\* A connection is not NoConn.
LEMMA ConnectionIsThere == \A c \in Connections : c # NoConn
  BY NullsAssumption

\* A view of an open connection is one a handler may leave.
LEMMA ViewIsReached ==
  ASSUME NEW v \in Views, Sound(v.conn)
  PROVE  Reached(v, v)
  BY SizesAssumption, SMT DEF Views, ViewsOrClosed, Reached, Sockets

\* A view is its three fields.
LEMMA ViewFields ==
  ASSUME NEW C, NEW S, NEW M, NEW v \in [conn : C, sock : S, mask : M], NEW x
  PROVE  /\ v.conn \in C /\ v.sock \in S /\ v.mask \in M
         /\ v = [conn |-> v.conn, sock |-> v.sock, mask |-> v.mask]
         /\ [v EXCEPT !.conn = x] = [conn |-> x, sock |-> v.sock, mask |-> v.mask]
         /\ [v EXCEPT !.mask = x] = [conn |-> v.conn, sock |-> v.sock, mask |-> x]
  BY SMT

\* A handler may work on a view of the same connection that another one left.
LEMMA ReachedFrom ==
  ASSUME NEW u \in Views, NEW v \in Views, NEW g, Reached(g, u),
         u.sock.rx <= v.sock.rx, u.sock.sent = v.sock.sent,
         u.conn.client = v.conn.client, u.conn.generation = v.conn.generation
  PROVE  Reached(g, v)
<1>1. g.sock.rx \in Nat /\ u.sock.rx \in Nat /\ v.sock.rx \in Nat
  BY SizesAssumption, SMT DEF Views, ViewsOrClosed, Sockets, Reached
<1> QED BY <1>1, SMT DEF Reached

\* What follows one handler and then another follows both.
LEMMA ReachedTwice ==
  ASSUME NEW u \in Views, NEW v \in Views, NEW g, Reached(u, v), Reached(g, u)
  PROVE  Reached(g, v)
<1>1. u.conn # NoConn
  BY ConnectionIsThere DEF Views
<1> QED BY <1>1, ReachedFrom DEF Reached

\* close_client may end any handler.
LEMMA CloseReached ==
  ASSUME NEW v \in Views, NEW g, g = CloseClient(v)
  PROVE  Reached(g, v) /\ g.conn = NoConn
<1>1. g = [conn |-> NoConn, sock |-> v.sock, mask |-> v.mask]
  BY ViewFields DEF CloseClient, Views
<1>2. v.sock \in Sockets /\ v.mask \in Masks /\ v.sock.rx \in Nat
  BY SizesAssumption, SMT DEF Views, Sockets
<1> QED BY <1>1, <1>2, SMT DEF ViewsOrClosed, Reached

\* A handler that alters only the connection, or only its mask.
LEMMA KeepsSocket ==
  ASSUME NEW v \in Views, NEW c \in Connections, NEW mask \in Masks, Sound(c),
         c.client = v.conn.client, c.generation = v.conn.generation,
         NEW g, g = [conn |-> c, sock |-> v.sock, mask |-> mask]
  PROVE  g \in Views /\ Reached(g, v)
<1>1. v.sock \in Sockets /\ v.sock.rx \in Nat
  BY SizesAssumption, SMT DEF Views, Sockets
<1> QED BY <1>1, SMT DEF Views, ViewsOrClosed, Reached

\* modify_fd keeps the connection or closes it.
LEMMA ModifyReached ==
  ASSUME NEW v \in Views, Sound(v.conn), NEW mask \in Masks, NEW g, g = ModifyOrClose(v, mask)
  PROVE  /\ Reached(g, v)
         /\ \/ g.conn = NoConn /\ v.mask = {}
            \/ v.mask # {} /\ g \in Views /\ g = [conn |-> v.conn, sock |-> v.sock, mask |-> mask]
<1>1. CASE v.mask = {}
  BY <1>1, CloseReached DEF ModifyOrClose
<1>2. CASE v.mask # {}
  <2>1. g = [conn |-> v.conn, sock |-> v.sock, mask |-> mask]
    BY <1>2, ViewFields DEF ModifyOrClose, Views
  <2>2. v.conn \in Connections
    BY DEF Views
  <2> QED BY <1>2, <2>1, <2>2, KeepsSocket
<1> QED BY <1>1, <1>2

-----------------------------------------------------------------------------
(* flush_client.                                                           *)

Room(v) == SendBuffer - v.sock.unread
Sendable(v) == IF v.conn.pending < Room(v) THEN v.conn.pending ELSE Room(v)
Sent(v) == [v EXCEPT !.conn.pending = @ - Sendable(v), !.sock.unread = @ + Sendable(v)]

\* The ends of flush_client: the socket failed, it takes no more, or
\* everything is out.
LEMMA FlushEnds ==
  ASSUME NEW v, NEW g, g = FlushClient(v)
  PROVE  \/ g = CloseClient(v)
         \/ g = CloseClient(Sent(v))
         \/ g = ModifyOrClose(Sent(v), BlockedMask)
         \/ /\ ~(v.conn.pending > 0 /\ v.sock.reset) /\ ~(v.conn.pending > Sendable(v) /\ ~v.sock.reset)
            /\ g = ModifyOrClose(Sent(v), {"IN", "RDHUP"})
  BY DEF FlushClient, Sent, Sendable, Room

\* What send() takes leaves the output and enters the socket's buffer.
LEMMA SentReached ==
  ASSUME NEW v \in Views, Sound(v.conn), NEW g, g = Sent(v)
  PROVE  /\ g \in Views /\ Reached(g, v) /\ Sound(g.conn) /\ g.mask = v.mask
         /\ g.conn.request_in_flight = v.conn.request_in_flight
         /\ g.conn.pending = v.conn.pending - Sendable(v)
<1> DEFINE n == Sendable(v)
<1>1. /\ n \in Nat /\ n <= v.conn.pending /\ v.conn.pending \in Nat
      /\ v.sock.unread + n \in 0..SendBuffer
  BY SizesAssumption, SMT DEF Views, Sockets, Connections, Sendable, Room
<1> HIDE DEF n
<1>2. g = [conn |-> [v.conn EXCEPT !.pending = v.conn.pending - n],
           sock |-> [v.sock EXCEPT !.unread = v.sock.unread + n], mask |-> v.mask]
  BY DEF Views, Sent, n
<1>3. v.conn \in Connections /\ v.sock \in Sockets /\ v.mask \in Masks
  BY DEF Views
<1>4. g.conn \in Connections /\ g.conn = [v.conn EXCEPT !.pending = v.conn.pending - n] /\ g.mask = v.mask
  BY <1>1, <1>2, <1>3, SMT DEF Connections
<1>5. g.sock \in Sockets /\ g.sock.rx = v.sock.rx /\ g.sock.sent = v.sock.sent /\ v.sock.rx \in Nat
  BY <1>1, <1>2, <1>3, SizesAssumption, SMT DEF Sockets
<1>6. Sound(g.conn)
  BY <1>1, <1>3, <1>4, SizesAssumption, SMT DEF Connections, Sound, Fit
<1>7. /\ g.conn.request_in_flight = v.conn.request_in_flight /\ g.conn.pending = v.conn.pending - n
      /\ g.conn.client = v.conn.client /\ g.conn.generation = v.conn.generation
  BY <1>3, <1>4 DEF Connections
<1>8. g \in Views
  BY <1>2, <1>3, <1>4, <1>5 DEF Views
<1> QED BY <1>2, <1>3, <1>4, <1>5, <1>6, <1>7, <1>8, SMT DEF Reached, ViewsOrClosed, Views, n

\* Registered for input, and for output if there is any.
Listening(g) == "IN" \in g.mask /\ (g.conn.pending > 0 => "OUT" \in g.mask)

\* flush_client keeps the request of a connection and arms it.
LEMMA FlushReached ==
  ASSUME NEW v \in Views, Sound(v.conn), NEW g, g = FlushClient(v)
  PROVE  /\ Reached(g, v)
         /\ g.conn # NoConn =>
              g \in Views /\ g.conn.request_in_flight = v.conn.request_in_flight /\ Listening(g)
<1> PICK s : s = Sent(v)
  OBVIOUS
<1>1. /\ s \in Views /\ Reached(s, v) /\ Sound(s.conn)
      /\ s.conn.request_in_flight = v.conn.request_in_flight
      /\ s.conn.pending = v.conn.pending - Sendable(v)
  BY SentReached
<1>2. ASSUME NEW u \in Views, Reached(u, v), g = CloseClient(u)
      PROVE  Reached(g, v) /\ g.conn = NoConn
  BY <1>2, CloseReached, ReachedTwice
<1>3. ASSUME NEW mask \in Masks, g = ModifyOrClose(s, mask), "IN" \in mask,
             s.conn.pending > 0 => "OUT" \in mask
      PROVE  /\ Reached(g, v)
             /\ g.conn # NoConn =>
                  g \in Views /\ g.conn.request_in_flight = v.conn.request_in_flight /\ Listening(g)
  BY <1>1, <1>3, ModifyReached, ReachedTwice, SMT DEF Listening
<1>4. CASE g = CloseClient(v) \/ g = CloseClient(s)
  BY <1>1, <1>2, <1>4, ViewIsReached
<1>5. CASE g = ModifyOrClose(s, BlockedMask)
  BY <1>3, <1>5, SMT DEF BlockedMask, Masks
<1>6. CASE /\ ~(v.conn.pending > 0 /\ v.sock.reset) /\ ~(v.conn.pending > Sendable(v) /\ ~v.sock.reset)
           /\ g = ModifyOrClose(s, {"IN", "RDHUP"})
  <2>1. ~(s.conn.pending > 0)
    BY <1>1, <1>6, SizesAssumption, SMT DEF Views, Connections, Sockets, Sendable, Room
  <2> QED BY <1>3, <1>6, <2>1, SMT DEF Masks
<1> QED BY <1>4, <1>5, <1>6, FlushEnds

-----------------------------------------------------------------------------
(* handle_client and the rest of handle_event.                             *)

\* A response for the connection's own client, within the limit.
LEMMA ReplyReached ==
  ASSUME NEW v \in Views, Sound(v.conn), NEW n \in Nat, NEW g, g = Reply(v, v.conn.client, n),
         v.conn.dispatches > 0 \/ v.conn.parser = "Error",
         v.conn.pending + n <= MaxOutbound + (IF v.conn.dispatches = 0 THEN 0 ELSE v.conn.dispatches - 1)
  PROVE  /\ g \in Views /\ Reached(g, v) /\ Sound(g.conn)
         /\ g.conn.request_in_flight = v.conn.request_in_flight /\ g.mask = v.mask
<1>1. g = [conn |-> [v.conn EXCEPT !.pending = @ + n, !.peer_closed = TRUE, !.replies = @ \cup {v.conn.client}],
           sock |-> [v.sock EXCEPT !.answered = TRUE], mask |-> v.mask]
  BY DEF Reply, Views
<1>2. v.conn \in Connections /\ v.sock \in Sockets /\ v.mask \in Masks
  BY DEF Views
<1>3. g.conn = [v.conn EXCEPT !.pending = @ + n, !.peer_closed = TRUE, !.replies = @ \cup {v.conn.client}]
  BY <1>1, SMT
<1>4. g.conn = [client |-> v.conn.client, generation |-> v.conn.generation, parser |-> v.conn.parser,
                pending |-> v.conn.pending + n, peer_closed |-> TRUE,
                request_in_flight |-> v.conn.request_in_flight,
                replies |-> v.conn.replies \cup {v.conn.client}, dispatches |-> v.conn.dispatches]
  BY <1>2, <1>3 DEF Connections
<1>5. g.conn \in Connections
  BY <1>2, <1>4, SMT DEF Connections
<1>6. Sound(g.conn)
  BY <1>2, <1>4, SizesAssumption, SMT DEF Connections, Sound, Fit
<1>7. /\ g.conn.request_in_flight = v.conn.request_in_flight
      /\ g.conn.client = v.conn.client /\ g.conn.generation = v.conn.generation
  BY <1>4, SMT
<1>8. g.sock = [v.sock EXCEPT !.answered = TRUE] /\ g.mask = v.mask
  BY <1>1, SMT
<1>9. g.sock \in Sockets /\ g.sock.rx = v.sock.rx /\ g.sock.sent = v.sock.sent /\ v.sock.rx \in Nat
  <2>1. g.sock = [state |-> v.sock.state, rx |-> v.sock.rx, sent |-> v.sock.sent, unread |-> v.sock.unread,
                  fin |-> v.sock.fin, reset |-> v.sock.reset, answered |-> TRUE]
    BY <1>2, <1>8 DEF Sockets
  <2> QED BY <1>2, <2>1, SizesAssumption, SMT DEF Sockets
<1> QED BY <1>1, <1>2, <1>5, <1>6, <1>7, <1>8, <1>9, SMT DEF Reached, ViewsOrClosed, Views

\* A change of the request flag or of peer_closed.
LEMMA FlagReached ==
  ASSUME NEW v \in Views, Sound(v.conn), NEW x \in BOOLEAN, NEW g,
         \/ g = [v EXCEPT !.conn.request_in_flight = FALSE]
         \/ g = [v EXCEPT !.conn.peer_closed = x]
  PROVE  /\ g \in Views /\ Reached(g, v) /\ Sound(g.conn) /\ g.mask = v.mask
         /\ g.conn.pending = v.conn.pending /\ g.conn.dispatches = v.conn.dispatches
         /\ g.conn.parser = v.conn.parser /\ g.conn.client = v.conn.client
         /\ g = [v EXCEPT !.conn.peer_closed = x] => g.conn.request_in_flight = v.conn.request_in_flight
<1>1. v.conn \in Connections
  BY DEF Views
<1>2. CASE g = [v EXCEPT !.conn.request_in_flight = FALSE]
  <2>1. g = [conn |-> [v.conn EXCEPT !.request_in_flight = FALSE], sock |-> v.sock, mask |-> v.mask]
    BY <1>2 DEF Views
  <2>2. g.conn \in Connections /\ g.conn = [v.conn EXCEPT !.request_in_flight = FALSE] /\ g.mask = v.mask
    BY <1>1, <2>1 DEF Connections
  <2>3. /\ Sound(g.conn) /\ g.conn.client = v.conn.client /\ g.conn.generation = v.conn.generation
        /\ g.conn.pending = v.conn.pending /\ g.conn.dispatches = v.conn.dispatches
        /\ g.conn.parser = v.conn.parser
    BY <1>1, <2>2 DEF Connections, Sound, Fit
  <2>4. g.conn.request_in_flight = v.conn.request_in_flight \/ ~g.conn.request_in_flight
    BY <1>1, <2>2 DEF Connections
  <2>5. g = [conn |-> g.conn, sock |-> v.sock, mask |-> v.mask]
    BY <2>1, <2>2
  <2>6. ASSUME g = [v EXCEPT !.conn.peer_closed = x]
        PROVE  g.conn.request_in_flight = v.conn.request_in_flight
    <3>1. g = [conn |-> [v.conn EXCEPT !.peer_closed = x], sock |-> v.sock, mask |-> v.mask]
      BY <2>6 DEF Views
    <3> QED BY <1>1, <3>1 DEF Connections
  <2> QED BY <2>2, <2>3, <2>5, <2>6, KeepsSocket DEF Views
<1>3. CASE g = [v EXCEPT !.conn.peer_closed = x]
  <2>1. g = [conn |-> [v.conn EXCEPT !.peer_closed = x], sock |-> v.sock, mask |-> v.mask]
    BY <1>3 DEF Views
  <2>2. g.conn \in Connections /\ g.conn = [v.conn EXCEPT !.peer_closed = x] /\ g.mask = v.mask
    BY <1>1, <2>1 DEF Connections
  <2>3. /\ Sound(g.conn) /\ g.conn.client = v.conn.client /\ g.conn.generation = v.conn.generation
        /\ g.conn.pending = v.conn.pending /\ g.conn.dispatches = v.conn.dispatches
        /\ g.conn.parser = v.conn.parser /\ g.conn.request_in_flight = v.conn.request_in_flight
    BY <1>1, <2>2 DEF Connections, Sound, Fit
  <2>4. g = [conn |-> g.conn, sock |-> v.sock, mask |-> v.mask]
    BY <2>1, <2>2
  <2> QED BY <2>2, <2>3, <2>4, KeepsSocket DEF Views
<1> QED BY <1>2, <1>3

\* A complete request goes to the pool, or gets a 503.
LEMMA DispatchReached ==
  ASSUME NEW v \in Views, Fit(v.conn), v.conn.dispatches > 0 \/ v.conn.pending = 0,
         NEW g, g = Dispatch(v)
  PROVE  /\ Reached(g, v)
         /\ g.conn # NoConn =>
              /\ g \in Views /\ v.mask # {}
              /\ g.conn.request_in_flight => Accepts
<1>10. PICK m : m = [v EXCEPT !.conn.request_in_flight = TRUE, !.conn.dispatches = @ + 1]
  OBVIOUS
<1>11. PICK d : d = ModifyOrClose(m, {"RDHUP"})
  OBVIOUS
<1>1. v.conn \in Connections
  BY DEF Views
<1>2. m = [conn |-> [v.conn EXCEPT !.request_in_flight = TRUE, !.dispatches = @ + 1],
           sock |-> v.sock, mask |-> v.mask]
  BY <1>10 DEF Views
<1>3. /\ m.conn = [client |-> v.conn.client, generation |-> v.conn.generation, parser |-> v.conn.parser,
                   pending |-> v.conn.pending, peer_closed |-> v.conn.peer_closed,
                   request_in_flight |-> TRUE, replies |-> v.conn.replies,
                   dispatches |-> v.conn.dispatches + 1]
  BY <1>1, <1>2 DEF Connections
<1>31. m.conn \in Connections
  BY <1>1, <1>3, SMT DEF Connections
<1>4. /\ Sound(m.conn) /\ m.conn.client = v.conn.client /\ m.conn.generation = v.conn.generation
      /\ m.conn.dispatches > 0 /\ m.conn.pending + 1 <= MaxOutbound + (m.conn.dispatches - 1)
  BY <1>1, <1>3, SizesAssumption, SMT DEF Connections, Sound, Fit
<1>5. m = [conn |-> m.conn, sock |-> v.sock, mask |-> v.mask]
  BY <1>2
<1>6. m \in Views /\ Reached(m, v) /\ m.mask = v.mask
  BY <1>31, <1>4, <1>5, KeepsSocket, SMT DEF Views
<1>7. /\ Reached(d, m)
      /\ \/ d.conn = NoConn /\ v.mask = {}
         \/ v.mask # {} /\ d \in Views /\ d.conn = m.conn
  BY <1>4, <1>6, <1>11, ModifyReached, SMT DEF Masks
<1>8. CASE d.conn = NoConn \/ Accepts
  <2>1. g = d
    BY <1>8, <1>10, <1>11 DEF Dispatch
  <2> QED BY <1>6, <1>7, <1>8, <2>1, ReachedTwice
<1>9. CASE d.conn # NoConn /\ ~Accepts
  <2>10. PICK i : i = [d EXCEPT !.conn.request_in_flight = FALSE]
    OBVIOUS
  <2>1. g = Reply(i, d.conn.client, ErrorSize)
    BY <1>9, <1>10, <1>11, <2>10 DEF Dispatch
  <2>2. d \in Views /\ Sound(d.conn) /\ v.mask # {} /\ d.conn = m.conn
    BY <1>4, <1>7, <1>9
  <2>3. /\ i \in Views /\ Reached(i, d) /\ Sound(i.conn) /\ i.conn.pending = d.conn.pending
        /\ i.conn.dispatches = d.conn.dispatches /\ i.conn.client = d.conn.client
    BY <2>2, <2>10, FlagReached, ZenonT(30)
  <2>4. i.conn.request_in_flight = FALSE
    <3>1. i = [conn |-> [d.conn EXCEPT !.request_in_flight = FALSE], sock |-> d.sock, mask |-> d.mask]
      BY <2>2, <2>10 DEF Views
    <3> QED BY <1>31, <2>2, <3>1 DEF Connections
  <2>5. /\ i.conn.dispatches > 0
        /\ i.conn.pending + 1 <= MaxOutbound + (IF i.conn.dispatches = 0 THEN 0 ELSE i.conn.dispatches - 1)
    BY <1>4, <2>2, <2>3, SizesAssumption, SMT DEF Views, Connections
  <2>6. g \in Views /\ Reached(g, i) /\ g.conn.request_in_flight = i.conn.request_in_flight
    BY <2>1, <2>3, <2>5, ReplyReached, SMT DEF ErrorSize
  <2> QED BY <1>6, <1>7, <2>2, <2>3, <2>4, <2>6, ReachedTwice
<1> QED BY <1>8, <1>9

\* What the read loop takes from the socket, and what the parser makes of it.
Read(v, r) ==
  [v EXCEPT !.sock.rx = @ - r[1], !.conn.parser = IF r[2] = "Incomplete" THEN @ ELSE r[2]]

\* A parser that finished repeats its verdict.
LEMMA ReadsVerdict ==
  ASSUME NEW v \in Views, NEW r \in Reads(v)
  PROVE  /\ r[1] \in Nat /\ r[1] <= v.sock.rx
         /\ r[2] \in {"Incomplete", "Complete", "Error"}
         /\ r[2] # "Incomplete" => v.conn.parser \in {"Incomplete", r[2]}
<1>1. v.sock.rx \in Nat /\ v.conn.parser \in {"Incomplete", "Complete", "Error"}
  BY SizesAssumption, SMT DEF Views, Sockets, Connections
<1>2. CASE v.conn.parser = "Incomplete"
  BY <1>1, <1>2, SMT DEF Reads
<1>3. CASE v.conn.parser # "Incomplete" /\ v.sock.rx > 0
  BY <1>1, <1>3, SMT DEF Reads
<1>4. CASE v.conn.parser # "Incomplete" /\ ~(v.sock.rx > 0)
  BY <1>1, <1>4, SMT DEF Reads
<1> QED BY <1>2, <1>3, <1>4

\* Reading leaves the connection fit for what handle_client does next.
LEMMA ReadReached ==
  ASSUME NEW v \in Views, Sound(v.conn), NEW r \in Reads(v), NEW g, g = Read(v, r)
  PROVE  /\ g \in Views /\ g.mask = v.mask /\ Fit(g.conn)
         /\ g.sock.rx <= v.sock.rx /\ g.sock.sent = v.sock.sent
         /\ g.conn.client = v.conn.client /\ g.conn.generation = v.conn.generation
         /\ g.conn.request_in_flight = v.conn.request_in_flight
         /\ r[2] # "Complete" => Sound(g.conn)
         /\ r[2] = "Complete" => g.conn.dispatches > 0 \/ g.conn.pending = 0
         /\ r[2] = "Error" => g.conn.parser = "Error"
<1>1. /\ r[1] \in Nat /\ r[1] <= v.sock.rx
      /\ r[2] \in {"Incomplete", "Complete", "Error"}
      /\ r[2] # "Incomplete" => v.conn.parser \in {"Incomplete", r[2]}
  BY ReadsVerdict
<1> DEFINE verdict == IF r[2] = "Incomplete" THEN v.conn.parser ELSE r[2]
           left == v.sock.rx - r[1]
<1>2. g = [conn |-> [v.conn EXCEPT !.parser = verdict], sock |-> [v.sock EXCEPT !.rx = left], mask |-> v.mask]
  BY DEF Read, Views
<1>3. v.conn \in Connections /\ v.sock \in Sockets /\ v.mask \in Masks
  BY DEF Views
<1>4. /\ left \in 0..MaxChunks /\ left <= v.sock.rx /\ verdict \in {"Incomplete", "Complete", "Error"}
      /\ r[2] # "Incomplete" => verdict = r[2]
      /\ r[2] = "Incomplete" => verdict = v.conn.parser
  BY <1>1, <1>3, SizesAssumption, SMT DEF Connections, Sockets
<1> HIDE DEF verdict, left
<1>5. g.conn = [v.conn EXCEPT !.parser = verdict] /\ g.sock = [v.sock EXCEPT !.rx = left] /\ g.mask = v.mask
  BY <1>2, SMT
<1>6. g.conn \in Connections
  BY <1>3, <1>4, <1>5 DEF Connections
<1>7. g.sock \in Sockets /\ g.sock.rx <= v.sock.rx /\ g.sock.sent = v.sock.sent
  BY <1>3, <1>4, <1>5 DEF Sockets
<1>8. /\ g.conn.client = v.conn.client /\ g.conn.generation = v.conn.generation
      /\ g.conn.request_in_flight = v.conn.request_in_flight /\ g.conn.replies = v.conn.replies
      /\ g.conn.pending = v.conn.pending /\ g.conn.dispatches = v.conn.dispatches
      /\ g.conn.parser = verdict
  BY <1>3, <1>5 DEF Connections
<1>9. Fit(g.conn)
  BY <1>1, <1>4, <1>8 DEF Sound, Fit
<1>10. g \in Views
  BY <1>2, <1>3, <1>5, <1>6, <1>7 DEF Views
<1> QED BY <1>1, <1>3, <1>4, <1>5, <1>7, <1>8, <1>9, <1>10, SMT DEF Sound, Fit, Connections

\* What handle_client has done before it may flush.
ClientRead(v, r, done) ==
  \/ v.sock.reset /\ done = CloseClient(v)
  \/ ~v.sock.reset /\ r[2] = "Incomplete" /\ done = [Read(v, r) EXCEPT !.conn.peer_closed = @ \/ v.sock.fin]
  \/ /\ ~v.sock.reset /\ r[2] = "Error" /\ FitsOutbound(Read(v, r), ErrorSize)
     /\ done = Reply(Read(v, r), Read(v, r).conn.client, ErrorSize)
  \/ ~v.sock.reset /\ r[2] = "Error" /\ done = CloseClient(Read(v, r))
  \/ ~v.sock.reset /\ r[2] = "Complete" /\ done = Dispatch(Read(v, r))

\* The ends of handle_client.
LEMMA ClientEnds ==
  ASSUME NEW v, NEW r, r[2] \in {"Incomplete", "Complete", "Error"}, NEW g, g = HandleClient(v, r)
  PROVE  \E done : /\ ClientRead(v, r, done)
                   /\ g = IF done.conn = NoConn \/ done.conn.request_in_flight THEN done ELSE FlushClient(done)
<1> DEFINE read == [v EXCEPT !.sock.rx = @ - r[1],
                             !.conn.parser = IF r[2] = "Incomplete" THEN @ ELSE r[2]]
           done == CASE v.sock.reset -> CloseClient(v)
                     [] ~v.sock.reset /\ r[2] = "Incomplete" ->
                          [read EXCEPT !.conn.peer_closed = @ \/ v.sock.fin]
                     [] ~v.sock.reset /\ r[2] = "Error" ->
                          IF FitsOutbound(read, ErrorSize)
                          THEN Reply(read, read.conn.client, ErrorSize) ELSE CloseClient(read)
                     [] ~v.sock.reset /\ r[2] = "Complete" -> Dispatch(read)
<1>1. read = Read(v, r)
  BY DEF Read
<1>2. g = IF done.conn = NoConn \/ done.conn.request_in_flight THEN done ELSE FlushClient(done)
  BY DEF HandleClient
<1> HIDE DEF read
<1>3. ClientRead(v, r, done)
  BY <1>1 DEF ClientRead
<1> QED BY <1>2, <1>3

\* handle_client takes a request only when the pool accepts it, and leaves
\* the connection in flight or armed.
LEMMA ClientReached ==
  ASSUME NEW v \in Views, Sound(v.conn), NEW r \in Reads(v), NEW g, g = HandleClient(v, r)
  PROVE  /\ Reached(g, v)
         /\ g.conn # NoConn =>
              /\ g \in Views /\ (g.conn.request_in_flight \/ Listening(g))
              /\ g.conn.request_in_flight =>
                   v.conn.request_in_flight \/ (r[2] = "Complete" /\ ~v.sock.reset /\ v.mask # {} /\ Accepts)
<1>1. r[2] \in {"Incomplete", "Complete", "Error"}
  BY ReadsVerdict
<1>2. PICK u : u = Read(v, r)
  OBVIOUS
<1>3. /\ u \in Views /\ u.mask = v.mask /\ Fit(u.conn)
      /\ u.sock.rx <= v.sock.rx /\ u.sock.sent = v.sock.sent
      /\ u.conn.client = v.conn.client /\ u.conn.generation = v.conn.generation
      /\ u.conn.request_in_flight = v.conn.request_in_flight
      /\ r[2] # "Complete" => Sound(u.conn)
      /\ r[2] = "Complete" => u.conn.dispatches > 0 \/ u.conn.pending = 0
      /\ r[2] = "Error" => u.conn.parser = "Error"
  BY <1>2, ReadReached
<1>4. PICK done : /\ ClientRead(v, r, done)
                  /\ g = IF done.conn = NoConn \/ done.conn.request_in_flight THEN done ELSE FlushClient(done)
  BY <1>1, ClientEnds, SMT
<1>5. /\ Reached(done, v)
      /\ done.conn # NoConn =>
           /\ done \in Views
           /\ done.conn.request_in_flight =>
                v.conn.request_in_flight \/ (r[2] = "Complete" /\ ~v.sock.reset /\ v.mask # {} /\ Accepts)
  <2>1. CASE done = CloseClient(v) \/ (r[2] = "Error" /\ done = CloseClient(u))
    BY <1>3, <2>1, CloseReached, ReachedFrom
  <2>2. CASE r[2] = "Incomplete" /\ done = [u EXCEPT !.conn.peer_closed = @ \/ v.sock.fin]
    <3>1. PICK closed \in BOOLEAN : closed = (u.conn.peer_closed \/ v.sock.fin)
      OBVIOUS
    <3>2. u \in Views /\ Sound(u.conn) /\ done = [u EXCEPT !.conn.peer_closed = closed]
      BY <1>3, <2>2, <3>1
    <3>3. done \in Views /\ Reached(done, u) /\ done.conn.request_in_flight = u.conn.request_in_flight
      BY <3>2, FlagReached
    <3> QED BY <1>3, <3>3, ReachedFrom
  <2>3. CASE /\ r[2] = "Error" /\ FitsOutbound(u, ErrorSize)
             /\ done = Reply(u, u.conn.client, ErrorSize)
    <3>1. u.conn.pending + 1 <= MaxOutbound + (IF u.conn.dispatches = 0 THEN 0 ELSE u.conn.dispatches - 1)
      BY <1>3, <2>3, SizesAssumption, SMT DEF FitsOutbound, ErrorSize, Views, Connections
    <3>2. done \in Views /\ Reached(done, u) /\ done.conn.request_in_flight = u.conn.request_in_flight
      BY <1>3, <2>3, <3>1, ReplyReached DEF ErrorSize
    <3> QED BY <1>3, <3>2, ReachedFrom
  <2>4. CASE ~v.sock.reset /\ r[2] = "Complete" /\ done = Dispatch(u)
    <3>1. /\ Reached(done, u)
          /\ done.conn # NoConn =>
               done \in Views /\ u.mask # {} /\ (done.conn.request_in_flight => Accepts)
      BY <1>3, <2>4, DispatchReached
    <3> QED BY <1>3, <2>4, <3>1, ReachedFrom
  <2> QED BY <1>2, <1>4, <2>1, <2>2, <2>3, <2>4 DEF ClientRead
<1>6. CASE done.conn = NoConn \/ done.conn.request_in_flight
  BY <1>4, <1>5, <1>6
<1>7. CASE done.conn # NoConn /\ ~done.conn.request_in_flight
  <2>1. g = FlushClient(done)
    BY <1>4, <1>7
  <2>2. done \in Views /\ Sound(done.conn)
    BY <1>5, <1>7 DEF Reached
  <2>3. /\ Reached(g, done)
        /\ g.conn # NoConn =>
             g \in Views /\ g.conn.request_in_flight = done.conn.request_in_flight /\ Listening(g)
    BY <2>1, <2>2, FlushReached
  <2> QED BY <1>5, <1>7, <2>2, <2>3, ReachedTwice
<1> QED BY <1>6, <1>7

\* The stages of handle_event after the error check.
AfterIn(v, events, r) == IF "IN" \in events THEN HandleClient(v, r) ELSE v
AfterHup(u, events) ==
  IF u.conn # NoConn /\ "RDHUP" \in events THEN [u EXCEPT !.conn.peer_closed = TRUE] ELSE u
AfterOut(u, events) == IF u.conn # NoConn /\ "OUT" \in events THEN FlushClient(u) ELSE u

\* The ends of handle_event for a client socket.
LEMMA SocketEnds ==
  ASSUME NEW v, NEW events, NEW r, NEW g, g = HandleSocket(v, events, r)
  PROVE  \/ g = CloseClient(v)
         \/ /\ "ERR" \notin events
            /\ \/ g = AfterOut(AfterHup(AfterIn(v, events, r), events), events)
               \/ /\ g = CloseClient(AfterOut(AfterHup(AfterIn(v, events, r), events), events))
                  /\ AfterOut(AfterHup(AfterIn(v, events, r), events), events).conn # NoConn
  BY DEF HandleSocket, AfterIn, AfterHup, AfterOut

\* The reads of an event: without EPOLLIN the socket is not read.
ReadsOf(v, events) == IF "IN" \in events THEN Reads(v) ELSE {<<0, "Incomplete">>}

\* A socket event leaves the connection sound and armed, and puts it in
\* flight only together with a request for the pool.
LEMMA SocketReached ==
  ASSUME NEW v \in Views, Sound(v.conn), Armed(v.conn, v.mask),
         NEW events, NEW r \in ReadsOf(v, events),
         NEW g, g = HandleSocket(v, events, r)
  PROVE  /\ Reached(g, v)
         /\ g.conn # NoConn =>
              /\ g \in Views /\ Armed(g.conn, g.mask)
              /\ g.conn.request_in_flight =>
                   \/ v.conn.request_in_flight
                   \/ /\ r[2] = "Complete" /\ "ERR" \notin events /\ ~v.sock.reset
                      /\ v.mask # {} /\ Accepts
<1> DEFINE Taken == v.conn.request_in_flight \/ (r[2] = "Complete" /\ ~v.sock.reset /\ v.mask # {} /\ Accepts)
           Good(u) == /\ Reached(u, v)
                      /\ u.conn # NoConn =>
                           u \in Views /\ Armed(u.conn, u.mask) /\ (u.conn.request_in_flight => Taken)
<1> HIDE DEF Taken
<1>1. ASSUME NEW u, u = AfterIn(v, events, r)
      PROVE  Good(u)
  <2>1. CASE "IN" \in events
    <3>1. u = HandleClient(v, r) /\ r \in Reads(v)
      BY <1>1, <2>1 DEF AfterIn, ReadsOf
    <3> QED BY <3>1, ClientReached DEF Taken, Armed, Listening
  <2>2. CASE "IN" \notin events
    BY <1>1, <2>2, ViewIsReached DEF AfterIn, Taken
  <2> QED BY <2>1, <2>2
<1>2. ASSUME NEW u, Good(u), NEW h, h = AfterHup(u, events)
      PROVE  Good(h)
  <2>1. CASE u.conn # NoConn /\ "RDHUP" \in events
    <3>1. h = [u EXCEPT !.conn.peer_closed = TRUE] /\ u \in Views /\ Sound(u.conn)
      BY <1>2, <2>1 DEF AfterHup, Reached
    <3>2. /\ h \in Views /\ Reached(h, u) /\ h.mask = u.mask /\ h.conn.pending = u.conn.pending
          /\ h.conn.request_in_flight = u.conn.request_in_flight
      BY <3>1, FlagReached
    <3> QED BY <1>2, <2>1, <3>1, <3>2, ReachedTwice DEF Armed
  <2>2. CASE ~(u.conn # NoConn /\ "RDHUP" \in events)
    BY <1>2, <2>2 DEF AfterHup
  <2> QED BY <2>1, <2>2
<1>3. ASSUME NEW u, Good(u), NEW h, h = AfterOut(u, events)
      PROVE  Good(h)
  <2>1. CASE u.conn # NoConn /\ "OUT" \in events
    <3>1. h = FlushClient(u) /\ u \in Views /\ Sound(u.conn)
      BY <1>3, <2>1 DEF AfterOut, Reached
    <3>2. /\ Reached(h, u)
          /\ h.conn # NoConn =>
               h \in Views /\ h.conn.request_in_flight = u.conn.request_in_flight /\ Listening(h)
      BY <3>1, FlushReached
    <3> QED BY <1>3, <2>1, <3>1, <3>2, ReachedTwice DEF Armed, Listening
  <2>2. CASE ~(u.conn # NoConn /\ "OUT" \in events)
    BY <1>3, <2>2 DEF AfterOut
  <2> QED BY <2>1, <2>2
<1>4. PICK o : o = AfterOut(AfterHup(AfterIn(v, events, r), events), events)
  OBVIOUS
<1>5. Good(o)
  BY <1>1, <1>2, <1>3, <1>4
<1>6. CASE g = CloseClient(v)
  BY <1>6, CloseReached
<1>7. CASE "ERR" \notin events /\ g = o
  BY <1>5, <1>7 DEF Taken
<1>8. CASE g = CloseClient(o) /\ o.conn # NoConn
  BY <1>5, <1>8, CloseReached, ReachedTwice
<1> QED BY <1>4, <1>6, <1>7, <1>8, SocketEnds, SMT

\* A completion leaves the connection idle and armed.
LEMMA CompletionReached ==
  ASSUME NEW v \in Views, Sound(v.conn), v.conn.request_in_flight,
         NEW k, k.size \in ResponseSizes, k.client = v.conn.client,
         NEW g, g = ApplyCompletion(v, k)
  PROVE  /\ Reached(g, v)
         /\ g.conn # NoConn =>
              g \in Views /\ Armed(g.conn, g.mask) /\ ~g.conn.request_in_flight
<1>1. PICK i : i = [v EXCEPT !.conn.request_in_flight = FALSE]
  OBVIOUS
<1>2. /\ i \in Views /\ Reached(i, v) /\ Sound(i.conn) /\ i.conn.pending = v.conn.pending
      /\ i.conn.dispatches = v.conn.dispatches /\ i.conn.client = v.conn.client
  BY <1>1, FlagReached
<1>3. i.conn.request_in_flight = FALSE
  <2>1. i = [conn |-> [v.conn EXCEPT !.request_in_flight = FALSE], sock |-> v.sock, mask |-> v.mask]
    BY <1>1 DEF Views
  <2> QED BY <2>1 DEF Connections, Views
<1>4. v.conn.dispatches > 0 /\ v.conn.dispatches \in Nat
  BY DEF Sound, Fit, Views, Connections
<1>5. CASE FitsOutbound(i, k.size)
  <2>1. PICK a : a = Reply(i, k.client, k.size)
    OBVIOUS
  <2>2. g = FlushClient(a)
    BY <1>1, <1>5, <2>1 DEF ApplyCompletion
  <2>3. /\ k.size \in Nat /\ i.conn.dispatches > 0
        /\ i.conn.pending + k.size <= MaxOutbound + (IF i.conn.dispatches = 0 THEN 0 ELSE i.conn.dispatches - 1)
    <3>1. i.conn.pending \in Nat /\ i.conn.dispatches \in Nat /\ k.size \in Nat /\ i.conn.dispatches > 0
      BY <1>2, <1>4, SizesAssumption DEF Views, Connections
    <3>2. i.conn.pending + k.size <= MaxOutbound
      BY <1>5, SizesAssumption, <3>1, SMT DEF FitsOutbound
    <3> QED BY <3>1, <3>2, SizesAssumption, SMT
  <2>4. /\ a \in Views /\ Reached(a, i) /\ Sound(a.conn)
        /\ a.conn.request_in_flight = i.conn.request_in_flight
    <3>1. a = Reply(i, i.conn.client, k.size)
      BY <1>2, <2>1
    <3> QED BY <1>2, <2>3, <3>1, ReplyReached
  <2>5. /\ Reached(g, a)
        /\ g.conn # NoConn =>
             g \in Views /\ g.conn.request_in_flight = a.conn.request_in_flight /\ Listening(g)
    BY <2>2, <2>4, FlushReached
  <2> QED BY <1>2, <1>3, <2>4, <2>5, ReachedTwice DEF Armed, Listening
<1>6. CASE ~FitsOutbound(i, k.size)
  <2>1. PICK a : a = [i EXCEPT !.sock.answered = TRUE]
    OBVIOUS
  <2>2. g = CloseClient(a)
    BY <1>1, <1>6, <2>1 DEF ApplyCompletion
  <2>3. a = [conn |-> i.conn, sock |-> [i.sock EXCEPT !.answered = TRUE], mask |-> i.mask]
    BY <1>2, <2>1 DEF Views
  <2>4. i.sock \in Sockets /\ i.conn \in Connections /\ i.mask \in Masks
    BY <1>2 DEF Views
  <2>5. a.sock = [state |-> i.sock.state, rx |-> i.sock.rx, sent |-> i.sock.sent, unread |-> i.sock.unread,
                  fin |-> i.sock.fin, reset |-> i.sock.reset, answered |-> TRUE]
    BY <2>3, <2>4 DEF Sockets
  <2>6. a.sock \in Sockets /\ a.sock.rx = i.sock.rx /\ a.sock.sent = i.sock.sent /\ i.sock.rx \in Nat
    BY <2>4, <2>5, SizesAssumption, SMT DEF Sockets
  <2>7. a \in Views /\ a.conn = i.conn
    BY <2>3, <2>4, <2>6 DEF Views
  <2>8. Reached(g, a) /\ g.conn = NoConn
    BY <2>2, <2>7, CloseReached
  <2>9. Reached(g, i)
    BY <1>2, <2>6, <2>7, <2>8, ReachedFrom, SMT
  <2> QED BY <1>2, <2>8, <2>9, ReachedTwice
<1> QED BY <1>5, <1>6

\* A round of a drain loop starts nothing.
LEMMA DrainReached ==
  ASSUME NEW v \in Views, Sound(v.conn), ~v.conn.request_in_flight, NEW g, g = DrainConnection(v)
  PROVE  /\ Reached(g, v)
         /\ g.conn # NoConn =>
              g \in Views /\ Armed(g.conn, g.mask) /\ ~g.conn.request_in_flight
<1>1. CASE v.conn.pending # 0
  BY <1>1, FlushReached DEF DrainConnection, Armed, Listening
<1>2. CASE v.conn.pending = 0
  BY <1>2, CloseReached DEF DrainConnection
<1> QED BY <1>1, <1>2

-----------------------------------------------------------------------------
(* Descriptors are closed, and views written back.                         *)

Kinds == {Free} \cup {Listener(w) : w \in Workers} \cup {Eventfd(w) : w \in Workers}
         \cup {Client(c) : c \in Clients}

\* A descriptor refers to one thing.
LEMMA KindsDiffer ==
  ASSUME NEW r \in Kinds
  PROVE  /\ r.kind = "client" => r.of \in Clients /\ r = Client(r.of)
         /\ \A c : r = Client(c) => r.kind = "client" /\ r.of = c
         /\ \A w : r = Listener(w) => r.kind = "listener" /\ r.of = w
         /\ \A w : r = Eventfd(w) => r.kind = "eventfd" /\ r.of = w
         /\ r = Free => r.kind = "free"
  BY SMT DEF Kinds, Free, Listener, Eventfd, Client

\* A socket after close().
LEMMA ClosedSocket ==
  ASSUME NEW s \in Sockets, NEW t, t = [s EXCEPT !.state = "closed", !.rx = 0, !.unread = 0]
  PROVE  t \in Sockets /\ t.rx <= t.sent
<1>1. t = [state |-> "closed", rx |-> 0, sent |-> s.sent, unread |-> 0,
           fin |-> s.fin, reset |-> s.reset, answered |-> s.answered]
  BY DEF Sockets
<1> QED BY <1>1, SizesAssumption, SMT DEF Sockets

\* close() frees one number and takes it out of every epoll set.
LEMMA CloseEffect ==
  ASSUME TypeOK, NEW f, NEW socks \in [Clients -> Sockets], \A c \in Clients : socks[c].rx <= socks[c].sent,
         Close(f, socks)
  PROVE  /\ fdTable' \in [Fds -> Kinds] /\ sock' \in [Clients -> Sockets] /\ ChunksSent'
         /\ backlog' \in [Workers -> SUBSET Clients] /\ interest' \in [Workers -> [Fds -> Masks]]
         /\ \A h \in Fds : fdTable'[h] = IF h = f THEN Free ELSE fdTable[h]
         /\ \A w \in Workers : \A h \in Fds : interest'[w][h] = IF h = f THEN {} ELSE interest[w][h]
<1>1. /\ fdTable \in [Fds -> Kinds] /\ interest \in [Workers -> [Fds -> Masks]]
      /\ backlog \in [Workers -> SUBSET Clients]
  BY DEF TypeOK, Kinds, Masks
<1>2. /\ fdTable' = [fdTable EXCEPT ![f] = Free]
      /\ interest' = [w \in Workers |-> [interest[w] EXCEPT ![f] = {}]]
  BY DEF Close
<1>3. PICK r : /\ backlog' = [w \in Workers |-> IF r = Listener(w) THEN {} ELSE backlog[w]]
               /\ sock' = [c \in Clients |->
                    IF r = Client(c) \/ \E w \in Workers : r = Listener(w) /\ c \in backlog[w]
                    THEN [socks[c] EXCEPT !.state = "closed", !.rx = 0, !.unread = 0] ELSE socks[c]]
  BY DEF Close
<1>4. ASSUME NEW c \in Clients
      PROVE  sock'[c] \in Sockets /\ sock'[c].rx <= sock'[c].sent
  <2>1. sock'[c] = socks[c] \/ sock'[c] = [socks[c] EXCEPT !.state = "closed", !.rx = 0, !.unread = 0]
    BY <1>3
  <2> QED BY <2>1, ClosedSocket
<1>5. sock' \in [Clients -> Sockets] /\ ChunksSent'
  BY <1>3, <1>4 DEF ChunksSent
<1>6. /\ fdTable' \in [Fds -> Kinds]
      /\ \A h \in Fds : fdTable'[h] = IF h = f THEN Free ELSE fdTable[h]
  BY <1>1, <1>2 DEF Kinds
<1>7. /\ interest' \in [Workers -> [Fds -> Masks]]
      /\ \A w \in Workers : \A h \in Fds : interest'[w][h] = IF h = f THEN {} ELSE interest[w][h]
  BY <1>1, <1>2 DEF Masks
<1>8. backlog' \in [Workers -> SUBSET Clients]
  BY <1>1, <1>3
<1> QED BY <1>5, <1>6, <1>7, <1>8

\* A handler finds an open connection in a view.
LEMMA ViewTyped ==
  ASSUME TypeOK, ConnectionsSound, NEW w \in Workers, NEW f \in Open(w)
  PROVE  /\ View(w, f) \in Views /\ Sound(View(w, f).conn) /\ Armed(View(w, f).conn, View(w, f).mask)
         /\ View(w, f).conn = connections[w][f]
         /\ fdTable[f].kind = "client" => View(w, f).sock = sock[fdTable[f].of]
<1>1. f \in Fds /\ connections[w][f] \in Connections /\ interest[w][f] \in Masks
  BY SMT DEF TypeOK, Open, Masks
<1>2. ASSUME NEW s, s = [NewSock EXCEPT !.reset = TRUE]
      PROVE  s \in Sockets
  <2>1. s = [state |-> "new", rx |-> 0, sent |-> 0, unread |-> 0, fin |-> FALSE, reset |-> TRUE, answered |-> FALSE]
    BY <1>2 DEF NewSock
  <2> QED BY <2>1, SizesAssumption, SMT DEF Sockets
<1>3. View(w, f).sock \in Sockets
  <2>1. CASE fdTable[f].kind = "client"
    <3>1. fdTable[f] \in Kinds
      BY <1>1 DEF TypeOK, Kinds
    <3>2. fdTable[f].of \in Clients
      BY <2>1, <3>1, KindsDiffer
    <3> QED BY <2>1, <3>2 DEF TypeOK, View
  <2>2. CASE fdTable[f].kind # "client"
    BY <1>2, <2>2 DEF View
  <2> QED BY <2>1, <2>2
<1> QED BY <1>1, <1>3 DEF View, Views, ConnectionsSound

\* What a handler leaves in a view is stored, or the descriptor is closed.
LEMMA StoreEffect ==
  ASSUME TypeOK, ChunksSent, ConnectionsSound, NEW w \in Workers, NEW f \in Open(w),
         NEW g, Reached(g, View(w, f)), Store(w, f, g)
  PROVE  /\ connections' \in [Workers -> [Fds -> {NoConn} \cup Connections]]
         /\ connections'[w][f] = g.conn
         /\ \A v \in Workers : \A h \in Fds : v # w \/ h # f => connections'[v][h] = connections[v][h]
         /\ fdTable' \in [Fds -> Kinds] /\ sock' \in [Clients -> Sockets] /\ ChunksSent'
         /\ backlog' \in [Workers -> SUBSET Clients] /\ interest' \in [Workers -> [Fds -> Masks]]
         /\ g.conn = NoConn =>
              /\ \A h \in Fds : fdTable'[h] = IF h = f THEN Free ELSE fdTable[h]
              /\ \A v \in Workers : \A h \in Fds : interest'[v][h] = IF h = f THEN {} ELSE interest[v][h]
              /\ open_connections' = open_connections - 1
         /\ g.conn # NoConn =>
              /\ fdTable' = fdTable /\ open_connections' = open_connections
              /\ interest'[w][f] = g.mask
              /\ \A v \in Workers : \A h \in Fds : v # w \/ h # f => interest'[v][h] = interest[v][h]
<1> DEFINE socks == IF fdTable[f].kind = "client"
                    THEN [sock EXCEPT ![fdTable[f].of] = g.sock] ELSE sock
<1>1. /\ fdTable \in [Fds -> Kinds] /\ sock \in [Clients -> Sockets]
      /\ backlog \in [Workers -> SUBSET Clients] /\ interest \in [Workers -> [Fds -> Masks]]
      /\ connections \in [Workers -> [Fds -> {NoConn} \cup Connections]]
      /\ f \in Fds
  BY DEF TypeOK, Kinds, Masks, Open
<1>2. /\ g.conn \in {NoConn} \cup Connections /\ g.sock \in Sockets /\ g.mask \in Masks
      /\ g.sock.rx <= View(w, f).sock.rx /\ g.sock.sent = View(w, f).sock.sent
  BY DEF Reached, ViewsOrClosed
<1>3. socks \in [Clients -> Sockets] /\ \A c \in Clients : socks[c].rx <= socks[c].sent
  <2>1. CASE fdTable[f].kind = "client"
    <3>1. fdTable[f].of \in Clients
      BY <1>1, <2>1, KindsDiffer
    <3>2. PICK d \in Clients : d = fdTable[f].of
      BY <3>1
    <3>3. socks = [sock EXCEPT ![d] = g.sock]
      BY <2>1, <3>2
    <3>4. g.sock.rx <= sock[d].rx /\ g.sock.sent = sock[d].sent
      BY <1>2, <2>1, <3>2, ViewTyped
    <3>5. g.sock.rx \in Nat /\ sock[d].rx \in Nat /\ sock[d].sent \in Nat
      BY <1>1, <1>2, SizesAssumption, SMT DEF Sockets
    <3>6. g.sock.rx <= g.sock.sent
      BY <3>4, <3>5, SMT DEF ChunksSent
    <3> HIDE DEF socks
    <3>7. socks \in [Clients -> Sockets]
      BY <1>1, <1>2, <3>3
    <3> QED BY <1>1, <3>3, <3>6, <3>7 DEF ChunksSent
  <2>2. CASE fdTable[f].kind # "client"
    BY <1>1, <2>2 DEF ChunksSent
  <2> QED BY <2>1, <2>2
<1>4. /\ connections' = [connections EXCEPT ![w][f] = g.conn]
      /\ \/ /\ g.conn = NoConn
            /\ open_connections' = open_connections - 1
            /\ Close(f, socks)
         \/ /\ g.conn # NoConn
            /\ interest' = [interest EXCEPT ![w][f] = g.mask]
            /\ sock' = socks
            /\ fdTable' = fdTable /\ backlog' = backlog /\ open_connections' = open_connections
  BY DEF Store
<1> HIDE DEF socks
<1>5. /\ connections' \in [Workers -> [Fds -> {NoConn} \cup Connections]]
      /\ connections'[w][f] = g.conn
      /\ \A v \in Workers : \A h \in Fds : v # w \/ h # f => connections'[v][h] = connections[v][h]
  BY <1>1, <1>2, <1>4
<1>6. CASE g.conn = NoConn
  BY <1>3, <1>4, <1>5, <1>6, CloseEffect, SMT
<1>7. CASE g.conn # NoConn
  <2>1. /\ interest' \in [Workers -> [Fds -> Masks]] /\ interest'[w][f] = g.mask
        /\ \A v \in Workers : \A h \in Fds : v # w \/ h # f => interest'[v][h] = interest[v][h]
    <3>1. interest' = [interest EXCEPT ![w][f] = g.mask]
      BY <1>4, <1>7
    <3> QED BY <1>1, <1>2, <3>1
  <2>2. sock' \in [Clients -> Sockets] /\ ChunksSent'
    BY <1>3, <1>4, <1>7 DEF ChunksSent
  <2> QED BY <1>1, <1>4, <1>5, <1>7, <2>1, <2>2
<1> QED BY <1>6, <1>7

\* A handler of worker w ran on the connection at f and left view g.
StoreStep(w, f, g) ==
  /\ f \in Open(w) /\ Reached(g, View(w, f)) /\ Store(w, f, g)
  /\ g.conn # NoConn => g \in Views /\ Armed(g.conn, g.mask)

\* The request that handle_client submits.
Request(w, f) ==
  [worker |-> w, fd |-> f, generation |-> connections[w][f].generation, client |-> connections[w][f].client]

\* A socket event puts a connection in flight only with a request for it.
LEMMA SocketEventStores ==
  ASSUME TypeOK, ConnectionsSound, NEW w \in Workers, NEW e \in batch[w], SocketEvent(w, e)
  PROVE  \E g :
           /\ StoreStep(w, e.fd, g) /\ pc[w] = "event"
           /\ \/ UNCHANGED <<poolQueue, outstanding_tasks>> /\ (g.conn # NoConn /\ g.conn.request_in_flight =>
                   connections[w][e.fd].request_in_flight)
              \/ /\ Accepts
                 /\ poolQueue' = Append(poolQueue, Request(w, e.fd))
                 /\ outstanding_tasks' = [outstanding_tasks EXCEPT ![w] = @ + 1]
<1>1. e \in Events /\ connections[w][e.fd] # NoConn /\ pc[w] = "event"
  BY DEF TypeOK, SocketEvent, TakeEvent
<1>2. e.fd \in Open(w)
  BY <1>1 DEF Events, Open
<1>3. PICK f \in Open(w) : f = e.fd
  BY <1>2
<1>4. PICK v : v = View(w, f)
  OBVIOUS
<1>5. v \in Views /\ Sound(v.conn) /\ Armed(v.conn, v.mask) /\ v.conn = connections[w][f]
  BY <1>4, ViewTyped
<1>6. PICK r \in ReadsOf(v, e.events) :
        /\ Store(w, f, HandleSocket(v, e.events, r))
        /\ IF r[2] = "Complete" /\ "ERR" \notin e.events /\ ~v.sock.reset /\ v.mask # {} /\ Accepts
           THEN /\ poolQueue' = Append(poolQueue, Request(w, f))
                /\ outstanding_tasks' = [outstanding_tasks EXCEPT ![w] = @ + 1]
           ELSE UNCHANGED <<poolQueue, outstanding_tasks>>
  BY <1>3, <1>4 DEF SocketEvent, ReadsOf, Request
<1>7. PICK g : g = HandleSocket(v, e.events, r)
  OBVIOUS
<1>8. /\ Reached(g, v)
      /\ g.conn # NoConn =>
           /\ g \in Views /\ Armed(g.conn, g.mask)
           /\ g.conn.request_in_flight =>
                \/ v.conn.request_in_flight
                \/ /\ r[2] = "Complete" /\ "ERR" \notin e.events /\ ~v.sock.reset
                   /\ v.mask # {} /\ Accepts
  BY <1>5, <1>7, SocketReached, SMT
<1>9. StoreStep(w, f, g)
  BY <1>4, <1>6, <1>7, <1>8 DEF StoreStep
<1> QED BY <1>1, <1>3, <1>5, <1>6, <1>8, <1>9

\* A completion that applies answers the client that asked.
LEMMA CompletionStores ==
  ASSUME TypeOK, ConnectionsSound, ClaimsValid, CompletedWhileApplied,
         NEW w \in Workers, ProcessCompletion(w), NEW k, k = Head(completed[w])
  PROVE  /\ k \in Completions /\ completed[w] # <<>> /\ Claim(k) \in Owed(w)
         /\ \/ KeepSockets /\ ~CompletionApplies(connections[w][k.fd], k)
            \/ \E g : StoreStep(w, k.fd, g) /\ (g.conn # NoConn => ~g.conn.request_in_flight)
<1>1. completed[w] # <<>> /\ completed[w] \in Seq(Completions)
  BY DEF TypeOK, ProcessCompletion, CompletedWhileApplied
<1>2. k \in Completions /\ 1 \in DOMAIN completed[w] /\ k = completed[w][1]
  BY <1>1, SMT
<1>3. Claim(k) \in Owed(w)
  BY <1>2 DEF Owed
<1>4. CASE ~CompletionApplies(connections[w][k.fd], k)
  BY <1>1, <1>2, <1>3, <1>4 DEF ProcessCompletion
<1>5. CASE CompletionApplies(connections[w][k.fd], k)
  <2>1. PICK f \in Fds : f = k.fd
    BY <1>2 DEF Completions
  <2>2. /\ connections[w][f] # NoConn /\ connections[w][f].generation = k.generation
        /\ connections[w][f].request_in_flight
    BY <1>5, <2>1 DEF CompletionApplies
  <2>3. f \in Open(w)
    BY <2>2 DEF Open
  <2>4. Claim(k).fd = f /\ Claim(k).generation = k.generation /\ Claim(k).client = k.client
    BY <2>1 DEF Claim
  <2>5. k.client = connections[w][f].client
    BY <1>3, <2>2, <2>4 DEF ClaimsValid
  <2>6. PICK v : v = View(w, f)
    OBVIOUS
  <2>7. v \in Views /\ Sound(v.conn) /\ v.conn = connections[w][f]
    BY <2>3, <2>6, ViewTyped
  <2>8. PICK g : g = ApplyCompletion(v, k)
    OBVIOUS
  <2>9. /\ Reached(g, v)
        /\ g.conn # NoConn => g \in Views /\ Armed(g.conn, g.mask) /\ ~g.conn.request_in_flight
    BY <1>2, <2>2, <2>5, <2>7, <2>8, CompletionReached DEF Completions
  <2>10. Store(w, f, g)
    BY <1>5, <2>1, <2>6, <2>8 DEF ProcessCompletion
  <2>11. StoreStep(w, f, g)
    BY <2>3, <2>6, <2>9, <2>10 DEF StoreStep
  <2> QED BY <1>1, <1>2, <1>3, <2>1, <2>9, <2>11
<1> QED BY <1>4, <1>5

\* A round of a drain loop passes a connection by, or flushes or closes it.
LEMMA SweepStores ==
  ASSUME TypeOK, ConnectionsSound, NEW w \in Workers, NEW f \in Fds, SweepConnection(w, f)
  PROVE  \/ KeepSockets
         \/ \E g : StoreStep(w, f, g) /\ (g.conn # NoConn => ~g.conn.request_in_flight)
<1>1. CASE connections[w][f] = NoConn \/ connections[w][f].request_in_flight
  BY <1>1 DEF SweepConnection
<1>2. CASE ~(connections[w][f] = NoConn \/ connections[w][f].request_in_flight)
  <2>1. f \in Open(w)
    BY <1>2 DEF Open
  <2>2. PICK v : v = View(w, f)
    OBVIOUS
  <2>3. v \in Views /\ Sound(v.conn) /\ v.conn = connections[w][f]
    BY <2>1, <2>2, ViewTyped
  <2>4. PICK g : g = DrainConnection(v)
    OBVIOUS
  <2>5. /\ Reached(g, v)
        /\ g.conn # NoConn => g \in Views /\ Armed(g.conn, g.mask) /\ ~g.conn.request_in_flight
    BY <1>2, <2>3, <2>4, DrainReached
  <2>6. Store(w, f, g)
    BY <1>2, <2>2, <2>4 DEF SweepConnection
  <2> QED BY <2>1, <2>2, <2>5, <2>6 DEF StoreStep
<1> QED BY <1>1, <1>2

-----------------------------------------------------------------------------
(* The steps of the system.                                                *)

\* What the steps use of the numbers of descriptors: of a set of them the
\* kernel hands out the least, and two numbers are two.
Numbers ==
  \A S \in SUBSET Fds :
    /\ S # {} => Lowest(S) \in S
    /\ Cardinality(S) >= 2 => S # {} /\ \A f \in S : S \ {f} # {}

InFlightOwed ==
  \A w \in Workers : \A f \in Open(w) :
    connections[w][f].request_in_flight =>
      \E k \in Owed(w) : k.fd = f /\ k.generation = connections[w][f].generation

\* A worker whose loop does not run owns and owes nothing.
IdleOutsideLoop ==
  \A w \in Workers :
    pc[w] \in {"new", "init", "close_listener", "close_eventfd", "exited"} =>
      outstanding_tasks[w] = 0 /\ Open(w) = {}

\* Until the eventfd is read and the queue swapped, a completion is noticed.
Noticed ==
  \A w \in Workers :
    Live(w) /\ pc[w] # "swap" /\ completions[w] # <<>> /\ fdTable[completion_fd[w]] = Eventfd(w) =>
      \/ eventfd[w]
      \/ \E p \in PoolThreads : poolThread[p] # NoJob
                                /\ poolThread[p].phase = "notify"
                                /\ poolThread[p].job.worker = w

-----------------------------------------------------------------------------
(* Who may close which descriptor.                                         *)

\* The numbers of its listener and its eventfd that worker v will yet close.
Held(v) ==
  {f \in Fds : Live(v) /\ (f = completion_fd[v] \/ (f = listener_fd[v] /\ pc[v] # "close_eventfd"))}

\* What is open is accounted for.
DescriptorsOwned ==
  \A f \in Fds :
    /\ \A w \in Workers : fdTable[f] = Listener(w) =>
         Live(w) /\ pc[w] # "close_eventfd" /\ f = listener_fd[w] /\ ~draining[w]
    /\ \A w \in Workers : fdTable[f] = Eventfd(w) => Live(w) /\ f = completion_fd[w]
    /\ fdTable[f].kind = "client" => \E w \in Workers : f \in Open(w)

\* How far a worker can be before the shutdown.
Phases ==
  /\ \A w \in Workers :
       /\ pc[w] \in {"flush", "stop", "close_listener", "close_eventfd"} \/ resume[w] \in {"flush", "stop"} =>
            draining[w]
       /\ pc[w] \in {"new", "init"} => ~draining[w]
       /\ draining[w] \/ pc[w] = "exited" => shutdown_requested
       /\ Live(w) => completion_fd[w] \in Fds
       /\ Live(w) /\ ~shutdown_requested =>
            /\ listener_fd[w] \in Fds /\ fdTable[listener_fd[w]] = Listener(w)
            /\ fdTable[completion_fd[w]] = Eventfd(w)
       /\ mainPc = "boot" => pc[w] = "new"
       /\ mainPc \in {"join_pool", "returned"} => pc[w] \in {"new", "exited"}
  /\ mainPc \in {"boot", "returned"} => poolQueue = <<>> /\ \A p \in PoolThreads : poolThread[p] = NoJob

\* A worker that may still accept has its connections for itself: their
\* numbers are open, and no other thread will close them.
Undisturbed(w) == ~shutdown_requested \/ pc[w] = "accepting"

ConnectionsOwned ==
  \A w \in Workers : Undisturbed(w) =>
    \A f \in Open(w) :
      /\ fdTable[f] # Free
      /\ \A v \in Workers : f \notin Held(v) /\ (v # w => f \notin Open(v))

IInv ==
  /\ TypeOK /\ ChunksSent /\ CompletedWhileApplied /\ IdleOutsideLoop
  /\ OutstandingIsExact /\ GaugeIsExact /\ Noticed
  /\ ConnectionsSound /\ ClaimsValid /\ InFlightOwed
  /\ DescriptorsOwned /\ Phases /\ ConnectionsOwned

-----------------------------------------------------------------------------
(* Every variable keeps its type.                                          *)

\* The steps of the peers touch their sockets and the backlogs only.
LEMMA PeerTypes ==
  ASSUME TypeOK, ChunksSent, NEW c \in Clients, PeerNext(c)
  PROVE  /\ sock' \in [Clients -> Sockets] /\ ChunksSent' /\ backlog' \in [Workers -> SUBSET Clients]
         /\ Peer(c)
<1>1. /\ sock \in [Clients -> Sockets] /\ backlog \in [Workers -> SUBSET Clients]
      /\ sock[c] \in Sockets /\ sock[c].rx <= sock[c].sent
  BY DEF TypeOK, ChunksSent
<1>2. ASSUME NEW s \in Sockets, s.rx <= s.sent, sock' = [sock EXCEPT ![c] = s]
      PROVE  sock' \in [Clients -> Sockets] /\ ChunksSent'
  BY <1>1, <1>2 DEF ChunksSent
<1>3. CASE PeerConnects(c)
  <2>1. PICK s : s = [sock[c] EXCEPT !.state = "open"]
    OBVIOUS
  <2>2. s \in Sockets /\ s.rx <= s.sent
    BY <1>1, <2>1, SizesAssumption DEF Sockets
  <2>3. sock' = [sock EXCEPT ![c] = s]
    BY <1>3, <2>1 DEF PeerConnects
  <2>4. backlog' \in [Workers -> SUBSET Clients]
    BY <1>1, <1>3 DEF PeerConnects
  <2> QED BY <1>2, <1>3, <2>2, <2>3, <2>4 DEF PeerConnects
<1>4. CASE PeerSends(c)
  <2>1. PICK s : s = [sock[c] EXCEPT !.sent = @ + 1, !.rx = @ + 1]
    OBVIOUS
  <2>2. s = [state |-> sock[c].state, rx |-> sock[c].rx + 1, sent |-> sock[c].sent + 1, unread |-> sock[c].unread,
             fin |-> sock[c].fin, reset |-> sock[c].reset, answered |-> sock[c].answered]
    BY <1>1, <2>1 DEF Sockets
  <2>3. s \in Sockets /\ s.rx <= s.sent
    BY <1>1, <1>4, <2>2, SizesAssumption, SMT DEF Sockets, PeerSends
  <2>4. sock' = [sock EXCEPT ![c] = s]
    BY <1>1, <1>4, <2>1 DEF PeerSends
  <2> QED BY <1>1, <1>2, <1>4, <2>3, <2>4 DEF PeerSends
<1>5. CASE PeerReads(c)
  <2>1. PICK s : s = [sock[c] EXCEPT !.unread = @ - 1]
    OBVIOUS
  <2>2. s \in Sockets /\ s.rx <= s.sent
    BY <1>1, <1>5, <2>1, SizesAssumption, SMT DEF Sockets, PeerReads
  <2>3. sock' = [sock EXCEPT ![c] = s]
    BY <1>5, <2>1 DEF PeerReads
  <2> QED BY <1>1, <1>2, <1>5, <2>2, <2>3 DEF PeerReads
<1>6. CASE PeerHalfCloses(c)
  <2>1. PICK s : s = [sock[c] EXCEPT !.fin = TRUE]
    OBVIOUS
  <2>2. s \in Sockets /\ s.rx <= s.sent
    BY <1>1, <2>1, SizesAssumption DEF Sockets
  <2>3. sock' = [sock EXCEPT ![c] = s]
    BY <1>6, <2>1 DEF PeerHalfCloses
  <2> QED BY <1>1, <1>2, <1>6, <2>2, <2>3 DEF PeerHalfCloses
<1>7. CASE PeerResets(c)
  <2>1. PICK s : s = [sock[c] EXCEPT !.reset = TRUE, !.rx = 0, !.unread = 0]
    OBVIOUS
  <2>2. s = [state |-> sock[c].state, rx |-> 0, sent |-> sock[c].sent, unread |-> 0,
             fin |-> sock[c].fin, reset |-> TRUE, answered |-> sock[c].answered]
    BY <1>1, <2>1 DEF Sockets
  <2>3. s \in Sockets /\ s.rx <= s.sent
    BY <1>1, <2>2, SizesAssumption, SMT DEF Sockets
  <2>4. sock' = [sock EXCEPT ![c] = s]
    BY <1>1, <1>7, <2>1 DEF PeerResets
  <2> QED BY <1>1, <1>2, <1>7, <2>3, <2>4 DEF PeerResets
<1> QED BY <1>3, <1>4, <1>5, <1>6, <1>7 DEF PeerNext

\* The steps of a worker that only move its program counter and its lists of
\* what is left to visit, or set the flags.
Turn(w) ==
  \/ WorkerInitFails(w)
  \/ EpollWait(w)
  \/ \E e \in batch[w] : IgnoredEvent(w, e) \/ ListenerEvent(w, e) \/ ListenerError(w, e)
  \/ AcceptChecks(w) \/ AcceptReturns(w)
  \/ IterationDrains(w)
  \/ LoopEnds(w)

\* Where such a step goes.
TurnMoves(w, label, next, fds) ==
  /\ pc' = [pc EXCEPT ![w] = label]
  /\ resume' = [resume EXCEPT ![w] = next] /\ next \in {resume[w], "stop"}
  /\ sweep' = [sweep EXCEPT ![w] = fds] /\ fds \in SUBSET Fds
  /\ next = "stop" => draining[w] \/ resume[w] = "stop"
  /\ \/ pc[w] = "init" /\ label = "exited" /\ shutdown_requested'
     \/ /\ pc[w] \in {"wait", "event", "accept", "accepting", "drain", "flush", "stop"}
        /\ label \in {"wait", "event", "accept", "sweep"}
     \/ pc[w] = "accept" /\ label = "accepting" /\ ~shutdown_requested
     \/ pc[w] \in {"drain", "flush"} /\ label = "stop" /\ draining[w]
     \/ /\ pc[w] = "stop" /\ label \in {"close_listener", "close_eventfd"} /\ ShouldStop(w)
        /\ label = "close_listener" \/ listener_fd[w] = NoFd

\* What such a step leaves alone, and where it goes.
LEMMA TurnKeeps ==
  ASSUME TypeOK, NEW w \in Workers, Turn(w)
  PROVE  /\ UNCHANGED <<fdTable, sock, backlog, interest, eventfd, mainPc, signalled, open_connections>>
         /\ UNCHANGED <<poolQueue, poolStopping, poolThread, listener_fd, completion_fd, draining>>
         /\ UNCHANGED <<outstanding_tasks, next_generation, completions, completed, connections>>
         /\ shutdown_requested' \in BOOLEAN /\ worker_failed' \in BOOLEAN
         /\ shutdown_requested => shutdown_requested'
         /\ batch' \in [Workers -> SUBSET Events]
         /\ \E label, next, fds : TurnMoves(w, label, next, fds)
<1> USE DEF TurnMoves
<1>1. /\ pc = [pc EXCEPT ![w] = pc[w]] /\ resume = [resume EXCEPT ![w] = resume[w]]
      /\ sweep = [sweep EXCEPT ![w] = sweep[w]] /\ sweep[w] \in SUBSET Fds
      /\ shutdown_requested \in BOOLEAN /\ worker_failed \in BOOLEAN
      /\ batch \in [Workers -> SUBSET Events] /\ batch = [batch EXCEPT ![w] = batch[w]]
  BY DEF TypeOK
<1>2. CASE WorkerInitFails(w)
  BY <1>1, <1>2 DEF WorkerInitFails, LoopStep, KeepPool, KeepTasks, KeepDrain, KeepSockets, kernelVars, Goto
<1>3. CASE EpollWait(w)
  <2>1. ASSUME NEW f \in Fds
        PROVE  Ready(w, f) \subseteq {"IN", "OUT", "RDHUP", "ERR"}
    <3>1. interest[w][f] \subseteq {"IN", "OUT", "RDHUP"}
      BY SMT DEF TypeOK
    <3>2. \A a, b : (interest[w][f] \cap a) \cup b \subseteq {"IN", "OUT", "RDHUP"} \cup b
      BY <3>1
    <3>3. \A x, y, z : (IF x THEN {"ERR"} ELSE {}) \subseteq {"ERR"}
      OBVIOUS
    <3> QED BY <3>1, <3>2, <3>3 DEF Ready
  <2>2. batch' \in [Workers -> SUBSET Events]
    <3> DEFINE ready == {[fd |-> f, events |-> Ready(w, f)] : f \in {g \in Fds : Ready(w, g) # {}}}
    <3>1. ready \in SUBSET Events
      BY <2>1, SMT DEF Events
    <3>2. batch' = [batch EXCEPT ![w] = ready]
      BY <1>3 DEF EpollWait
    <3> HIDE DEF ready
    <3> QED BY <1>1, <3>1, <3>2
  <2> QED BY <1>1, <1>3, <2>2 DEF EpollWait, LoopStep, KeepFlags, KeepPool, KeepTasks, KeepDrain, KeepSockets,
               kernelVars, Goto
<1>4. CASE \E e \in batch[w] : IgnoredEvent(w, e) \/ ListenerEvent(w, e) \/ ListenerError(w, e)
  <2>1. PICK e \in batch[w] : IgnoredEvent(w, e) \/ ListenerEvent(w, e) \/ ListenerError(w, e)
    BY <1>4
  <2>2. batch' \in [Workers -> SUBSET Events] /\ pc[w] = "event"
    BY <1>1, <2>1 DEF IgnoredEvent, ListenerEvent, ListenerError, TakeEvent
  <2>3. CASE IgnoredEvent(w, e)
    BY <1>1, <2>2, <2>3 DEF IgnoredEvent, LoopStep, KeepFlags, KeepPool, KeepTasks, KeepDrain, KeepSockets,
         kernelVars
  <2>4. CASE ListenerEvent(w, e)
    BY <1>1, <2>2, <2>4 DEF ListenerEvent, LoopStep, KeepFlags, KeepPool, KeepTasks, KeepDrain, KeepSockets,
         kernelVars, Goto
  <2>5. CASE ListenerError(w, e)
    BY <1>1, <2>2, <2>5 DEF ListenerError, LoopStep, KeepPool, KeepTasks, KeepDrain, KeepSockets, kernelVars
  <2> QED BY <2>1, <2>3, <2>4, <2>5
<1>5. CASE AcceptChecks(w)
  BY <1>1, <1>5 DEF AcceptChecks, LoopStep, KeepFlags, KeepPool, KeepTasks, KeepDrain, KeepSockets, kernelVars, Goto
<1>6. CASE AcceptReturns(w)
  BY <1>1, <1>6 DEF AcceptReturns, LoopStep, KeepFlags, KeepPool, KeepTasks, KeepDrain, KeepSockets, kernelVars, Goto
<1>7. CASE IterationDrains(w)
  <2>1. Open(w) \in SUBSET Fds
    BY DEF Open
  <2>2. /\ UNCHANGED <<fdTable, sock, backlog, interest, eventfd, mainPc, signalled, open_connections>>
        /\ UNCHANGED <<poolQueue, poolStopping, poolThread, listener_fd, completion_fd, draining>>
        /\ UNCHANGED <<outstanding_tasks, next_generation, completions, completed, connections>>
        /\ UNCHANGED <<shutdown_requested, worker_failed, batch>> /\ pc[w] \in {"drain", "flush"}
    BY <1>7 DEF IterationDrains, LoopStep, KeepFlags, KeepPool, KeepTasks, KeepSockets, kernelVars
  <2>3. CASE draining[w] /\ SweepThen(w, "stop")
    <3>1. CASE Open(w) = {}
      BY <1>1, <2>1, <2>2, <2>3, <3>1 DEF SweepThen, Goto
    <3>2. CASE Open(w) # {}
      BY <1>1, <2>1, <2>2, <2>3, <3>2 DEF SweepThen, Goto
    <3> QED BY <3>1, <3>2
  <2>4. CASE Goto(w, "wait") /\ UNCHANGED <<sweep, resume>>
    BY <1>1, <2>2, <2>4 DEF Goto
  <2> QED BY <1>7, <2>3, <2>4 DEF IterationDrains
<1>8. CASE LoopEnds(w)
  BY <1>1, <1>8 DEF LoopEnds, LoopStep, KeepFlags, KeepPool, KeepTasks, KeepDrain, KeepSockets, kernelVars, Goto
<1> QED BY <1>2, <1>3, <1>4, <1>5, <1>6, <1>7, <1>8 DEF Turn

\* The steps of a worker that close its listener or its eventfd.
Closing(w) ==
  DrainFromEvent(w) \/ DrainFromIteration(w) \/ CloseListener(w) \/ WorkerReturns(w)

\* What such a step closes, and where it goes.
ClosingMoves(w, label, next, fds) ==
  /\ pc' = [pc EXCEPT ![w] = label]
  /\ resume' = [resume EXCEPT ![w] = next]
  /\ sweep' = [sweep EXCEPT ![w] = fds] /\ fds \in SUBSET Fds
  /\ \/ /\ pc[w] \in {"event", "drain"} /\ label \in {"event", "flush", "sweep"}
        /\ next \in {"event", "flush"}
        /\ shutdown_requested /\ draining' = [draining EXCEPT ![w] = TRUE]
        /\ Close(listener_fd[w], sock)
        /\ listener_fd' \in {listener_fd, [listener_fd EXCEPT ![w] = NoFd]}
     \/ /\ pc[w] = "close_listener" /\ label = "close_eventfd" /\ next = resume[w]
        /\ Close(listener_fd[w], sock) /\ UNCHANGED <<listener_fd, draining>>
     \/ /\ pc[w] = "close_eventfd" /\ label = "exited" /\ next = resume[w]
        /\ Close(completion_fd[w], sock) /\ UNCHANGED <<listener_fd, draining>>

\* What such a step leaves alone.
LEMMA ClosingKeeps ==
  ASSUME TypeOK, NEW w \in Workers, Closing(w)
  PROVE  /\ UNCHANGED <<eventfd, mainPc, signalled, shutdown_requested, worker_failed, open_connections>>
         /\ UNCHANGED <<poolQueue, poolThread, completion_fd, batch, connections>>
         /\ UNCHANGED <<outstanding_tasks, next_generation, completions, completed>>
         /\ poolStopping' \in BOOLEAN
         /\ \E label, next, fds : ClosingMoves(w, label, next, fds)
<1> USE DEF ClosingMoves
<1>1. /\ resume = [resume EXCEPT ![w] = resume[w]] /\ sweep = [sweep EXCEPT ![w] = sweep[w]]
      /\ sweep[w] \in SUBSET Fds /\ poolStopping \in BOOLEAN
  BY DEF TypeOK
<1>2. Open(w) \in SUBSET Fds
  BY DEF Open
<1>3. ASSUME NEW next, BeginDrain(w, next)
      PROVE  /\ UNCHANGED <<eventfd, mainPc, signalled, shutdown_requested, worker_failed, open_connections>>
             /\ UNCHANGED <<poolQueue, poolThread, completion_fd, batch, connections>>
             /\ UNCHANGED <<outstanding_tasks, next_generation, completions, completed>>
             /\ poolStopping' \in BOOLEAN
             /\ shutdown_requested /\ draining' = [draining EXCEPT ![w] = TRUE]
             /\ Close(listener_fd[w], sock) /\ SweepThen(w, next)
  BY <1>3 DEF BeginDrain, LoopStep, KeepFlags, KeepTasks
<1>4. ASSUME NEW next, SweepThen(w, next)
      PROVE  \E label, fds :
               /\ pc' = [pc EXCEPT ![w] = label] /\ label \in {next, "sweep"}
               /\ resume' = [resume EXCEPT ![w] = next]
               /\ sweep' = [sweep EXCEPT ![w] = fds] /\ fds \in SUBSET Fds
  <2>1. CASE Open(w) = {}
    BY <1>2, <1>4, <2>1 DEF SweepThen, Goto
  <2>2. CASE Open(w) # {}
    BY <1>2, <1>4, <2>2 DEF SweepThen, Goto
  <2> QED BY <2>1, <2>2
<1>5. CASE DrainFromEvent(w)
  <2>1. pc[w] = "event" /\ BeginDrain(w, "event") /\ listener_fd' = listener_fd
    BY <1>5 DEF DrainFromEvent
  <2>2. SweepThen(w, "event")
    BY <1>3, <2>1
  <2>3. PICK label, fds :
               /\ pc' = [pc EXCEPT ![w] = label] /\ label \in {"event", "sweep"}
               /\ resume' = [resume EXCEPT ![w] = "event"]
               /\ sweep' = [sweep EXCEPT ![w] = fds] /\ fds \in SUBSET Fds
    BY <1>4, <2>2
  <2> QED BY <1>3, <2>1, <2>3
<1>6. CASE DrainFromIteration(w)
  <2>1. /\ pc[w] = "drain" /\ BeginDrain(w, "flush")
        /\ listener_fd' = [listener_fd EXCEPT ![w] = NoFd]
    BY <1>6 DEF DrainFromIteration
  <2>2. SweepThen(w, "flush")
    BY <1>3, <2>1
  <2>3. PICK label, fds :
               /\ pc' = [pc EXCEPT ![w] = label] /\ label \in {"flush", "sweep"}
               /\ resume' = [resume EXCEPT ![w] = "flush"]
               /\ sweep' = [sweep EXCEPT ![w] = fds] /\ fds \in SUBSET Fds
    BY <1>4, <2>2
  <2> QED BY <1>3, <2>1, <2>3
<1>7. CASE CloseListener(w)
  BY <1>1, <1>7 DEF CloseListener, LoopStep, KeepFlags, KeepPool, KeepTasks, KeepDrain, Goto
<1>8. CASE WorkerReturns(w)
  BY <1>1, <1>8 DEF WorkerReturns, LoopStep, KeepFlags, KeepPool, KeepTasks, KeepDrain, Goto
<1> QED BY <1>5, <1>6, <1>7, <1>8 DEF Closing

\* A worker empties its eventfd.
Notifying(w) == OnIteration(w) \/ \E e \in batch[w] : CompletionEvent(w, e)

\* What that leaves alone.
LEMMA NotifyingKeeps ==
  ASSUME TypeOK, NEW w \in Workers, Notifying(w)
  PROVE  /\ UNCHANGED <<fdTable, sock, backlog, interest, mainPc, signalled, open_connections>>
         /\ UNCHANGED <<shutdown_requested, worker_failed, poolQueue, poolStopping, poolThread>>
         /\ UNCHANGED <<sweep, listener_fd, completion_fd, draining, outstanding_tasks, next_generation>>
         /\ UNCHANGED <<completions, completed, connections>>
         /\ batch' \in [Workers -> SUBSET Events]
         /\ pc[w] = "event" /\ pc' = [pc EXCEPT ![w] = "swap"] /\ eventfd' = [eventfd EXCEPT ![w] = FALSE]
         /\ \E next \in {"event", "drain"} : resume' = [resume EXCEPT ![w] = next]
<1>1. CASE OnIteration(w)
  BY <1>1 DEF OnIteration, ReadNotifications, LoopStep, KeepFlags, KeepPool, KeepSockets, kernelVars, Goto, TypeOK
<1>2. ASSUME NEW e \in batch[w], CompletionEvent(w, e)
      PROVE  /\ ReadNotifications(w) /\ pc[w] = "event" /\ resume' = [resume EXCEPT ![w] = "event"]
             /\ batch' \in [Workers -> SUBSET Events]
  BY <1>2 DEF CompletionEvent, TakeEvent, TypeOK
<1>3. CASE \E e \in batch[w] : CompletionEvent(w, e)
  BY <1>2, <1>3 DEF ReadNotifications, LoopStep, KeepFlags, KeepPool, KeepSockets, kernelVars, Goto
<1> QED BY <1>1, <1>3 DEF Notifying

-----------------------------------------------------------------------------
(* The numbers the kernel hands out.                                       *)

\* An accepted connection gets a number that its worker does not use.
LEMMA AcceptTakesFree ==
  ASSUME Numbers, TypeOK, ConnectionsOwned, NEW w \in Workers, NEW c \in Clients, Accept(w, c)
  PROVE  \E f \in Fds :
           /\ fdTable[f] = Free /\ connections[w][f] = NoConn
           /\ fdTable' = [fdTable EXCEPT ![f] = Client(c)]
           /\ interest' = [interest EXCEPT ![w][f] = {"IN", "RDHUP"}]
           /\ connections' = [connections EXCEPT ![w][f] = NewConnection(c, next_generation[w])]
<1>1. pc[w] = "accepting" /\ FreeFds # {} /\ FreeFds \in SUBSET Fds
  BY DEF Accept, CanAccept, FreeFds
<1>2. PICK f : f = Lowest(FreeFds)
  OBVIOUS
<1>3. f \in Fds /\ fdTable[f] = Free
  BY <1>1, <1>2 DEF Numbers, FreeFds
<1>4. connections[w][f] = NoConn
  BY <1>1, <1>3 DEF ConnectionsOwned, Undisturbed, Open
<1> QED BY <1>2, <1>3, <1>4 DEF Accept

-----------------------------------------------------------------------------
(* The requests of a worker that the pool holds.                           *)

\* The places of worker w's requests in queue q.
Places(q, w) == {i \in DOMAIN q : q[i].worker = w}

taskVars == <<outstanding_tasks, poolQueue, poolThread, completions, completed>>

\* Which steps touch the tasks.
LEMMA TaskSteps ==
  ASSUME TypeOK, Next
  PROVE  \/ UNCHANGED taskVars
         \/ \E p \in PoolThreads : PoolNext(p)
         \/ \E w \in Workers : \/ \E e \in batch[w] : SocketEvent(w, e)
                               \/ SwapCompletions(w) \/ ProcessCompletion(w)
<1>1. CASE MainNext
  BY <1>1 DEF MainNext, Start, StartFails, SpawnWorker, SpawnThrows, JoinWorkers, JoinPool, MainStep, loopVars, taskVars
<1>2. CASE Signal
  BY <1>2 DEF Signal, poolVars, loopVars, taskVars
<1>3. ASSUME NEW c \in Clients, PeerNext(c)
      PROVE  UNCHANGED taskVars
  <2>1. Peer(c)
    BY <1>3 DEF PeerNext, PeerConnects, PeerSends, PeerReads, PeerHalfCloses, PeerResets
  <2> QED BY <2>1 DEF Peer, poolVars, loopVars, taskVars
<1>4. ASSUME NEW w \in Workers, WorkerNext(w)
      PROVE  \/ UNCHANGED taskVars
             \/ \E e \in batch[w] : SocketEvent(w, e)
             \/ SwapCompletions(w) \/ ProcessCompletion(w)
  <2>1. CASE Turn(w)
    BY <2>1, TurnKeeps DEF taskVars
  <2>2. CASE Closing(w)
    BY <2>2, ClosingKeeps DEF taskVars
  <2>3. CASE Notifying(w)
    BY <2>3, NotifyingKeeps DEF taskVars
  <2>4. CASE WorkerInit(w)
    BY <2>4 DEF WorkerInit, poolVars, taskVars
  <2>5. CASE \E c \in Clients : Accept(w, c) \/ AcceptDrops(w, c)
    BY <2>5 DEF Accept, AcceptDrops, LoopStep, KeepPool, KeepTasks, taskVars
  <2>6. CASE \E f \in Fds : SweepConnection(w, f)
    BY <2>6 DEF SweepConnection, LoopStep, KeepPool, KeepTasks, taskVars
  <2> QED BY <1>4, <2>1, <2>2, <2>3, <2>4, <2>5, <2>6 DEF WorkerNext, Turn, Closing, Notifying
<1> QED BY <1>1, <1>2, <1>3, <1>4 DEF Next

-----------------------------------------------------------------------------
(* Types, and the chunks a socket holds.                                   *)

\* A worker gets two numbers that were free.
InitWith(w, l, e) ==
  /\ l # e /\ fdTable[l] = Free /\ fdTable[e] = Free
  /\ listener_fd' = [listener_fd EXCEPT ![w] = l] /\ completion_fd' = [completion_fd EXCEPT ![w] = e]
  /\ fdTable' = [fdTable EXCEPT ![l] = Listener(w), ![e] = Eventfd(w)]
  /\ interest' = [interest EXCEPT ![w][l] = {"IN"}, ![w][e] = {"IN"}]

\* socket() and eventfd() return numbers that are not open.
LEMMA InitTakesFree ==
  ASSUME Numbers, TypeOK, NEW w \in Workers, WorkerInit(w)
  PROVE  \E l, e \in Fds : InitWith(w, l, e)
<1>1. FreeFds \in SUBSET Fds /\ Cardinality(FreeFds) >= 2
  BY DEF WorkerInit, FreeFds
<1>2. PICK l : l = Lowest(FreeFds)
  OBVIOUS
<1>3. l \in FreeFds /\ FreeFds \ {l} # {}
  BY <1>1, <1>2 DEF Numbers
<1>4. PICK e : e = Lowest(FreeFds \ {l})
  OBVIOUS
<1>5. e \in FreeFds \ {l}
  <2>1. FreeFds \ {l} \in SUBSET Fds
    BY <1>1
  <2> QED BY <1>3, <1>4, <2>1 DEF Numbers
<1> QED BY <1>2, <1>3, <1>4, <1>5 DEF WorkerInit, FreeFds, InitWith

\* The types of what main, a signal and the peers touch.
LEMMA OutsideTypes ==
  ASSUME TypeOK, ChunksSent, MainNext \/ Signal \/ \E c \in Clients : PeerNext(c)
  PROVE  TypeOK' /\ ChunksSent'
<1>1. CASE Start \/ StartFails \/ SpawnThrows \/ JoinWorkers \/ JoinPool
  BY <1>1 DEF Start, StartFails, SpawnThrows, JoinWorkers, JoinPool, MainStep, kernelVars, loopVars, TypeOK, ChunksSent
<1>2. ASSUME NEW w \in Workers, SpawnWorker(w)
      PROVE  TypeOK' /\ ChunksSent'
  BY <1>2 DEF SpawnWorker, Goto, MainStep, kernelVars, loopVars, TypeOK, ChunksSent
<1>3. CASE Signal
  BY <1>3 DEF Signal, kernelVars, poolVars, loopVars, TypeOK, ChunksSent
<1>4. ASSUME NEW c \in Clients, PeerNext(c)
      PROVE  TypeOK' /\ ChunksSent'
  BY <1>4, PeerTypes DEF Peer, processVars, poolVars, loopVars, TypeOK
<1> QED BY <1>1, <1>2, <1>3, <1>4 DEF MainNext

\* The types of what the pool touches.
LEMMA PoolTypes ==
  ASSUME TypeOK, ChunksSent, NEW p \in PoolThreads, PoolNext(p)
  PROVE  TypeOK' /\ ChunksSent'
<1>1. /\ poolQueue \in Seq(Jobs) /\ Len(poolQueue) <= QueueCapacity /\ QueueCapacity \in Nat
      /\ completions \in [Workers -> Seq(Completions)] /\ eventfd \in [Workers -> BOOLEAN]
      /\ poolThread \in [PoolThreads -> {NoJob} \cup [phase : {"route", "notify"}, job : Jobs]]
  BY SizesAssumption DEF TypeOK
<1>2. PoolStep
  BY DEF PoolNext, PoolPop, PoolRespond, PoolNotify
<1>3. ASSUME poolQueue' \in Seq(Jobs), Len(poolQueue') <= QueueCapacity,
             completions' \in [Workers -> Seq(Completions)], eventfd' \in [Workers -> BOOLEAN],
             poolThread' \in [PoolThreads -> {NoJob} \cup [phase : {"route", "notify"}, job : Jobs]]
      PROVE  TypeOK' /\ ChunksSent'
  BY <1>2, <1>3 DEF PoolStep, kernelVars, processVars, TypeOK, ChunksSent
<1>4. CASE PoolPop(p)
  <2>1. /\ poolQueue # <<>> /\ poolQueue' = Tail(poolQueue) /\ eventfd' = eventfd /\ completions' = completions
        /\ poolThread' = [poolThread EXCEPT ![p] = [phase |-> "route", job |-> Head(poolQueue)]]
    BY <1>4 DEF PoolPop
  <2>2. poolQueue' \in Seq(Jobs) /\ Len(poolQueue') <= QueueCapacity /\ Head(poolQueue) \in Jobs
    BY <1>1, <2>1, SMT
  <2>3. poolThread' \in [PoolThreads -> {NoJob} \cup [phase : {"route", "notify"}, job : Jobs]]
    BY <1>1, <2>1, <2>2
  <2> QED BY <1>1, <1>3, <2>1, <2>2, <2>3
<1>5. CASE PoolRespond(p)
  <2>1. PICK j \in Jobs : j = poolThread[p].job
    BY <1>1, <1>5 DEF PoolRespond
  <2>2. PICK n \in ResponseSizes :
          completions' = [completions EXCEPT ![j.worker] = Append(@,
            [fd |-> j.fd, generation |-> j.generation, client |-> j.client, size |-> n])]
    BY <1>5, <2>1 DEF PoolRespond
  <2>3. [fd |-> j.fd, generation |-> j.generation, client |-> j.client, size |-> n] \in Completions
    BY <2>1 DEF Jobs, Completions
  <2>4. completions' \in [Workers -> Seq(Completions)]
    <3>1. PICK k \in Completions : completions' = [completions EXCEPT ![j.worker] = Append(@, k)]
      BY <2>2, <2>3
    <3>2. j.worker \in Workers /\ completions[j.worker] \in Seq(Completions)
      BY <1>1 DEF Jobs
    <3>3. Append(completions[j.worker], k) \in Seq(Completions)
      BY <3>2, SMT
    <3> QED BY <1>1, <3>1, <3>3
  <2>5. /\ poolThread[p] # NoJob /\ poolThread' = [poolThread EXCEPT ![p].phase = "notify"]
        /\ eventfd' = eventfd /\ poolQueue' = poolQueue
    BY <1>5 DEF PoolRespond
  <2>6. poolThread' \in [PoolThreads -> {NoJob} \cup [phase : {"route", "notify"}, job : Jobs]]
    <3>0. poolThread[p] \in [phase : {"route", "notify"}, job : Jobs]
      BY <1>1, <2>5
    <3>1. [poolThread[p] EXCEPT !.phase = "notify"] \in [phase : {"route", "notify"}, job : Jobs]
      BY <3>0
    <3>2. poolThread' = [poolThread EXCEPT ![p] = [poolThread[p] EXCEPT !.phase = "notify"]]
      BY <2>5
    <3> QED BY <1>1, <3>1, <3>2
  <2> QED BY <1>1, <1>3, <2>4, <2>5, <2>6
<1>6. CASE PoolNotify(p)
  <2>1. /\ poolThread' = [poolThread EXCEPT ![p] = NoJob] /\ completions' = completions /\ poolQueue' = poolQueue
        /\ \E w, b : eventfd' = [eventfd EXCEPT ![w] = @ \/ b]
    BY <1>6 DEF PoolNotify
  <2>2. eventfd' \in [Workers -> BOOLEAN]
    BY <1>1, <2>1
  <2>3. poolThread' \in [PoolThreads -> {NoJob} \cup [phase : {"route", "notify"}, job : Jobs]]
    BY <1>1, <2>1
  <2> QED BY <1>1, <1>3, <2>1, <2>2, <2>3
<1> QED BY <1>4, <1>5, <1>6 DEF PoolNext

Labels ==
  {"new", "init", "wait", "event", "accept", "accepting", "swap", "complete",
   "drain", "flush", "sweep", "stop", "close_listener", "close_eventfd", "exited"}

\* A worker goes to one of its labels.
LEMMA MoveTypes ==
  ASSUME TypeOK, NEW w \in Workers, NEW label \in Labels, NEW next \in {"event", "drain", "flush", "stop"},
         NEW fds \in SUBSET Fds
  PROVE  /\ [pc EXCEPT ![w] = label] \in [Workers -> Labels]
         /\ [resume EXCEPT ![w] = next] \in [Workers -> {"event", "drain", "flush", "stop"}]
         /\ [sweep EXCEPT ![w] = fds] \in [Workers -> SUBSET Fds]
         /\ resume[w] \in {"event", "drain", "flush", "stop"} /\ resume[w] \in Labels
  BY DEF TypeOK, Labels

\* The types of what a turn of a worker touches.
LEMMA TurnTypes ==
  ASSUME TypeOK, ChunksSent, NEW w \in Workers, Turn(w)
  PROVE  TypeOK' /\ ChunksSent'
<1>1. PICK label, next, fds : TurnMoves(w, label, next, fds)
  BY TurnKeeps
<1>2. resume[w] \in {"event", "drain", "flush", "stop"}
  BY DEF TypeOK
<1>3. /\ label \in Labels /\ next \in {"event", "drain", "flush", "stop"} /\ fds \in SUBSET Fds
      /\ pc' = [pc EXCEPT ![w] = label] /\ resume' = [resume EXCEPT ![w] = next]
      /\ sweep' = [sweep EXCEPT ![w] = fds]
  BY <1>1, <1>2 DEF TurnMoves, Labels
<1>4. /\ pc' \in [Workers -> Labels] /\ resume' \in [Workers -> {"event", "drain", "flush", "stop"}]
      /\ sweep' \in [Workers -> SUBSET Fds]
  BY <1>3, MoveTypes
<1> QED BY <1>4, TurnKeeps DEF TypeOK, ChunksSent, Labels

\* The types of what a worker touches when it closes a descriptor.
LEMMA ClosingTypes ==
  ASSUME TypeOK, ChunksSent, NEW w \in Workers, Closing(w)
  PROVE  TypeOK' /\ ChunksSent'
<1>1. PICK label, next, fds : ClosingMoves(w, label, next, fds)
  BY ClosingKeeps
<1>2. resume[w] \in {"event", "drain", "flush", "stop"}
  BY DEF TypeOK
<1>3. /\ label \in Labels /\ next \in {"event", "drain", "flush", "stop"} /\ fds \in SUBSET Fds
      /\ pc' = [pc EXCEPT ![w] = label] /\ resume' = [resume EXCEPT ![w] = next]
      /\ sweep' = [sweep EXCEPT ![w] = fds]
  BY <1>1, <1>2 DEF ClosingMoves, Labels
<1>4. /\ pc' \in [Workers -> Labels] /\ resume' \in [Workers -> {"event", "drain", "flush", "stop"}]
      /\ sweep' \in [Workers -> SUBSET Fds]
  BY <1>3, MoveTypes
<1>5. \E f : Close(f, sock)
  BY <1>1 DEF ClosingMoves
<1>6. /\ draining' = draining \/ draining' = [draining EXCEPT ![w] = TRUE]
      /\ listener_fd' = listener_fd \/ listener_fd' = [listener_fd EXCEPT ![w] = NoFd]
  BY <1>1 DEF ClosingMoves
<1>7. draining' \in [Workers -> BOOLEAN]
  BY <1>6 DEF TypeOK
<1>8. listener_fd' \in [Workers -> Fds \cup {NoFd}]
  BY <1>6 DEF TypeOK
<1>9. sock \in [Clients -> Sockets] /\ \A c \in Clients : sock[c].rx <= sock[c].sent
  BY DEF TypeOK, ChunksSent
<1>10. /\ fdTable' \in [Fds -> Kinds] /\ sock' \in [Clients -> Sockets] /\ ChunksSent'
       /\ backlog' \in [Workers -> SUBSET Clients] /\ interest' \in [Workers -> [Fds -> Masks]]
  BY <1>5, <1>9, CloseEffect
<1> QED BY <1>4, <1>7, <1>8, <1>10, ClosingKeeps DEF TypeOK, Kinds, Masks, Labels

-----------------------------------------------------------------------------
(* The connections.                                                        *)

connVars == <<fdTable, connections, interest, open_connections, next_generation>>

\* Which steps touch the connections.
LEMMA ConnectionSteps ==
  ASSUME TypeOK, ConnectionsSound, ClaimsValid, CompletedWhileApplied, [Next]_vars
  PROVE  \/ UNCHANGED connVars
         \/ \E w \in Workers : Closing(w) \/ WorkerInit(w) \/ \E c \in Clients : Accept(w, c)
         \/ \E w \in Workers : \E f, g : StoreStep(w, f, g) /\ UNCHANGED next_generation
<1>1. CASE MainNext
  BY <1>1 DEF MainNext, Start, StartFails, SpawnWorker, SpawnThrows, JoinWorkers, JoinPool, MainStep,
              loopVars, kernelVars, connVars
<1>2. CASE Signal
  BY <1>2 DEF Signal, loopVars, kernelVars, connVars
<1>3. ASSUME NEW c \in Clients, PeerNext(c)
      PROVE  UNCHANGED connVars
  <2>1. Peer(c)
    BY <1>3 DEF PeerNext, PeerConnects, PeerSends, PeerReads, PeerHalfCloses, PeerResets
  <2> QED BY <2>1 DEF Peer, loopVars, connVars
<1>4. ASSUME NEW p \in PoolThreads, PoolNext(p)
      PROVE  UNCHANGED connVars
  <2>1. PoolStep
    BY <1>4 DEF PoolNext, PoolPop, PoolRespond, PoolNotify
  <2> QED BY <2>1 DEF PoolStep, kernelVars, connVars
<1>5. ASSUME NEW w \in Workers, WorkerNext(w)
      PROVE  \/ UNCHANGED connVars
             \/ Closing(w) \/ WorkerInit(w) \/ \E c \in Clients : Accept(w, c)
             \/ \E f, g : StoreStep(w, f, g) /\ UNCHANGED next_generation
  <2>1. CASE Turn(w)
    BY <2>1, TurnKeeps DEF connVars
  <2>2. CASE Notifying(w)
    BY <2>2, NotifyingKeeps DEF connVars
  <2>3. CASE SwapCompletions(w)
    BY <2>3 DEF SwapCompletions, KeepSockets, kernelVars, connVars
  <2>4. ASSUME NEW c \in Clients, AcceptDrops(w, c)
        PROVE  UNCHANGED connVars
    BY <2>4 DEF AcceptDrops, connVars
  <2>5. ASSUME NEW e \in batch[w], SocketEvent(w, e)
        PROVE  \E f, g : StoreStep(w, f, g) /\ UNCHANGED next_generation
    <3>1. UNCHANGED next_generation
      BY <2>5 DEF SocketEvent
    <3> QED BY <2>5, <3>1, SocketEventStores
  <2>6. CASE ProcessCompletion(w)
    <3>1. UNCHANGED next_generation
      BY <2>6 DEF ProcessCompletion
    <3>2. PICK k : k = Head(completed[w])
      OBVIOUS
    <3>3. KeepSockets \/ \E g : StoreStep(w, k.fd, g)
      BY <2>6, <3>2, CompletionStores
    <3> QED BY <3>1, <3>3 DEF KeepSockets, kernelVars, connVars
  <2>7. ASSUME NEW f \in Fds, SweepConnection(w, f)
        PROVE  UNCHANGED connVars \/ \E g : StoreStep(w, f, g) /\ UNCHANGED next_generation
    <3>1. UNCHANGED next_generation
      BY <2>7 DEF SweepConnection
    <3> QED BY <2>7, <3>1, SweepStores DEF KeepSockets, kernelVars, connVars
  <2> QED BY <1>5, <2>1, <2>2, <2>3, <2>4, <2>5, <2>6, <2>7 DEF WorkerNext, Turn, Closing, Notifying
<1>6. CASE UNCHANGED vars
  BY <1>6 DEF vars, loopVars, kernelVars, connVars
<1> QED BY <1>1, <1>2, <1>3, <1>4, <1>5, <1>6 DEF Next

\* A new connection waits for its request.
LEMMA NewIsSound ==
  ASSUME NEW c \in Clients, NEW g \in Nat, NEW n, n = NewConnection(c, g)
  PROVE  n \in Connections /\ Sound(n) /\ Armed(n, {"IN", "RDHUP"}) /\ ~n.request_in_flight
         /\ n.client = c /\ n.generation = g
<1>1. MaxOutbound \in Nat
  BY SizesAssumption
<1> QED BY <1>1, SMT DEF NewConnection, Connections, Sound, Fit, Armed

\* Accepting adds one connection and changes no other.
LEMMA AcceptEffect ==
  ASSUME Numbers, TypeOK, ConnectionsOwned, NEW w \in Workers, NEW c \in Clients, Accept(w, c)
  PROVE  \E f \in Fds : \E n \in Connections :
           /\ fdTable[f] = Free /\ connections[w][f] = NoConn
           /\ n = NewConnection(c, next_generation[w])
           /\ connections'[w][f] = n /\ interest'[w][f] = {"IN", "RDHUP"}
           /\ \A h \in Fds : fdTable'[h] = IF h = f THEN Client(c) ELSE fdTable[h]
           /\ \A v \in Workers : \A h \in Fds : v # w \/ h # f =>
                connections'[v][h] = connections[v][h] /\ interest'[v][h] = interest[v][h]
<1>1. PICK f \in Fds :
           /\ fdTable[f] = Free /\ connections[w][f] = NoConn
           /\ fdTable' = [fdTable EXCEPT ![f] = Client(c)]
           /\ interest' = [interest EXCEPT ![w][f] = {"IN", "RDHUP"}]
           /\ connections' = [connections EXCEPT ![w][f] = NewConnection(c, next_generation[w])]
  BY AcceptTakesFree
<1>2. next_generation[w] \in Nat
  BY DEF TypeOK
<1>3. PICK n \in Connections : n = NewConnection(c, next_generation[w])
  BY <1>2, NewIsSound
<1>4. /\ connections \in [Workers -> [Fds -> {NoConn} \cup Connections]]
      /\ interest \in [Workers -> [Fds -> Masks]] /\ fdTable \in [Fds -> Kinds]
  BY DEF TypeOK, Masks, Kinds
<1>5. /\ connections'[w][f] = n
      /\ \A v \in Workers : \A h \in Fds : v # w \/ h # f => connections'[v][h] = connections[v][h]
  BY <1>1, <1>3, <1>4
<1>6. /\ interest'[w][f] = {"IN", "RDHUP"}
      /\ \A v \in Workers : \A h \in Fds : v # w \/ h # f => interest'[v][h] = interest[v][h]
  BY <1>1, <1>4
<1>7. \A h \in Fds : fdTable'[h] = IF h = f THEN Client(c) ELSE fdTable[h]
  BY <1>1, <1>4
<1> QED BY <1>1, <1>3, <1>5, <1>6, <1>7, SMT

\* What a worker that starts registers is its own.
LEMMA InitEffect ==
  ASSUME TypeOK, NEW w \in Workers, NEW l \in Fds, NEW e \in Fds, InitWith(w, l, e)
  PROVE  /\ listener_fd'[w] = l /\ completion_fd'[w] = e /\ fdTable'[l] = Listener(w) /\ fdTable'[e] = Eventfd(w)
         /\ \A f \in Fds : f \notin {l, e} => fdTable'[f] = fdTable[f]
         /\ \A v \in Workers : v # w =>
              listener_fd'[v] = listener_fd[v] /\ completion_fd'[v] = completion_fd[v] /\ interest'[v] = interest[v]
<1>1. /\ interest \in [Workers -> [Fds -> Masks]] /\ fdTable \in [Fds -> Kinds]
      /\ listener_fd \in [Workers -> Fds \cup {NoFd}] /\ completion_fd \in [Workers -> Fds \cup {NoFd}]
  BY DEF TypeOK, Masks, Kinds
<1>2. \A v \in Workers : v # w => interest'[v] = interest[v]
  BY <1>1 DEF InitWith
<1> QED BY <1>1, <1>2 DEF InitWith

\* Every connection stays sound and armed.
LEMMA SoundStep ==
  ASSUME Numbers, TypeOK, ChunksSent, ConnectionsSound, ClaimsValid, CompletedWhileApplied, ConnectionsOwned, IdleOutsideLoop,
         [Next]_vars
  PROVE  ConnectionsSound'
<1> DEFINE SoundAt(v, h) ==
             connections'[v][h] # NoConn => Sound(connections'[v][h]) /\ Armed(connections'[v][h], interest'[v][h])
<1>1. ASSUME \A v \in Workers : \A h \in Fds : SoundAt(v, h)
      PROVE  ConnectionsSound'
  BY <1>1 DEF ConnectionsSound, Open, Sound, Fit, Armed
<1>2. \A v \in Workers : \A h \in Fds : connections[v][h] # NoConn =>
        Sound(connections[v][h]) /\ Armed(connections[v][h], interest[v][h])
  BY DEF ConnectionsSound, Open
<1>3. \A c : Armed(c, {})
  BY DEF Armed
<1>4. CASE UNCHANGED connVars
  BY <1>1, <1>2, <1>4 DEF connVars
<1>5. ASSUME NEW w \in Workers, Closing(w)
      PROVE  ConnectionsSound'
  <2>1. connections' = connections
    BY <1>5, ClosingKeeps
  <2>2. PICK f : Close(f, sock)
    BY <1>5, ClosingKeeps DEF ClosingMoves
  <2>3. sock \in [Clients -> Sockets] /\ \A c \in Clients : sock[c].rx <= sock[c].sent
    BY DEF TypeOK, ChunksSent
  <2>4. \A v \in Workers : \A h \in Fds : interest'[v][h] = IF h = f THEN {} ELSE interest[v][h]
    BY <2>2, <2>3, CloseEffect, SMT
  <2> QED BY <1>1, <1>2, <1>3, <2>1, <2>4
<1>6. ASSUME NEW w \in Workers, WorkerInit(w)
      PROVE  ConnectionsSound'
  <2>1. connections' = connections /\ pc[w] = "init"
    BY <1>6 DEF WorkerInit
  <2>2. \A v \in Workers : v # w => interest'[v] = interest[v]
    BY <1>6, InitTakesFree, InitEffect, SMT
  <2>3. \A h \in Fds : connections[w][h] = NoConn
    BY <2>1 DEF IdleOutsideLoop, Open
  <2> QED BY <1>1, <1>2, <2>1, <2>2, <2>3
<1>7. ASSUME NEW w \in Workers, NEW c \in Clients, Accept(w, c)
      PROVE  ConnectionsSound'
  <2>1. PICK f \in Fds : \E n \in Connections :
           /\ n = NewConnection(c, next_generation[w])
           /\ connections'[w][f] = n /\ interest'[w][f] = {"IN", "RDHUP"}
           /\ \A v \in Workers : \A h \in Fds : v # w \/ h # f =>
                connections'[v][h] = connections[v][h] /\ interest'[v][h] = interest[v][h]
    BY <1>7, AcceptEffect, SMT
  <2>2. next_generation[w] \in Nat
    BY DEF TypeOK
  <2>3. SoundAt(w, f)
    BY <2>1, <2>2, NewIsSound, SMT
  <2>4. ASSUME NEW v \in Workers, NEW h \in Fds
        PROVE  SoundAt(v, h)
    <3>1. CASE v = w /\ h = f
      BY <2>3, <3>1
    <3>2. CASE v # w \/ h # f
      BY <1>2, <2>1, <3>2
    <3> QED BY <3>1, <3>2
  <2> QED BY <1>1, <2>4
<1>8. ASSUME NEW w \in Workers, NEW f, NEW g, StoreStep(w, f, g)
      PROVE  ConnectionsSound'
  <2>1. f \in Open(w) /\ Reached(g, View(w, f)) /\ Store(w, f, g)
    BY <1>8 DEF StoreStep
  <2>2. /\ connections'[w][f] = g.conn
        /\ \A v \in Workers : \A h \in Fds : v # w \/ h # f =>
             connections'[v][h] = connections[v][h] /\ interest'[v][h] \in {interest[v][h], {}}
        /\ g.conn # NoConn => interest'[w][f] = g.mask
    BY <2>1, StoreEffect, SMT
  <2>3. g.conn # NoConn => Sound(g.conn) /\ Armed(g.conn, g.mask)
    BY <1>8 DEF StoreStep, Reached
  <2>4. ASSUME NEW v \in Workers, NEW h \in Fds
        PROVE  SoundAt(v, h)
    <3>1. CASE v = w /\ h = f
      BY <2>2, <2>3, <3>1
    <3>2. CASE v # w \/ h # f
      <4>1. connections'[v][h] = connections[v][h] /\ interest'[v][h] \in {interest[v][h], {}}
        BY <2>2, <3>2
      <4> QED BY <1>2, <1>3, <4>1
    <3> QED BY <3>1, <3>2
  <2> HIDE DEF SoundAt
  <2> QED BY <1>1, <2>4
<1> QED BY <1>4, <1>5, <1>6, <1>7, <1>8, ConnectionSteps

-----------------------------------------------------------------------------
(* What is owed to a worker.                                               *)

QueueClaims(q, v) == {Claim(q[i]) : i \in Places(q, v)}

RoutingClaims(v) == {Claim(poolThread[p].job) : p \in Routing(v)}

ListClaims(s) == {Claim(s[i]) : i \in DOMAIN s}

\* What is owed has four parts.
LEMMA OwedParts ==
  ASSUME NEW v \in Workers
  PROVE  /\ Owed(v) = QueueClaims(poolQueue, v) \cup RoutingClaims(v)
                      \cup ListClaims(completions[v]) \cup ListClaims(completed[v])
         /\ Owed(v)' = QueueClaims(poolQueue', v) \cup RoutingClaims(v)'
                       \cup ListClaims(completions'[v]) \cup ListClaims(completed'[v])
  BY DEF Owed, QueueClaims, RoutingClaims, ListClaims, Places, Unanswered

\* A part moves from one of four sets to another.
LEMMA Regroup ==
  ASSUME NEW A, NEW B, NEW C, NEW D, NEW X
  PROVE  /\ A \cup (B \cup X) \cup C \cup D = (A \cup X) \cup B \cup C \cup D
         /\ A \cup (B \cup X) \cup C \cup D = A \cup B \cup (C \cup X) \cup D
         /\ (A \cup X) \cup B \cup C \cup D = (A \cup B \cup C \cup D) \cup X
         /\ A \cup B \cup C \cup (D \cup X) = (A \cup B \cup C \cup D) \cup X
  OBVIOUS

\* The claims of the request at the head, and of the one at the end.
LEMMA QueueClaimsMove ==
  ASSUME NEW q \in Seq(Jobs), NEW v
  PROVE  /\ q # <<>> => QueueClaims(q, v) = QueueClaims(Tail(q), v)
                                            \cup (IF Head(q).worker = v THEN {Claim(Head(q))} ELSE {})
         /\ \A j \in Jobs : QueueClaims(Append(q, j), v) = QueueClaims(q, v)
                                                          \cup (IF j.worker = v THEN {Claim(j)} ELSE {})
<1>1. PICK n \in Nat : n = Len(q)
  BY SMT
<1>2. ASSUME q # <<>>
      PROVE  QueueClaims(q, v) = QueueClaims(Tail(q), v) \cup (IF Head(q).worker = v THEN {Claim(Head(q))} ELSE {})
  <2>1. /\ n > 0 /\ DOMAIN q = 1..n /\ DOMAIN Tail(q) = 1..(n - 1) /\ Head(q) = q[1]
        /\ \A i \in 1..(n - 1) : Tail(q)[i] = q[i + 1]
    BY <1>1, <1>2, SMT
  <2>2. \A i \in 1..n : i = 1 \/ (i - 1 \in 1..(n - 1) /\ q[i] = Tail(q)[i - 1])
    BY <2>1, SMT
  <2>3. \A i \in 1..(n - 1) : i + 1 \in 1..n /\ q[i + 1] = Tail(q)[i]
    BY <2>1, SMT
  <2>4. \A k : k \in QueueClaims(q, v) <=> \E i \in 1..n : q[i].worker = v /\ k = Claim(q[i])
    BY <2>1 DEF QueueClaims, Places
  <2>5. \A k : k \in QueueClaims(Tail(q), v) <=> \E i \in 1..(n - 1) : Tail(q)[i].worker = v /\ k = Claim(Tail(q)[i])
    BY <2>1 DEF QueueClaims, Places
  <2>6. QueueClaims(q, v) \subseteq QueueClaims(Tail(q), v) \cup (IF Head(q).worker = v THEN {Claim(Head(q))} ELSE {})
    <3> SUFFICES ASSUME NEW k \in QueueClaims(q, v), k \notin QueueClaims(Tail(q), v)
                 PROVE  Head(q).worker = v /\ k = Claim(Head(q))
      OBVIOUS
    <3>1. PICK i \in 1..n : q[i].worker = v /\ k = Claim(q[i])
      BY <2>4
    <3> QED BY <2>1, <2>2, <2>5, <3>1
  <2>7. QueueClaims(Tail(q), v) \subseteq QueueClaims(q, v)
    <3> SUFFICES ASSUME NEW k \in QueueClaims(Tail(q), v) PROVE k \in QueueClaims(q, v)
      OBVIOUS
    <3>1. PICK i \in 1..(n - 1) : Tail(q)[i].worker = v /\ k = Claim(Tail(q)[i])
      BY <2>5
    <3> QED BY <2>3, <2>4, <3>1
  <2>8. Head(q).worker = v => Claim(Head(q)) \in QueueClaims(q, v)
    BY <1>1, <2>1, <2>4, SMT
  <2> QED BY <2>6, <2>7, <2>8
<1>3. ASSUME NEW j \in Jobs
      PROVE  QueueClaims(Append(q, j), v) = QueueClaims(q, v) \cup (IF j.worker = v THEN {Claim(j)} ELSE {})
  <2>1. /\ DOMAIN Append(q, j) = 1..(n + 1) /\ DOMAIN q = 1..n
        /\ Append(q, j)[n + 1] = j /\ \A i \in 1..n : Append(q, j)[i] = q[i]
    BY <1>1, SMT
  <2>2. \A i \in 1..(n + 1) : i = n + 1 \/ i \in 1..n
    BY SMT
  <2>3. \A i \in 1..n : i \in 1..(n + 1)
    BY SMT
  <2>4. \A k : k \in QueueClaims(q, v) <=> \E i \in 1..n : q[i].worker = v /\ k = Claim(q[i])
    BY <2>1 DEF QueueClaims, Places
  <2>5. \A k : k \in QueueClaims(Append(q, j), v) <=>
                 \E i \in 1..(n + 1) : Append(q, j)[i].worker = v /\ k = Claim(Append(q, j)[i])
    BY <2>1 DEF QueueClaims, Places
  <2>6. QueueClaims(Append(q, j), v) \subseteq QueueClaims(q, v) \cup (IF j.worker = v THEN {Claim(j)} ELSE {})
    BY <2>1, <2>2, <2>4, <2>5, SMT
  <2>7. QueueClaims(q, v) \subseteq QueueClaims(Append(q, j), v)
    BY <2>1, <2>3, <2>4, <2>5, SMT
  <2>8. j.worker = v => Claim(j) \in QueueClaims(Append(q, j), v)
    <3>1. n + 1 \in 1..(n + 1)
      BY SMT
    <3> QED BY <2>1, <2>5, <3>1
  <2> QED BY <2>6, <2>7, <2>8
<1> QED BY <1>2, <1>3

\* The same for a list of completions.
LEMMA ListClaimsMove ==
  ASSUME NEW s \in Seq(Completions)
  PROVE  /\ s # <<>> => ListClaims(s) = ListClaims(Tail(s)) \cup {Claim(Head(s))}
         /\ \A k \in Completions : ListClaims(Append(s, k)) = ListClaims(s) \cup {Claim(k)}
         /\ ListClaims(<<>>) = {}
<1>1. PICK n \in Nat : n = Len(s)
  BY SMT
<1>2. ASSUME s # <<>>
      PROVE  ListClaims(s) = ListClaims(Tail(s)) \cup {Claim(Head(s))}
  <2>1. /\ n > 0 /\ DOMAIN s = 1..n /\ DOMAIN Tail(s) = 1..(n - 1) /\ Head(s) = s[1]
        /\ \A i \in 1..(n - 1) : Tail(s)[i] = s[i + 1]
    BY <1>1, <1>2, SMT
  <2>2. \A i \in 1..n : i = 1 \/ (i - 1 \in 1..(n - 1) /\ s[i] = Tail(s)[i - 1])
    BY <2>1, SMT
  <2>3. \A i \in 1..(n - 1) : i + 1 \in 1..n /\ s[i + 1] = Tail(s)[i]
    BY <2>1, SMT
  <2>4. 1 \in 1..n
    BY <2>1, SMT
  <2> QED BY <2>1, <2>2, <2>3, <2>4 DEF ListClaims
<1>3. ASSUME NEW k \in Completions
      PROVE  ListClaims(Append(s, k)) = ListClaims(s) \cup {Claim(k)}
  <2>1. /\ DOMAIN Append(s, k) = 1..(n + 1) /\ DOMAIN s = 1..n
        /\ Append(s, k)[n + 1] = k /\ \A i \in 1..n : Append(s, k)[i] = s[i]
    BY <1>1, SMT
  <2>2. \A i \in 1..(n + 1) : i = n + 1 \/ i \in 1..n
    BY SMT
  <2>3. \A i \in 1..n : i \in 1..(n + 1)
    BY SMT
  <2>4. n + 1 \in 1..(n + 1)
    BY SMT
  <2> QED BY <2>1, <2>2, <2>3, <2>4 DEF ListClaims
<1>4. ListClaims(<<>>) = {}
  BY SMT DEF ListClaims
<1> QED BY <1>2, <1>3, <1>4

\* The pool passes a claim on and drops none.
LEMMA PoolOwed ==
  ASSUME TypeOK, NEW p \in PoolThreads, PoolNext(p), NEW v \in Workers
  PROVE  Owed(v)' = Owed(v)
<1>1. /\ poolQueue \in Seq(Jobs) /\ completions \in [Workers -> Seq(Completions)]
      /\ poolThread \in [PoolThreads -> {NoJob} \cup [phase : {"route", "notify"}, job : Jobs]]
  BY DEF TypeOK
<1>2. \A x \in [phase : {"route", "notify"}, job : Jobs] : x # NoJob
  BY NullsAssumption
<1>3. completed' = completed
  BY DEF PoolNext, PoolPop, PoolRespond, PoolNotify, PoolStep
<1>4. CASE PoolPop(p)
  <2>1. PICK j \in Jobs : j = Head(poolQueue)
    BY <1>1, <1>4, SMT DEF PoolPop
  <2>2. /\ poolThread[p] = NoJob /\ poolQueue # <<>> /\ poolQueue' = Tail(poolQueue)
        /\ poolThread' = [poolThread EXCEPT ![p] = [phase |-> "route", job |-> j]]
        /\ completions' = completions
    BY <1>4, <2>1 DEF PoolPop
  <2>3. poolThread'[p] = [phase |-> "route", job |-> j] /\ poolThread'[p] # NoJob
    BY <1>1, <1>2, <2>2
  <2>4. \A q \in PoolThreads : q # p => poolThread'[q] = poolThread[q]
    BY <1>1, <2>2
  <2>5. Routing(v)' = Routing(v) \cup (IF j.worker = v THEN {p} ELSE {}) /\ p \notin Routing(v)
    BY <2>2, <2>3, <2>4, SMT DEF Routing
  <2>6. RoutingClaims(v)' = {Claim(poolThread'[q].job) : q \in Routing(v)'}
    BY DEF RoutingClaims
  <2>7. /\ poolThread'[p].job = j
        /\ \A q \in Routing(v) : q # p /\ poolThread'[q].job = poolThread[q].job
    BY <2>3, <2>4, <2>5, SMT DEF Routing
  <2>8. PICK X : X = IF j.worker = v THEN {Claim(j)} ELSE {}
    OBVIOUS
  <2>9. RoutingClaims(v)' = RoutingClaims(v) \cup X
    BY <2>5, <2>6, <2>7, <2>8 DEF RoutingClaims
  <2>10. QueueClaims(poolQueue, v) = QueueClaims(poolQueue', v) \cup X
    BY <1>1, <2>1, <2>2, <2>8, QueueClaimsMove
  <2>11. Owed(v)' = QueueClaims(poolQueue', v) \cup (RoutingClaims(v) \cup X)
                    \cup ListClaims(completions[v]) \cup ListClaims(completed[v])
    BY <1>3, <2>2, <2>9, OwedParts
  <2>12. Owed(v) = (QueueClaims(poolQueue', v) \cup X) \cup RoutingClaims(v)
                   \cup ListClaims(completions[v]) \cup ListClaims(completed[v])
    BY <2>10, OwedParts
  <2> QED BY <2>11, <2>12, Regroup
<1>5. CASE PoolRespond(p)
  <2>1. /\ poolThread[p] # NoJob /\ poolThread[p].phase = "route" /\ poolQueue' = poolQueue
        /\ poolThread' = [poolThread EXCEPT ![p].phase = "notify"]
    BY <1>5 DEF PoolRespond
  <2>2. PICK j \in Jobs : j = poolThread[p].job
    BY <1>1, <2>1
  <2>3. PICK n \in ResponseSizes :
          completions' = [completions EXCEPT ![j.worker] = Append(@,
            [fd |-> j.fd, generation |-> j.generation, client |-> j.client, size |-> n])]
    BY <1>5, <2>2 DEF PoolRespond
  <2>4. PICK k : k = [fd |-> j.fd, generation |-> j.generation, client |-> j.client, size |-> n]
    OBVIOUS
  <2>5. k \in Completions /\ Claim(k) = Claim(j)
    BY <2>4 DEF Jobs, Completions, Claim
  <2>6. poolThread'[p].phase = "notify" /\ \A q \in PoolThreads : q # p => poolThread'[q] = poolThread[q]
    BY <1>1, <2>1
  <2>7. p \notin Routing(v)' /\ \A q \in PoolThreads : q # p => (q \in Routing(v)' <=> q \in Routing(v))
    BY <2>6 DEF Routing
  <2>8. p \in Routing(v) <=> j.worker = v
    BY <2>1, <2>2 DEF Routing
  <2>9. Routing(v) = Routing(v)' \cup (IF j.worker = v THEN {p} ELSE {})
    <3>1. Routing(v) \subseteq PoolThreads /\ Routing(v)' \subseteq PoolThreads
      BY DEF Routing
    <3> QED BY <2>7, <2>8, <3>1
  <2>10. \A q \in Routing(v)' : poolThread'[q].job = poolThread[q].job
    BY <2>6, <2>7 DEF Routing
  <2>11. RoutingClaims(v)' = {Claim(poolThread'[q].job) : q \in Routing(v)'}
    BY DEF RoutingClaims
  <2>15. PICK X : X = IF j.worker = v THEN {Claim(j)} ELSE {}
    OBVIOUS
  <2>12. RoutingClaims(v) = RoutingClaims(v)' \cup X
    BY <2>2, <2>9, <2>10, <2>11, <2>15 DEF RoutingClaims
  <2>13. completions[v] \in Seq(Completions)
    BY <1>1
  <2>14. ListClaims(completions'[v]) = ListClaims(completions[v]) \cup X
    <3>1. CASE j.worker = v
      <4>1. completions'[v] = Append(completions[v], k)
        BY <1>1, <2>3, <2>4, <3>1
      <4> QED BY <2>5, <2>13, <2>15, <3>1, <4>1, ListClaimsMove, SMT
    <3>2. CASE j.worker # v
      BY <1>1, <2>3, <2>15, <3>2
    <3> QED BY <3>1, <3>2
  <2>16. Owed(v)' = QueueClaims(poolQueue, v) \cup RoutingClaims(v)'
                    \cup (ListClaims(completions[v]) \cup X) \cup ListClaims(completed[v])
    BY <1>3, <2>1, <2>14, OwedParts
  <2>17. Owed(v) = QueueClaims(poolQueue, v) \cup (RoutingClaims(v)' \cup X)
                   \cup ListClaims(completions[v]) \cup ListClaims(completed[v])
    BY <2>12, OwedParts
  <2> QED BY <2>16, <2>17, Regroup
<1>6. CASE PoolNotify(p)
  <2>1. /\ poolThread[p] # NoJob /\ poolThread[p].phase = "notify" /\ poolQueue' = poolQueue
        /\ poolThread' = [poolThread EXCEPT ![p] = NoJob] /\ completions' = completions
    BY <1>6 DEF PoolNotify
  <2>2. poolThread'[p] = NoJob /\ \A q \in PoolThreads : q # p => poolThread'[q] = poolThread[q]
    BY <1>1, <2>1
  <2>3. Routing(v)' = Routing(v) /\ p \notin Routing(v)
    BY <2>1, <2>2 DEF Routing
  <2>4. \A q \in Routing(v) : poolThread'[q].job = poolThread[q].job
    BY <2>2, <2>3 DEF Routing
  <2>5. RoutingClaims(v)' = RoutingClaims(v)
    BY <2>3, <2>4 DEF RoutingClaims
  <2> QED BY <1>3, <2>1, <2>5, OwedParts
<1> QED BY <1>4, <1>5, <1>6 DEF PoolNext

\* A submitted request is owed, swapping keeps what is owed, and a completion
\* settles its own claim only.
LEMMA WorkerOwed ==
  ASSUME TypeOK, CompletedWhileApplied, NEW w \in Workers, NEW v \in Workers
  PROVE  /\ SwapCompletions(w) => Owed(v)' = Owed(v)
         /\ ProcessCompletion(w) =>
              /\ v # w => Owed(v)' = Owed(v)
              /\ Owed(w) = Owed(w)' \cup {Claim(Head(completed[w]))}
         /\ \A f \in Open(w) :
              /\ poolQueue' = Append(poolQueue, Request(w, f))
              /\ UNCHANGED <<poolThread, completions, completed>>
              => /\ v # w => Owed(v)' = Owed(v)
                 /\ Owed(w)' = Owed(w) \cup {Claim(Request(w, f))}
<1>1. /\ poolQueue \in Seq(Jobs) /\ completions \in [Workers -> Seq(Completions)]
      /\ completed \in [Workers -> Seq(Completions)]
  BY DEF TypeOK
<1>2. ASSUME poolThread' = poolThread, NEW u \in Workers
      PROVE  RoutingClaims(u)' = RoutingClaims(u)
  BY <1>2 DEF RoutingClaims, Routing
<1>3. ASSUME SwapCompletions(w)
      PROVE  Owed(v)' = Owed(v)
  <2>1. /\ completed' = [completed EXCEPT ![w] = completions[w]] /\ completions' = [completions EXCEPT ![w] = <<>>]
        /\ UNCHANGED <<poolQueue, poolThread>> /\ pc[w] = "swap"
    BY <1>3 DEF SwapCompletions, LoopStep, KeepPool
  <2>2. completed[w] = <<>>
    BY <2>1 DEF CompletedWhileApplied
  <2>3. ListClaims(completions'[v]) \cup ListClaims(completed'[v])
          = ListClaims(completions[v]) \cup ListClaims(completed[v])
    BY <1>1, <2>1, <2>2
  <2>4. QueueClaims(poolQueue', v) = QueueClaims(poolQueue, v) /\ RoutingClaims(v)' = RoutingClaims(v)
    BY <1>2, <2>1
  <2> QED BY <2>3, <2>4, OwedParts
<1>4. ASSUME ProcessCompletion(w)
      PROVE  (v # w => Owed(v)' = Owed(v)) /\ Owed(w) = Owed(w)' \cup {Claim(Head(completed[w]))}
  <2>1. /\ completed' = [completed EXCEPT ![w] = Tail(@)] /\ pc[w] = "complete"
        /\ UNCHANGED <<poolQueue, poolThread, completions>>
    BY <1>4 DEF ProcessCompletion, LoopStep, KeepPool
  <2>2. completed[w] # <<>> /\ completed[w] \in Seq(Completions)
    BY <1>1, <2>1 DEF CompletedWhileApplied
  <2>3. completed'[w] = Tail(completed[w]) /\ (v # w => completed'[v] = completed[v])
    BY <1>1, <2>1
  <2>4. ListClaims(completed[w]) = ListClaims(completed'[w]) \cup {Claim(Head(completed[w]))}
    BY <2>2, <2>3, ListClaimsMove
  <2> QED BY <1>2, <2>1, <2>3, <2>4, OwedParts
<1>5. ASSUME NEW f \in Open(w), poolQueue' = Append(poolQueue, Request(w, f)),
             UNCHANGED <<poolThread, completions, completed>>
      PROVE  (v # w => Owed(v)' = Owed(v)) /\ Owed(w)' = Owed(w) \cup {Claim(Request(w, f))}
  <2>1. f \in Fds /\ connections[w][f] \in Connections
    BY DEF Open, TypeOK
  <2>2. PICK j : j = Request(w, f)
    OBVIOUS
  <2>3. j \in Jobs /\ j.worker = w
    BY <2>1, <2>2 DEF Request, Jobs, Connections
  <2>4. ASSUME NEW u \in Workers
        PROVE  QueueClaims(poolQueue', u) = QueueClaims(poolQueue, u) \cup (IF w = u THEN {Claim(j)} ELSE {})
    <3>1. poolQueue' = Append(poolQueue, j)
      BY <1>5, <2>2
    <3>2. QueueClaims(Append(poolQueue, j), u) = QueueClaims(poolQueue, u)
                                                 \cup (IF j.worker = u THEN {Claim(j)} ELSE {})
      BY <1>1, <2>3, QueueClaimsMove
    <3> QED BY <2>3, <3>1, <3>2
  <2>5. QueueClaims(poolQueue', w) = QueueClaims(poolQueue, w) \cup {Claim(j)}
    BY <2>4
  <2>6. Owed(w)' = (QueueClaims(poolQueue, w) \cup {Claim(j)}) \cup RoutingClaims(w)
                   \cup ListClaims(completions[w]) \cup ListClaims(completed[w])
    BY <1>2, <1>5, <2>5, OwedParts
  <2>7. Owed(w)' = Owed(w) \cup {Claim(j)}
    BY <2>6, Regroup, OwedParts
  <2>8. ASSUME v # w
        PROVE  Owed(v)' = Owed(v)
    <3>1. QueueClaims(poolQueue', v) = QueueClaims(poolQueue, v)
      BY <2>4, <2>8
    <3> QED BY <1>2, <1>5, <3>1, OwedParts
  <2> QED BY <2>2, <2>7, <2>8
<1> QED BY <1>3, <1>4, <1>5

OwedSame == \A v \in Workers : Owed(v)' = Owed(v)

\* Which steps touch the connections, or what is owed to them.
LEMMA ClaimSteps ==
  ASSUME TypeOK, CompletedWhileApplied, ConnectionsSound, [Next]_vars
  PROVE  \/ UNCHANGED <<connections, next_generation>> /\ OwedSame
         \/ \E w \in Workers : \E c \in Clients : Accept(w, c) /\ OwedSame
         \/ \E w \in Workers : \E f, g :
              /\ StoreStep(w, f, g) /\ UNCHANGED next_generation /\ OwedSame
              /\ g.conn # NoConn => ~g.conn.request_in_flight
         \/ \E w \in Workers : (\E e \in batch[w] : SocketEvent(w, e)) \/ ProcessCompletion(w)
<1> DEFINE kept == UNCHANGED <<connections, next_generation>>
<1>1. ASSUME UNCHANGED <<poolQueue, poolThread, completions, completed>>
      PROVE  OwedSame
  BY <1>1 DEF OwedSame, Owed, Unanswered, Routing
<1>2. CASE MainNext
  BY <1>1, <1>2 DEF MainNext, Start, StartFails, SpawnWorker, SpawnThrows, JoinWorkers, JoinPool, MainStep, loopVars
<1>3. CASE Signal
  BY <1>1, <1>3 DEF Signal, loopVars, poolVars
<1>4. ASSUME NEW c \in Clients, PeerNext(c)
      PROVE  kept /\ OwedSame
  <2>1. Peer(c)
    BY <1>4 DEF PeerNext, PeerConnects, PeerSends, PeerReads, PeerHalfCloses, PeerResets
  <2> QED BY <1>1, <2>1 DEF Peer, loopVars, poolVars
<1>5. ASSUME NEW p \in PoolThreads, PoolNext(p)
      PROVE  kept /\ OwedSame
  <2>1. PoolStep
    BY <1>5 DEF PoolNext, PoolPop, PoolRespond, PoolNotify
  <2> QED BY <1>5, <2>1, PoolOwed DEF PoolStep, OwedSame
<1>6. ASSUME NEW w \in Workers, WorkerNext(w)
      PROVE  \/ kept /\ OwedSame
             \/ \E c \in Clients : Accept(w, c) /\ OwedSame
             \/ \E f, g : /\ StoreStep(w, f, g) /\ UNCHANGED next_generation /\ OwedSame
                          /\ g.conn # NoConn => ~g.conn.request_in_flight
             \/ \E e \in batch[w] : SocketEvent(w, e)
             \/ ProcessCompletion(w)
  <2>1. CASE Turn(w)
    BY <1>1, <2>1, TurnKeeps
  <2>2. CASE Closing(w)
    BY <1>1, <2>2, ClosingKeeps
  <2>3. CASE Notifying(w)
    BY <1>1, <2>3, NotifyingKeeps
  <2>4. CASE WorkerInit(w)
    BY <1>1, <2>4 DEF WorkerInit, poolVars
  <2>5. CASE SwapCompletions(w)
    BY <2>5, WorkerOwed DEF SwapCompletions, KeepSockets, OwedSame
  <2>6. ASSUME NEW c \in Clients, Accept(w, c) \/ AcceptDrops(w, c)
        PROVE  OwedSame /\ (AcceptDrops(w, c) => kept)
    BY <1>1, <2>6 DEF Accept, AcceptDrops, LoopStep, KeepPool, KeepTasks
  <2>7. ASSUME NEW f \in Fds, SweepConnection(w, f)
        PROVE  \/ kept /\ OwedSame
               \/ \E g : /\ StoreStep(w, f, g) /\ UNCHANGED next_generation /\ OwedSame
                         /\ g.conn # NoConn => ~g.conn.request_in_flight
    <3>1. OwedSame /\ UNCHANGED next_generation
      BY <1>1, <2>7 DEF SweepConnection, LoopStep, KeepPool, KeepTasks
    <3> QED BY <2>7, <3>1, SweepStores DEF KeepSockets
  <2> QED BY <1>6, <2>1, <2>2, <2>3, <2>4, <2>5, <2>6, <2>7 DEF WorkerNext, Turn, Closing, Notifying
<1>7. CASE UNCHANGED vars
  BY <1>1, <1>7 DEF vars, loopVars, poolVars
<1> QED BY <1>2, <1>3, <1>4, <1>5, <1>6, <1>7 DEF Next

\* The generations of worker v and claim k on it fit the connections.
Numbered(v) == \A f \in Open(v) : connections[v][f].generation < next_generation[v]

ValidClaim(v, k) ==
  /\ k.generation < next_generation[v]
  /\ connections[v][k.fd] # NoConn /\ connections[v][k.fd].generation = k.generation =>
       k.client = connections[v][k.fd].client

\* A claim is on a descriptor number.
LEMMA OwedTyped ==
  ASSUME TypeOK, NEW v \in Workers, NEW k \in Owed(v)
  PROVE  k.fd \in Fds /\ k.generation \in Nat
<1>1. /\ poolQueue \in Seq(Jobs) /\ completions[v] \in Seq(Completions) /\ completed[v] \in Seq(Completions)
      /\ poolThread \in [PoolThreads -> {NoJob} \cup [phase : {"route", "notify"}, job : Jobs]]
  BY DEF TypeOK
<1>2. \E x \in Jobs \cup Completions : k = Claim(x)
  <2>1. CASE \E i \in Unanswered(v) : k = Claim(poolQueue[i])
    BY <1>1, <2>1, SMT DEF Unanswered
  <2>2. CASE \E p \in Routing(v) : k = Claim(poolThread[p].job)
    BY <1>1, <2>2 DEF Routing
  <2>3. CASE \E i \in DOMAIN completions[v] : k = Claim(completions[v][i])
    BY <1>1, <2>3, SMT
  <2>4. CASE \E i \in DOMAIN completed[v] : k = Claim(completed[v][i])
    BY <1>1, <2>4, SMT
  <2> QED BY <2>1, <2>2, <2>3, <2>4 DEF Owed
<1> QED BY <1>2, SMT DEF Claim, Jobs, Completions

\* A handler leaves the generations and the clients of the connections.
LEMMA StoreKeepsClaims ==
  ASSUME TypeOK, ChunksSent, ConnectionsSound, NEW w \in Workers, NEW f, NEW g, StoreStep(w, f, g),
         UNCHANGED next_generation, NEW v \in Workers, NEW k, k.fd \in Fds
  PROVE  /\ Numbered(v) => Numbered(v)'
         /\ ValidClaim(v, k) => ValidClaim(v, k)'
<1>1. f \in Open(w) /\ Reached(g, View(w, f)) /\ Store(w, f, g)
  BY DEF StoreStep
<1>2. /\ connections'[w][f] = g.conn
      /\ \A u \in Workers : \A h \in Fds : u # w \/ h # f => connections'[u][h] = connections[u][h]
  BY <1>1, StoreEffect, SMT
<1>3. g.conn # NoConn => /\ g.conn.client = connections[w][f].client
                         /\ g.conn.generation = connections[w][f].generation
  BY <1>1, ViewTyped DEF Reached
<1>4. \A h \in Fds : connections'[v][h] # NoConn =>
        /\ connections[v][h] # NoConn /\ connections'[v][h].client = connections[v][h].client
        /\ connections'[v][h].generation = connections[v][h].generation
  BY <1>1, <1>2, <1>3 DEF Open
<1> QED BY <1>4 DEF Numbered, ValidClaim, Open

\* A fresh generation is nobody's claim.
LEMMA AcceptKeepsClaims ==
  ASSUME Numbers, TypeOK, ConnectionsOwned, NEW w \in Workers, NEW c \in Clients, Accept(w, c),
         NEW v \in Workers
  PROVE  /\ Numbered(v) => Numbered(v)'
         /\ \A k : k.fd \in Fds /\ k.generation \in Nat /\ ValidClaim(v, k) => ValidClaim(v, k)'
<1>1. PICK f \in Fds : \E n \in Connections :
        /\ n = NewConnection(c, next_generation[w]) /\ connections'[w][f] = n
        /\ \A u \in Workers : \A h \in Fds : u # w \/ h # f => connections'[u][h] = connections[u][h]
  BY AcceptEffect, SMT
<1>2. next_generation \in [Workers -> Nat] /\ next_generation' = [next_generation EXCEPT ![w] = @ + 1]
  BY DEF TypeOK, Accept
<1>3. connections'[w][f].generation = next_generation[w]
  BY <1>1, <1>2, NewIsSound, SMT
<1>4. \A u \in Workers : next_generation[u] \in Nat /\ next_generation'[u] = next_generation[u] + (IF u = w THEN 1 ELSE 0)
  BY <1>2, SMT
<1>5. \A h \in Fds : connections[v][h] # NoConn => connections[v][h].generation \in Nat
  BY SMT DEF TypeOK, Connections
<1>6. \A h \in Fds : (v = w /\ h = f) \/ connections'[v][h] = connections[v][h]
  BY <1>1
<1>7. ASSUME Numbered(v)
      PROVE  Numbered(v)'
  <2>1. \A h \in Fds : connections[v][h] # NoConn => connections[v][h].generation < next_generation[v]
    BY <1>7 DEF Numbered, Open
  <2>2. ASSUME NEW h \in Fds, connections'[v][h] # NoConn
        PROVE  connections'[v][h].generation < next_generation'[v]
    <3>1. CASE v = w /\ h = f
      BY <1>3, <1>4, <3>1, SMT
    <3>2. CASE connections'[v][h] = connections[v][h]
      BY <1>4, <1>5, <2>1, <2>2, <3>2, SMT
    <3> QED BY <1>6, <3>1, <3>2
  <2> QED BY <2>2 DEF Numbered, Open
<1>8. ASSUME NEW k, k.fd \in Fds, k.generation \in Nat, ValidClaim(v, k)
      PROVE  ValidClaim(v, k)'
  <2>1. k.generation < next_generation'[v]
    BY <1>4, <1>8, SMT DEF ValidClaim
  <2>2. CASE v = w /\ k.fd = f
    BY <1>3, <1>4, <1>8, <2>1, <2>2, SMT DEF ValidClaim
  <2>3. CASE connections'[v][k.fd] = connections[v][k.fd]
    BY <1>8, <2>1, <2>3 DEF ValidClaim
  <2>4. (v = w /\ k.fd = f) \/ connections'[v][k.fd] = connections[v][k.fd]
    BY <1>6, <1>8
  <2> QED BY <2>2, <2>3, <2>4
<1> QED BY <1>7, <1>8

\* What is owed keeps naming the client that asked.
LEMMA ClaimsStep ==
  ASSUME Numbers, TypeOK, ChunksSent, CompletedWhileApplied, OutstandingIsExact, ConnectionsSound, ClaimsValid,
         ConnectionsOwned, [Next]_vars
  PROVE  ClaimsValid'
<1>1. \A v \in Workers : Numbered(v) /\ \A k \in Owed(v) : ValidClaim(v, k)
  BY DEF ClaimsValid, Numbered, ValidClaim
<1>2. ASSUME NEW v \in Workers, NEW k \in Owed(v)
      PROVE  k.fd \in Fds /\ k.generation \in Nat
  BY OwedTyped
<1>3. ASSUME \A v \in Workers : Numbered(v)' /\ \A k \in Owed(v)' : ValidClaim(v, k)'
      PROVE  ClaimsValid'
  BY <1>3 DEF ClaimsValid, Numbered, ValidClaim
<1>4. CASE UNCHANGED <<connections, next_generation>> /\ OwedSame
  BY <1>1, <1>3, <1>4 DEF OwedSame, Numbered, ValidClaim, Open
<1>5. ASSUME NEW w \in Workers, NEW c \in Clients, Accept(w, c), OwedSame
      PROVE  ClaimsValid'
  <2>1. ASSUME NEW v \in Workers
        PROVE  Numbered(v)' /\ \A k \in Owed(v)' : ValidClaim(v, k)'
    <3>1. ASSUME NEW k \in Owed(v)
          PROVE  ValidClaim(v, k)'
      BY <1>1, <1>2, <1>5, AcceptKeepsClaims
    <3>2. Numbered(v)'
      BY <1>1, <1>5, AcceptKeepsClaims
    <3> QED BY <1>5, <3>1, <3>2 DEF OwedSame
  <2> QED BY <1>3, <2>1
<1>6. ASSUME NEW w \in Workers, NEW f, NEW g, StoreStep(w, f, g), UNCHANGED next_generation,
             \A v \in Workers : \A k \in Owed(v)' : k \in Owed(v) \/ (v = w /\ k = Claim(Request(w, f)))
      PROVE  ClaimsValid'
  <2>1. f \in Fds /\ f \in Open(w) /\ connections[w][f] \in Connections
    BY <1>6 DEF StoreStep, Open, TypeOK
  <2>2. PICK r : r = Claim(Request(w, f))
    OBVIOUS
  <2>3. r.fd = f /\ r.generation = connections[w][f].generation /\ r.client = connections[w][f].client
    BY <2>2 DEF Claim, Request
  <2>4. ValidClaim(w, r)
    BY <1>1, <2>1, <2>3 DEF ValidClaim, Numbered
  <2>5. ASSUME NEW v \in Workers
        PROVE  Numbered(v)' /\ \A k \in Owed(v)' : ValidClaim(v, k)'
    <3>1. ASSUME NEW k \in Owed(v)'
          PROVE  ValidClaim(v, k)'
      <4>1. ValidClaim(v, k) /\ k.fd \in Fds
        BY <1>1, <1>2, <1>6, <2>1, <2>2, <2>3, <2>4
      <4> QED BY <1>6, <4>1, StoreKeepsClaims
    <3>2. Numbered(v)'
      BY <1>1, <1>6, <2>1, <2>3, StoreKeepsClaims
    <3> QED BY <3>1, <3>2
  <2> QED BY <1>3, <2>5
<1>7. ASSUME NEW w \in Workers, NEW e \in batch[w], SocketEvent(w, e)
      PROVE  ClaimsValid'
  <2>1. PICK g : /\ StoreStep(w, e.fd, g)
                 /\ UNCHANGED poolQueue \/ poolQueue' = Append(poolQueue, Request(w, e.fd))
    BY <1>7, SocketEventStores
  <2>2. UNCHANGED <<poolThread, completions, completed, next_generation>>
    BY <1>7 DEF SocketEvent, LoopStep
  <2>3. e.fd \in Open(w)
    BY <2>1 DEF StoreStep
  <2>4. CASE UNCHANGED poolQueue
    <3>1. \A v \in Workers : Owed(v)' = Owed(v)
      BY <2>2, <2>4 DEF Owed, Unanswered, Routing
    <3> QED BY <1>6, <2>1, <2>2, <3>1
  <2>5. CASE poolQueue' = Append(poolQueue, Request(w, e.fd))
    <3>1. \A v \in Workers : Owed(v)' = IF v = w THEN Owed(w) \cup {Claim(Request(w, e.fd))} ELSE Owed(v)
      BY <2>2, <2>3, <2>5, WorkerOwed
    <3>2. \A v \in Workers : \A k \in Owed(v)' : k \in Owed(v) \/ (v = w /\ k = Claim(Request(w, e.fd)))
      BY <3>1
    <3> QED BY <1>6, <2>1, <2>2, <3>2
  <2> QED BY <2>1, <2>4, <2>5
<1>8. ASSUME NEW w \in Workers, ProcessCompletion(w)
      PROVE  ClaimsValid'
  <2>1. PICK k : k = Head(completed[w])
    OBVIOUS
  <2>2. UNCHANGED next_generation
    BY <1>8 DEF ProcessCompletion
  <2>3. \A v \in Workers : Owed(v)' \subseteq Owed(v)
    BY <1>8, WorkerOwed
  <2>4. CASE KeepSockets
    <3>1. \A v \in Workers : \A x : Numbered(v)' = Numbered(v) /\ ValidClaim(v, x)' = ValidClaim(v, x)
      BY <2>2, <2>4 DEF KeepSockets, Numbered, ValidClaim, Open
    <3> QED BY <1>1, <1>3, <2>3, <3>1
  <2>5. CASE \E g : StoreStep(w, k.fd, g)
    BY <1>6, <2>2, <2>3, <2>5
  <2> QED BY <1>8, <2>1, <2>4, <2>5, CompletionStores
<1>9. ASSUME NEW w \in Workers, NEW f, NEW g, StoreStep(w, f, g), UNCHANGED next_generation, OwedSame
      PROVE  ClaimsValid'
  BY <1>6, <1>9 DEF OwedSame
<1> QED BY <1>4, <1>5, <1>7, <1>8, <1>9, ClaimSteps

\* A connection in flight keeps its claim.
LEMMA InFlightStep ==
  ASSUME Numbers, TypeOK, ChunksSent, CompletedWhileApplied, OutstandingIsExact, ConnectionsSound, ClaimsValid, InFlightOwed,
         ConnectionsOwned, [Next]_vars
  PROVE  InFlightOwed'
<1> DEFINE Busy(c) == c # NoConn /\ c.request_in_flight
           Due(S, h, g) == \E k \in S : k.fd = h /\ k.generation = g
<1>1. \A v \in Workers : \A h \in Fds : Busy(connections[v][h]) => Due(Owed(v), h, connections[v][h].generation)
  BY SMT DEF InFlightOwed, Open
<1>2. ASSUME \A v \in Workers : \A h \in Fds : Busy(connections'[v][h]) => Due(Owed(v)', h, connections'[v][h].generation)
      PROVE  InFlightOwed'
  BY <1>2 DEF InFlightOwed, Open
<1>3. CASE UNCHANGED <<connections, next_generation>> /\ OwedSame
  BY <1>1, <1>2, <1>3, SMT DEF OwedSame
<1>4. ASSUME NEW w \in Workers, NEW c \in Clients, Accept(w, c), OwedSame
      PROVE  InFlightOwed'
  <2>1. PICK f \in Fds : \E n \in Connections :
          /\ n = NewConnection(c, next_generation[w]) /\ connections'[w][f] = n
          /\ \A u \in Workers : \A h \in Fds : u # w \/ h # f => connections'[u][h] = connections[u][h]
    BY <1>4, AcceptEffect, SMT
  <2>2. next_generation[w] \in Nat
    BY DEF TypeOK
  <2>3. ~Busy(connections'[w][f])
    BY <2>1, <2>2, NewIsSound, SMT
  <2>4. \A v \in Workers : \A h \in Fds : Busy(connections'[v][h]) => connections'[v][h] = connections[v][h]
    BY <2>1, <2>3
  <2> QED BY <1>1, <1>2, <1>4, <2>4, SMT DEF OwedSame
<1>5. ASSUME NEW w \in Workers, NEW f, NEW g, StoreStep(w, f, g),
             \A v \in Workers : \A k \in Owed(v) : k \in Owed(v)' \/ (v = w /\ k.fd = f),
             g.conn # NoConn /\ g.conn.request_in_flight =>
               \E k \in Owed(w)' : k.fd = f /\ k.generation = connections[w][f].generation
      PROVE  InFlightOwed'
  <2>1. f \in Open(w) /\ Reached(g, View(w, f)) /\ Store(w, f, g)
    BY <1>5 DEF StoreStep
  <2>2. /\ connections'[w][f] = g.conn
        /\ \A u \in Workers : \A h \in Fds : u # w \/ h # f => connections'[u][h] = connections[u][h]
    BY <2>1, StoreEffect, SMT
  <2>3. g.conn # NoConn => g.conn.generation = connections[w][f].generation
    BY <2>1, ViewTyped DEF Reached
  <2>4. ASSUME NEW v \in Workers, NEW h \in Fds, Busy(connections'[v][h])
        PROVE  Due(Owed(v)', h, connections'[v][h].generation)
    <3>1. CASE v = w /\ h = f
      BY <1>5, <2>2, <2>3, <2>4, <3>1
    <3>2. CASE v # w \/ h # f
      <4>1. connections'[v][h] = connections[v][h]
        BY <2>2, <3>2
      <4>2. PICK k \in Owed(v) : k.fd = h /\ k.generation = connections[v][h].generation
        BY <1>1, <2>4, <4>1
      <4>3. k \in Owed(v)'
        BY <1>5, <3>2, <4>2
      <4> QED BY <4>1, <4>2, <4>3
    <3> QED BY <3>1, <3>2
  <2> QED BY <1>2, <2>4
<1>6. ASSUME NEW w \in Workers, NEW e \in batch[w], SocketEvent(w, e)
      PROVE  InFlightOwed'
  <2>1. PICK f : f = e.fd
    OBVIOUS
  <2>2. PICK g : /\ StoreStep(w, f, g)
                 /\ \/ UNCHANGED poolQueue /\ (g.conn # NoConn /\ g.conn.request_in_flight =>
                         connections[w][f].request_in_flight)
                    \/ poolQueue' = Append(poolQueue, Request(w, f))
    BY <1>6, <2>1, SocketEventStores
  <2>3. UNCHANGED <<poolThread, completions, completed, next_generation>>
    BY <1>6 DEF SocketEvent, LoopStep
  <2>4. f \in Open(w) /\ f \in Fds /\ connections[w][f] # NoConn
    BY <2>2 DEF StoreStep, Open
  <2>5. CASE UNCHANGED poolQueue /\ (g.conn # NoConn /\ g.conn.request_in_flight =>
                                       connections[w][f].request_in_flight)
    <3>1. \A v \in Workers : Owed(v)' = Owed(v)
      BY <2>3, <2>5 DEF Owed, Unanswered, Routing
    <3>2. g.conn # NoConn /\ g.conn.request_in_flight =>
            \E k \in Owed(w)' : k.fd = f /\ k.generation = connections[w][f].generation
      BY <1>1, <2>4, <2>5, <3>1, SMT
    <3> QED BY <1>5, <2>2, <3>1, <3>2
  <2>6. CASE poolQueue' = Append(poolQueue, Request(w, f))
    <3>1. \A v \in Workers : Owed(v)' = IF v = w THEN Owed(w) \cup {Claim(Request(w, f))} ELSE Owed(v)
      BY <2>3, <2>4, <2>6, WorkerOwed
    <3>2. PICK k : k = Claim(Request(w, f))
      OBVIOUS
    <3>3. k.fd = f /\ k.generation = connections[w][f].generation /\ k \in Owed(w)'
      BY <3>1, <3>2 DEF Claim, Request
    <3> QED BY <1>5, <2>2, <3>1, <3>3
  <2> QED BY <2>2, <2>5, <2>6
<1>7. ASSUME NEW w \in Workers, ProcessCompletion(w)
      PROVE  InFlightOwed'
  <2>1. PICK k : k = Head(completed[w])
    OBVIOUS
  <2>2. \A v \in Workers : Owed(v) = IF v = w THEN Owed(w)' \cup {Claim(k)} ELSE Owed(v)'
    BY <1>7, <2>1, WorkerOwed
  <2>3. Claim(k).fd = k.fd /\ Claim(k).generation = k.generation
    BY DEF Claim
  <2>4. CASE KeepSockets /\ ~CompletionApplies(connections[w][k.fd], k)
    <3>1. connections' = connections
      BY <2>4 DEF KeepSockets
    <3>2. ASSUME NEW v \in Workers, NEW h \in Fds, Busy(connections[v][h])
          PROVE  Due(Owed(v)', h, connections[v][h].generation)
      <4>1. PICK x \in Owed(v) : x.fd = h /\ x.generation = connections[v][h].generation
        BY <1>1, <3>2
      <4>2. v = w => x # Claim(k)
        BY <2>3, <2>4, <3>2, <4>1 DEF CompletionApplies
      <4>3. x \in Owed(v)'
        BY <2>2, <4>1, <4>2
      <4> QED BY <3>1, <4>1, <4>3
    <3> QED BY <1>2, <3>1, <3>2, SMT
  <2>5. ASSUME NEW g, StoreStep(w, k.fd, g), g.conn # NoConn => ~g.conn.request_in_flight
        PROVE  InFlightOwed'
    <3>1. \A v \in Workers : \A x \in Owed(v) : x \in Owed(v)' \/ (v = w /\ x.fd = k.fd)
      BY <2>2, <2>3
    <3> QED BY <1>5, <2>5, <3>1
  <2> QED BY <1>7, <2>1, <2>4, <2>5, CompletionStores
<1>8. ASSUME NEW w \in Workers, NEW f, NEW g, StoreStep(w, f, g), OwedSame,
             g.conn # NoConn => ~g.conn.request_in_flight
      PROVE  InFlightOwed'
  BY <1>5, <1>8 DEF OwedSame
<1> QED BY <1>3, <1>4, <1>6, <1>7, <1>8, ClaimSteps

-----------------------------------------------------------------------------
(* The program counters of the workers.                                    *)

\* A handler leaves the connections of the other workers.
LEMMA StoreElsewhere ==
  ASSUME TypeOK, ChunksSent, ConnectionsSound, NEW w \in Workers, NEW f, KeepSockets \/ \E g : StoreStep(w, f, g)
  PROVE  \A v \in Workers : v # w => Open(v)' = Open(v)
<1>1. CASE KeepSockets
  BY <1>1 DEF KeepSockets, Open
<1>2. ASSUME NEW g, StoreStep(w, f, g)
      PROVE  \A v \in Workers : v # w => Open(v)' = Open(v)
  <2>1. f \in Open(w) /\ Reached(g, View(w, f)) /\ Store(w, f, g)
    BY <1>2 DEF StoreStep
  <2>2. \A u \in Workers : \A h \in Fds : u # w \/ h # f => connections'[u][h] = connections[u][h]
    BY <2>1, StoreEffect, SMT
  <2> QED BY <2>2 DEF Open
<1> QED BY <1>1, <1>2

\* Where a handler is called from, and where its worker goes next.
LEMMA ServeMoves ==
  ASSUME TypeOK, CompletedWhileApplied, NEW w \in Workers
  PROVE  /\ \A e \in batch[w] : SocketEvent(w, e) => pc[w] = "event" /\ UNCHANGED pc
         /\ ProcessCompletion(w) =>
              \E label \in {"complete", resume[w]} :
                /\ pc[w] = "complete" /\ pc' = [pc EXCEPT ![w] = label]
                /\ completed'[w] # <<>> <=> label = "complete"
         /\ \A f \in Fds : SweepConnection(w, f) =>
              \E label \in {"sweep", resume[w]} : pc[w] = "sweep" /\ pc' = [pc EXCEPT ![w] = label]
         /\ SwapCompletions(w) =>
              \E label \in {"complete", resume[w]} :
                /\ pc[w] = "swap" /\ pc' = [pc EXCEPT ![w] = label]
                /\ completed'[w] # <<>> <=> label = "complete"
<1>1. completed \in [Workers -> Seq(Completions)] /\ resume[w] \in {"event", "drain", "flush", "stop"}
  BY DEF TypeOK
<1>2. ASSUME ProcessCompletion(w)
      PROVE  \E label \in {"complete", resume[w]} :
                /\ pc[w] = "complete" /\ pc' = [pc EXCEPT ![w] = label]
                /\ completed'[w] # <<>> <=> label = "complete"
  <2>1. /\ pc[w] = "complete" /\ completed'[w] = Tail(completed[w])
        /\ pc' = [pc EXCEPT ![w] = IF Len(completed[w]) = 1 THEN resume[w] ELSE "complete"]
    BY <1>1, <1>2 DEF ProcessCompletion, Goto
  <2>2. completed[w] # <<>> /\ completed[w] \in Seq(Completions)
    BY <1>1, <2>1 DEF CompletedWhileApplied
  <2>3. Tail(completed[w]) # <<>> <=> Len(completed[w]) # 1
    <3>1. Len(Tail(completed[w])) = Len(completed[w]) - 1 /\ Len(completed[w]) \in Nat
      BY <2>2, SMT
    <3>2. Tail(completed[w]) \in Seq(Completions)
      BY <2>2, SMT
    <3>3. \A s \in Seq(Completions) : s = <<>> <=> Len(s) = 0
      BY SMT
    <3>4. Tail(completed[w]) = <<>> <=> Len(Tail(completed[w])) = 0
      BY <3>2, <3>3
    <3> QED BY <3>1, <3>4, SMT
  <2>4. CASE Len(completed[w]) = 1
    BY <1>1, <2>1, <2>3, <2>4
  <2>5. CASE Len(completed[w]) # 1
    BY <2>1, <2>3, <2>5
  <2> QED BY <2>4, <2>5
<1>3. ASSUME SwapCompletions(w)
      PROVE  \E label \in {"complete", resume[w]} :
                /\ pc[w] = "swap" /\ pc' = [pc EXCEPT ![w] = label]
                /\ completed'[w] # <<>> <=> label = "complete"
  <2>1. /\ pc[w] = "swap" /\ completed'[w] = completions[w]
        /\ pc' = [pc EXCEPT ![w] = IF completions[w] = <<>> THEN resume[w] ELSE "complete"]
    BY <1>1, <1>3 DEF SwapCompletions, Goto
  <2>2. CASE completions[w] = <<>>
    BY <1>1, <2>1, <2>2
  <2>3. CASE completions[w] # <<>>
    BY <2>1, <2>3
  <2> QED BY <2>2, <2>3
<1>4. ASSUME NEW f \in Fds, SweepConnection(w, f)
      PROVE  \E label \in {"sweep", resume[w]} : pc[w] = "sweep" /\ pc' = [pc EXCEPT ![w] = label]
  BY <1>4 DEF SweepConnection, Goto
<1>5. ASSUME NEW e \in batch[w], SocketEvent(w, e)
      PROVE  pc[w] = "event" /\ UNCHANGED pc
  BY <1>5 DEF SocketEvent, TakeEvent
<1> QED BY <1>2, <1>3, <1>4, <1>5

Outside == {"new", "init", "close_listener", "close_eventfd", "exited"}

\* A worker applies completions while it has some, and leaves its loop when it
\* has nothing left.
LEMMA LoopStepKeeps ==
  ASSUME Numbers, TypeOK, ChunksSent, CompletedWhileApplied, IdleOutsideLoop, OutstandingIsExact, ConnectionsSound,
         ClaimsValid, ConnectionsOwned, [Next]_vars
  PROVE  CompletedWhileApplied' /\ IdleOutsideLoop'
<1>0. pc \in [Workers -> Labels]
  BY DEF TypeOK, Labels
<1>1. ASSUME UNCHANGED <<pc, completed, outstanding_tasks, connections>>
      PROVE  CompletedWhileApplied' /\ IdleOutsideLoop'
  BY <1>1 DEF CompletedWhileApplied, IdleOutsideLoop, Open
<1>2. ASSUME NEW w \in Workers, NEW label, pc' = [pc EXCEPT ![w] = label],
             UNCHANGED <<completed, outstanding_tasks, connections>>,
             pc[w] # "complete", label # "complete",
             label \in Outside => pc[w] \in Outside \/ ShouldStop(w)
      PROVE  CompletedWhileApplied' /\ IdleOutsideLoop'
  <2>1. \A v \in Workers : pc'[v] = IF v = w THEN label ELSE pc[v]
    BY <1>0, <1>2
  <2>2. \A v \in Workers : Open(v)' = Open(v)
    BY <1>2 DEF Open
  <2>3. label \in Outside => outstanding_tasks[w] = 0 /\ Open(w) = {}
    BY <1>2 DEF IdleOutsideLoop, Outside, ShouldStop
  <2> QED BY <1>2, <2>1, <2>2, <2>3 DEF CompletedWhileApplied, IdleOutsideLoop, Outside
<1>3. ASSUME NEW w \in Workers, NEW label, pc' = [pc EXCEPT ![w] = label], label \notin Outside,
             completed'[w] # <<>> <=> label = "complete",
             \A v \in Workers : v # w => completed'[v] = completed[v] /\ outstanding_tasks'[v] = outstanding_tasks[v],
             \A v \in Workers : v # w => Open(v)' = Open(v)
      PROVE  CompletedWhileApplied' /\ IdleOutsideLoop'
  <2>1. \A v \in Workers : pc'[v] = IF v = w THEN label ELSE pc[v]
    BY <1>0, <1>3
  <2> QED BY <1>3, <2>1, SMT DEF CompletedWhileApplied, IdleOutsideLoop, Outside
<1>4. CASE MainNext
  <2>1. UNCHANGED <<completed, outstanding_tasks, connections>>
    BY <1>4 DEF MainNext, Start, StartFails, SpawnWorker, SpawnThrows, JoinWorkers, JoinPool, MainStep, loopVars
  <2>2. CASE UNCHANGED pc
    BY <1>1, <2>1, <2>2
  <2>3. ASSUME NEW w \in Workers, SpawnWorker(w)
        PROVE  pc' = [pc EXCEPT ![w] = "init"] /\ pc[w] = "new"
    BY <2>3 DEF SpawnWorker, Goto
  <2>4. CASE \E w \in Workers : SpawnWorker(w)
    BY <1>2, <2>1, <2>3, <2>4 DEF Outside
  <2> QED BY <1>4, <2>2, <2>4 DEF MainNext, Start, StartFails, SpawnThrows, JoinWorkers, JoinPool
<1>5. CASE Signal
  BY <1>1, <1>5 DEF Signal, loopVars
<1>6. ASSUME NEW c \in Clients, PeerNext(c)
      PROVE  CompletedWhileApplied' /\ IdleOutsideLoop'
  <2>1. Peer(c)
    BY <1>6 DEF PeerNext, PeerConnects, PeerSends, PeerReads, PeerHalfCloses, PeerResets
  <2> QED BY <1>1, <2>1 DEF Peer, loopVars
<1>7. ASSUME NEW p \in PoolThreads, PoolNext(p)
      PROVE  CompletedWhileApplied' /\ IdleOutsideLoop'
  <2>1. PoolStep
    BY <1>7 DEF PoolNext, PoolPop, PoolRespond, PoolNotify
  <2> QED BY <1>1, <2>1 DEF PoolStep
<1>8. ASSUME NEW w \in Workers, WorkerNext(w)
      PROVE  CompletedWhileApplied' /\ IdleOutsideLoop'
  <2>0. resume[w] \in {"event", "drain", "flush", "stop"}
    BY DEF TypeOK
  <2>1. CASE Turn(w)
    <3>1. UNCHANGED <<completed, outstanding_tasks, connections>>
      BY <2>1, TurnKeeps
    <3>2. PICK label, next, fds : TurnMoves(w, label, next, fds)
      BY <2>1, TurnKeeps
    <3>3. /\ pc' = [pc EXCEPT ![w] = label] /\ pc[w] # "complete" /\ label # "complete"
          /\ label \in Outside => pc[w] \in Outside \/ ShouldStop(w)
      BY <3>2 DEF TurnMoves, Outside
    <3> QED BY <1>2, <3>1, <3>3
  <2>2. CASE Closing(w)
    <3>1. UNCHANGED <<completed, outstanding_tasks, connections>>
      BY <2>2, ClosingKeeps
    <3>2. PICK label, next, fds : ClosingMoves(w, label, next, fds)
      BY <2>2, ClosingKeeps
    <3>3. /\ pc' = [pc EXCEPT ![w] = label] /\ pc[w] # "complete" /\ label # "complete"
          /\ label \in Outside => pc[w] \in Outside
      BY <3>2 DEF ClosingMoves, Outside
    <3> QED BY <1>2, <3>1, <3>3
  <2>3. CASE Notifying(w)
    BY <1>2, <2>3, NotifyingKeeps DEF Outside
  <2>4. CASE WorkerInit(w)
    BY <1>2, <2>4 DEF WorkerInit, Goto, Outside
  <2>5. ASSUME NEW c \in Clients, AcceptDrops(w, c)
        PROVE  CompletedWhileApplied' /\ IdleOutsideLoop'
    BY <1>2, <2>5 DEF AcceptDrops, KeepTasks, Goto, Outside
  <2>6. ASSUME NEW c \in Clients, Accept(w, c)
        PROVE  CompletedWhileApplied' /\ IdleOutsideLoop'
    <3>1. /\ pc[w] = "accepting" /\ pc' = [pc EXCEPT ![w] = "accept"] /\ UNCHANGED <<completed, outstanding_tasks>>
      BY <2>6 DEF Accept, KeepTasks, Goto
    <3>2. \A v \in Workers : v # w => Open(v)' = Open(v)
      BY <2>6, AcceptEffect, SMT DEF Open
    <3>3. completed'[w] = <<>>
      BY <3>1 DEF CompletedWhileApplied
    <3> QED BY <1>3, <3>1, <3>2, <3>3 DEF Outside
  <2>7. CASE SwapCompletions(w)
    <3>1. PICK label \in {"complete", resume[w]} :
                /\ pc[w] = "swap" /\ pc' = [pc EXCEPT ![w] = label]
                /\ completed'[w] # <<>> <=> label = "complete"
      BY <2>7, ServeMoves
    <3>2. \A v \in Workers : v # w => completed'[v] = completed[v] /\ outstanding_tasks'[v] = outstanding_tasks[v]
      BY <2>7 DEF SwapCompletions, TypeOK
    <3>3. \A v \in Workers : Open(v)' = Open(v)
      BY <2>7 DEF SwapCompletions, KeepSockets, Open
    <3> QED BY <1>3, <2>0, <3>1, <3>2, <3>3 DEF Outside
  <2>8. ASSUME NEW e \in batch[w], SocketEvent(w, e)
        PROVE  CompletedWhileApplied' /\ IdleOutsideLoop'
    <3>1. pc[w] = "event" /\ pc' = [pc EXCEPT ![w] = "event"]
      BY <1>0, <2>8, ServeMoves
    <3>2. \A v \in Workers : v # w => Open(v)' = Open(v)
      BY <2>8, SocketEventStores, StoreElsewhere
    <3>3. UNCHANGED completed
      BY <2>8 DEF SocketEvent
    <3>4. \A v \in Workers : v # w => outstanding_tasks'[v] = outstanding_tasks[v]
      <4>1. \/ outstanding_tasks' = outstanding_tasks
            \/ outstanding_tasks' = [outstanding_tasks EXCEPT ![w] = @ + 1]
        BY <2>8 DEF SocketEvent
      <4> QED BY <4>1 DEF TypeOK
    <3>5. completed'[w] = <<>>
      BY <3>1, <3>3 DEF CompletedWhileApplied
    <3> QED BY <1>3, <3>1, <3>2, <3>3, <3>4, <3>5 DEF Outside
  <2>9. CASE ProcessCompletion(w)
    <3>1. PICK label \in {"complete", resume[w]} :
                /\ pc[w] = "complete" /\ pc' = [pc EXCEPT ![w] = label]
                /\ completed'[w] # <<>> <=> label = "complete"
      BY <2>9, ServeMoves
    <3>2. \A v \in Workers : v # w => completed'[v] = completed[v] /\ outstanding_tasks'[v] = outstanding_tasks[v]
      BY <2>9 DEF ProcessCompletion, Retire, TypeOK
    <3>3. PICK k : k = Head(completed[w])
      OBVIOUS
    <3>4. \A v \in Workers : v # w => Open(v)' = Open(v)
      BY <2>9, <3>3, CompletionStores, StoreElsewhere
    <3> QED BY <1>3, <2>0, <3>1, <3>2, <3>4 DEF Outside
  <2>10. ASSUME NEW f \in Fds, SweepConnection(w, f)
         PROVE  CompletedWhileApplied' /\ IdleOutsideLoop'
    <3>1. PICK label \in {"sweep", resume[w]} : pc[w] = "sweep" /\ pc' = [pc EXCEPT ![w] = label]
      BY <2>10, ServeMoves
    <3>2. UNCHANGED <<completed, outstanding_tasks>>
      BY <2>10 DEF SweepConnection, KeepTasks
    <3>3. \A v \in Workers : v # w => Open(v)' = Open(v)
      BY <2>10, SweepStores, StoreElsewhere
    <3>4. completed'[w] = <<>>
      BY <3>1, <3>2 DEF CompletedWhileApplied
    <3> QED BY <1>3, <2>0, <3>1, <3>2, <3>3, <3>4 DEF Outside
  <2> QED BY <1>8, <2>1, <2>2, <2>3, <2>4, <2>5, <2>6, <2>7, <2>8, <2>9, <2>10 DEF WorkerNext, Turn, Closing, Notifying
<1>9. CASE UNCHANGED vars
  BY <1>1, <1>9 DEF vars, loopVars
<1> QED BY <1>4, <1>5, <1>6, <1>7, <1>8, <1>9 DEF Next

-----------------------------------------------------------------------------
(* The descriptors.                                                        *)

\* What descriptors refer to are different things.
LEMMA RefersTo ==
  /\ \A v : Free # Listener(v) /\ Free # Eventfd(v)
  /\ \A v, w : /\ Listener(v) # Eventfd(w) /\ (Listener(v) = Listener(w) => v = w)
               /\ Eventfd(v) = Eventfd(w) => v = w
  /\ \A c, v : Client(c) # Free /\ Client(c) # Listener(v) /\ Client(c) # Eventfd(v) /\ Client(c).kind = "client"
  /\ Free.kind # "client" /\ \A v : Listener(v).kind # "client" /\ Eventfd(v).kind # "client"
  BY DEF Free, Listener, Eventfd, Client

\* A worker's connections become more only when it accepts one.
LEMMA OpenSteps ==
  ASSUME Numbers, TypeOK, ChunksSent, ConnectionsSound, ClaimsValid, CompletedWhileApplied, ConnectionsOwned, [Next]_vars,
         NEW v \in Workers
  PROVE  \/ Open(v)' \subseteq Open(v)
         \/ \E c \in Clients : \E f \in Fds :
              Accept(v, c) /\ Open(v)' = Open(v) \cup {f} /\ fdTable[f] = Free /\ fdTable'[f] = Client(c)
<1>1. CASE UNCHANGED connections
  BY <1>1 DEF Open
<1>2. ASSUME NEW w \in Workers, Closing(w) \/ WorkerInit(w)
      PROVE  UNCHANGED connections
  BY <1>2, ClosingKeeps DEF WorkerInit
<1>3. ASSUME NEW w \in Workers, NEW c \in Clients, Accept(w, c)
      PROVE  \/ Open(v)' \subseteq Open(v)
             \/ \E f \in Fds : Accept(v, c) /\ Open(v)' = Open(v) \cup {f} /\ fdTable[f] = Free /\ fdTable'[f] = Client(c)
  <2>1. PICK f \in Fds : \E n \in Connections :
           /\ fdTable[f] = Free /\ fdTable'[f] = Client(c) /\ connections'[w][f] = n
           /\ \A u \in Workers : \A h \in Fds : u # w \/ h # f => connections'[u][h] = connections[u][h]
    BY <1>3, AcceptEffect, SMT
  <2>2. connections'[w][f] # NoConn
    BY <2>1, ConnectionIsThere
  <2>3. CASE v = w
    BY <1>3, <2>1, <2>2, <2>3, SMT DEF Open
  <2>4. CASE v # w
    BY <2>1, <2>4 DEF Open
  <2> QED BY <2>3, <2>4
<1>4. ASSUME NEW w \in Workers, NEW f, NEW g, StoreStep(w, f, g)
      PROVE  Open(v)' \subseteq Open(v)
  <2>1. f \in Open(w) /\ Reached(g, View(w, f)) /\ Store(w, f, g)
    BY <1>4 DEF StoreStep
  <2>2. \A u \in Workers : \A h \in Fds : u # w \/ h # f => connections'[u][h] = connections[u][h]
    BY <2>1, StoreEffect, SMT
  <2> QED BY <2>1, <2>2 DEF Open
<1> QED BY <1>1, <1>2, <1>3, <1>4, ConnectionSteps DEF connVars

\* A number is given out when it is free, and freed by a thread that owns it.
LEMMA FdSteps ==
  ASSUME Numbers, TypeOK, ChunksSent, ConnectionsSound, ClaimsValid, CompletedWhileApplied, ConnectionsOwned, [Next]_vars,
         NEW f \in Fds
  PROVE  \/ fdTable'[f] = fdTable[f]
         \/ /\ fdTable[f] = Free
            /\ \E w \in Workers :
                 \/ \E c \in Clients : Accept(w, c) /\ fdTable'[f] = Client(c) /\ f \in Open(w)'
                 \/ WorkerInit(w) /\ fdTable'[f] = Listener(w) /\ f = listener_fd'[w]
                 \/ WorkerInit(w) /\ fdTable'[f] = Eventfd(w) /\ f = completion_fd'[w]
         \/ /\ fdTable'[f] = Free
            /\ \E w \in Workers : (f \in Open(w) /\ f \notin Open(w)') \/ (Closing(w) /\ f \in Held(w))
<1>1. CASE UNCHANGED connVars
  BY <1>1 DEF connVars
<1>2. ASSUME NEW w \in Workers, Closing(w)
      PROVE  fdTable'[f] = fdTable[f] \/ (fdTable'[f] = Free /\ f \in Held(w))
  <2>1. PICK label, next, fds : ClosingMoves(w, label, next, fds)
    BY <1>2, ClosingKeeps
  <2>2. PICK h : /\ Close(h, sock)
                 /\ \/ h = listener_fd[w] /\ pc[w] \in {"event", "drain", "close_listener"}
                    \/ h = completion_fd[w] /\ pc[w] = "close_eventfd"
    BY <2>1 DEF ClosingMoves
  <2>3. sock \in [Clients -> Sockets] /\ \A c \in Clients : sock[c].rx <= sock[c].sent
    BY DEF TypeOK, ChunksSent
  <2>4. fdTable'[f] = IF f = h THEN Free ELSE fdTable[f]
    BY <2>2, <2>3, CloseEffect
  <2> QED BY <2>2, <2>4 DEF Held, Live
<1>3. ASSUME NEW w \in Workers, WorkerInit(w)
      PROVE  \/ fdTable'[f] = fdTable[f]
             \/ fdTable[f] = Free /\ fdTable'[f] = Listener(w) /\ f = listener_fd'[w]
             \/ fdTable[f] = Free /\ fdTable'[f] = Eventfd(w) /\ f = completion_fd'[w]
  <2>1. PICK l, e \in Fds : InitWith(w, l, e)
    BY <1>3, InitTakesFree
  <2>2. /\ listener_fd'[w] = l /\ completion_fd'[w] = e /\ fdTable'[l] = Listener(w) /\ fdTable'[e] = Eventfd(w)
        /\ f \notin {l, e} => fdTable'[f] = fdTable[f]
    BY <2>1, InitEffect, SMT
  <2>3. fdTable[l] = Free /\ fdTable[e] = Free
    BY <2>1 DEF InitWith
  <2> QED BY <2>2, <2>3
<1>4. ASSUME NEW w \in Workers, NEW c \in Clients, Accept(w, c)
      PROVE  fdTable'[f] = fdTable[f] \/ (fdTable[f] = Free /\ fdTable'[f] = Client(c) /\ f \in Open(w)')
  <2>1. PICK h \in Fds : \E n \in Connections :
           /\ fdTable[h] = Free /\ connections'[w][h] = n
           /\ \A x \in Fds : fdTable'[x] = IF x = h THEN Client(c) ELSE fdTable[x]
    BY <1>4, AcceptEffect, SMT
  <2>2. h \in Open(w)'
    BY <2>1, ConnectionIsThere DEF Open
  <2> QED BY <2>1, <2>2
<1>5. ASSUME NEW w \in Workers, NEW h, NEW g, StoreStep(w, h, g)
      PROVE  fdTable'[f] = fdTable[f] \/ (fdTable'[f] = Free /\ f \in Open(w) /\ f \notin Open(w)')
  <2>1. h \in Open(w) /\ Reached(g, View(w, h)) /\ Store(w, h, g)
    BY <1>5 DEF StoreStep
  <2>2. CASE g.conn = NoConn
    <3>1. /\ \A x \in Fds : fdTable'[x] = IF x = h THEN Free ELSE fdTable[x]
          /\ connections'[w][h] = NoConn
      BY <2>1, <2>2, StoreEffect, SMT
    <3> QED BY <2>1, <3>1 DEF Open
  <2>3. CASE g.conn # NoConn
    BY <2>1, <2>3, StoreEffect, SMT
  <2> QED BY <2>2, <2>3
<1> QED BY <1>1, <1>2, <1>3, <1>4, <1>5, ConnectionSteps

-----------------------------------------------------------------------------
(* How far a worker is.                                                    *)

Inner == {"wait", "event", "accept", "accepting", "swap", "complete", "drain", "flush", "sweep", "stop"}

\* Where worker w may go, and what it may do to its flag and its numbers.
WorkerMoves(w, label, next, d, l, x) ==
  /\ pc' = [pc EXCEPT ![w] = label] /\ resume' = [resume EXCEPT ![w] = next]
  /\ draining' = [draining EXCEPT ![w] = d] /\ listener_fd' = [listener_fd EXCEPT ![w] = l]
  /\ completion_fd' = [completion_fd EXCEPT ![w] = x]
  /\ UNCHANGED mainPc /\ (shutdown_requested => shutdown_requested')
  /\ d = draining[w] \/ (d /\ shutdown_requested /\ Closing(w))
  /\ next \in {resume[w], "event", "drain"} \/ d
  /\ l = listener_fd[w] \/ (l = NoFd /\ Closing(w)) \/ WorkerInit(w)
  /\ x = completion_fd[w] \/ WorkerInit(w)
  /\ WorkerInit(w) => pc[w] = "init" /\ label = "wait" /\ l \in Fds /\ x \in Fds /\ d = draining[w]
  /\ \/ WorkerInit(w)
     \/ pc[w] = "init" /\ label = "exited" /\ shutdown_requested'
     \/ /\ pc[w] \in Inner /\ (pc[w] = "swap" => SwapCompletions(w))
        /\ \/ label \in Inner \ {"accepting", "flush", "stop"}
           \/ label \in {"flush", "stop"} /\ (d \/ label = resume[w])
           \/ label = "accepting" /\ ~shutdown_requested
           \/ /\ pc[w] = "stop" /\ label \in {"close_listener", "close_eventfd"} /\ d = draining[w]
              /\ label = "close_listener" \/ listener_fd[w] = NoFd
     \/ pc[w] = "close_listener" /\ label = "close_eventfd" /\ Closing(w)
     \/ pc[w] = "close_eventfd" /\ label = "exited" /\ Closing(w)

\* Every step of a worker is such a move.
LEMMA WorkerSteps ==
  ASSUME Numbers, TypeOK, CompletedWhileApplied, NEW w \in Workers, WorkerNext(w)
  PROVE  \E label, next, d, l, x : WorkerMoves(w, label, next, d, l, x)
<1>1. /\ pc = [pc EXCEPT ![w] = pc[w]] /\ resume = [resume EXCEPT ![w] = resume[w]]
      /\ draining = [draining EXCEPT ![w] = draining[w]]
      /\ listener_fd = [listener_fd EXCEPT ![w] = listener_fd[w]]
      /\ completion_fd = [completion_fd EXCEPT ![w] = completion_fd[w]]
      /\ resume[w] \in {"event", "drain", "flush", "stop"} /\ draining[w] \in BOOLEAN
  BY DEF TypeOK
<1>2. ASSUME NEW label, pc' = [pc EXCEPT ![w] = label], pc[w] \in Inner,
             label \in Inner \ {"accepting", "flush", "stop"} \/ label = resume[w],
             pc[w] = "swap" => SwapCompletions(w), ~WorkerInit(w),
             UNCHANGED <<resume, draining, listener_fd, completion_fd, mainPc, shutdown_requested>>
      PROVE  WorkerMoves(w, label, resume[w], draining[w], listener_fd[w], completion_fd[w])
  BY <1>1, <1>2 DEF WorkerMoves, Inner
<1>3. WorkerInit(w) => pc[w] = "init"
  BY DEF WorkerInit
<1>4. CASE Turn(w)
  <2>1. UNCHANGED <<draining, listener_fd, completion_fd, mainPc>> /\ (shutdown_requested => shutdown_requested')
    BY <1>4, TurnKeeps
  <2>2. PICK label, next, fds : TurnMoves(w, label, next, fds)
    BY <1>4, TurnKeeps
  <2>3. ~WorkerInit(w) \/ label = "exited"
    BY <1>3, <2>2 DEF TurnMoves
  <2>4. ~WorkerInit(w)
    <3>1. ASSUME WorkerInit(w) PROVE pc'[w] = "wait" /\ pc'[w] = label
      BY <3>1, <2>2 DEF WorkerInit, Goto, TypeOK, TurnMoves
    <3> QED BY <2>3, <3>1
  <2>5. WorkerMoves(w, label, next, draining[w], listener_fd[w], completion_fd[w])
    BY <1>1, <2>1, <2>2, <2>4 DEF WorkerMoves, TurnMoves, Inner
  <2> QED BY <2>5
<1>5. CASE Closing(w)
  <2>1. UNCHANGED <<completion_fd, mainPc, shutdown_requested>>
    BY <1>5, ClosingKeeps
  <2>2. PICK label, next, fds : ClosingMoves(w, label, next, fds)
    BY <1>5, ClosingKeeps
  <2>3. ~WorkerInit(w)
    BY <1>3, <2>2 DEF ClosingMoves
  <2>4. CASE /\ pc[w] \in {"event", "drain"} /\ label \in {"event", "flush", "sweep"}
             /\ next \in {"event", "flush"}
             /\ shutdown_requested /\ draining' = [draining EXCEPT ![w] = TRUE]
             /\ Close(listener_fd[w], sock)
             /\ listener_fd' \in {listener_fd, [listener_fd EXCEPT ![w] = NoFd]}
    <3>1. PICK l \in {listener_fd[w], NoFd} : listener_fd' = [listener_fd EXCEPT ![w] = l]
      BY <1>1, <2>4
    <3>2. pc' = [pc EXCEPT ![w] = label] /\ resume' = [resume EXCEPT ![w] = next]
      BY <2>2 DEF ClosingMoves
    <3>3. WorkerMoves(w, label, next, TRUE, l, completion_fd[w])
      BY <1>1, <1>5, <2>1, <2>3, <2>4, <3>1, <3>2 DEF WorkerMoves, Inner
    <3> QED BY <3>3
  <2>5. CASE /\ UNCHANGED <<listener_fd, draining>> /\ next = resume[w]
             /\ \/ pc[w] = "close_listener" /\ label = "close_eventfd"
                \/ pc[w] = "close_eventfd" /\ label = "exited"
    <3>1. WorkerMoves(w, label, next, draining[w], listener_fd[w], completion_fd[w])
      BY <1>1, <1>5, <2>1, <2>2, <2>3, <2>5 DEF WorkerMoves, ClosingMoves
    <3> QED BY <3>1
  <2> QED BY <2>2, <2>4, <2>5 DEF ClosingMoves
<1>6. CASE Notifying(w)
  <2>1. PICK next \in {"event", "drain"} : resume' = [resume EXCEPT ![w] = next]
    BY <1>6, NotifyingKeeps
  <2>2. /\ UNCHANGED <<draining, listener_fd, completion_fd, mainPc, shutdown_requested>>
        /\ pc[w] = "event" /\ pc' = [pc EXCEPT ![w] = "swap"]
    BY <1>6, NotifyingKeeps
  <2>3. WorkerMoves(w, "swap", next, draining[w], listener_fd[w], completion_fd[w])
    BY <1>1, <1>3, <2>1, <2>2 DEF WorkerMoves, Inner
  <2> QED BY <2>3
<1>7. CASE WorkerInit(w)
  <2>1. PICK l, e \in Fds : InitWith(w, l, e)
    BY <1>7, InitTakesFree
  <2>2. /\ UNCHANGED <<draining, resume, mainPc, shutdown_requested>>
        /\ pc[w] = "init" /\ pc' = [pc EXCEPT ![w] = "wait"]
    BY <1>7 DEF WorkerInit, Goto, processVars
  <2>3. WorkerMoves(w, "wait", resume[w], draining[w], l, e)
    BY <1>1, <1>7, <2>1, <2>2 DEF WorkerMoves, InitWith
  <2> QED BY <2>3
<1>8. ASSUME NEW c \in Clients, Accept(w, c) \/ AcceptDrops(w, c)
      PROVE  WorkerMoves(w, "accept", resume[w], draining[w], listener_fd[w], completion_fd[w])
  <2>1. /\ UNCHANGED <<resume, draining, listener_fd, completion_fd, mainPc, shutdown_requested>>
        /\ pc[w] = "accepting" /\ pc' = [pc EXCEPT ![w] = "accept"]
    BY <1>8 DEF Accept, AcceptDrops, Goto, LoopStep, KeepFlags, KeepDrain
  <2> QED BY <1>2, <1>3, <2>1 DEF Inner
<1>9. CASE SwapCompletions(w)
  <2>1. UNCHANGED <<resume, draining, listener_fd, completion_fd, mainPc, shutdown_requested>>
    BY <1>9 DEF SwapCompletions, LoopStep, KeepFlags, KeepDrain
  <2>2. PICK label \in {"complete", resume[w]} : pc[w] = "swap" /\ pc' = [pc EXCEPT ![w] = label]
    BY <1>9, ServeMoves
  <2> QED BY <1>2, <1>3, <1>9, <2>1, <2>2 DEF Inner
<1>10. ASSUME NEW e \in batch[w], SocketEvent(w, e)
       PROVE  WorkerMoves(w, "event", resume[w], draining[w], listener_fd[w], completion_fd[w])
  <2>1. UNCHANGED <<resume, draining, listener_fd, completion_fd, mainPc, shutdown_requested>>
    BY <1>10 DEF SocketEvent, LoopStep, KeepFlags, KeepDrain
  <2>2. pc[w] = "event" /\ pc' = [pc EXCEPT ![w] = "event"]
    BY <1>1, <1>10, ServeMoves
  <2> QED BY <1>2, <1>3, <2>1, <2>2 DEF Inner
<1>11. CASE ProcessCompletion(w)
  <2>1. UNCHANGED <<resume, draining, listener_fd, completion_fd, mainPc, shutdown_requested>>
    BY <1>11 DEF ProcessCompletion, LoopStep, KeepFlags, KeepDrain
  <2>2. PICK label \in {"complete", resume[w]} : pc[w] = "complete" /\ pc' = [pc EXCEPT ![w] = label]
    BY <1>11, ServeMoves
  <2> QED BY <1>2, <1>3, <2>1, <2>2 DEF Inner
<1>12. ASSUME NEW f \in Fds, SweepConnection(w, f)
       PROVE  \E label : WorkerMoves(w, label, resume[w], draining[w], listener_fd[w], completion_fd[w])
  <2>1. UNCHANGED <<resume, draining, listener_fd, completion_fd, mainPc, shutdown_requested>>
    BY <1>12 DEF SweepConnection, LoopStep, KeepFlags
  <2>2. PICK label \in {"sweep", resume[w]} : pc[w] = "sweep" /\ pc' = [pc EXCEPT ![w] = label]
    BY <1>12, ServeMoves
  <2> QED BY <1>2, <1>3, <2>1, <2>2 DEF Inner
<1>13. \/ Turn(w) \/ Closing(w) \/ Notifying(w) \/ WorkerInit(w)
       \/ \E c \in Clients : Accept(w, c) \/ AcceptDrops(w, c)
       \/ SwapCompletions(w) \/ ProcessCompletion(w)
       \/ \E e \in batch[w] : SocketEvent(w, e)
       \/ \E f \in Fds : SweepConnection(w, f)
  BY DEF WorkerNext, Turn, Closing, Notifying
<1> QED BY <1>4, <1>5, <1>6, <1>7, <1>8, <1>9, <1>10, <1>11, <1>12, <1>13

\* Worker v stands still.
Still(v) ==
  /\ pc'[v] = pc[v] /\ resume'[v] = resume[v] /\ draining'[v] = draining[v]
  /\ listener_fd'[v] = listener_fd[v] /\ completion_fd'[v] = completion_fd[v]

\* A worker is moved by its own steps only, once it has been created.
LEMMA ControlSteps ==
  ASSUME Numbers, TypeOK, CompletedWhileApplied, [Next]_vars, NEW v \in Workers
  PROVE  \/ Still(v)
         \/ SpawnWorker(v) /\ pc'[v] = "init" /\ UNCHANGED <<resume, draining, listener_fd, completion_fd>>
         \/ WorkerNext(v) /\ \E label, next, d, l, x : WorkerMoves(v, label, next, d, l, x)
<1>1. CASE UNCHANGED <<pc, resume, draining, listener_fd, completion_fd>>
  BY <1>1 DEF Still
<1>2. CASE MainNext
  <2>1. CASE \E w \in Workers : SpawnWorker(w)
    <3>1. PICK w \in Workers : SpawnWorker(w)
      BY <2>1
    <3>2. pc' = [pc EXCEPT ![w] = "init"] /\ UNCHANGED <<resume, draining, listener_fd, completion_fd>>
      BY <3>1 DEF SpawnWorker, MainStep, Goto, loopVars
    <3> QED BY <3>1, <3>2 DEF Still, TypeOK
  <2>2. CASE Start \/ StartFails \/ SpawnThrows \/ JoinWorkers \/ JoinPool
    BY <1>1, <2>2 DEF Start, StartFails, SpawnThrows, JoinWorkers, JoinPool, MainStep, loopVars
  <2> QED BY <1>2, <2>1, <2>2 DEF MainNext
<1>3. CASE Signal
  BY <1>1, <1>3 DEF Signal, loopVars
<1>4. CASE \E w \in Workers : WorkerNext(w)
  <2>1. PICK w \in Workers : WorkerNext(w)
    BY <1>4
  <2>2. PICK label, next, d, l, x : WorkerMoves(w, label, next, d, l, x)
    BY <2>1, WorkerSteps
  <2>3. CASE v = w
    BY <2>1, <2>2, <2>3
  <2>4. CASE v # w
    BY <2>2, <2>4 DEF WorkerMoves, Still, TypeOK
  <2> QED BY <2>3, <2>4
<1>5. CASE \E p \in PoolThreads : PoolNext(p)
  BY <1>1, <1>5 DEF PoolNext, PoolPop, PoolRespond, PoolNotify, PoolStep
<1>6. CASE \E c \in Clients : PeerNext(c)
  BY <1>1, <1>6 DEF PeerNext, PeerConnects, PeerSends, PeerReads, PeerHalfCloses, PeerResets, Peer, loopVars
<1>7. CASE UNCHANGED vars
  BY <1>1, <1>7 DEF vars, loopVars
<1> QED BY <1>2, <1>3, <1>4, <1>5, <1>6, <1>7 DEF Next

\* start() goes forward, and only its beginning clears the flag.
LEMMA MainSteps ==
  ASSUME Numbers, TypeOK, CompletedWhileApplied, [Next]_vars
  PROVE  \/ UNCHANGED mainPc /\ (shutdown_requested => shutdown_requested')
         \/ mainPc = "spawn" /\ mainPc' = "join" /\ (shutdown_requested => shutdown_requested')
         \/ /\ mainPc = "boot" /\ mainPc' \in {"spawn", "returned"}
            /\ UNCHANGED <<pc, draining, connections, poolQueue, poolThread>>
         \/ JoinWorkers /\ mainPc' = "join_pool" /\ UNCHANGED <<pc, shutdown_requested>>
         \/ JoinPool /\ mainPc' = "returned" /\ UNCHANGED <<pc, shutdown_requested, poolQueue, poolThread>>
<1>1. CASE MainNext
  <2>1. CASE Start \/ StartFails
    BY <2>1 DEF Start, StartFails, MainStep, loopVars
  <2>2. CASE \E w \in Workers : SpawnWorker(w)
    BY <2>2, SMT DEF SpawnWorker
  <2>3. CASE SpawnThrows
    BY <2>3 DEF SpawnThrows
  <2>4. CASE JoinWorkers
    BY <2>4 DEF JoinWorkers
  <2>5. CASE JoinPool
    BY <2>5 DEF JoinPool, MainStep
  <2> QED BY <1>1, <2>1, <2>2, <2>3, <2>4, <2>5 DEF MainNext
<1>2. CASE Signal
  BY <1>2 DEF Signal
<1>3. CASE \E w \in Workers : WorkerNext(w)
  <2>1. PICK w \in Workers : WorkerNext(w)
    BY <1>3
  <2>2. PICK label, next, d, l, x : WorkerMoves(w, label, next, d, l, x)
    BY <2>1, WorkerSteps
  <2> QED BY <2>2 DEF WorkerMoves
<1>4. CASE \E p \in PoolThreads : PoolNext(p)
  BY <1>4 DEF PoolNext, PoolPop, PoolRespond, PoolNotify, PoolStep, processVars
<1>5. CASE \E c \in Clients : PeerNext(c)
  BY <1>5 DEF PeerNext, PeerConnects, PeerSends, PeerReads, PeerHalfCloses, PeerResets, Peer, processVars
<1>6. CASE UNCHANGED vars
  BY <1>6 DEF vars, processVars
<1> QED BY <1>1, <1>2, <1>3, <1>4, <1>5, <1>6 DEF Next

\* A worker acquires numbers to close only when it starts.
LEMMA HeldShrinks ==
  ASSUME Numbers, TypeOK, CompletedWhileApplied, [Next]_vars, NEW v \in Workers, ~WorkerInit(v)
  PROVE  Held(v)' \subseteq Held(v)
<1>1. CASE Still(v)
  BY <1>1 DEF Still, Held, Live
<1>2. CASE pc'[v] = "init"
  BY <1>2 DEF Held, Live
<1>3. ASSUME NEW label, NEW next, NEW d, NEW l, NEW x, WorkerMoves(v, label, next, d, l, x)
      PROVE  Held(v)' \subseteq Held(v)
  <2>1. /\ pc'[v] = label /\ listener_fd'[v] = l /\ completion_fd'[v] = x
        /\ x = completion_fd[v] /\ l \in {listener_fd[v], NoFd}
    BY <1>3 DEF WorkerMoves, TypeOK
  <2>2. label # "exited" => Live(v) /\ pc[v] # "close_eventfd"
    BY <1>3 DEF WorkerMoves, Live, Inner
  <2>3. NoFd \notin Fds
    BY SMT DEF NoFd, Fds
  <2> QED BY <2>1, <2>2, <2>3 DEF Held, Live
<1> QED BY <1>1, <1>2, <1>3, ControlSteps

\* A connection goes when its worker closes its descriptor.
LEMMA OpenLost ==
  ASSUME Numbers, TypeOK, ChunksSent, ConnectionsSound, ClaimsValid, CompletedWhileApplied, ConnectionsOwned, [Next]_vars,
         NEW v \in Workers, NEW f \in Open(v), f \notin Open(v)'
  PROVE  fdTable'[f] = Free
<1>1. connections'[v][f] # connections[v][f] /\ connections'[v][f] = NoConn /\ f \in Fds
  BY DEF Open
<1>2. ASSUME NEW w \in Workers, Closing(w) \/ WorkerInit(w)
      PROVE  FALSE
  BY <1>1, <1>2, ClosingKeeps DEF WorkerInit
<1>3. ASSUME NEW w \in Workers, NEW c \in Clients, Accept(w, c)
      PROVE  FALSE
  BY <1>1, <1>3, AcceptEffect, ConnectionIsThere, SMT
<1>4. ASSUME NEW w \in Workers, NEW h, NEW g, StoreStep(w, h, g)
      PROVE  fdTable'[f] = Free
  <2>1. h \in Open(w) /\ Reached(g, View(w, h)) /\ Store(w, h, g)
    BY <1>4 DEF StoreStep
  <2>2. /\ connections'[w][h] = g.conn
        /\ \A u \in Workers : \A x \in Fds : u # w \/ x # h => connections'[u][x] = connections[u][x]
        /\ g.conn = NoConn => \A x \in Fds : fdTable'[x] = IF x = h THEN Free ELSE fdTable[x]
    BY <2>1, StoreEffect, SMTT(30)
  <2> QED BY <1>1, <2>2
<1>5. CASE UNCHANGED connVars
  BY <1>1, <1>5 DEF connVars
<1> QED BY <1>2, <1>3, <1>4, <1>5, ConnectionSteps

\* The number a worker closes is free afterwards.
LEMMA ClosingFrees ==
  ASSUME TypeOK, ChunksSent, NEW w \in Workers, Closing(w), NEW f \in Fds,
         f = IF pc[w] = "close_eventfd" THEN completion_fd[w] ELSE listener_fd[w]
  PROVE  fdTable'[f] = Free
<1>1. PICK label, next, fds : ClosingMoves(w, label, next, fds)
  BY ClosingKeeps
<1>2. Close(f, sock)
  BY <1>1 DEF ClosingMoves
<1>3. sock \in [Clients -> Sockets] /\ \A c \in Clients : sock[c].rx <= sock[c].sent
  BY DEF TypeOK, ChunksSent
<1> QED BY <1>2, <1>3, CloseEffect

-----------------------------------------------------------------------------
(* The descriptors stay accounted for.                                     *)

\* What is open keeps an owner.
LEMMA DescriptorsStep ==
  ASSUME Numbers, TypeOK, ChunksSent, ConnectionsSound, ClaimsValid, CompletedWhileApplied, ConnectionsOwned,
         DescriptorsOwned, Phases, [Next]_vars
  PROVE  DescriptorsOwned'
<1> SUFFICES ASSUME NEW f \in Fds
             PROVE  /\ \A w \in Workers : fdTable'[f] = Listener(w) =>
                         Live(w)' /\ pc'[w] # "close_eventfd" /\ f = listener_fd'[w] /\ ~draining'[w]
                    /\ \A w \in Workers : fdTable'[f] = Eventfd(w) => Live(w)' /\ f = completion_fd'[w]
                    /\ fdTable'[f].kind = "client" => \E w \in Workers : f \in Open(w)'
  BY DEF DescriptorsOwned
<1>1. ASSUME NEW w \in Workers, WorkerInit(w)
      PROVE  Live(w)' /\ pc'[w] = "wait" /\ ~draining'[w]
  <2>1. pc[w] = "init" /\ pc' = [pc EXCEPT ![w] = "wait"] /\ draining' = draining
    BY <1>1 DEF WorkerInit, Goto
  <2>2. ~draining[w]
    BY <2>1 DEF Phases
  <2> QED BY <2>1, <2>2 DEF Live, TypeOK
<1>2. ASSUME NEW w \in Workers, fdTable'[f] = Listener(w)
      PROVE  Live(w)' /\ pc'[w] # "close_eventfd" /\ f = listener_fd'[w] /\ ~draining'[w]
  <2>1. CASE fdTable[f] = Listener(w)
    <3>1. Live(w) /\ pc[w] # "close_eventfd" /\ f = listener_fd[w] /\ ~draining[w]
      BY <2>1 DEF DescriptorsOwned
    <3>2. ~Closing(w)
      BY <1>2, <3>1, ClosingFrees, RefersTo
    <3>3. CASE Still(w)
      BY <3>1, <3>3 DEF Still, Live
    <3>4. ASSUME NEW label, NEW next, NEW d, NEW l, NEW x, WorkerMoves(w, label, next, d, l, x)
          PROVE  Live(w)' /\ pc'[w] # "close_eventfd" /\ f = listener_fd'[w] /\ ~draining'[w]
      <4>1. pc'[w] = label /\ listener_fd'[w] = l /\ draining'[w] = d /\ f # NoFd
        BY <3>4, SMT DEF WorkerMoves, TypeOK, NoFd, Fds
      <4>2. pc[w] # "init"
        BY <3>1 DEF Live
      <4>3. d = draining[w] /\ l = listener_fd[w]
        BY <3>2, <3>4, <4>2 DEF WorkerMoves
      <4>4. label \in Inner \cup {"close_listener"}
        BY <3>1, <3>2, <3>4, <4>1, <4>2 DEF WorkerMoves, Inner
      <4> QED BY <3>1, <4>1, <4>3, <4>4 DEF Live, Inner
    <3>5. ~SpawnWorker(w)
      BY <3>1 DEF Live, SpawnWorker
    <3> QED BY <3>3, <3>4, <3>5, ControlSteps
  <2>2. CASE fdTable[f] # Listener(w)
    <3>1. WorkerInit(w) /\ f = listener_fd'[w]
      BY <1>2, <2>2, FdSteps, RefersTo
    <3> QED BY <1>1, <3>1
  <2> QED BY <2>1, <2>2
<1>3. ASSUME NEW w \in Workers, fdTable'[f] = Eventfd(w)
      PROVE  Live(w)' /\ f = completion_fd'[w]
  <2>1. CASE fdTable[f] = Eventfd(w)
    <3>1. Live(w) /\ f = completion_fd[w]
      BY <2>1 DEF DescriptorsOwned
    <3>2. ~(Closing(w) /\ pc[w] = "close_eventfd")
      BY <1>3, <3>1, ClosingFrees, RefersTo
    <3>3. CASE Still(w)
      BY <3>1, <3>3 DEF Still, Live
    <3>4. ASSUME NEW label, NEW next, NEW d, NEW l, NEW x, WorkerMoves(w, label, next, d, l, x)
          PROVE  Live(w)' /\ f = completion_fd'[w]
      <4>1. pc'[w] = label /\ completion_fd'[w] = x
        BY <3>4 DEF WorkerMoves, TypeOK
      <4>2. pc[w] # "init"
        BY <3>1 DEF Live
      <4>3. x = completion_fd[w] /\ label \in Inner \cup {"close_listener", "close_eventfd"}
        BY <3>2, <3>4, <4>2 DEF WorkerMoves, Inner
      <4> QED BY <3>1, <4>1, <4>3 DEF Live, Inner
    <3>5. ~SpawnWorker(w)
      BY <3>1 DEF Live, SpawnWorker
    <3> QED BY <3>3, <3>4, <3>5, ControlSteps
  <2>2. CASE fdTable[f] # Eventfd(w)
    <3>1. WorkerInit(w) /\ f = completion_fd'[w]
      BY <1>3, <2>2, FdSteps, RefersTo, SMTT(30)
    <3> QED BY <1>1, <3>1
  <2> QED BY <2>1, <2>2
<1>4. ASSUME fdTable'[f].kind = "client"
      PROVE  \E w \in Workers : f \in Open(w)'
  <2>1. fdTable'[f] # Free /\ \A v : fdTable'[f] # Listener(v) /\ fdTable'[f] # Eventfd(v)
    BY <1>4, RefersTo
  <2>2. CASE fdTable'[f] = fdTable[f]
    <3>1. PICK w \in Workers : f \in Open(w)
      BY <1>4, <2>2 DEF DescriptorsOwned
    <3> QED BY <2>1, <3>1, OpenLost
  <2>3. CASE fdTable'[f] # fdTable[f]
    BY <2>1, <2>3, FdSteps
  <2> QED BY <2>2, <2>3
<1> QED BY <1>2, <1>3, <1>4

\* A worker that may accept was undisturbed before, or the server just starts.
LEMMA UndisturbedStep ==
  ASSUME Numbers, TypeOK, CompletedWhileApplied, IdleOutsideLoop, Phases, [Next]_vars,
         NEW w \in Workers, Undisturbed(w)'
  PROVE  Undisturbed(w) \/ Open(w)' = {}
<1>1. CASE mainPc = "boot" /\ UNCHANGED connections
  <2>1. Open(w) = {}
    BY <1>1 DEF Phases, IdleOutsideLoop
  <2> QED BY <1>1, <2>1 DEF Open
<1>2. CASE shutdown_requested => shutdown_requested'
  <2>1. CASE pc'[w] = "accepting"
    <3>1. ASSUME NEW label, NEW next, NEW d, NEW l, NEW x, WorkerMoves(w, label, next, d, l, x)
          PROVE  ~shutdown_requested
      <4>1. label = "accepting"
        BY <2>1, <3>1 DEF WorkerMoves, TypeOK
      <4> QED BY <3>1, <4>1 DEF WorkerMoves, TypeOK, Inner
    <3> QED BY <2>1, <3>1, ControlSteps DEF Undisturbed, Still
  <2> QED BY <1>2, <2>1 DEF Undisturbed
<1> QED BY <1>1, <1>2, MainSteps

\* A number that a worker will yet close is not free before the shutdown.
LEMMA HeldIsOpen ==
  ASSUME Phases, ~shutdown_requested, NEW v \in Workers, NEW f \in Held(v)
  PROVE  fdTable[f] \in {Listener(v), Eventfd(v)}
  BY DEF Held, Phases

\* The connections of an undisturbed worker stay its own.
LEMMA OwnedStep ==
  ASSUME Numbers, TypeOK, ChunksSent, ConnectionsSound, ClaimsValid, CompletedWhileApplied, IdleOutsideLoop,
         ConnectionsOwned, Phases, [Next]_vars
  PROVE  ConnectionsOwned'
<1> SUFFICES ASSUME NEW w \in Workers, Undisturbed(w)', NEW f \in Open(w)'
             PROVE  /\ fdTable'[f] # Free
                    /\ \A v \in Workers : f \notin Held(v)' /\ (v # w => f \notin Open(v)')
  BY DEF ConnectionsOwned
<1>1. Undisturbed(w) /\ f \in Fds
  BY UndisturbedStep DEF Open
<1>2. CASE f \in Open(w)
  <2>1. fdTable[f] # Free /\ \A v \in Workers : f \notin Held(v) /\ (v # w => f \notin Open(v))
    BY <1>1, <1>2 DEF ConnectionsOwned
  <2>2. fdTable'[f] = fdTable[f]
    BY <1>1, <2>1, FdSteps
  <2>3. ASSUME NEW v \in Workers
        PROVE  f \notin Held(v)'
    <3>1. CASE WorkerInit(v)
      <4>1. PICK l, e \in Fds : InitWith(v, l, e)
        BY <3>1, InitTakesFree
      <4>2. listener_fd'[v] = l /\ completion_fd'[v] = e
        BY <4>1, Zenon DEF InitWith, TypeOK
      <4>3. fdTable[l] = Free /\ fdTable[e] = Free
        BY <4>1 DEF InitWith
      <4> QED BY <2>1, <4>2, <4>3 DEF Held
    <3>2. CASE ~WorkerInit(v)
      BY <2>1, <3>2, HeldShrinks
    <3> QED BY <3>1, <3>2
  <2>4. ASSUME NEW v \in Workers, v # w
        PROVE  f \notin Open(v)'
    BY <2>1, <2>4, OpenSteps
  <2> QED BY <2>1, <2>2, <2>3, <2>4
<1>3. CASE f \notin Open(w)
  <2>1. PICK c \in Clients : Accept(w, c) /\ fdTable[f] = Free /\ fdTable'[f] = Client(c)
    BY <1>3, OpenSteps
  <2>2. pc[w] = "accepting" /\ pc' = [pc EXCEPT ![w] = "accept"] /\ UNCHANGED shutdown_requested
    BY <2>1 DEF Accept, Goto, KeepFlags
  <2>3. ~shutdown_requested
    BY <2>2 DEF Undisturbed, TypeOK
  <2>4. ASSUME NEW v \in Workers
        PROVE  f \notin Held(v)'
    <3>1. ~WorkerInit(v)
      BY <2>2 DEF WorkerInit, Goto, TypeOK
    <3>2. f \notin Held(v)
      BY <2>1, <2>3, HeldIsOpen, RefersTo
    <3> QED BY <3>1, <3>2, HeldShrinks
  <2>5. ASSUME NEW v \in Workers, v # w
        PROVE  f \notin Open(v)'
    <3>1. f \notin Open(v)
      BY <2>1, <2>3 DEF ConnectionsOwned, Undisturbed
    <3>2. ~ \E k \in Clients : Accept(v, k)
      BY <2>2, <2>5 DEF Accept, Goto, TypeOK
    <3> QED BY <3>1, <3>2, OpenSteps
  <2> QED BY <2>1, <2>4, <2>5, RefersTo
<1> QED BY <1>2, <1>3

-----------------------------------------------------------------------------
(* How far the server is.                                                  *)

\* Before the shutdown nobody closes the listener or the eventfd of a worker.
LEMMA HeldStays ==
  ASSUME Numbers, TypeOK, ChunksSent, ConnectionsSound, ClaimsValid, CompletedWhileApplied, ConnectionsOwned,
         Phases, [Next]_vars, ~shutdown_requested, NEW w \in Workers, NEW f \in Held(w)
  PROVE  fdTable'[f] = fdTable[f]
<1>1. fdTable[f] # Free /\ f \in Fds
  BY HeldIsOpen, RefersTo, SMTT(30) DEF Held
<1>2. \A u \in Workers : f \notin Open(u)
  BY DEF ConnectionsOwned, Undisturbed
<1>3. ASSUME NEW u \in Workers
      PROVE  ~Closing(u)
  <2>1. ASSUME NEW label, NEW next, NEW fds, ClosingMoves(u, label, next, fds)
        PROVE  FALSE
    BY <2>1 DEF ClosingMoves, Phases
  <2> QED BY <2>1, ClosingKeeps
<1> QED BY <1>1, <1>2, <1>3, FdSteps

\* A worker drains and exits after the shutdown only; until then it keeps its
\* listener and its eventfd.
LEMMA WorkerPhases ==
  ASSUME Numbers, TypeOK, ChunksSent, ConnectionsSound, ClaimsValid, CompletedWhileApplied, ConnectionsOwned,
         Phases, [Next]_vars, NEW w \in Workers
  PROVE  /\ pc'[w] \in {"flush", "stop", "close_listener", "close_eventfd"} \/ resume'[w] \in {"flush", "stop"} =>
              draining'[w]
         /\ pc'[w] \in {"new", "init"} => ~draining'[w]
         /\ draining'[w] \/ pc'[w] = "exited" => shutdown_requested'
         /\ Live(w)' => completion_fd'[w] \in Fds
         /\ Live(w)' /\ ~shutdown_requested' =>
              /\ listener_fd'[w] \in Fds /\ fdTable'[listener_fd'[w]] = Listener(w)
              /\ fdTable'[completion_fd'[w]] = Eventfd(w)
<1> DEFINE Drains == pc[w] \in {"flush", "stop", "close_listener", "close_eventfd"} \/ resume[w] \in {"flush", "stop"}
<1>1. /\ Drains => draining[w]
      /\ pc[w] \in {"new", "init"} => ~draining[w]
      /\ draining[w] \/ pc[w] = "exited" => shutdown_requested
      /\ Live(w) => completion_fd[w] \in Fds
      /\ Live(w) /\ ~shutdown_requested =>
           /\ listener_fd[w] \in Fds /\ fdTable[listener_fd[w]] = Listener(w)
           /\ fdTable[completion_fd[w]] = Eventfd(w)
      /\ mainPc = "boot" => pc[w] = "new"
  BY DEF Phases
<1>2. /\ pc[w] \in Inner \cup {"new", "init", "close_listener", "close_eventfd", "exited"}
      /\ resume[w] \in {"event", "drain", "flush", "stop"} /\ draining[w] \in BOOLEAN
  BY DEF TypeOK, Inner
<1>3. CASE mainPc = "boot" /\ UNCHANGED <<pc, draining>>
  <2>1. pc'[w] = "new" /\ ~draining'[w]
    BY <1>1, <1>3
  <2>2. resume'[w] = resume[w]
    <3>1. CASE Still(w)
      BY <3>1 DEF Still
    <3>2. ASSUME NEW label, NEW next, NEW d, NEW l, NEW x, WorkerMoves(w, label, next, d, l, x)
          PROVE  FALSE
      <4>1. pc[w] \in Inner \cup {"init", "close_listener", "close_eventfd"}
        BY <3>2 DEF WorkerMoves
      <4> QED BY <1>1, <1>3, <4>1 DEF Inner
    <3> QED BY <3>1, <3>2, ControlSteps
  <2>3. resume'[w] \notin {"flush", "stop"}
    BY <1>1, <1>3, <2>2
  <2>4. ~Live(w)'
    BY <2>1 DEF Live
  <2> QED BY <2>1, <2>3, <2>4
<1>4. CASE shutdown_requested => shutdown_requested'
  <2>1. CASE Still(w)
    <3>1. /\ pc'[w] = pc[w] /\ resume'[w] = resume[w] /\ draining'[w] = draining[w] /\ (Live(w)' <=> Live(w))
          /\ listener_fd'[w] = listener_fd[w] /\ completion_fd'[w] = completion_fd[w]
      BY <2>1 DEF Still, Live
    <3>2. ASSUME Live(w), ~shutdown_requested
          PROVE  listener_fd[w] \in Held(w) /\ completion_fd[w] \in Held(w)
      BY <1>1, <3>2 DEF Held
    <3>3. ASSUME Live(w), ~shutdown_requested
          PROVE  fdTable'[listener_fd[w]] = Listener(w) /\ fdTable'[completion_fd[w]] = Eventfd(w)
      BY <1>1, <3>2, <3>3, HeldStays
    <3> QED BY <1>1, <1>4, <3>1, <3>3
  <2>2. CASE pc[w] = "new" /\ pc'[w] = "init" /\ UNCHANGED <<resume, draining, listener_fd, completion_fd>>
    BY <1>1, <1>2, <2>2 DEF Live
  <2>3. ASSUME NEW label, NEW next, NEW d, NEW l, NEW x, WorkerMoves(w, label, next, d, l, x), ~WorkerInit(w)
        PROVE  /\ pc'[w] \in {"flush", "stop", "close_listener", "close_eventfd"} \/ resume'[w] \in {"flush", "stop"} =>
                    draining'[w]
               /\ pc'[w] \notin {"new", "init"}
               /\ draining'[w] \/ pc'[w] = "exited" => shutdown_requested'
               /\ Live(w)' => completion_fd'[w] \in Fds
               /\ Live(w)' /\ ~shutdown_requested' =>
                    /\ listener_fd'[w] \in Fds /\ fdTable'[listener_fd'[w]] = Listener(w)
                    /\ fdTable'[completion_fd'[w]] = Eventfd(w)
    <3>1. /\ pc'[w] = label /\ resume'[w] = next /\ draining'[w] = d /\ listener_fd'[w] = l
          /\ completion_fd'[w] = x /\ x = completion_fd[w]
      BY <2>3 DEF WorkerMoves, TypeOK
    <3>2. d = draining[w] \/ (d /\ shutdown_requested)
      BY <2>3 DEF WorkerMoves
    <3>3. label \in {"flush", "stop"} => d
      BY <1>1, <1>2, <2>3, <3>2 DEF WorkerMoves, Inner
    <3>4. label \in {"close_listener", "close_eventfd"} => d
      BY <1>1, <1>2, <2>3, <3>2 DEF WorkerMoves, Inner
    <3>5. next \in {"flush", "stop"} => d
      BY <1>1, <1>2, <2>3, <3>2 DEF WorkerMoves
    <3>6. label \notin {"new", "init"}
      BY <1>2, <2>3 DEF WorkerMoves, Inner
    <3>7. label = "exited" => shutdown_requested'
      BY <1>1, <1>2, <1>4, <2>3 DEF WorkerMoves, Inner
    <3>8. Live(w)' => Live(w)
      BY <2>3, <3>1 DEF WorkerMoves, Live, Inner
    <3>9. ASSUME Live(w), ~shutdown_requested
          PROVE  /\ l = listener_fd[w] /\ listener_fd[w] \in Fds
                 /\ fdTable'[listener_fd[w]] = Listener(w) /\ fdTable'[completion_fd[w]] = Eventfd(w)
      <4>1. listener_fd[w] \in Held(w) /\ completion_fd[w] \in Held(w)
        BY <1>1, <3>9 DEF Held
      <4>2. ASSUME Closing(w)
            PROVE  FALSE
        <5>1. PICK a, b, fds : ClosingMoves(w, a, b, fds)
          BY <4>2, ClosingKeeps
        <5> QED BY <1>1, <3>9, <5>1 DEF ClosingMoves
      <4>3. l = listener_fd[w]
        BY <2>3, <4>2 DEF WorkerMoves
      <4> QED BY <1>1, <3>9, <4>1, <4>3, HeldStays
    <3>10. pc'[w] \in {"flush", "stop", "close_listener", "close_eventfd"} \/ resume'[w] \in {"flush", "stop"} =>
             draining'[w]
      BY <3>1, <3>3, <3>4, <3>5
    <3>11. draining'[w] \/ pc'[w] = "exited" => shutdown_requested'
      BY <1>1, <1>4, <3>1, <3>2, <3>7
    <3>12. Live(w)' => completion_fd'[w] \in Fds
      BY <1>1, <3>1, <3>8
    <3>13. ASSUME Live(w)', ~shutdown_requested'
           PROVE  /\ listener_fd'[w] \in Fds /\ fdTable'[listener_fd'[w]] = Listener(w)
                  /\ fdTable'[completion_fd'[w]] = Eventfd(w)
      <4>1. Live(w) /\ ~shutdown_requested
        BY <1>4, <3>8, <3>13
      <4> QED BY <4>1, <3>1, <3>9
    <3> QED BY <3>1, <3>6, <3>10, <3>11, <3>12, <3>13
  <2>4. CASE WorkerInit(w)
    <3>1. PICK l, e \in Fds : InitWith(w, l, e)
      BY <2>4, InitTakesFree
    <3>2. TypeOK /\ w \in Workers /\ l \in Fds /\ e \in Fds
      BY <3>1, Zenon
    <3>3. listener_fd'[w] = l /\ completion_fd'[w] = e /\ fdTable'[l] = Listener(w) /\ fdTable'[e] = Eventfd(w)
      <4>1. listener_fd'[w] = l /\ completion_fd'[w] = e
        BY <3>1, <3>2, Zenon DEF InitWith, TypeOK
      <4>2. fdTable'[l] = Listener(w) /\ fdTable'[e] = Eventfd(w)
        BY <3>1, <3>2, Zenon DEF InitWith, TypeOK
      <4> QED BY <4>1, <4>2, Zenon
    <3>4. pc[w] = "init" /\ pc'[w] = "wait" /\ UNCHANGED <<draining, resume>>
      BY <2>4 DEF WorkerInit, Goto, TypeOK
    <3> QED BY <1>1, <1>2, <3>3, <3>4
  <2>5. SpawnWorker(w) => pc[w] = "new"
    BY DEF SpawnWorker
  <2> QED BY <2>1, <2>2, <2>3, <2>4, <2>5, ControlSteps
<1> QED BY <1>3, <1>4, MainSteps

\* Nothing is left in the pool once start() has returned, nor before it runs.
LEMMA PoolPhases ==
  ASSUME Numbers, TypeOK, CompletedWhileApplied, Phases, [Next]_vars, mainPc' \in {"boot", "returned"}
  PROVE  poolQueue' = <<>> /\ \A p \in PoolThreads : poolThread'[p] = NoJob
<1>1. CASE mainPc \in {"boot", "returned"}
  <2>1. /\ poolQueue = <<>> /\ \A p \in PoolThreads : poolThread[p] = NoJob
        /\ \A w \in Workers : pc[w] \in {"new", "exited"}
    BY <1>1 DEF Phases
  <2>2. CASE UNCHANGED <<poolQueue, poolThread>>
    BY <2>1, <2>2
  <2>3. ASSUME NEW p \in PoolThreads, PoolNext(p)
        PROVE  FALSE
    BY <2>1, <2>3 DEF PoolNext, PoolPop, PoolRespond, PoolNotify
  <2>4. ASSUME NEW w \in Workers,
               (\E e \in batch[w] : SocketEvent(w, e)) \/ SwapCompletions(w) \/ ProcessCompletion(w)
        PROVE  FALSE
    BY <2>1, <2>4 DEF SocketEvent, TakeEvent, SwapCompletions, ProcessCompletion
  <2>5. CASE UNCHANGED vars
    BY <2>2, <2>5 DEF vars, poolVars
  <2>6. CASE UNCHANGED taskVars
    BY <2>2, <2>6 DEF taskVars
  <2> QED BY <2>3, <2>4, <2>5, <2>6, TaskSteps
<1>2. CASE mainPc \notin {"boot", "returned"}
  <2>1. JoinPool /\ UNCHANGED <<poolQueue, poolThread>>
    BY <1>2, MainSteps
  <2> QED BY <2>1 DEF JoinPool
<1> QED BY <1>1, <1>2

\* Every thread is where it may be.
LEMMA PhasesStep ==
  ASSUME Numbers, TypeOK, ChunksSent, ConnectionsSound, ClaimsValid, CompletedWhileApplied, ConnectionsOwned,
         Phases, [Next]_vars
  PROVE  Phases'
<1>1. ASSUME NEW w \in Workers
      PROVE  /\ mainPc' = "boot" => pc'[w] = "new"
             /\ mainPc' \in {"join_pool", "returned"} => pc'[w] \in {"new", "exited"}
  <2>1. /\ mainPc = "boot" => pc[w] = "new"
        /\ mainPc \in {"join_pool", "returned"} => pc[w] \in {"new", "exited"}
    BY DEF Phases
  <2>2. JoinWorkers => pc[w] \in {"new", "exited"}
    BY DEF JoinWorkers
  <2>3. JoinPool => mainPc = "join_pool"
    BY DEF JoinPool
  <2>4. CASE UNCHANGED mainPc /\ mainPc \in {"boot", "join_pool", "returned"}
    <3>1. ~SpawnWorker(w)
      BY <2>4 DEF SpawnWorker
    <3>2. \A label, next, d, l, x : ~WorkerMoves(w, label, next, d, l, x)
      <4>1. ASSUME NEW label, NEW next, NEW d, NEW l, NEW x, WorkerMoves(w, label, next, d, l, x)
            PROVE  pc[w] = "init" \/ pc[w] \in Inner \/ pc[w] = "close_listener" \/ pc[w] = "close_eventfd"
        <5>1. /\ WorkerInit(w) => pc[w] = "init"
              /\ \/ WorkerInit(w) \/ pc[w] = "init" \/ pc[w] \in Inner
                 \/ pc[w] = "close_listener" \/ pc[w] = "close_eventfd"
          BY <4>1, PTL DEF WorkerMoves
        <5> QED BY <5>1, Zenon
      <4>2. pc[w] \in {"new", "exited"}
        BY <2>1, <2>4, Zenon
      <4>3. pc[w] # "init" /\ pc[w] \notin Inner /\ pc[w] # "close_listener" /\ pc[w] # "close_eventfd"
        BY <4>2, Zenon DEF Inner
      <4> QED BY <4>1, <4>3, Zenon
    <3>3. Still(w)
      BY <3>1, <3>2, ControlSteps
    <3> QED BY <2>1, <2>4, <3>3 DEF Still
  <2>5. CASE UNCHANGED pc /\ mainPc \in {"boot", "join_pool"} /\ mainPc' # "boot"
    BY <2>1, <2>5
  <2>6. CASE JoinWorkers /\ mainPc' = "join_pool" /\ UNCHANGED pc
    BY <2>2, <2>6
  <2>7. CASE mainPc' \notin {"boot", "join_pool", "returned"}
    BY <2>7
  <2> QED BY <2>3, <2>4, <2>5, <2>6, <2>7, MainSteps
<1>2. mainPc' \in {"boot", "returned"} => poolQueue' = <<>> /\ \A p \in PoolThreads : poolThread'[p] = NoJob
  BY PoolPhases
<1>3. ASSUME NEW w \in Workers
      PROVE  /\ pc'[w] \in {"flush", "stop", "close_listener", "close_eventfd"} \/ resume'[w] \in {"flush", "stop"} =>
                  draining'[w]
             /\ pc'[w] \in {"new", "init"} => ~draining'[w]
             /\ draining'[w] \/ pc'[w] = "exited" => shutdown_requested'
             /\ Live(w)' => completion_fd'[w] \in Fds
             /\ Live(w)' /\ ~shutdown_requested' =>
                  /\ listener_fd'[w] \in Fds /\ fdTable'[listener_fd'[w]] = Listener(w)
                  /\ fdTable'[completion_fd'[w]] = Eventfd(w)
  BY WorkerPhases
<1> QED BY <1>1, <1>2, <1>3 DEF Phases

-----------------------------------------------------------------------------
(* No notification is lost.                                                *)

\* Which steps touch the notifications and what they announce.
LEMMA NoticeSteps ==
  ASSUME TypeOK, CompletedWhileApplied, [Next]_vars
  PROVE  \/ UNCHANGED <<completions, eventfd, poolThread>>
         \/ \E w \in Workers : Notifying(w) \/ SwapCompletions(w)
         \/ \E p \in PoolThreads : PoolNext(p)
<1>1. CASE MainNext
  BY <1>1 DEF MainNext, Start, StartFails, SpawnWorker, SpawnThrows, JoinWorkers, JoinPool, MainStep, loopVars
<1>2. CASE Signal
  BY <1>2 DEF Signal, loopVars, poolVars
<1>3. ASSUME NEW w \in Workers, WorkerNext(w)
      PROVE  UNCHANGED <<completions, eventfd, poolThread>> \/ Notifying(w) \/ SwapCompletions(w)
  <2>1. CASE Turn(w)
    BY <2>1, TurnKeeps
  <2>2. CASE Closing(w)
    BY <2>2, ClosingKeeps
  <2>3. CASE WorkerInit(w)
    BY <2>3 DEF WorkerInit, poolVars
  <2>4. ASSUME NEW c \in Clients, Accept(w, c) \/ AcceptDrops(w, c)
        PROVE  UNCHANGED <<completions, eventfd, poolThread>>
    BY <2>4 DEF Accept, AcceptDrops, LoopStep, KeepTasks
  <2>5. ASSUME NEW e \in batch[w], SocketEvent(w, e)
        PROVE  UNCHANGED <<completions, eventfd, poolThread>>
    BY <2>5 DEF SocketEvent, LoopStep
  <2>6. CASE ProcessCompletion(w)
    BY <2>6 DEF ProcessCompletion, LoopStep
  <2>7. ASSUME NEW f \in Fds, SweepConnection(w, f)
        PROVE  UNCHANGED <<completions, eventfd, poolThread>>
    BY <2>7 DEF SweepConnection, LoopStep, KeepTasks
  <2>8. \/ Turn(w) \/ Closing(w) \/ Notifying(w) \/ WorkerInit(w)
        \/ \E c \in Clients : Accept(w, c) \/ AcceptDrops(w, c)
        \/ SwapCompletions(w) \/ ProcessCompletion(w)
        \/ \E e \in batch[w] : SocketEvent(w, e)
        \/ \E f \in Fds : SweepConnection(w, f)
    BY <1>3 DEF WorkerNext, Turn, Closing, Notifying
  <2> QED BY <2>1, <2>2, <2>3, <2>4, <2>5, <2>6, <2>7, <2>8
<1>4. CASE \E c \in Clients : PeerNext(c)
  BY <1>4 DEF PeerNext, PeerConnects, PeerSends, PeerReads, PeerHalfCloses, PeerResets, Peer, loopVars, poolVars
<1>5. CASE UNCHANGED vars
  BY <1>5 DEF vars, loopVars, poolVars
<1> QED BY <1>1, <1>2, <1>3, <1>4, <1>5 DEF Next

\* A pool thread is about to write to the eventfd of worker w.
Announced(w) ==
  \E p \in PoolThreads : poolThread[p] # NoJob /\ poolThread[p].phase = "notify" /\ poolThread[p].job.worker = w

\* What a pool thread does for worker w: a completion it adds is announced,
\* and it withdraws an announcement when it has written to the eventfd.
LEMMA PoolNotices ==
  ASSUME TypeOK, NEW p \in PoolThreads, PoolNext(p), NEW w \in Workers
  PROVE  /\ completions'[w] = completions[w] \/ Announced(w)'
         /\ Announced(w) /\ WakesLoop(w) => Announced(w)' \/ eventfd'[w]
         /\ eventfd[w] => eventfd'[w]
<1>1. /\ completions \in [Workers -> Seq(Completions)] /\ eventfd \in [Workers -> BOOLEAN]
      /\ poolThread \in [PoolThreads -> {NoJob} \cup [phase : {"route", "notify"}, job : Jobs]]
  BY DEF TypeOK
<1>2. ASSUME poolThread[p] # NoJob
      PROVE  /\ poolThread[p] \in [phase : {"route", "notify"}, job : Jobs]
             /\ poolThread[p].job \in Jobs /\ poolThread[p].job.worker \in Workers
  BY <1>1, <1>2 DEF Jobs
<1>3. ASSUME NEW q \in PoolThreads, q # p, poolThread[q] # NoJob, poolThread[q].phase = "notify",
             poolThread[q].job.worker = w, poolThread'[q] = poolThread[q]
      PROVE  Announced(w)'
  BY <1>3 DEF Announced
<1>4. CASE PoolPop(p)
  <2>1. /\ poolThread[p] = NoJob /\ UNCHANGED <<eventfd, completions>>
        /\ \A q \in PoolThreads : q # p => poolThread'[q] = poolThread[q]
    BY <1>1, <1>4 DEF PoolPop
  <2>2. Announced(w) => Announced(w)'
    BY <1>3, <2>1 DEF Announced
  <2> QED BY <2>1, <2>2
<1>5. CASE PoolRespond(p)
  <2>1. poolThread[p] # NoJob /\ poolThread[p].phase = "route" /\ UNCHANGED eventfd
    BY <1>5 DEF PoolRespond
  <2>2. PICK v \in Workers : v = poolThread[p].job.worker
    BY <1>2, <2>1
  <2>3. \E k : completions' = [completions EXCEPT ![v] = Append(@, k)]
    BY <1>5, <2>2 DEF PoolRespond
  <2>4. v # w => completions'[w] = completions[w]
    BY <1>1, <2>3
  <2>5. poolThread' = [poolThread EXCEPT ![p] = [poolThread[p] EXCEPT !.phase = "notify"]]
    BY <1>1, <1>5 DEF PoolRespond
  <2>6. PICK r : r = [poolThread[p] EXCEPT !.phase = "notify"]
    OBVIOUS
  <2>7. r \in [phase : {"route", "notify"}, job : Jobs] /\ r.phase = "notify" /\ r.job = poolThread[p].job
    BY <1>2, <2>1, <2>6
  <2>8. r # NoJob
    BY <2>7, NullsAssumption
  <2>9. poolThread'[p] = r /\ \A q \in PoolThreads : q # p => poolThread'[q] = poolThread[q]
    BY <1>1, <2>5, <2>6
  <2>10. v = w => Announced(w)'
    BY <2>2, <2>7, <2>8, <2>9 DEF Announced
  <2>11. Announced(w) => Announced(w)'
    BY <1>3, <2>1, <2>9 DEF Announced
  <2> QED BY <2>1, <2>4, <2>10, <2>11
<1>6. CASE PoolNotify(p)
  <2>1. poolThread[p] # NoJob /\ UNCHANGED completions /\ poolThread' = [poolThread EXCEPT ![p] = NoJob]
    BY <1>6 DEF PoolNotify
  <2>2. PICK v \in Workers : v = poolThread[p].job.worker
    BY <1>2, <2>1
  <2>3. eventfd' = [eventfd EXCEPT ![v] = eventfd[v] \/ WakesLoop(v)]
    BY <1>6, <2>2 DEF PoolNotify
  <2>4. \A q \in PoolThreads : q # p => poolThread'[q] = poolThread[q]
    BY <1>1, <2>1
  <2>5. CASE v = w
    <3>1. eventfd'[w] = (eventfd[w] \/ WakesLoop(w))
      BY <1>1, <2>3, <2>5
    <3> QED BY <2>1, <3>1
  <2>6. CASE v # w
    <3>1. eventfd'[w] = eventfd[w]
      BY <1>1, <2>3, <2>6
    <3>2. Announced(w) => Announced(w)'
      BY <1>3, <2>2, <2>4, <2>6 DEF Announced
    <3> QED BY <2>1, <3>1, <3>2
  <2> QED BY <2>5, <2>6
<1> QED BY <1>4, <1>5, <1>6 DEF PoolNext
=============================================================================
