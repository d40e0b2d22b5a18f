--------------------------- MODULE TcpServerProofs ---------------------------
(***************************************************************************)
(* The safety invariants of TcpServer for every number of workers,         *)
(* clients, pool threads and descriptors.                                  *)
(***************************************************************************)
EXTENDS TcpServerStepsProofs

\* A leaf is for Zenon unless it names SMT.
USE Zenon

-----------------------------------------------------------------------------
(* What the lemmas use of finite sets.  They assume it, and it is proved at  *)
(* the end, from FiniteSetTheorems.                                        *)

FiniteSubsets ==
  \A S : IsFiniteSet(S) => \A T \in SUBSET S : IsFiniteSet(T) /\ Cardinality(T) <= Cardinality(S)
CardinalityIsNat == \A S : IsFiniteSet(S) => Cardinality(S) \in Nat
EmptyCounts ==
  /\ IsFiniteSet({}) /\ Cardinality({}) = 0
  /\ \A S : IsFiniteSet(S) => ((Cardinality(S) = 0) <=> (S = {}))
ElementAdded ==
  \A S, x : IsFiniteSet(S) =>
    /\ IsFiniteSet(S \cup {x})
    /\ Cardinality(S \cup {x}) = IF x \in S THEN Cardinality(S) ELSE Cardinality(S) + 1
ElementRemoved ==
  \A S, x : IsFiniteSet(S) =>
    /\ IsFiniteSet(S \ {x})
    /\ Cardinality(S \ {x}) = IF x \in S THEN Cardinality(S) - 1 ELSE Cardinality(S)
IntervalIsFinite == \A a, b \in Nat : IsFiniteSet(a..b)
ProductIsFinite == \A S, T : IsFiniteSet(S) /\ IsFiniteSet(T) => IsFiniteSet(S \X T)

\* f pairs the elements of S with those of T.
Matches(f, S, T) ==
  /\ f \in [S -> T] /\ \A x, y \in S : f[x] = f[y] => x = y
  /\ \A y \in T : \E x \in S : f[x] = y
BijectionCounts ==
  \A f, S, T : IsFiniteSet(S) /\ Matches(f, S, T) => IsFiniteSet(T) /\ Cardinality(T) = Cardinality(S)

FiniteSetFacts ==
  /\ FiniteSubsets /\ CardinalityIsNat /\ EmptyCounts /\ ElementAdded /\ ElementRemoved
  /\ IntervalIsFinite /\ ProductIsFinite /\ BijectionCounts

-----------------------------------------------------------------------------
(* The gauge of open connections.                                          *)

Managed == {x \in Workers \X Fds : connections[x[1]][x[2]] # NoConn}

\* There are finitely many.
LEMMA ManagedFinite ==
  ASSUME FiniteSetFacts
  PROVE  IsFiniteSet(Managed) /\ IsFiniteSet(Managed)'
<1>1. IsFiniteSet(Fds)
  BY SizesAssumption, SMT DEF FiniteSetFacts, IntervalIsFinite, Fds
<1>2. IsFiniteSet(Workers \X Fds)
  BY <1>1, ThreadsAssumption DEF FiniteSetFacts, ProductIsFinite
<1>3. IsFiniteSet(Managed)
  BY <1>2 DEF FiniteSetFacts, FiniteSubsets, Managed
<1>4. IsFiniteSet(Managed')
  BY <1>2 DEF FiniteSetFacts, FiniteSubsets, Managed
<1> QED BY <1>3, <1>4

\* A handler that closes its connection takes it off the gauge.
LEMMA StoreGauge ==
  ASSUME FiniteSetFacts, TypeOK, ChunksSent, ConnectionsSound, GaugeIsExact,
         NEW w \in Workers, NEW f, NEW g, StoreStep(w, f, g)
  PROVE  open_connections' \in Nat /\ GaugeIsExact'
<1>1. f \in Open(w) /\ f \in Fds /\ Reached(g, View(w, f)) /\ Store(w, f, g) /\ connections[w][f] # NoConn
  BY DEF StoreStep, Open
<1>2. /\ connections'[w][f] = g.conn
      /\ \A v \in Workers : \A h \in Fds : v # w \/ h # f => connections'[v][h] = connections[v][h]
      /\ g.conn = NoConn => open_connections' = open_connections - 1
      /\ g.conn # NoConn => open_connections' = open_connections
  BY <1>1, StoreEffect, SMT
<1>3. <<w, f>> \in Managed
  BY <1>1 DEF Managed
<1>4. /\ open_connections = Cardinality(Managed) /\ open_connections \in Nat
      /\ GaugeIsExact' <=> open_connections' = Cardinality(Managed')
  BY DEF GaugeIsExact, Managed, TypeOK
<1>5. CASE g.conn = NoConn
  <2>1. \A x \in Workers \X Fds : x # <<w, f>> => connections'[x[1]][x[2]] = connections[x[1]][x[2]]
    BY <1>2, SMT
  <2>2. Managed' = Managed \ {<<w, f>>}
    BY <1>2, <1>5, <2>1, SMT DEF Managed
  <2>3. Cardinality(Managed') = Cardinality(Managed) - 1 /\ Cardinality(Managed') \in Nat
    BY <1>3, <2>2, ManagedFinite DEF FiniteSetFacts, CardinalityIsNat, ElementRemoved
  <2> QED BY <1>2, <1>4, <1>5, <2>3
<1>6. CASE g.conn # NoConn
  <2>1. \A x \in Workers \X Fds : connections'[x[1]][x[2]] # NoConn <=> connections[x[1]][x[2]] # NoConn
    BY <1>1, <1>2, <1>6
  <2>2. Managed' = Managed
    BY <2>1 DEF Managed
  <2> QED BY <1>2, <1>4, <1>6, <2>2
<1> QED BY <1>5, <1>6

\* An accepted connection is counted.
LEMMA AcceptGauge ==
  ASSUME FiniteSetFacts, Numbers, TypeOK, ConnectionsOwned, GaugeIsExact, NEW w \in Workers, NEW c \in Clients, Accept(w, c)
  PROVE  open_connections' \in Nat /\ GaugeIsExact'
<1>1. PICK f \in Fds :
        /\ connections[w][f] = NoConn
        /\ connections' = [connections EXCEPT ![w][f] = NewConnection(c, next_generation[w])]
  BY AcceptTakesFree
<1>2. PICK n : n = NewConnection(c, next_generation[w])
  OBVIOUS
<1>9. n \in Connections /\ connections \in [Workers -> [Fds -> {NoConn} \cup Connections]]
  BY <1>2 DEF TypeOK, NewConnection, Connections
<1>3. /\ connections'[w][f] # NoConn
      /\ \A v \in Workers : \A h \in Fds : v # w \/ h # f => connections'[v][h] = connections[v][h]
  BY <1>1, <1>2, <1>9, ConnectionIsThere
<1>4. \A x \in Workers \X Fds : x # <<w, f>> => connections'[x[1]][x[2]] = connections[x[1]][x[2]]
  BY <1>3, SMT
<1>5. Managed' = Managed \cup {<<w, f>>} /\ <<w, f>> \notin Managed
  BY <1>1, <1>3, <1>4, SMT DEF Managed
<1>6. Cardinality(Managed') = Cardinality(Managed) + 1
  BY <1>5, ManagedFinite DEF FiniteSetFacts, ElementAdded
<1>7. open_connections' = open_connections + 1
  BY DEF Accept
<1> QED BY <1>6, <1>7, SMTT(30) DEF GaugeIsExact, Managed, TypeOK

-----------------------------------------------------------------------------
(* The requests of a worker that the pool holds.                           *)

\* They are finitely many.
LEMMA PlacesFinite ==
  ASSUME FiniteSetFacts, NEW q \in Seq(Jobs), NEW w
  PROVE  IsFiniteSet(Places(q, w)) /\ Cardinality(Places(q, w)) \in Nat
<1>1. IsFiniteSet(1..Len(q))
  BY SMT DEF FiniteSetFacts, IntervalIsFinite
<1>2. Places(q, w) \subseteq 1..Len(q)
  BY SMT DEF Places
<1> QED BY <1>1, <1>2 DEF FiniteSetFacts, FiniteSubsets, CardinalityIsNat

\* One more request at the end of the queue.
LEMMA PlacesAfterAppend ==
  ASSUME FiniteSetFacts, NEW q \in Seq(Jobs), NEW j \in Jobs, NEW w
  PROVE  Cardinality(Places(Append(q, j), w)) = Cardinality(Places(q, w)) + (IF j.worker = w THEN 1 ELSE 0)
<1>1. PICK n \in Nat : n = Len(q)
  BY SMT
<1>2. /\ DOMAIN Append(q, j) = 1..(n + 1) /\ DOMAIN q = 1..n
      /\ Append(q, j)[n + 1] = j /\ \A i \in 1..n : Append(q, j)[i] = q[i]
  BY <1>1, SMT
<1>3. CASE j.worker = w
  <2>1. Places(Append(q, j), w) = Places(q, w) \cup {n + 1} /\ n + 1 \notin Places(q, w)
    BY <1>2, <1>3, SMT DEF Places
  <2>2. Cardinality(Places(q, w) \cup {n + 1}) = Cardinality(Places(q, w)) + 1
    BY <2>1, PlacesFinite DEF FiniteSetFacts, ElementAdded
  <2> QED BY <1>3, <2>1, <2>2
<1>4. CASE j.worker # w
  <2>1. Places(Append(q, j), w) = Places(q, w)
    BY <1>2, <1>4, SMT DEF Places
  <2> QED BY <1>4, <2>1, PlacesFinite, SMT
<1> QED BY <1>3, <1>4

\* One request less at its head.
LEMMA PlacesAfterTail ==
  ASSUME FiniteSetFacts, NEW q \in Seq(Jobs), q # <<>>, NEW w
  PROVE  Cardinality(Places(q, w)) = Cardinality(Places(Tail(q), w)) + (IF Head(q).worker = w THEN 1 ELSE 0)
<1>1. PICK n \in Nat : n = Len(Tail(q))
  BY SMT
<1>2. /\ DOMAIN q = 1..(n + 1) /\ DOMAIN Tail(q) = 1..n /\ Tail(q) \in Seq(Jobs)
      /\ Head(q) = q[1] /\ \A i \in 1..n : Tail(q)[i] = q[i + 1]
  BY <1>1, SMT
<1> DEFINE later == {i \in Places(q, w) : i # 1}
           shift == [i \in Places(Tail(q), w) |-> i + 1]
<1>3. Matches(shift, Places(Tail(q), w), later)
  <2>1. \A i \in Places(Tail(q), w) : i \in 1..n /\ i + 1 \in later
    BY <1>2, SMT DEF Places
  <2>2. shift \in [Places(Tail(q), w) -> later]
    BY <2>1
  <2>3. \A i, j \in Places(Tail(q), w) : shift[i] = shift[j] => i = j
    BY <2>1, SMT
  <2>4. ASSUME NEW k \in later
        PROVE  \E i \in Places(Tail(q), w) : shift[i] = k
    <3>1. k \in 2..(n + 1) /\ q[k].worker = w
      BY <1>2, SMT DEF Places
    <3>2. k - 1 \in 1..n /\ Tail(q)[k - 1] = q[k]
      BY <1>2, <3>1, SMT
    <3>3. k - 1 \in Places(Tail(q), w)
      BY <1>2, <3>1, <3>2 DEF Places
    <3> QED BY <3>1, <3>3, SMT
  <2> QED BY <2>2, <2>3, <2>4 DEF Matches
<1>4. IsFiniteSet(Places(Tail(q), w)) /\ Cardinality(Places(Tail(q), w)) \in Nat
  BY <1>2, PlacesFinite
<1>5. IsFiniteSet(later) /\ Cardinality(later) = Cardinality(Places(Tail(q), w))
  <2> HIDE DEF later, shift
  <2> QED BY <1>3, <1>4 DEF FiniteSetFacts, BijectionCounts
<1>6. CASE Head(q).worker = w
  <2>1. Places(q, w) = later \cup {1} /\ 1 \notin later
    BY <1>2, <1>6, SMT DEF Places
  <2>2. Cardinality(Places(q, w)) = Cardinality(later) + 1
    BY <1>5, <2>1 DEF FiniteSetFacts, ElementAdded
  <2> QED BY <1>5, <1>6, <2>2
<1>7. CASE Head(q).worker # w
  <2>1. Places(q, w) = later
    BY <1>2, <1>7 DEF Places
  <2> HIDE DEF later
  <2> QED BY <1>4, <1>5, <1>7, <2>1, SMT
<1> QED BY <1>6, <1>7

\* The pool threads that route a request of worker w.
LEMMA RoutingFinite ==
  ASSUME FiniteSetFacts
  PROVE  \A w : IsFiniteSet(Routing(w)) /\ Cardinality(Routing(w)) \in Nat
<1> SUFFICES ASSUME NEW w PROVE IsFiniteSet(Routing(w)) /\ Cardinality(Routing(w)) \in Nat
  OBVIOUS
<1>1. Routing(w) \subseteq PoolThreads
  BY DEF Routing
<1> QED BY <1>1, ThreadsAssumption DEF FiniteSetFacts, FiniteSubsets, CardinalityIsNat

Outstanding(w) ==
  Cardinality(Places(poolQueue, w)) + Cardinality(Routing(w)) + Len(completions[w]) + Len(completed[w])

\* What is outstanding of worker w is a sum of four parts.
LEMMA OutstandingParts ==
  ASSUME FiniteSetFacts, TypeOK
  PROVE  /\ OutstandingIsExact <=> \A w \in Workers : outstanding_tasks[w] = Outstanding(w)
         /\ OutstandingIsExact' <=> \A w \in Workers : outstanding_tasks'[w] = Outstanding(w)'
         /\ \A w \in Workers : /\ Cardinality(Places(poolQueue, w)) \in Nat /\ Cardinality(Routing(w)) \in Nat
                               /\ Len(completions[w]) \in Nat /\ Len(completed[w]) \in Nat
<1>1. OutstandingIsExact <=> \A w \in Workers : outstanding_tasks[w] = Outstanding(w)
  BY DEF OutstandingIsExact, Outstanding, Places, Unanswered
<1>2. OutstandingIsExact' <=> \A w \in Workers : outstanding_tasks'[w] = Outstanding(w)'
  BY DEF OutstandingIsExact, Outstanding, Places, Unanswered
<1>3. poolQueue \in Seq(Jobs) /\ completions \in [Workers -> Seq(Completions)] /\ completed \in [Workers -> Seq(Completions)]
  BY DEF TypeOK
<1> QED BY <1>1, <1>2, <1>3, PlacesFinite, RoutingFinite, SMT

\* A pool thread takes, answers or drops a request; its worker's count holds.
LEMMA PoolTasks ==
  ASSUME FiniteSetFacts, TypeOK, OutstandingIsExact, NEW p \in PoolThreads, PoolNext(p)
  PROVE  OutstandingIsExact' /\ outstanding_tasks' = outstanding_tasks /\ UNCHANGED completed
<1>1. /\ poolQueue \in Seq(Jobs) /\ completions \in [Workers -> Seq(Completions)]
      /\ poolThread \in [PoolThreads -> {NoJob} \cup [phase : {"route", "notify"}, job : Jobs]]
  BY DEF TypeOK
<1>2. \A j \in [phase : {"route", "notify"}, job : Jobs] : j # NoJob
  BY NullsAssumption
<1>3. \A w \in Workers :
        /\ Cardinality(Places(poolQueue, w)) \in Nat /\ Cardinality(Routing(w)) \in Nat /\ IsFiniteSet(Routing(w))
        /\ Len(completions[w]) \in Nat /\ Len(completed[w]) \in Nat /\ outstanding_tasks[w] = Outstanding(w)
  BY OutstandingParts, RoutingFinite
<1>4. outstanding_tasks' = outstanding_tasks /\ UNCHANGED completed
  BY DEF PoolNext, PoolPop, PoolRespond, PoolNotify, PoolStep
<1>5. ASSUME \A w \in Workers : Outstanding(w)' = Outstanding(w)
      PROVE  OutstandingIsExact'
  BY <1>3, <1>4, <1>5, OutstandingParts
<1>6. CASE PoolPop(p)
  <2>1. PICK j \in Jobs : j = Head(poolQueue)
    BY <1>1, <1>6, SMT DEF PoolPop
  <2>2. /\ poolThread[p] = NoJob /\ poolQueue # <<>> /\ poolQueue' = Tail(poolQueue)
        /\ poolThread' = [poolThread EXCEPT ![p] = [phase |-> "route", job |-> j]]
        /\ completions' = completions
    BY <1>6, <2>1 DEF PoolPop
  <2>3. poolThread'[p] = [phase |-> "route", job |-> j] /\ poolThread'[p] # NoJob
    BY <1>1, <1>2, <2>2
  <2>4. ASSUME NEW w \in Workers
        PROVE  Outstanding(w)' = Outstanding(w)
    <3>1. Cardinality(Places(poolQueue, w))
            = Cardinality(Places(poolQueue', w)) + (IF j.worker = w THEN 1 ELSE 0)
      BY <1>1, <2>1, <2>2, PlacesAfterTail
    <3>2. Cardinality(Places(poolQueue', w)) \in Nat
      <4>1. Tail(poolQueue) \in Seq(Jobs)
        BY <1>1, <2>2, SMT
      <4> QED BY <2>2, <4>1, PlacesFinite
    <3>3. CASE j.worker = w
      <4>1. Routing(w)' = Routing(w) \cup {p} /\ p \notin Routing(w)
        BY <1>1, <2>2, <2>3, <3>3 DEF Routing
      <4>2. Cardinality(Routing(w)') = Cardinality(Routing(w)) + 1
        BY <1>3, <4>1 DEF FiniteSetFacts, ElementAdded
      <4> QED BY <1>3, <1>4, <2>2, <3>1, <3>2, <3>3, <4>2, SMT DEF Outstanding
    <3>4. CASE j.worker # w
      <4>1. Routing(w)' = Routing(w)
        BY <1>1, <2>2, <2>3, <3>4 DEF Routing
      <4> QED BY <1>3, <1>4, <2>2, <3>1, <3>2, <3>4, <4>1, SMT DEF Outstanding
    <3> QED BY <3>3, <3>4
  <2> QED BY <1>4, <1>5, <2>4
<1>7. CASE PoolRespond(p)
  <2>1. PICK j \in Jobs : j = poolThread[p].job
    BY <1>1, <1>7 DEF PoolRespond
  <2>2. PICK k : completions' = [completions EXCEPT ![j.worker] = Append(@, k)]
    BY <1>7, <2>1 DEF PoolRespond
  <2>3. /\ poolThread[p] # NoJob /\ poolThread[p].phase = "route" /\ poolQueue' = poolQueue
        /\ poolThread' = [poolThread EXCEPT ![p].phase = "notify"]
    BY <1>7 DEF PoolRespond
  <2>4. poolThread'[p].phase = "notify"
    BY <1>1, <2>3
  <2>5. ASSUME NEW w \in Workers
        PROVE  Outstanding(w)' = Outstanding(w)
    <3>1. CASE j.worker = w
      <4>1. Routing(w)' = Routing(w) \ {p} /\ p \in Routing(w)
        BY <1>1, <2>1, <2>3, <2>4, <3>1 DEF Routing
      <4>2. Cardinality(Routing(w)') = Cardinality(Routing(w)) - 1 /\ Cardinality(Routing(w)') \in Nat
        BY <1>3, <4>1 DEF FiniteSetFacts, CardinalityIsNat, ElementRemoved
      <4>3. Len(completions'[w]) = Len(completions[w]) + 1
        BY <1>1, <2>2, <3>1, SMT
      <4> QED BY <1>3, <1>4, <2>3, <4>2, <4>3, SMT DEF Outstanding
    <3>2. CASE j.worker # w
      <4>1. Routing(w)' = Routing(w)
        BY <1>1, <2>1, <2>3, <2>4, <3>2 DEF Routing
      <4>2. completions'[w] = completions[w]
        BY <1>1, <2>2, <3>2
      <4> QED BY <1>4, <2>3, <4>1, <4>2 DEF Outstanding
    <3> QED BY <3>1, <3>2
  <2> QED BY <1>4, <1>5, <2>5
<1>8. CASE PoolNotify(p)
  <2>1. /\ poolThread[p].phase = "notify" /\ poolQueue' = poolQueue /\ completions' = completions
        /\ poolThread' = [poolThread EXCEPT ![p] = NoJob]
    BY <1>8 DEF PoolNotify
  <2>2. \A w \in Workers : Routing(w)' = Routing(w)
    BY <1>1, <2>1 DEF Routing
  <2>3. \A w \in Workers : Outstanding(w)' = Outstanding(w)
    BY <1>4, <2>1, <2>2 DEF Outstanding
  <2> QED BY <1>4, <1>5, <2>3
<1> QED BY <1>6, <1>7, <1>8 DEF PoolNext

\* The request that is submitted is counted with it.
LEMMA SocketEventTasks ==
  ASSUME FiniteSetFacts, TypeOK, ConnectionsSound, OutstandingIsExact,
         NEW w \in Workers, NEW e \in batch[w], SocketEvent(w, e)
  PROVE  /\ OutstandingIsExact' /\ outstanding_tasks' \in [Workers -> Nat]
         /\ poolQueue' \in Seq(Jobs) /\ Len(poolQueue') <= QueueCapacity
         /\ UNCHANGED <<poolThread, completions, completed>>
<1>1. UNCHANGED <<poolThread, completions, completed>>
  BY DEF SocketEvent, LoopStep
<1>2. /\ poolQueue \in Seq(Jobs) /\ Len(poolQueue) <= QueueCapacity /\ outstanding_tasks \in [Workers -> Nat]
      /\ QueueCapacity \in Nat
  BY SizesAssumption DEF TypeOK
<1>3. \A v \in Workers :
        /\ Cardinality(Places(poolQueue, v)) \in Nat /\ Cardinality(Routing(v)) \in Nat
        /\ Len(completions[v]) \in Nat /\ Len(completed[v]) \in Nat /\ outstanding_tasks[v] = Outstanding(v)
  BY OutstandingParts
<1>4. \A v \in Workers : Routing(v)' = Routing(v)
  BY <1>1 DEF Routing
<1>5. PICK g : /\ StoreStep(w, e.fd, g)
               /\ \/ UNCHANGED <<poolQueue, outstanding_tasks>>
                  \/ /\ Accepts
                     /\ poolQueue' = Append(poolQueue, Request(w, e.fd))
                     /\ outstanding_tasks' = [outstanding_tasks EXCEPT ![w] = @ + 1]
  BY SocketEventStores
<1>6. CASE UNCHANGED <<poolQueue, outstanding_tasks>>
  <2>1. \A v \in Workers : Outstanding(v)' = Outstanding(v)
    BY <1>1, <1>4, <1>6 DEF Outstanding
  <2> QED BY <1>1, <1>2, <1>3, <1>6, <2>1, OutstandingParts
<1>7. CASE /\ Accepts
           /\ poolQueue' = Append(poolQueue, Request(w, e.fd))
           /\ outstanding_tasks' = [outstanding_tasks EXCEPT ![w] = @ + 1]
  <2>1. PICK j : j = Request(w, e.fd)
    OBVIOUS
  <2>2. e.fd \in Fds /\ connections[w][e.fd] \in Connections
    BY <1>5, SMTT(30) DEF StoreStep, Open, TypeOK
  <2>3. j \in Jobs /\ j.worker = w
    BY <2>1, <2>2 DEF Request, Jobs, Connections
  <2>4. poolQueue' \in Seq(Jobs) /\ Len(poolQueue') = Len(poolQueue) + 1 /\ Len(poolQueue) < QueueCapacity
    BY <1>2, <1>7, <2>1, <2>3, SMT DEF Accepts
  <2>5. ASSUME NEW v \in Workers
        PROVE  outstanding_tasks'[v] = Outstanding(v)'
    <3>1. Cardinality(Places(poolQueue', v)) = Cardinality(Places(poolQueue, v)) + (IF j.worker = v THEN 1 ELSE 0)
      BY <1>2, <1>7, <2>1, <2>3, PlacesAfterAppend
    <3>2. outstanding_tasks'[v] = outstanding_tasks[v] + (IF j.worker = v THEN 1 ELSE 0)
      BY <1>2, <1>7, <2>3, SMT
    <3> QED BY <1>1, <1>3, <1>4, <3>1, <3>2, SMTT(30) DEF Outstanding
  <2>6. outstanding_tasks' \in [Workers -> Nat]
    BY <1>2, <1>7, SMT
  <2>7. OutstandingIsExact'
    BY <2>5, OutstandingParts
  <2> QED BY <1>1, <1>2, <2>4, <2>6, <2>7, SMT
<1> QED BY <1>5, <1>6, <1>7

\* Swapping the queues keeps the sum, since the old batch was used up.
LEMMA SwapTasks ==
  ASSUME FiniteSetFacts, TypeOK, CompletedWhileApplied, OutstandingIsExact, NEW w \in Workers, SwapCompletions(w)
  PROVE  /\ OutstandingIsExact' /\ UNCHANGED <<outstanding_tasks, poolQueue, poolThread>>
         /\ completed[w] = <<>>
         /\ completed' \in [Workers -> Seq(Completions)] /\ completions' \in [Workers -> Seq(Completions)]
<1>1. /\ completed' = [completed EXCEPT ![w] = completions[w]] /\ completions' = [completions EXCEPT ![w] = <<>>]
      /\ UNCHANGED <<outstanding_tasks, poolQueue, poolThread>> /\ pc[w] = "swap"
  BY DEF SwapCompletions, LoopStep, KeepPool
<1>2. completed[w] = <<>>
  BY <1>1 DEF CompletedWhileApplied
<1>3. completed \in [Workers -> Seq(Completions)] /\ completions \in [Workers -> Seq(Completions)]
  BY DEF TypeOK
<1>4. \A v \in Workers :
        /\ Cardinality(Places(poolQueue, v)) \in Nat /\ Cardinality(Routing(v)) \in Nat
        /\ Len(completions[v]) \in Nat /\ Len(completed[v]) \in Nat /\ outstanding_tasks[v] = Outstanding(v)
  BY OutstandingParts
<1>5. \A v \in Workers : Routing(v)' = Routing(v)
  BY <1>1 DEF Routing
<1>6. Len(completions'[w]) = 0 /\ Len(completed'[w]) = Len(completions[w]) /\ Len(completed[w]) = 0
  BY <1>1, <1>2, <1>3
<1>7. ASSUME NEW v \in Workers
      PROVE  outstanding_tasks'[v] = Outstanding(v)'
  <2>1. CASE v = w
    BY <1>1, <1>4, <1>5, <1>6, <2>1, SMT DEF Outstanding
  <2>2. CASE v # w
    BY <1>1, <1>3, <1>4, <1>5, <2>2 DEF Outstanding
  <2> QED BY <2>1, <2>2
<1>9. completed' \in [Workers -> Seq(Completions)] /\ completions' \in [Workers -> Seq(Completions)]
  BY <1>1, <1>3, SMT
<1> QED BY <1>1, <1>2, <1>7, <1>9, OutstandingParts

\* Each completion is retired once.
LEMMA CompletionTasks ==
  ASSUME FiniteSetFacts, TypeOK, CompletedWhileApplied, OutstandingIsExact, NEW w \in Workers, ProcessCompletion(w)
  PROVE  /\ OutstandingIsExact' /\ UNCHANGED <<poolQueue, poolThread, completions>>
         /\ outstanding_tasks' \in [Workers -> Nat]
         /\ completed' \in [Workers -> Seq(Completions)]
<1>1. /\ completed' = [completed EXCEPT ![w] = Tail(@)] /\ pc[w] = "complete"
      /\ outstanding_tasks' = [outstanding_tasks EXCEPT ![w] = @ - 1]
      /\ UNCHANGED <<poolQueue, poolThread, completions>>
  BY DEF ProcessCompletion, LoopStep, KeepPool, Retire
<1>2. completed[w] # <<>>
  BY <1>1 DEF CompletedWhileApplied
<1>3. completed \in [Workers -> Seq(Completions)] /\ outstanding_tasks \in [Workers -> Nat]
  BY DEF TypeOK
<1>4. \A v \in Workers :
        /\ Cardinality(Places(poolQueue, v)) \in Nat /\ Cardinality(Routing(v)) \in Nat
        /\ Len(completions[v]) \in Nat /\ Len(completed[v]) \in Nat /\ outstanding_tasks[v] = Outstanding(v)
  BY OutstandingParts
<1>5. \A v \in Workers : Routing(v)' = Routing(v)
  BY <1>1 DEF Routing
<1>6. Len(completed'[w]) = Len(completed[w]) - 1 /\ Len(completed'[w]) \in Nat /\ completed'[w] \in Seq(Completions)
  BY <1>1, <1>2, <1>3, SMT
<1>7. outstanding_tasks[w] >= 1
  <2>1. Len(completed[w]) >= 1
    BY <1>2, <1>3, SMT
  <2> QED BY <1>4, <2>1, SMT DEF Outstanding
<1>8. outstanding_tasks' \in [Workers -> Nat] /\ completed' \in [Workers -> Seq(Completions)]
  BY <1>1, <1>3, <1>6, <1>7, SMT
<1>9. ASSUME NEW v \in Workers
      PROVE  outstanding_tasks'[v] = Outstanding(v)'
  <2>1. CASE v = w
    BY <1>1, <1>3, <1>4, <1>5, <1>6, <2>1, SMT DEF Outstanding
  <2>2. CASE v # w
    BY <1>1, <1>3, <1>4, <1>5, <2>2 DEF Outstanding
  <2> QED BY <2>1, <2>2
<1> QED BY <1>1, <1>8, <1>9, OutstandingParts

\* outstanding_tasks stays exact.
LEMMA TasksStep ==
  ASSUME FiniteSetFacts, TypeOK, CompletedWhileApplied, ConnectionsSound, OutstandingIsExact, [Next]_vars
  PROVE  OutstandingIsExact'
<1>1. CASE UNCHANGED taskVars
  <2>1. \A v \in Workers : Routing(v)' = Routing(v) /\ Unanswered(v)' = Unanswered(v)
    BY <1>1 DEF Routing, Unanswered, taskVars
  <2> QED BY <1>1, <2>1 DEF OutstandingIsExact, taskVars
<1>2. CASE UNCHANGED vars
  BY <1>1, <1>2 DEF vars, poolVars, loopVars, taskVars
<1> QED BY <1>1, <1>2, TaskSteps, PoolTasks, SocketEventTasks, SwapTasks, CompletionTasks

-----------------------------------------------------------------------------
(* Types, and the chunks a socket holds.                                   *)

\* What a step that stores a view does to the kernel's and the managers' state.
LEMMA StoreTypes ==
  ASSUME FiniteSetFacts, TypeOK, ChunksSent, ConnectionsSound, GaugeIsExact,
         NEW w \in Workers, NEW f, KeepSockets \/ \E g : StoreStep(w, f, g)
  PROVE  /\ connections' \in [Workers -> [Fds -> {NoConn} \cup Connections]]
         /\ fdTable' \in [Fds -> Kinds] /\ sock' \in [Clients -> Sockets] /\ ChunksSent'
         /\ backlog' \in [Workers -> SUBSET Clients] /\ interest' \in [Workers -> [Fds -> Masks]]
         /\ open_connections' \in Nat
<1>1. CASE KeepSockets
  BY <1>1 DEF KeepSockets, kernelVars, TypeOK, ChunksSent, Kinds, Masks
<1>2. CASE \E g : StoreStep(w, f, g)
  <2>1. PICK g : StoreStep(w, f, g)
    BY <1>2
  <2>2. f \in Open(w) /\ Reached(g, View(w, f)) /\ Store(w, f, g)
    BY <2>1 DEF StoreStep
  <2> QED BY <2>1, <2>2, StoreEffect, StoreGauge
<1> QED BY <1>1, <1>2

\* The types of what a worker touches while it starts, accepts, or takes over
\* completions.
LEMMA ListenTypes ==
  ASSUME FiniteSetFacts, Numbers, TypeOK, ChunksSent, CompletedWhileApplied, OutstandingIsExact, GaugeIsExact, ConnectionsOwned,
         NEW w \in Workers,
         \/ WorkerInit(w) \/ Notifying(w) \/ SwapCompletions(w)
         \/ \E c \in Clients : Accept(w, c) \/ AcceptDrops(w, c)
  PROVE  TypeOK' /\ ChunksSent'
<1>1. CASE WorkerInit(w)
  <2>0. PICK l, e \in Fds : InitWith(w, l, e)
    BY <1>1, InitTakesFree
  <2>1. /\ listener_fd' = [listener_fd EXCEPT ![w] = l] /\ completion_fd' = [completion_fd EXCEPT ![w] = e]
        /\ fdTable' = [fdTable EXCEPT ![l] = Listener(w), ![e] = Eventfd(w)]
        /\ interest' = [interest EXCEPT ![w][l] = {"IN"}, ![w][e] = {"IN"}]
    BY <2>0 DEF InitWith
  <2>2. fdTable' \in [Fds -> Kinds]
    BY <2>1 DEF TypeOK, Kinds
  <2>3. interest' \in [Workers -> [Fds -> Masks]]
    <3>1. interest \in [Workers -> [Fds -> Masks]] /\ {"IN"} \in Masks
      BY DEF TypeOK, Masks
    <3> QED BY <2>1, <3>1
  <2>4. listener_fd' \in [Workers -> Fds \cup {NoFd}] /\ completion_fd' \in [Workers -> Fds \cup {NoFd}]
    BY <2>1 DEF TypeOK
  <2>5. pc' = [pc EXCEPT ![w] = "wait"] /\ "wait" \in Labels
    BY <1>1 DEF WorkerInit, Goto, Labels
  <2>6. pc' \in [Workers -> Labels]
    BY <2>5 DEF TypeOK, Labels
  <2> QED BY <1>1, <2>2, <2>3, <2>4, <2>6
       DEF TypeOK, ChunksSent, WorkerInit, processVars, poolVars, Kinds, Masks, Labels
<1>2. CASE Notifying(w)
  <2>1. pc' = [pc EXCEPT ![w] = "swap"] /\ "swap" \in Labels
    BY <1>2, NotifyingKeeps DEF Labels
  <2>2. PICK next \in {"event", "drain"} : resume' = [resume EXCEPT ![w] = next]
    BY <1>2, NotifyingKeeps
  <2>3. pc' \in [Workers -> Labels] /\ resume' \in [Workers -> {"event", "drain", "flush", "stop"}]
    BY <2>1, <2>2, MoveTypes
  <2>4. eventfd' \in [Workers -> BOOLEAN]
    BY <1>2, NotifyingKeeps DEF TypeOK
  <2>5. /\ UNCHANGED <<fdTable, sock, backlog, interest, mainPc, signalled, open_connections>>
        /\ UNCHANGED <<shutdown_requested, worker_failed, poolQueue, poolStopping, poolThread>>
        /\ UNCHANGED <<sweep, listener_fd, completion_fd, draining, outstanding_tasks, next_generation>>
        /\ UNCHANGED <<completions, completed, connections>>
        /\ batch' \in [Workers -> SUBSET Events]
    BY <1>2, NotifyingKeeps
  <2> QED BY <2>3, <2>4, <2>5 DEF TypeOK, ChunksSent, Labels
<1>3. CASE SwapCompletions(w)
  <2>1. PICK label \in Labels : pc' = [pc EXCEPT ![w] = label]
    <3>1. resume[w] \in Labels
      BY DEF TypeOK, Labels
    <3> QED BY <1>3, <3>1 DEF SwapCompletions, Goto, Labels
  <2>2. pc' \in [Workers -> Labels]
    BY <2>1, MoveTypes
  <2> QED BY <1>3, <2>2, SwapTasks DEF SwapCompletions, LoopStep, KeepFlags, KeepPool, KeepDrain, KeepSockets,
       kernelVars, TypeOK, ChunksSent, Labels
<1>4. ASSUME NEW c \in Clients, Accept(w, c)
      PROVE  TypeOK' /\ ChunksSent'
  <2>1. PICK f \in Fds :
           /\ fdTable' = [fdTable EXCEPT ![f] = Client(c)]
           /\ interest' = [interest EXCEPT ![w][f] = {"IN", "RDHUP"}]
           /\ connections' = [connections EXCEPT ![w][f] = NewConnection(c, next_generation[w])]
    BY <1>4, AcceptTakesFree
  <2>2. fdTable' \in [Fds -> Kinds]
    BY <2>1 DEF TypeOK, Kinds
  <2>3. interest' \in [Workers -> [Fds -> Masks]]
    <3>1. interest \in [Workers -> [Fds -> Masks]] /\ {"IN", "RDHUP"} \in Masks
      BY DEF TypeOK, Masks
    <3> QED BY <2>1, <3>1
  <2>4. connections' \in [Workers -> [Fds -> {NoConn} \cup Connections]]
    <3>1. /\ connections \in [Workers -> [Fds -> {NoConn} \cup Connections]]
          /\ NewConnection(c, next_generation[w]) \in Connections
      BY DEF TypeOK, NewConnection, Connections
    <3> QED BY <2>1, <3>1
  <2>5. pc' = [pc EXCEPT ![w] = "accept"] /\ "accept" \in Labels
    BY <1>4 DEF Accept, Goto, Labels
  <2>6. pc' \in [Workers -> Labels]
    BY <2>5 DEF TypeOK, Labels
  <2>7. open_connections' \in Nat
    BY <1>4, AcceptGauge
  <2>8. next_generation' \in [Workers -> Nat] /\ backlog' \in [Workers -> SUBSET Clients]
    <3>1. /\ next_generation' = [next_generation EXCEPT ![w] = @ + 1] /\ backlog' = [backlog EXCEPT ![w] = @ \ {c}]
          /\ next_generation \in [Workers -> Nat] /\ backlog \in [Workers -> SUBSET Clients]
      BY <1>4 DEF Accept, TypeOK
    <3> QED BY <3>1, SMT
  <2> QED BY <1>4, <2>2, <2>3, <2>4, <2>6, <2>7, <2>8
       DEF TypeOK, ChunksSent, Accept, LoopStep, KeepFlags, KeepPool, KeepTasks, KeepDrain, Kinds, Masks, Labels
<1>5. ASSUME NEW c \in Clients, AcceptDrops(w, c)
      PROVE  TypeOK' /\ ChunksSent'
  <2>1. sock[c] \in Sockets
    BY DEF TypeOK
  <2>2. PICK s : s = [sock[c] EXCEPT !.state = "closed", !.rx = 0, !.answered = TRUE]
    OBVIOUS
  <2>3. s = [state |-> "closed", rx |-> 0, sent |-> sock[c].sent, unread |-> sock[c].unread,
             fin |-> sock[c].fin, reset |-> sock[c].reset, answered |-> TRUE]
    BY <2>1, <2>2 DEF Sockets
  <2>4. s \in Sockets /\ s.rx <= s.sent
    <3>1. /\ sock[c].sent \in 0..MaxChunks /\ sock[c].unread \in 0..SendBuffer /\ sock[c].fin \in BOOLEAN
          /\ sock[c].reset \in BOOLEAN /\ 0 \in 0..MaxChunks
      BY <2>1, SizesAssumption, SMT DEF Sockets
    <3>2. 0 <= sock[c].sent
      BY <3>1, SizesAssumption, SMT
    <3> QED BY <2>3, <3>1, <3>2 DEF Sockets
  <2>5. sock' = [sock EXCEPT ![c] = s]
    BY <1>5, <2>2 DEF AcceptDrops, TypeOK
  <2>6. sock' \in [Clients -> Sockets] /\ ChunksSent'
    BY <2>4, <2>5 DEF TypeOK, ChunksSent
  <2>7. pc' = [pc EXCEPT ![w] = "accept"] /\ "accept" \in Labels
    BY <1>5 DEF AcceptDrops, Goto, Labels
  <2>8. pc' \in [Workers -> Labels]
    BY <2>7 DEF TypeOK, Labels
  <2>9. backlog' \in [Workers -> SUBSET Clients]
    BY <1>5 DEF AcceptDrops, TypeOK
  <2> QED BY <1>5, <2>6, <2>8, <2>9
       DEF TypeOK, AcceptDrops, LoopStep, KeepFlags, KeepPool, KeepTasks, KeepDrain, Labels
<1> QED BY <1>1, <1>2, <1>3, <1>4, <1>5

\* The types of what a handler of one connection touches.
LEMMA ServeTypes ==
  ASSUME FiniteSetFacts, TypeOK, ChunksSent, CompletedWhileApplied, OutstandingIsExact, GaugeIsExact, ConnectionsSound, ClaimsValid,
         NEW w \in Workers,
         \/ \E e \in batch[w] : SocketEvent(w, e)
         \/ ProcessCompletion(w)
         \/ \E f \in Fds : SweepConnection(w, f)
  PROVE  TypeOK' /\ ChunksSent'
<1>1. ASSUME NEW e \in batch[w], SocketEvent(w, e)
      PROVE  TypeOK' /\ ChunksSent'
  <2>1. \E g : StoreStep(w, e.fd, g)
    BY <1>1, SocketEventStores
  <2>2. /\ connections' \in [Workers -> [Fds -> {NoConn} \cup Connections]]
        /\ fdTable' \in [Fds -> Kinds] /\ sock' \in [Clients -> Sockets] /\ ChunksSent'
        /\ backlog' \in [Workers -> SUBSET Clients] /\ interest' \in [Workers -> [Fds -> Masks]]
        /\ open_connections' \in Nat
    BY <2>1, StoreTypes
  <2>3. /\ outstanding_tasks' \in [Workers -> Nat]
        /\ poolQueue' \in Seq(Jobs) /\ Len(poolQueue') <= QueueCapacity
        /\ UNCHANGED <<poolThread, completions, completed>>
    BY <1>1, SocketEventTasks
  <2>4. batch' \in [Workers -> SUBSET Events]
    BY <1>1 DEF SocketEvent, TakeEvent, TypeOK
  <2>5. UNCHANGED <<mainPc, signalled, completion_fd, shutdown_requested, worker_failed, listener_fd, draining,
                    resume, sweep, pc, poolStopping, eventfd, next_generation>>
    BY <1>1 DEF SocketEvent, LoopStep, KeepFlags, KeepDrain
  <2> QED BY <2>2, <2>3, <2>4, <2>5 DEF TypeOK, Kinds, Masks
<1>2. CASE ProcessCompletion(w)
  <2>1. PICK k : k = Head(completed[w])
    OBVIOUS
  <2>2. KeepSockets \/ \E g : StoreStep(w, k.fd, g)
    BY <1>2, <2>1, CompletionStores
  <2>3. /\ connections' \in [Workers -> [Fds -> {NoConn} \cup Connections]]
        /\ fdTable' \in [Fds -> Kinds] /\ sock' \in [Clients -> Sockets] /\ ChunksSent'
        /\ backlog' \in [Workers -> SUBSET Clients] /\ interest' \in [Workers -> [Fds -> Masks]]
        /\ open_connections' \in Nat
    BY <2>2, StoreTypes
  <2>4. PICK label \in Labels : pc' = [pc EXCEPT ![w] = label]
    <3>1. resume[w] \in Labels
      BY DEF TypeOK, Labels
    <3> QED BY <1>2, <3>1 DEF ProcessCompletion, Goto, Labels
  <2>5. pc' \in [Workers -> Labels]
    BY <2>4 DEF TypeOK, Labels
  <2>6. /\ UNCHANGED <<poolQueue, poolThread, completions>>
        /\ outstanding_tasks' \in [Workers -> Nat] /\ completed' \in [Workers -> Seq(Completions)]
    BY <1>2, CompletionTasks
  <2>7. UNCHANGED <<mainPc, signalled, completion_fd, shutdown_requested, worker_failed, listener_fd, draining,
                    resume, sweep, poolStopping, eventfd, next_generation, batch>>
    BY <1>2 DEF ProcessCompletion, LoopStep, KeepFlags, KeepPool, KeepDrain
  <2> QED BY <2>3, <2>5, <2>6, <2>7 DEF TypeOK, Kinds, Masks, Labels
<1>3. ASSUME NEW f \in Fds, SweepConnection(w, f)
      PROVE  TypeOK' /\ ChunksSent'
  <2>1. KeepSockets \/ \E g : StoreStep(w, f, g)
    BY <1>3, SweepStores
  <2>2. /\ connections' \in [Workers -> [Fds -> {NoConn} \cup Connections]]
        /\ fdTable' \in [Fds -> Kinds] /\ sock' \in [Clients -> Sockets] /\ ChunksSent'
        /\ backlog' \in [Workers -> SUBSET Clients] /\ interest' \in [Workers -> [Fds -> Masks]]
        /\ open_connections' \in Nat
    BY <2>1, StoreTypes
  <2>3. PICK label \in Labels : pc' = [pc EXCEPT ![w] = label]
    <3>1. resume[w] \in Labels
      BY DEF TypeOK, Labels
    <3> QED BY <1>3, <3>1 DEF SweepConnection, Goto, Labels
  <2>4. pc' \in [Workers -> Labels]
    BY <2>3 DEF TypeOK, Labels
  <2>5. sweep' \in [Workers -> SUBSET Fds]
    BY <1>3 DEF SweepConnection, TypeOK
  <2>6. /\ UNCHANGED <<mainPc, signalled, completion_fd, shutdown_requested, worker_failed, listener_fd, draining,
                       resume, poolStopping, eventfd, next_generation, batch>>
        /\ UNCHANGED <<poolQueue, poolThread, completions, outstanding_tasks, completed>>
    BY <1>3 DEF SweepConnection, LoopStep, KeepFlags, KeepPool, KeepTasks
  <2> QED BY <2>2, <2>4, <2>5, <2>6 DEF TypeOK, Kinds, Masks, Labels
<1> QED BY <1>1, <1>2, <1>3

\* Every variable keeps its type.
LEMMA TypeStep ==
  ASSUME FiniteSetFacts, Numbers, TypeOK, ChunksSent, CompletedWhileApplied, OutstandingIsExact, GaugeIsExact, ConnectionsSound, ClaimsValid,
         ConnectionsOwned, [Next]_vars
  PROVE  TypeOK' /\ ChunksSent'
<1>1. CASE MainNext \/ Signal \/ \E c \in Clients : PeerNext(c)
  BY <1>1, OutsideTypes
<1>2. CASE \E p \in PoolThreads : PoolNext(p)
  BY <1>2, PoolTypes
<1>3. ASSUME NEW w \in Workers, WorkerNext(w)
      PROVE  TypeOK' /\ ChunksSent'
  <2>1. \/ Turn(w) \/ Closing(w) \/ WorkerInit(w) \/ Notifying(w) \/ SwapCompletions(w)
        \/ \E c \in Clients : Accept(w, c) \/ AcceptDrops(w, c)
        \/ \E e \in batch[w] : SocketEvent(w, e)
        \/ ProcessCompletion(w)
        \/ \E f \in Fds : SweepConnection(w, f)
    BY <1>3 DEF WorkerNext, Turn, Closing, Notifying
  <2> QED BY <2>1, TurnTypes, ClosingTypes, ListenTypes, ServeTypes
<1>4. CASE UNCHANGED vars
  BY <1>4 DEF vars, kernelVars, processVars, poolVars, loopVars, TypeOK, ChunksSent
<1> QED BY <1>1, <1>2, <1>3, <1>4 DEF Next

-----------------------------------------------------------------------------
(* The connections.                                                        *)

\* The gauge stays exact.
LEMMA GaugeStep ==
  ASSUME FiniteSetFacts, Numbers, TypeOK, ChunksSent, ConnectionsSound, ClaimsValid, CompletedWhileApplied, ConnectionsOwned, GaugeIsExact,
         [Next]_vars
  PROVE  GaugeIsExact'
<1>1. CASE UNCHANGED <<connections, open_connections>>
  BY <1>1 DEF GaugeIsExact
<1>2. CASE UNCHANGED connVars
  BY <1>1, <1>2 DEF connVars
<1>3. ASSUME NEW w \in Workers, Closing(w) \/ WorkerInit(w)
      PROVE  GaugeIsExact'
  BY <1>1, <1>3, ClosingKeeps DEF WorkerInit
<1> QED BY <1>2, <1>3, ConnectionSteps, AcceptGauge, StoreGauge

-----------------------------------------------------------------------------
(* No notification is lost.                                                *)

\* A worker without tasks has no completion queued.
LEMMA NoTasksNoCompletions ==
  ASSUME FiniteSetFacts, TypeOK, OutstandingIsExact, NEW w \in Workers, outstanding_tasks[w] = 0
  PROVE  /\ completions[w] = <<>> /\ completed[w] = <<>>
         /\ Unanswered(w) = {} /\ Routing(w) = {}
<1>1. /\ Cardinality(Places(poolQueue, w)) \in Nat /\ Cardinality(Routing(w)) \in Nat
      /\ Len(completions[w]) \in Nat /\ Len(completed[w]) \in Nat
  BY OutstandingParts
<1>2. Unanswered(w) = Places(poolQueue, w)
  BY DEF Unanswered, Places
<1>3. outstanding_tasks[w] = Cardinality(Unanswered(w)) + Cardinality(Routing(w))
                             + Len(completions[w]) + Len(completed[w])
  BY DEF OutstandingIsExact
<1>4. /\ Len(completions[w]) = 0 /\ Len(completed[w]) = 0
      /\ Cardinality(Unanswered(w)) = 0 /\ Cardinality(Routing(w)) = 0
  <2>2. Cardinality(Unanswered(w)) \in Nat
    BY <1>1, <1>2
  <2>3. 0 = Cardinality(Unanswered(w)) + Cardinality(Routing(w)) + Len(completions[w]) + Len(completed[w])
    BY <1>3
  <2>4. PICK a, b, c, d \in Nat : /\ a = Cardinality(Unanswered(w)) /\ b = Cardinality(Routing(w))
                                  /\ c = Len(completions[w]) /\ d = Len(completed[w])
    BY <1>1, <2>2
  <2>5. 0 = a + b + c + d
    BY <2>3, <2>4
  <2>6. a = 0 /\ b = 0 /\ c = 0 /\ d = 0
    BY <2>5, SMT
  <2> QED BY <2>4, <2>6
<1>5. completions[w] \in Seq(Completions) /\ completed[w] \in Seq(Completions)
  BY DEF TypeOK
<1>6. IsFiniteSet(Unanswered(w)) /\ IsFiniteSet(Routing(w))
  BY <1>2, PlacesFinite, RoutingFinite, SMT DEF TypeOK
<1>7. Unanswered(w) = {} /\ Routing(w) = {}
  BY <1>4, <1>6 DEF FiniteSetFacts, EmptyCounts
<1> QED BY <1>4, <1>5, <1>7, SMT

\* A completion is announced until the queue is swapped.
LEMMA NoticedStep ==
  ASSUME FiniteSetFacts, Numbers, TypeOK, ChunksSent, ConnectionsSound, ClaimsValid, CompletedWhileApplied, ConnectionsOwned,
         IdleOutsideLoop, OutstandingIsExact, Phases, Noticed, [Next]_vars
  PROVE  Noticed'
<1> SUFFICES ASSUME NEW w \in Workers, Live(w)', pc'[w] # "swap", completions'[w] # <<>>,
                    fdTable'[completion_fd'[w]] = Eventfd(w), completion_fd'[w] \in Fds
             PROVE  eventfd'[w] \/ Announced(w)'
  <2>1. \A w \in Workers : Live(w)' => completion_fd'[w] \in Fds
    BY WorkerPhases
  <2> QED BY <2>1 DEF Noticed, Announced
<1>1. ~WorkerInit(w)
  <2>1. ASSUME WorkerInit(w)
        PROVE  FALSE
    <3>1. pc[w] = "init" /\ completions' = completions
      BY <2>1 DEF WorkerInit
    <3>2. outstanding_tasks[w] = 0
      BY <3>1 DEF IdleOutsideLoop
    <3> QED BY <3>1, <3>2, NoTasksNoCompletions
  <2> QED BY <2>1
<1>2. \/ Still(w)
      \/ SpawnWorker(w) /\ pc'[w] = "init"
      \/ \E label, next, d, l, x : WorkerMoves(w, label, next, d, l, x)
  BY ControlSteps
<1>3. /\ Live(w) /\ completion_fd'[w] = completion_fd[w]
      /\ pc[w] = "swap" => SwapCompletions(w)
  <2>1. CASE Still(w)
    BY <2>1 DEF Still, Live
  <2>2. CASE pc'[w] = "init"
    BY <2>2 DEF Live
  <2>3. ASSUME NEW label, NEW next, NEW d, NEW l, NEW x, WorkerMoves(w, label, next, d, l, x)
        PROVE  /\ Live(w) /\ completion_fd'[w] = completion_fd[w]
               /\ pc[w] = "swap" => SwapCompletions(w)
    <3>1. pc'[w] = label /\ completion_fd'[w] = x
      BY <2>3 DEF WorkerMoves, TypeOK
    <3>2. label # "exited"
      BY <3>1 DEF Live
    <3> QED BY <1>1, <2>3, <3>1, <3>2 DEF WorkerMoves, Live, Inner
  <2> QED BY <1>2, <2>1, <2>2, <2>3
<1>4. fdTable[completion_fd[w]] = Eventfd(w)
  BY <1>1, <1>3, FdSteps, RefersTo, SMTT(30)
<1>5. pc[w] # "swap"
  <2>1. ASSUME SwapCompletions(w)
        PROVE  completions'[w] = <<>>
    BY <2>1 DEF SwapCompletions, TypeOK
  <2> QED BY <1>3, <2>1
<1>6. completions[w] # <<>> => eventfd[w] \/ Announced(w)
  BY <1>3, <1>4, <1>5 DEF Noticed, Announced
<1>7. CASE UNCHANGED <<completions, eventfd, poolThread>>
  BY <1>6, <1>7 DEF Announced
<1>8. ASSUME NEW u \in Workers, Notifying(u)
      PROVE  eventfd'[w] \/ Announced(w)'
  <2>1. /\ UNCHANGED <<completions, poolThread>> /\ pc' = [pc EXCEPT ![u] = "swap"]
        /\ eventfd' = [eventfd EXCEPT ![u] = FALSE]
    BY <1>8, NotifyingKeeps
  <2>2. u # w
    BY <2>1 DEF TypeOK
  <2>3. eventfd'[w] = eventfd[w]
    BY <2>1, <2>2 DEF TypeOK
  <2> QED BY <1>6, <2>1, <2>3 DEF Announced
<1>9. ASSUME NEW u \in Workers, SwapCompletions(u)
      PROVE  eventfd'[w] \/ Announced(w)'
  <2>1. /\ UNCHANGED <<eventfd, poolThread>> /\ completions' = [completions EXCEPT ![u] = <<>>]
        /\ pc[u] = "swap"
    BY <1>9 DEF SwapCompletions, LoopStep
  <2>2. completions'[w] = completions[w]
    BY <1>5, <2>1 DEF TypeOK
  <2> QED BY <1>6, <2>1, <2>2 DEF Announced
<1>10. ASSUME NEW p \in PoolThreads, PoolNext(p)
       PROVE  eventfd'[w] \/ Announced(w)'
  <2>1. WakesLoop(w)
    BY <1>3, <1>4 DEF WakesLoop
  <2> QED BY <1>6, <1>10, <2>1, PoolNotices
<1> QED BY <1>7, <1>8, <1>9, <1>10, NoticeSteps

-----------------------------------------------------------------------------
(* The inductive invariant.                                                *)

\* It holds when the process starts.
LEMMA InitIInv == FiniteSetFacts /\ Init => IInv
<1> SUFFICES ASSUME FiniteSetFacts, Init PROVE IInv
  OBVIOUS
<1>1. /\ NoFd \in Fds \cup {NoFd} /\ 0 \in 0..MaxChunks /\ 0 \in 0..SendBuffer
  BY SizesAssumption, SMT
<1>2. NewSock \in Sockets /\ NewSock.rx <= NewSock.sent
  BY <1>1, SMT DEF NewSock, Sockets
<1>3. poolQueue \in Seq(Jobs) /\ Len(poolQueue) = 0 /\ \A w \in Workers : <<>> \in Seq(Completions)
  BY SMT DEF Init
<1>4. TypeOK
  <2>1. /\ fdTable \in [Fds -> Kinds] /\ sock \in [Clients -> Sockets] /\ backlog \in [Workers -> SUBSET Clients]
        /\ eventfd \in [Workers -> BOOLEAN] /\ interest \in [Workers -> [Fds -> Masks]]
    BY <1>2 DEF Init, Kinds, Masks
  <2>2. /\ shutdown_requested \in BOOLEAN /\ worker_failed \in BOOLEAN /\ signalled \in BOOLEAN
        /\ mainPc = "boot" /\ open_connections \in Nat /\ poolStopping \in BOOLEAN
        /\ poolThread = [p \in PoolThreads |-> NoJob]
    BY DEF Init
  <2>3. poolQueue \in Seq(Jobs) /\ Len(poolQueue) <= QueueCapacity
    BY <1>3, SizesAssumption, SMT
  <2>4. /\ pc = [w \in Workers |-> "new"] /\ resume = [w \in Workers |-> "event"]
        /\ batch \in [Workers -> SUBSET Events] /\ sweep \in [Workers -> SUBSET Fds]
        /\ listener_fd = [w \in Workers |-> NoFd] /\ completion_fd = [w \in Workers |-> NoFd]
    BY DEF Init
  <2>5. /\ draining \in [Workers -> BOOLEAN] /\ outstanding_tasks \in [Workers -> Nat]
        /\ next_generation \in [Workers -> Nat]
        /\ completions \in [Workers -> Seq(Completions)] /\ completed \in [Workers -> Seq(Completions)]
        /\ connections \in [Workers -> [Fds -> {NoConn} \cup Connections]]
    BY SMT DEF Init
  <2> QED BY <2>1, <2>2, <2>3, <2>4, <2>5 DEF TypeOK, Kinds, Masks
<1>5. \A w \in Workers : Open(w) = {}
  BY DEF Init, Open
<1>6. \A w \in Workers : Unanswered(w) = {} /\ Routing(w) = {} /\ completions[w] = <<>> /\ completed[w] = <<>>
  BY SMT DEF Init, Unanswered, Routing
<1>7. \A w \in Workers : Owed(w) = {}
  BY <1>6, SMT DEF Owed
<1>8. ChunksSent /\ CompletedWhileApplied /\ IdleOutsideLoop
  BY <1>2, <1>5 DEF Init, ChunksSent, CompletedWhileApplied, IdleOutsideLoop
<1>9. OutstandingIsExact
  <2>1. \A w \in Workers : Len(completions[w]) = 0 /\ Len(completed[w]) = 0 /\ outstanding_tasks[w] = 0
    BY DEF Init
  <2>2. \A w \in Workers : Cardinality(Unanswered(w)) = 0 /\ Cardinality(Routing(w)) = 0
    BY <1>6 DEF FiniteSetFacts, EmptyCounts
  <2> QED BY <2>1, <2>2, SMT DEF OutstandingIsExact
<1>10. GaugeIsExact
  <2>1. {x \in Workers \X Fds : connections[x[1]][x[2]] # NoConn} = {}
    BY DEF Init
  <2> QED BY <2>1 DEF FiniteSetFacts, EmptyCounts, Init, GaugeIsExact
<1>11. Noticed /\ ConnectionsSound /\ ClaimsValid /\ InFlightOwed /\ ConnectionsOwned
  BY <1>5, <1>6, <1>7 DEF Noticed, ConnectionsSound, ClaimsValid, InFlightOwed, ConnectionsOwned
<1>12. DescriptorsOwned
  BY RefersTo DEF Init, DescriptorsOwned
<1>13. Phases
  BY DEF Init, Phases, Live
<1> QED BY <1>4, <1>8, <1>9, <1>10, <1>11, <1>12, <1>13 DEF IInv

\* Every step preserves it.
LEMMA StepIInv == FiniteSetFacts /\ Numbers /\ IInv /\ [Next]_vars => IInv'
<1> SUFFICES ASSUME FiniteSetFacts, Numbers, IInv, [Next]_vars PROVE IInv'
  OBVIOUS
<1>1. /\ TypeOK /\ ChunksSent /\ CompletedWhileApplied /\ IdleOutsideLoop
      /\ OutstandingIsExact /\ GaugeIsExact /\ Noticed
      /\ ConnectionsSound /\ ClaimsValid /\ InFlightOwed
      /\ DescriptorsOwned /\ Phases /\ ConnectionsOwned
  BY DEF IInv
<1>2. TypeOK' /\ ChunksSent'
  BY <1>1, TypeStep
<1>3. OutstandingIsExact' /\ GaugeIsExact'
  BY <1>1, TasksStep, GaugeStep
<1>4. ConnectionsSound' /\ ClaimsValid' /\ InFlightOwed'
  BY <1>1, SoundStep, ClaimsStep, InFlightStep
<1>5. CompletedWhileApplied' /\ IdleOutsideLoop'
  BY <1>1, LoopStepKeeps
<1>6. DescriptorsOwned' /\ Phases' /\ ConnectionsOwned'
  BY <1>1, DescriptorsStep, PhasesStep, OwnedStep
<1>7. Noticed'
  BY <1>1, NoticedStep
<1> QED BY <1>2, <1>3, <1>4, <1>5, <1>6, <1>7 DEF IInv

-----------------------------------------------------------------------------
(* What it says of a state.                                                *)

\* No wake-up is lost between the pool and a loop that waits.
LEMMA WaitingIsNoticed == IInv => NoLostCompletion
<1>1. \A w \in Workers : pc[w] = "wait" => Live(w) /\ pc[w] # "swap"
  BY DEF Live
<1> QED BY <1>1 DEF IInv, Noticed, NoLostCompletion

\* Nothing is left of a worker whose loop has ended.
LEMMA ExitedIsClean == FiniteSetFacts /\ IInv => ExitLeavesNothing
<1>1. ASSUME FiniteSetFacts, IInv
      PROVE  ExitLeavesNothing
  <2>1. TypeOK /\ OutstandingIsExact /\ IdleOutsideLoop
    BY <1>1 DEF IInv
  <2>2. ASSUME NEW w \in Workers, pc[w] \in {"close_listener", "close_eventfd", "exited"}
        PROVE  /\ Open(w) = {} /\ completions[w] = <<>> /\ completed[w] = <<>>
               /\ Unanswered(w) = {} /\ Routing(w) = {}
    <3>1. outstanding_tasks[w] = 0 /\ Open(w) = {}
      BY <2>1, <2>2 DEF IdleOutsideLoop
    <3> QED BY <1>1, <2>1, <3>1, NoTasksNoCompletions
  <2> QED BY <2>2 DEF ExitLeavesNothing
<1> QED BY <1>1

\* Nothing is left when start() returns.
LEMMA ReturnedIsClean == IInv => ReturnReleasesAll
<1>1. ASSUME IInv, mainPc = "returned"
      PROVE  /\ \A f \in Fds : fdTable[f] = Free
             /\ poolQueue = <<>> /\ \A p \in PoolThreads : poolThread[p] = NoJob
  <2>1. TypeOK /\ IdleOutsideLoop /\ DescriptorsOwned /\ Phases
    BY <1>1 DEF IInv
  <2>2. \A w \in Workers : pc[w] \in {"new", "exited"}
    BY <1>1, <2>1 DEF Phases
  <2>3. \A w \in Workers : ~Live(w) /\ Open(w) = {}
    BY <2>1, <2>2 DEF Live, IdleOutsideLoop
  <2>4. ASSUME NEW f \in Fds
        PROVE  fdTable[f] = Free
    <3>1. \/ fdTable[f] = Free
          \/ \E w \in Workers : fdTable[f] = Listener(w) \/ fdTable[f] = Eventfd(w)
          \/ \E c \in Clients : fdTable[f] = Client(c)
      <4>1. fdTable \in [Fds -> Kinds]
        BY <2>1 DEF TypeOK, Kinds
      <4>2. fdTable[f] \in Kinds
        BY <4>1
      <4> QED BY <4>2 DEF Kinds
    <3>2. \A w \in Workers : fdTable[f] # Listener(w) /\ fdTable[f] # Eventfd(w)
      BY <2>1, <2>3 DEF DescriptorsOwned
    <3>3. fdTable[f].kind # "client"
      BY <2>1, <2>3 DEF DescriptorsOwned
    <3> QED BY <3>1, <3>2, <3>3, RefersTo
  <2> QED BY <1>1, <2>1, <2>4 DEF Phases
<1> QED BY <1>1 DEF ReturnReleasesAll

\* A masked connection is owed an answer.
LEMMA MaskedIsOwed == IInv => InFlightIsOwed
<1>1. ASSUME InFlightOwed, NEW w \in Workers, NEW f \in Open(w), connections[w][f].request_in_flight
      PROVE  LET owed(k) == k.fd = f /\ k.generation = connections[w][f].generation
             IN  \/ \E i \in Unanswered(w) : owed(poolQueue[i])
                 \/ \E p \in Routing(w) : owed(poolThread[p].job)
                 \/ \E i \in DOMAIN completions[w] : owed(completions[w][i])
                 \/ \E i \in DOMAIN completed[w] : owed(completed[w][i])
  <2>1. PICK k \in Owed(w) : k.fd = f /\ k.generation = connections[w][f].generation
    BY <1>1 DEF InFlightOwed
  <2>2. \A j : Claim(j).fd = j.fd /\ Claim(j).generation = j.generation
    BY DEF Claim
  <2> QED BY <2>1, <2>2, SMT DEF Owed
<1> QED BY <1>1 DEF IInv, InFlightIsOwed

\* What the code keeps of OutboundBounded: the unsent output of a connection is
\* within max_outbound_bytes while its request was dispatched at most once, and
\* each further dispatch adds at most the 503 that is appended unchecked.
OutboundOvershoot ==
  \A w \in Workers : \A f \in Open(w) :
    LET c == connections[w][f]
        repeated == IF c.dispatches = 0 THEN 0 ELSE c.dispatches - 1
    IN c.pending <= MaxOutbound + ErrorSize * repeated

\* What a connection buffers beyond the limit is bounded.
LEMMA OvershootIsBounded == IInv => OutboundOvershoot
<1>1. ASSUME ConnectionsSound, TypeOK, NEW w \in Workers, NEW f \in Open(w)
      PROVE  connections[w][f].pending <= MaxOutbound + ErrorSize *
               (IF connections[w][f].dispatches = 0 THEN 0 ELSE connections[w][f].dispatches - 1)
  <2>1. Fit(connections[w][f])
    BY <1>1 DEF ConnectionsSound, Sound
  <2>2. connections[w][f].dispatches \in Nat
    BY <1>1, SMT DEF TypeOK, Open, Connections
  <2>3. \A n \in Nat : ErrorSize * n = n
    BY SMT DEF ErrorSize
  <2>4. PICK r \in Nat : r = IF connections[w][f].dispatches = 0 THEN 0 ELSE connections[w][f].dispatches - 1
    BY <2>2, SMT
  <2> QED BY <2>1, <2>3, <2>4 DEF Fit
<1> QED BY <1>1 DEF IInv, OutboundOvershoot

-----------------------------------------------------------------------------
(* Finite sets and naturals are what the lemmas assume they are.           *)

Sets == INSTANCE FiniteSetTheorems

\* Finite sets and their sizes are those of the library.
LEMMA SameSets == \A S : (IsFiniteSet(S) <=> Sets!IsFiniteSet(S)) /\ Cardinality(S) = Sets!Cardinality(S)
BY DEF IsFiniteSet, Sets!IsFiniteSet, Cardinality, Sets!Cardinality

\* The least of the free numbers is one of them.
LEMMA LowestIsFree ==
  ASSUME NEW S \in SUBSET Fds, S # {}
  PROVE  Lowest(S) \in S
<1>1. \E f \in S : \A g \in S : f <= g
  <2>1. S \subseteq Nat
    BY SizesAssumption, SMT DEF Fds
  <2>2. PICK f \in S : \A g \in S : <<g, f>> \notin Sets!OpToRel(<, Nat)
    BY <2>1, Sets!NatLessThanWellFounded, Sets!WFMin
  <2>3. \A g \in S : ~(g < f)
    BY <2>1, <2>2 DEF Sets!OpToRel
  <2> QED BY <2>1, <2>3, SMT
<1> QED BY <1>1 DEF Lowest

\* A set of two numbers is not empty, nor without one of them.
LEMMA NumbersHold ==
  ASSUME FiniteSetFacts
  PROVE  Numbers
<1> SUFFICES ASSUME NEW S \in SUBSET Fds
             PROVE  /\ S # {} => Lowest(S) \in S
                    /\ Cardinality(S) >= 2 => S # {} /\ \A f \in S : S \ {f} # {}
  BY DEF Numbers
<1>1. IsFiniteSet(S)
  <2>1. IsFiniteSet(Fds)
    BY SizesAssumption, SMT DEF FiniteSetFacts, IntervalIsFinite, Fds
  <2> QED BY <2>1 DEF FiniteSetFacts, FiniteSubsets
<1>2. Cardinality({}) = 0
  BY DEF FiniteSetFacts, EmptyCounts
<1>3. ASSUME Cardinality(S) >= 2, NEW f \in S
      PROVE  S \ {f} # {}
  <2>1. Cardinality(S \ {f}) = Cardinality(S) - 1 /\ Cardinality(S) \in Nat
    BY <1>1 DEF FiniteSetFacts, CardinalityIsNat, ElementRemoved
  <2> QED BY <1>2, <1>3, <2>1, SMT
<1> QED BY <1>2, <1>3, LowestIsFree, SMT

\* The facts about finite sets that the lemmas assume.
LEMMA FactsHold == FiniteSetFacts
<1>1. FiniteSubsets
  BY SameSets, Sets!FS_Subset DEF FiniteSubsets
<1>2. CardinalityIsNat
  BY SameSets, Sets!FS_CardinalityType DEF CardinalityIsNat
<1>3. EmptyCounts
  BY SameSets, Sets!FS_EmptySet DEF EmptyCounts
<1>4. ElementAdded
  BY SameSets, Sets!FS_AddElement DEF ElementAdded
<1>5. ElementRemoved
  BY SameSets, Sets!FS_RemoveElement DEF ElementRemoved
<1>6. IntervalIsFinite
  BY SameSets, Sets!FS_Interval, SMT DEF IntervalIsFinite
<1>7. ProductIsFinite
  BY SameSets, Sets!FS_Product DEF ProductIsFinite
<1>8. BijectionCounts
  <2>1. ASSUME NEW f, NEW S, NEW T, Matches(f, S, T)
        PROVE  Sets!ExistsBijection(S, T)
    BY <2>1 DEF Matches, Sets!ExistsBijection, Sets!Bijection, Sets!Injection, Sets!Surjection, Sets!IsInjective
  <2>2. ASSUME NEW f, NEW S, NEW T, IsFiniteSet(S), Matches(f, S, T)
        PROVE  Sets!IsFiniteSet(T) /\ Sets!Cardinality(T) = Sets!Cardinality(S)
    BY <2>1, <2>2, SameSets, Sets!FS_Bijection
  <2> QED BY <2>2, SameSets DEF BijectionCounts
<1> QED BY <1>1, <1>2, <1>3, <1>4, <1>5, <1>6, <1>7, <1>8 DEF FiniteSetFacts

\* The invariant from which the theorems follow.
LEMMA Invariance == Spec => []IInv
<1>1. FiniteSetFacts /\ Numbers
  BY FactsHold, NumbersHold
<1>2. Init => IInv
  BY <1>1, InitIInv
<1>3. IInv /\ [Next]_vars => IInv'
  BY <1>1, StepIInv
<1> QED BY <1>2, <1>3, PTL DEF Spec

-----------------------------------------------------------------------------
(* What it shows.                                                          *)

\* Type correctness: in particular outstanding_tasks and the gauge, which the
\* code only ever adds to and subtracts from, stay natural numbers, and the
\* pool's queue stays within its capacity.
THEOREM Typed == Spec => []TypeOK
<1>1. IInv => TypeOK
  BY DEF IInv
<1> QED BY <1>1, Invariance, PTL

\* process_completions: the generation token sends each response to the client
\* that asked, however descriptor numbers are reused.
THEOREM RepliesReachRequesters == Spec => []RepliesGoToRequester
<1>1. IInv => RepliesGoToRequester
  BY DEF IInv, ConnectionsSound, Sound, Fit, RepliesGoToRequester
<1> QED BY <1>1, Invariance, PTL

\* outstanding_tasks, which should_stop waits for, counts what is under way.
THEOREM OutstandingExact == Spec => []OutstandingIsExact
<1>1. IInv => OutstandingIsExact
  BY DEF IInv
<1> QED BY <1>1, Invariance, PTL

\* The open_connections gauge that all workers share counts their connections.
THEOREM GaugeExact == Spec => []GaugeIsExact
<1>1. IInv => GaugeIsExact
  BY DEF IInv
<1> QED BY <1>1, Invariance, PTL

\* The eventfd protocol between the pool and the loop loses no wake-up.
THEOREM CompletionsNoticed == Spec => []NoLostCompletion
BY WaitingIsNoticed, Invariance, PTL

\* A loop ends only when nothing of its worker is left.
THEOREM ExitIsClean == Spec => []ExitLeavesNothing
<1>1. IInv => ExitLeavesNothing
  BY FactsHold, ExitedIsClean
<1> QED BY <1>1, Invariance, PTL

\* When start() returns every descriptor is closed and the pool is empty, in
\* spite of the number that the drain may close twice.
THEOREM ReturnIsClean == Spec => []ReturnReleasesAll
BY ReturnedIsClean, Invariance, PTL

\* A connection masked for its request is owed an answer.
THEOREM InFlightAnswered == Spec => []InFlightIsOwed
BY MaskedIsOwed, Invariance, PTL

\* Every registered connection waits for the events it needs.
THEOREM NeverStalled == Spec => []NoStalledConnection
<1>1. IInv => NoStalledConnection
  BY DEF IInv, ConnectionsSound, Armed, NoStalledConnection
<1> QED BY <1>1, Invariance, PTL

\* A connection exceeds its outbound limit only by the 503 responses of repeated
\* dispatches; one whose request was dispatched once keeps within the limit.
THEOREM OvershootBounded == Spec => []OutboundOvershoot
BY OvershootIsBounded, Invariance, PTL
=============================================================================
