------------------------ MODULE GatewayCountsProofs ------------------------
(***************************************************************************)
(* The counts of the gateway, for every number of requests, workers and    *)
(* threads: a request is counted where it is, and a text of GET /metrics   *)
(* agrees with itself.                                                     *)
(***************************************************************************)
EXTENDS GatewayPathProofs

\* A leaf is for Zenon unless it names SMT.
USE Zenon

-----------------------------------------------------------------------------
(* Sums over a finite set.                                                 *)

\* The element that a sum over s takes next.
Pick(s) == CHOOSE x \in s : TRUE

\* Induction over the subsets of a finite set, in the order of a sum.
LEMMA SubsetInduction ==
  ASSUME FiniteSetFacts, NEW S, IsFiniteSet(S), NEW T, {} \in T,
         \A s \in SUBSET S : s # {} /\ s \ {Pick(s)} \in T => s \in T
  PROVE  \A s \in SUBSET S : s \in T
<1> DEFINE N == {n \in Nat : \A s \in SUBSET S : Cardinality(s) = n => s \in T}
<1>0. \A s \in SUBSET S : IsFiniteSet(s) /\ Cardinality(s) \in Nat
  BY DEF FiniteSetFacts, FiniteSubsets, CardinalityIsNat
<1>1. 0 \in N
  <2>1. ASSUME NEW s \in SUBSET S, Cardinality(s) = 0 PROVE s \in T
    <3>1. IsFiniteSet(s)
      BY <1>0
    <3>2. s = {}
      BY <2>1, <3>1 DEF FiniteSetFacts, EmptyCounts
    <3> QED BY <3>2
  <2>2. 0 \in Nat
    BY SMT
  <2> QED BY <2>1, <2>2
<1>2. ASSUME NEW n \in Nat, n \in N PROVE n + 1 \in N
  <2>1. ASSUME NEW s \in SUBSET S, Cardinality(s) = n + 1 PROVE s \in T
    <3>1. s # {}
      <4>1. n + 1 # 0
        BY SMT
      <4> QED BY <2>1, <4>1 DEF FiniteSetFacts, EmptyCounts
    <3>2. Pick(s) \in s
      BY <3>1 DEF Pick
    <3>3. Cardinality(s \ {Pick(s)}) = Cardinality(s) - 1
      BY <1>0, <3>2 DEF FiniteSetFacts, ElementRemoved
    <3>4. Cardinality(s \ {Pick(s)}) = n
      BY <2>1, <3>3, SMT
    <3>5. s \ {Pick(s)} \in T
      BY <1>2, <3>4
    <3> QED BY <3>1, <3>5
  <2>2. n + 1 \in Nat
    BY SMT
  <2> QED BY <2>1, <2>2
<1>3. \A n \in Nat : n \in N
  <2> HIDE DEF N
  <2> QED BY <1>1, <1>2 DEF FiniteSetFacts, NaturalInduction
<1> QED BY <1>0, <1>3

\* F sums f over the subsets of S, one element at a time.
Accumulates(F, f, S) ==
  F = [s \in SUBSET S |-> IF s = {} THEN 0 ELSE f[Pick(s)] + F[s \ {Pick(s)}]]

\* The recursive definition of a sum has a solution.
LEMMA AccumulatorExists ==
  ASSUME FiniteSetFacts, NEW S, IsFiniteSet(S), NEW f
  PROVE  \E F : Accumulates(F, f, S)
<1> DEFINE Upto(n) == {s \in SUBSET S : Cardinality(s) <= n}
           Partial(n, F) == F = [s \in Upto(n) |-> IF s = {} THEN 0 ELSE f[Pick(s)] + F[s \ {Pick(s)}]]
           N == {n \in Nat : \E F : Partial(n, F)}
<1>0. \A s \in SUBSET S : IsFiniteSet(s) /\ Cardinality(s) \in Nat /\ Cardinality(s) <= Cardinality(S)
  BY DEF FiniteSetFacts, FiniteSubsets, CardinalityIsNat
<1>1. 0 \in N
  <2> DEFINE F == [s \in Upto(0) |-> 0]
  <2>1. ASSUME NEW s \in Upto(0) PROVE s = {}
    <3>1. Cardinality(s) = 0
      BY <1>0, SMT
    <3> QED BY <1>0, <3>1 DEF FiniteSetFacts, EmptyCounts
  <2>2. Partial(0, F)
    BY <2>1
  <2>3. 0 \in Nat
    BY SMT
  <2> HIDE DEF Partial, F
  <2> QED BY <2>2, <2>3
<1>2. ASSUME NEW n \in Nat, n \in N PROVE n + 1 \in N
  <2>1. PICK F : Partial(n, F)
    BY <1>2
  <2> DEFINE G == [s \in Upto(n + 1) |-> IF s = {} THEN 0 ELSE f[Pick(s)] + F[s \ {Pick(s)}]]
  <2>2. ASSUME NEW s \in Upto(n) PROVE s \in Upto(n + 1) /\ G[s] = F[s]
    <3>1. s \in Upto(n + 1)
      BY <1>0, SMT
    <3>2. F[s] = IF s = {} THEN 0 ELSE f[Pick(s)] + F[s \ {Pick(s)}]
      BY <2>1
    <3> QED BY <3>1, <3>2
  <2>3. ASSUME NEW s \in Upto(n + 1), s # {} PROVE s \ {Pick(s)} \in Upto(n)
    <3>1. Pick(s) \in s
      BY <2>3 DEF Pick
    <3>2. Cardinality(s \ {Pick(s)}) = Cardinality(s) - 1
      BY <1>0, <3>1 DEF FiniteSetFacts, ElementRemoved
    <3>3. Cardinality(s \ {Pick(s)}) <= n
      BY <1>0, <3>2, SMT
    <3> QED BY <3>3
  <2>4. Partial(n + 1, G)
    <3>1. ASSUME NEW s \in Upto(n + 1)
          PROVE  G[s] = IF s = {} THEN 0 ELSE f[Pick(s)] + G[s \ {Pick(s)}]
      <4>1. CASE s = {}
        BY <4>1
      <4>2. CASE s # {}
        <5>1. G[s \ {Pick(s)}] = F[s \ {Pick(s)}]
          BY <2>2, <2>3, <4>2
        <5>2. G[s] = f[Pick(s)] + F[s \ {Pick(s)}]
          BY <4>2
        <5> HIDE DEF G
        <5> QED BY <4>2, <5>1, <5>2
      <4> QED BY <4>1, <4>2
    <3> QED BY <3>1
  <2>5. n + 1 \in Nat
    BY SMT
  <2> HIDE DEF Partial, G
  <2> QED BY <2>4, <2>5
<1>3. Cardinality(S) \in N
  <2>1. \A n \in Nat : n \in N
    <3> HIDE DEF N
    <3> QED BY <1>1, <1>2 DEF FiniteSetFacts, NaturalInduction
  <2> HIDE DEF N
  <2> QED BY <2>1 DEF FiniteSetFacts, CardinalityIsNat
<1>4. PICK F : Partial(Cardinality(S), F)
  BY <1>3
<1>5. Upto(Cardinality(S)) = SUBSET S
  BY <1>0
<1>6. Accumulates(F, f, S)
  BY <1>4, <1>5 DEF Accumulates
<1> QED BY <1>6

\* SumFunction is such a solution.
LEMMA SumAccumulates ==
  ASSUME FiniteSetFacts, NEW S, IsFiniteSet(S), NEW f, DOMAIN f = S
  PROVE  \E F : Accumulates(F, f, S) /\ SumFunction(f) = F[S]
<1> DEFINE C == CHOOSE F : Accumulates(F, f, S)
<1>1. Accumulates(C, f, S)
  BY AccumulatorExists
<1>2. SumFunction(f) = C[S]
  BY DEF SumFunction, SumFunctionOnSet, FoldFunctionOnSet, MapThenFoldSet, Accumulates, Pick
<1> QED BY <1>1, <1>2

\* A sum of naturals is one.
LEMMA SumType ==
  ASSUME FiniteSetFacts, NEW S, IsFiniteSet(S), NEW f \in [S -> Nat]
  PROVE  SumFunction(f) \in Nat
<1>1. PICK F : Accumulates(F, f, S) /\ SumFunction(f) = F[S]
  BY SumAccumulates
<1> DEFINE T == {s \in SUBSET S : F[s] \in Nat}
<1>2. \A s \in SUBSET S : F[s] = IF s = {} THEN 0 ELSE f[Pick(s)] + F[s \ {Pick(s)}]
  BY <1>1 DEF Accumulates
<1>3. {} \in T
  <2>1. F[{}] = 0
    BY <1>2
  <2> QED BY <2>1, SMT
<1>4. ASSUME NEW s \in SUBSET S, s # {}, s \ {Pick(s)} \in T PROVE s \in T
  <2>1. Pick(s) \in s
    BY <1>4 DEF Pick
  <2>2. f[Pick(s)] \in Nat /\ F[s \ {Pick(s)}] \in Nat
    BY <1>4, <2>1
  <2>3. f[Pick(s)] + F[s \ {Pick(s)}] \in Nat
    BY <2>2, SMT
  <2>4. F[s] = f[Pick(s)] + F[s \ {Pick(s)}]
    BY <1>2, <1>4
  <2> QED BY <2>3, <2>4
<1>5. \A s \in SUBSET S : s \in T
  <2> HIDE DEF T
  <2> QED BY <1>3, <1>4, SubsetInduction
<1> QED BY <1>1, <1>5

\* A sum changes by as much as its one summand that changes.
LEMMA SumChange ==
  ASSUME FiniteSetFacts, NEW S, IsFiniteSet(S), NEW f \in [S -> Nat], NEW g \in [S -> Nat], NEW w \in S,
         \A v \in S : v # w => g[v] = f[v]
  PROVE  SumFunction(g) + f[w] = SumFunction(f) + g[w]
<1>1. PICK F : Accumulates(F, f, S) /\ SumFunction(f) = F[S]
  BY SumAccumulates
<1>2. PICK G : Accumulates(G, g, S) /\ SumFunction(g) = G[S]
  BY SumAccumulates
<1> DEFINE Agree(s) ==
      /\ F[s] \in Nat /\ G[s] \in Nat
      /\ w \notin s => G[s] = F[s]
      /\ w \in s => G[s] + f[w] = F[s] + g[w]
    T == {s \in SUBSET S : Agree(s)}
<1>3. \A s \in SUBSET S :
        /\ F[s] = IF s = {} THEN 0 ELSE f[Pick(s)] + F[s \ {Pick(s)}]
        /\ G[s] = IF s = {} THEN 0 ELSE g[Pick(s)] + G[s \ {Pick(s)}]
  BY <1>1, <1>2 DEF Accumulates
<1>4. {} \in T
  <2>1. F[{}] = 0 /\ G[{}] = 0
    BY <1>3
  <2> QED BY <2>1, SMT
<1>5. ASSUME NEW s \in SUBSET S, s # {}, s \ {Pick(s)} \in T PROVE s \in T
  <2> DEFINE x == Pick(s)
             r == s \ {x}
  <2>1. x \in s /\ x \in S
    BY <1>5 DEF Pick
  <2>2. f[x] \in Nat /\ g[x] \in Nat /\ f[w] \in Nat /\ g[w] \in Nat /\ (x # w => g[x] = f[x])
    BY <2>1
  <2>3. F[s] = f[x] + F[r] /\ G[s] = g[x] + G[r]
    BY <1>3, <1>5
  <2>4. /\ F[r] \in Nat /\ G[r] \in Nat
        /\ w \notin r => G[r] = F[r]
        /\ w \in r => G[r] + f[w] = F[r] + g[w]
    BY <1>5
  <2>5. w \in s => (x = w /\ w \notin r) \/ (x # w /\ w \in r)
    OBVIOUS
  <2>6. w \notin s => x # w /\ w \notin r
    BY <2>1
  <2> HIDE DEF x, r
  <2>7. F[s] \in Nat /\ G[s] \in Nat
    BY <2>2, <2>3, <2>4, SMT
  <2>8. w \notin s => G[s] = F[s]
    BY <2>2, <2>3, <2>4, <2>6
  <2>9. w \in s => G[s] + f[w] = F[s] + g[w]
    BY <2>2, <2>3, <2>4, <2>5, SMT
  <2> QED BY <2>7, <2>8, <2>9
<1>6. \A s \in SUBSET S : s \in T
  <2> HIDE DEF T
  <2> QED BY <1>4, <1>5, SubsetInduction
<1> QED BY <1>1, <1>2, <1>6

\* A sum of zeros is zero.
LEMMA SumOfZeros ==
  ASSUME FiniteSetFacts, NEW S, IsFiniteSet(S), NEW f, f = [s \in S |-> 0]
  PROVE  SumFunction(f) = 0
<1>1. PICK F : Accumulates(F, f, S) /\ SumFunction(f) = F[S]
  BY SumAccumulates
<1> DEFINE T == {s \in SUBSET S : F[s] = 0}
<1>2. \A s \in SUBSET S : F[s] = IF s = {} THEN 0 ELSE f[Pick(s)] + F[s \ {Pick(s)}]
  BY <1>1 DEF Accumulates
<1>3. {} \in T
  BY <1>2
<1>4. ASSUME NEW s \in SUBSET S, s # {}, s \ {Pick(s)} \in T PROVE s \in T
  <2>1. f[Pick(s)] = 0
    BY <1>4 DEF Pick
  <2>2. F[s] = f[Pick(s)] + F[s \ {Pick(s)}]
    BY <1>2, <1>4
  <2>3. 0 + 0 = 0
    BY SMT
  <2>4. F[s] = 0
    BY <1>4, <2>1, <2>2, <2>3
  <2> QED BY <2>4
<1>5. \A s \in SUBSET S : s \in T
  <2> HIDE DEF T
  <2> QED BY <1>3, <1>4, SubsetInduction
<1> QED BY <1>1, <1>5

\* The sum of two functions added.
LEMMA SumAdds ==
  ASSUME FiniteSetFacts, NEW S, IsFiniteSet(S), NEW f \in [S -> Nat], NEW g \in [S -> Nat],
         NEW h, h = [s \in S |-> f[s] + g[s]]
  PROVE  SumFunction(h) = SumFunction(f) + SumFunction(g)
<1>1. PICK F : Accumulates(F, f, S) /\ SumFunction(f) = F[S]
  BY SumAccumulates
<1>2. PICK G : Accumulates(G, g, S) /\ SumFunction(g) = G[S]
  BY SumAccumulates
<1>3. PICK H : Accumulates(H, h, S) /\ SumFunction(h) = H[S]
  BY SumAccumulates
<1> DEFINE T == {s \in SUBSET S : F[s] \in Nat /\ G[s] \in Nat /\ H[s] = F[s] + G[s]}
<1>4. \A s \in SUBSET S :
        /\ F[s] = IF s = {} THEN 0 ELSE f[Pick(s)] + F[s \ {Pick(s)}]
        /\ G[s] = IF s = {} THEN 0 ELSE g[Pick(s)] + G[s \ {Pick(s)}]
        /\ H[s] = IF s = {} THEN 0 ELSE h[Pick(s)] + H[s \ {Pick(s)}]
  BY <1>1, <1>2, <1>3 DEF Accumulates
<1>5. {} \in T
  <2>1. F[{}] = 0 /\ G[{}] = 0 /\ H[{}] = 0
    BY <1>4
  <2> QED BY <2>1, SMT
<1>6. ASSUME NEW s \in SUBSET S, s # {}, s \ {Pick(s)} \in T PROVE s \in T
  <2> DEFINE x == Pick(s)
             r == s \ {x}
  <2>1. x \in s /\ x \in S
    BY <1>6 DEF Pick
  <2>2. f[x] \in Nat /\ g[x] \in Nat /\ h[x] = f[x] + g[x]
    BY <2>1
  <2>3. F[s] = f[x] + F[r] /\ G[s] = g[x] + G[r] /\ H[s] = h[x] + H[r]
    BY <1>4, <1>6
  <2>4. F[r] \in Nat /\ G[r] \in Nat /\ H[r] = F[r] + G[r]
    BY <1>6
  <2> HIDE DEF x, r
  <2>5. F[s] \in Nat /\ G[s] \in Nat /\ H[s] = F[s] + G[s]
    BY <2>2, <2>3, <2>4, SMT
  <2> QED BY <2>5
<1>7. \A s \in SUBSET S : s \in T
  <2> HIDE DEF T
  <2> QED BY <1>5, <1>6, SubsetInduction
<1> QED BY <1>1, <1>2, <1>3, <1>7
-----------------------------------------------------------------------------
(* Every request is counted where it is.                                   *)

Codes == {200, 201, 400, 404, 429, 500, 503}
Counters ==
  [requests : Nat, completed : Nat, blocked : Nat, parse_errors : Nat, classes : [StatusClasses -> Nat]]

CountTypes ==
  /\ completions \in [Workers -> Seq(Requests)] /\ taken \in [Workers -> Seq(Requests)]
  /\ counters \in [Workers -> Counters]
  /\ poolSync \in [Workers -> Nat] /\ observed \in [Workers -> Nat] /\ durationSync \in [Workers -> Nat]
  /\ depth \in [Workers -> Nat] /\ high_water \in [Workers -> Nat]
  /\ busy_threads \in Int

\* A request that was submitted is under way or was answered; before that its
\* worker alone has it.
Within(s, r) == \E i \in DOMAIN s : s[i] = r
Returned(r) == \E w \in Workers : Within(completions[w], r) \/ Within(taken[w], r)
Held(r) ==
  \/ \E i \in DOMAIN tasks : tasks[i].request = r
  \/ \E t \in Threads : job[t] # Idle /\ job[t].request = r
  \/ Returned(r)
Replied(r) == Returned(r) \/ \E t \in Threads : job[t].at \in {"push", "leave"} /\ job[t].request = r
Submits(w, r) == worker[w].at = "submit" /\ worker[w].request = r
Kept(r) == progress[r] \in {"pending", "delivered"}
Submitted ==
  /\ \A w \in Workers : \A r \in Requests : Submits(w, r) => progress[r] = "pending" /\ ~Held(r)
  /\ \A r \in Requests : Held(r) => Kept(r)
  /\ \A r \in Requests : Replied(r) => answers[r].status \in Codes

\* What one worker has counted.
Pending(w) == IF worker[w].at = "submit" THEN 1 ELSE 0
Observing(w) == IF worker[w].at = "observe" THEN 1 ELSE 0
Local(w) ==
  /\ poolSync[w] + Pending(w) <= counters[w].requests
  /\ durationSync[w] = observed[w] /\ observed[w] + Observing(w) = counters[w].completed
  /\ counters[w].completed = SumFunction(counters[w].classes)
  /\ depth[w] = Len(completions[w]) /\ high_water[w] >= depth[w]
  /\ worker[w].at \in {"poll", "submit"} => taken[w] = <<>>
  /\ worker[w].at = "completions" => taken[w] # <<>>

\* Where the requests are that were started: with their workers, in the pool,
\* or lost with their connections.
Asked == [w \in Workers |-> counters[w].requests]
Own == [w \in Workers |-> counters[w].completed + Len(completions[w]) + Len(taken[w]) + Pending(w)]
Working == {t \in Threads : job[t].at \notin {"idle", "leave"}}
Dropped == {r \in Requests : progress[r] = "dropped"}
Flow ==
  /\ IsFiniteSet(Dropped)
  /\ SumFunction(Asked) = SumFunction(Own) + Len(tasks) + Cardinality(Working) + Cardinality(Dropped)

\* What the lock of the pool has made visible covers what the pool holds.
PoolVisible == busy_threads + Len(tasks) <= SumFunction(poolSync)

\* A text that is being assembled is consistent so far.
Scraped(s) ==
  \/ s = NoScrape
  \/ s \in [step : {"totals"}, in_pool : Int, visible : Nat] /\ s.in_pool <= s.visible
  \/ s \in [step : {"histogram"}, in_pool : Int, requests : Nat] /\ s.in_pool <= s.requests
  \/ /\ s \in [step : {"workers"}, in_pool : Int, requests : Nat, observed : Nat, visible : Nat]
     /\ s.in_pool <= s.requests /\ s.observed <= s.visible
  \/ /\ s \in [step : {"done"}, in_pool : Int, requests : Nat, observed : Nat, completed : Nat]
     /\ s.in_pool <= s.requests /\ s.observed <= s.completed
Scrapes == scrapes = [t \in Threads |-> scrapes[t]] /\ \A t \in Threads : Scraped(scrapes[t])

CInv ==
  /\ Places /\ CountTypes /\ Submitted /\ (\A w \in Workers : Local(w))
  /\ Flow /\ PoolVisible /\ Scrapes

\* A step that leaves worker v and what it counts alone.
Untouched(v) ==
  /\ worker'[v] = worker[v] /\ completions'[v] = completions[v] /\ taken'[v] = taken[v]
  /\ counters'[v] = counters[v] /\ poolSync'[v] = poolSync[v] /\ observed'[v] = observed[v]
  /\ durationSync'[v] = durationSync[v] /\ depth'[v] = depth[v] /\ high_water'[v] = high_water[v]

\* What such a step keeps.
LEMMA UntouchedKept ==
  ASSUME NEW v \in Workers, Untouched(v)
  PROVE  /\ Local(v) => Local(v)'
         /\ Own'[v] = Own[v] /\ Asked'[v] = Asked[v]
<1>1. Pending(v)' = Pending(v) /\ Observing(v)' = Observing(v)
  BY DEF Untouched, Pending, Observing
<1>2. Local(v) => Local(v)'
  BY <1>1 DEF Untouched, Local
<1>3. Own'[v] = Own[v] /\ Asked'[v] = Asked[v]
  BY <1>1 DEF Untouched, Own, Asked
<1> QED BY <1>2, <1>3

\* Sums of naturals.
LEMMA NatSum == ASSUME NEW a \in Nat, NEW b \in Nat, NEW c \in Nat, NEW d \in Nat PROVE a + b + c + d \in Nat
BY SMT

\* What a worker counts are naturals.
Numbers ==
  /\ Own \in [Workers -> Nat] /\ Asked \in [Workers -> Nat]
  /\ SumFunction(Own) \in Nat /\ SumFunction(Asked) \in Nat /\ SumFunction(poolSync) \in Nat
LEMMA NumbersOf == FiniteSetFacts /\ CountTypes => Numbers
<1> SUFFICES ASSUME FiniteSetFacts, CountTypes PROVE Numbers
  OBVIOUS
<1>1. ASSUME NEW w \in Workers
      PROVE  /\ counters[w].completed + Len(completions[w]) + Len(taken[w]) + Pending(w) \in Nat
             /\ counters[w].requests \in Nat
  <2>1. completions[w] \in Seq(Requests) /\ taken[w] \in Seq(Requests) /\ counters[w] \in Counters
    BY DEF CountTypes
  <2>2. Len(completions[w]) \in Nat /\ Len(taken[w]) \in Nat
    BY <2>1, SMT
  <2>3. counters[w].completed \in Nat /\ counters[w].requests \in Nat
    BY <2>1 DEF Counters
  <2>4. Pending(w) \in Nat
    BY SMT DEF Pending
  <2> QED BY <2>2, <2>3, <2>4, NatSum
<1>2. Own \in [Workers -> Nat] /\ Asked \in [Workers -> Nat]
  BY <1>1 DEF Own, Asked
<1>3. poolSync \in [Workers -> Nat]
  BY DEF CountTypes
<1> QED BY <1>2, <1>3, SumType, GatewayAssumption DEF Numbers

\* A step of worker w alone, or for it, that loses sight of no request.
Moved(w) ==
  /\ \A v \in Workers : v # w => Untouched(v)
  /\ Asked'[w] + Own[w] + Len(tasks) + Cardinality(Working) + Cardinality(Dropped)
       = Own'[w] + Asked[w] + Len(tasks') + Cardinality(Working') + Cardinality(Dropped')

\* A request that moves on stays counted.
LEMMA FlowKept ==
  ASSUME FiniteSetFacts, CountTypes, CountTypes', Types, Types', Flow, IsFiniteSet(Dropped'),
         NEW w \in Workers, Moved(w)
  PROVE  Flow'
<1>1. /\ Own \in [Workers -> Nat] /\ Asked \in [Workers -> Nat]
      /\ SumFunction(Own) \in Nat /\ SumFunction(Asked) \in Nat
  BY NumbersOf DEF Numbers
<1>2. /\ Own' \in [Workers -> Nat] /\ Asked' \in [Workers -> Nat]
      /\ SumFunction(Own') \in Nat /\ SumFunction(Asked') \in Nat
  <2>1. Numbers'
    BY NumbersOf, PTL
  <2> QED BY <2>1 DEF Numbers
<1>3. (\A v \in Workers : v # w => Own'[v] = Own[v]) /\ (\A v \in Workers : v # w => Asked'[v] = Asked[v])
  BY UntouchedKept DEF Moved
<1> IsFiniteSet(Workers)
  BY GatewayAssumption
<1>7. Len(tasks) \in Nat /\ Len(tasks') \in Nat
  BY SMT DEF Types
<1>8. /\ Cardinality(Working) \in Nat /\ Cardinality(Working') \in Nat
      /\ Cardinality(Dropped) \in Nat /\ Cardinality(Dropped') \in Nat
  <2>1. Working \subseteq Threads /\ Working' \subseteq Threads
    BY DEF Working
  <2> QED BY <2>1, GatewayAssumption DEF FiniteSetFacts, FiniteSubsets, CardinalityIsNat, Flow
<1>9. SumFunction(Asked') = SumFunction(Own') + Len(tasks') + Cardinality(Working') + Cardinality(Dropped')
  <2>f. PICK f, f1 : f = Asked /\ f1 = Asked'
    OBVIOUS
  <2>g. PICK g, g1 : g = Own /\ g1 = Own'
    OBVIOUS
  <2>l. PICK l, l1 : l = Len(tasks) /\ l1 = Len(tasks')
    OBVIOUS
  <2>b. PICK b, b1 : b = Cardinality(Working) /\ b1 = Cardinality(Working')
    OBVIOUS
  <2>d. PICK d, d1 : d = Cardinality(Dropped) /\ d1 = Cardinality(Dropped')
    OBVIOUS
  <2>1. f \in [Workers -> Nat] /\ g \in [Workers -> Nat] /\ f1 \in [Workers -> Nat] /\ g1 \in [Workers -> Nat]
    BY <1>1, <1>2, <2>f, <2>g
  <2>2. l \in Nat /\ b \in Nat /\ d \in Nat /\ l1 \in Nat /\ b1 \in Nat /\ d1 \in Nat
    BY <1>7, <1>8, <2>l, <2>b, <2>d
  <2>3. SumFunction(f) = SumFunction(g) + l + b + d
    BY <2>f, <2>g, <2>l, <2>b, <2>d DEF Flow
  <2>4. f1[w] + g[w] + l + b + d = g1[w] + f[w] + l1 + b1 + d1
    BY <2>f, <2>g, <2>l, <2>b, <2>d DEF Moved
  <2>5. (\A v \in Workers : v # w => f1[v] = f[v]) /\ (\A v \in Workers : v # w => g1[v] = g[v])
    BY <1>3, <2>f, <2>g
  <2>6. SumFunction(f1) = SumFunction(g1) + l1 + b1 + d1
    <3>1. SumFunction(f1) + f[w] = SumFunction(f) + f1[w]
      BY <2>1, <2>5, SumChange, SMT
    <3>2. SumFunction(g1) + g[w] = SumFunction(g) + g1[w]
      BY <2>1, <2>5, SumChange, SMT
    <3>3. SumFunction(f) \in Nat /\ SumFunction(f1) \in Nat /\ SumFunction(g) \in Nat /\ SumFunction(g1) \in Nat
      BY <2>1, SumType
    <3>4. f[w] \in Nat /\ f1[w] \in Nat /\ g[w] \in Nat /\ g1[w] \in Nat
      BY <2>1
    <3>5. PICK A \in Nat, A1 \in Nat : A = SumFunction(f) /\ A1 = SumFunction(f1)
      BY <3>3
    <3>6. PICK O \in Nat, O1 \in Nat : O = SumFunction(g) /\ O1 = SumFunction(g1)
      BY <3>3
    <3>7. PICK a \in Nat, a1 \in Nat : a = f[w] /\ a1 = f1[w]
      BY <3>4
    <3>8. PICK o \in Nat, o1 \in Nat : o = g[w] /\ o1 = g1[w]
      BY <3>4
    <3>9. A = O + l + b + d /\ A1 + a = A + a1 /\ O1 + o = O + o1 /\ a1 + o + l + b + d = o1 + a + l1 + b1 + d1
      BY <2>3, <2>4, <3>1, <3>2, <3>5, <3>6, <3>7, <3>8
    <3>10. A1 = O1 + l1 + b1 + d1
      BY <2>2, <3>9, SMT
    <3> QED BY <3>10, <3>5, <3>6
  <2> QED BY <2>6, <2>f, <2>g, <2>l, <2>b, <2>d
<1> QED BY <1>9 DEF Flow

\* A counter of one worker goes up and the others stay.
LEMMA CountedRequest ==
  ASSUME counters \in [Workers -> Counters], NEW w \in Workers, NEW next,
         next = RequestStarted(w) \/ next = ParseError(w)
  PROVE  /\ next \in [Workers -> Counters] /\ \A v \in Workers : v # w => next[v] = counters[v]
         /\ next[w].completed = counters[w].completed /\ next[w].classes = counters[w].classes
         /\ next = RequestStarted(w) => next[w].requests = counters[w].requests + 1
         /\ next = ParseError(w) => next[w].requests = counters[w].requests
<1> DEFINE c == counters[w]
<1>1. c \in Counters
  OBVIOUS
<1>2. CASE next = RequestStarted(w)
  <2>1. next[w] = [c EXCEPT !.requests = @ + 1] /\ \A v \in Workers : v # w => next[v] = counters[v]
    BY <1>2 DEF RequestStarted
  <2>2. next[w] \in Counters
    BY <1>1, <2>1, SMT DEF Counters
  <2>3. next \in [Workers -> Counters]
    BY <1>2, <2>2 DEF RequestStarted
  <2>4. next[w].requests = c.requests + 1 /\ next[w].completed = c.completed /\ next[w].classes = c.classes
    BY <1>1, <2>1 DEF Counters
  <2>5. next = ParseError(w) => next[w].requests = c.requests
    BY <1>1, SMT DEF ParseError, Counters
  <2> QED BY <1>2, <2>1, <2>3, <2>4, <2>5
<1>3. CASE next = ParseError(w)
  <2>1. next[w] = [c EXCEPT !.parse_errors = @ + 1] /\ \A v \in Workers : v # w => next[v] = counters[v]
    BY <1>3 DEF ParseError
  <2>2. next[w] \in Counters
    BY <1>1, <2>1, SMT DEF Counters
  <2>3. next \in [Workers -> Counters]
    BY <1>3, <2>2 DEF ParseError
  <2>4. next[w].requests = c.requests /\ next[w].completed = c.completed /\ next[w].classes = c.classes
    BY <1>1, <2>1 DEF Counters
  <2>5. next = RequestStarted(w) => next[w].requests = c.requests + 1
    BY <1>1, SMT DEF RequestStarted, Counters
  <2> QED BY <1>3, <2>1, <2>3, <2>4, <2>5
<1> QED BY <1>2, <1>3

\* A response that is counted is counted once more as completed and in one class.
LEMMA CountedResponse ==
  ASSUME FiniteSetFacts, counters \in [Workers -> Counters], NEW w \in Workers, NEW status \in Codes,
         NEW next, next = RequestCompleted(w, status)
  PROVE  /\ next \in [Workers -> Counters] /\ \A v \in Workers : v # w => next[v] = counters[v]
         /\ next[w].requests = counters[w].requests /\ next[w].completed = counters[w].completed + 1
         /\ SumFunction(next[w].classes) = SumFunction(counters[w].classes) + 1
<1> DEFINE c == counters[w]
           n == status \div 100
<1>1. c \in Counters
  OBVIOUS
<1>2. n \in StatusClasses
  BY SMT DEF Codes, StatusClasses
<1> HIDE DEF n
<1>3. /\ next[w] = [c EXCEPT !.completed = @ + 1, !.classes[n] = @ + 1,
                             !.blocked = IF status = 429 THEN @ + 1 ELSE @]
      /\ \A v \in Workers : v # w => next[v] = counters[v]
  BY DEF RequestCompleted, n
<1> HIDE DEF c
<1>4. /\ c.classes \in [StatusClasses -> Nat] /\ c.completed \in Nat /\ c.requests \in Nat /\ c.blocked \in Nat
      /\ c.parse_errors \in Nat
  BY <1>1 DEF Counters
<1>5. /\ next[w].requests = c.requests /\ next[w].completed = c.completed + 1
      /\ next[w].classes = [c.classes EXCEPT ![n] = @ + 1]
  BY <1>1, <1>3, SMT DEF Counters
<1>6. /\ [c.classes EXCEPT ![n] = @ + 1] \in [StatusClasses -> Nat]
      /\ [c.classes EXCEPT ![n] = @ + 1][n] = c.classes[n] + 1
      /\ \A m \in StatusClasses : m # n => [c.classes EXCEPT ![n] = @ + 1][m] = c.classes[m]
  BY <1>2, <1>4, SMT
<1>7. next[w] \in Counters
  <2> DEFINE k == [c.classes EXCEPT ![n] = @ + 1]
             b == IF status = 429 THEN c.blocked + 1 ELSE c.blocked
  <2>1. k \in [StatusClasses -> Nat] /\ b \in Nat /\ c.completed + 1 \in Nat
    BY <1>4, <1>6, SMT
  <2>2. next[w] = [c EXCEPT !.completed = c.completed + 1, !.classes = k, !.blocked = b]
    BY <1>1, <1>3, SMT DEF Counters
  <2> HIDE DEF k, b
  <2> QED BY <1>1, <2>1, <2>2 DEF Counters
<1>8. next \in [Workers -> Counters]
  BY <1>7 DEF RequestCompleted
<1>9. SumFunction(next[w].classes) = SumFunction(c.classes) + 1
  <2> DEFINE f == c.classes
             g == next[w].classes
  <2>1. f \in [StatusClasses -> Nat] /\ g \in [StatusClasses -> Nat] /\ g[n] = f[n] + 1
        /\ \A m \in StatusClasses : m # n => g[m] = f[m]
    BY <1>4, <1>5, <1>6
  <2>2. IsFiniteSet(StatusClasses)
    <3>1. 1 \in Int /\ 5 \in Int
      BY SMT
    <3> QED BY <3>1 DEF FiniteSetFacts, IntervalCounts, StatusClasses
  <2> HIDE DEF f, g
  <2>3. SumFunction(g) + f[n] = SumFunction(f) + g[n]
    BY <1>2, <2>1, <2>2, SumChange, SMT
  <2>4. SumFunction(f) \in Nat /\ SumFunction(g) \in Nat /\ f[n] \in Nat
    BY <1>2, <2>1, <2>2, SumType
  <2>5. SumFunction(g) = SumFunction(f) + 1
    BY <2>1, <2>3, <2>4, SMT
  <2> QED BY <2>5 DEF f, g
<1> QED BY <1>3, <1>5, <1>8, <1>9 DEF c

\* The counts of a worker and of the pool, as naturals.
Amount(w, a, x, l, b, d) ==
  /\ Asked[w] = a /\ counters[w].completed + Len(completions[w]) + Len(taken[w]) = x
  /\ Len(tasks) = l /\ Cardinality(Working) = b /\ Cardinality(Dropped) = d
LEMMA Amounts ==
  ASSUME FiniteSetFacts, Types, CountTypes, IsFiniteSet(Dropped), NEW w \in Workers
  PROVE  \E a, x, l, b, d \in Nat : Amount(w, a, x, l, b, d)
<1>1. Asked[w] \in Nat
  BY NumbersOf DEF Numbers
<1>2. counters[w].completed + Len(completions[w]) + Len(taken[w]) \in Nat
  <2>1. completions[w] \in Seq(Requests) /\ taken[w] \in Seq(Requests) /\ counters[w] \in Counters
    BY DEF CountTypes
  <2>2. Len(completions[w]) \in Nat /\ Len(taken[w]) \in Nat
    BY <2>1, SMT
  <2>3. counters[w].completed \in Nat
    BY <2>1 DEF Counters
  <2>4. \A i, j, k \in Nat : i + j + k \in Nat
    BY SMT
  <2> QED BY <2>2, <2>3, <2>4
<1>3. Len(tasks) \in Nat
  BY SMT DEF Types
<1>4. Cardinality(Working) \in Nat /\ Cardinality(Dropped) \in Nat
  <2>1. Working \subseteq Threads
    BY DEF Working
  <2> QED BY <2>1, GatewayAssumption DEF FiniteSetFacts, FiniteSubsets, CardinalityIsNat
<1> QED BY <1>1, <1>2, <1>3, <1>4 DEF Amount

asideVars ==
  <<progress, worker, completions, taken, counters, poolSync, observed, durationSync, depth, high_water>>
\* The pool passes requests on, and no more than it had.
Carried ==
  /\ Len(tasks') + Cardinality(Working') = Len(tasks) + Cardinality(Working)
  /\ busy_threads' \in Int /\ busy_threads' + Len(tasks') <= busy_threads + Len(tasks)

\* A step of the pool, of main or of the clock counts nothing.
LEMMA AsideKept ==
  ASSUME FiniteSetFacts, CInv, UNCHANGED asideVars, Places', Submitted', Scrapes', Carried
  PROVE  CInv'
<1>0. Types /\ CountTypes /\ Flow /\ PoolVisible /\ Types'
  BY DEF CInv, Places
<1>1. CountTypes'
  BY <1>0 DEF CountTypes, asideVars, Carried
<1>2. ASSUME NEW v \in Workers PROVE Local(v)'
  <2>1. Untouched(v)
    BY DEF Untouched, asideVars
  <2> QED BY <2>1, UntouchedKept DEF CInv
<1>3. Own' = Own /\ Asked' = Asked /\ Dropped' = Dropped /\ poolSync' = poolSync
  BY DEF Own, Asked, Dropped, Pending, asideVars
<1>4. Numbers
  BY <1>0, NumbersOf
<1>5. Len(tasks) \in Nat /\ Len(tasks') \in Nat
  BY <1>0, SMT DEF Types
<1>6. Cardinality(Working) \in Nat /\ Cardinality(Working') \in Nat /\ Cardinality(Dropped) \in Nat
  <2>1. Working \subseteq Threads /\ Working' \subseteq Threads
    BY DEF Working
  <2> QED BY <1>0, <2>1, GatewayAssumption DEF FiniteSetFacts, FiniteSubsets, CardinalityIsNat, Flow
<1>7. Flow'
  <2>1. PICK O \in Nat, d \in Nat : O = SumFunction(Own) /\ d = Cardinality(Dropped)
    BY <1>4, <1>6 DEF Numbers
  <2>2. PICK l \in Nat, l1 \in Nat : l = Len(tasks) /\ l1 = Len(tasks')
    BY <1>5
  <2>3. PICK b \in Nat, b1 \in Nat : b = Cardinality(Working) /\ b1 = Cardinality(Working')
    BY <1>6
  <2>4. SumFunction(Asked) = O + l + b + d /\ l1 + b1 = l + b
    BY <1>0, <2>1, <2>2, <2>3 DEF Flow, Carried
  <2>5. O + l + b + d = O + l1 + b1 + d
    BY <2>4, SMT
  <2> QED BY <1>0, <1>3, <2>1, <2>2, <2>3, <2>4, <2>5 DEF Flow
<1>8. PoolVisible'
  <2>1. PICK s \in Nat, l \in Nat, l1 \in Nat : s = SumFunction(poolSync) /\ l = Len(tasks) /\ l1 = Len(tasks')
    BY <1>4, <1>5 DEF Numbers
  <2>2. PICK b \in Int, b1 \in Int : b = busy_threads /\ b1 = busy_threads'
    BY <1>0 DEF CountTypes, Carried
  <2>3. b + l <= s /\ b1 + l1 <= b + l
    BY <1>0, <2>1, <2>2 DEF PoolVisible, Carried
  <2>4. b1 + l1 <= s
    BY <2>3, SMT
  <2> QED BY <1>3, <2>1, <2>2, <2>4 DEF PoolVisible
<1> QED BY <1>1, <1>2, <1>7, <1>8 DEF CInv

\* A step of one worker, or for one, that counts what it does.
LEMMA WorkerKept ==
  ASSUME FiniteSetFacts, CInv, NEW w \in Workers, CountTypes', Places', Submitted', Local(w)', IsFiniteSet(Dropped'), Moved(w),
         PoolVisible', UNCHANGED scrapes
  PROVE  CInv'
<1>1. ASSUME NEW v \in Workers PROVE Local(v)'
  <2>1. v = w \/ Untouched(v)
    BY DEF Moved
  <2> QED BY <2>1, UntouchedKept DEF CInv
<1>2. Flow'
  BY FlowKept DEF CInv, Places
<1>3. Scrapes'
  BY DEF CInv, Scrapes
<1> QED BY <1>1, <1>2, <1>3 DEF CInv

\* What was held is held, and what was replied to is replied to.
LEMMA SubmittedKept ==
  ASSUME Types, Submitted, \A r \in Requests : Held(r)' => Held(r),
         \A v \in Workers : \A r \in Requests : Submits(v, r)' => Submits(v, r) /\ progress'[r] = progress[r],
         \A r \in Requests : Held(r) => progress'[r] = progress[r] \/ progress'[r] = "delivered",
         \A r \in Requests : Replied(r)' => Replied(r) \/ answers'[r].status \in Codes,
         \A r \in Requests : answers'[r] = answers[r] \/ answers'[r].status \in Codes
  PROVE  Submitted'
<1>1. \A v \in Workers : \A r \in Requests : Submits(v, r)' => progress'[r] = "pending" /\ ~Held(r)'
  BY DEF Submitted
<1>2. \A r \in Requests : Held(r)' => Kept(r)'
  BY DEF Submitted, Kept
<1>3. \A r \in Requests : Replied(r)' => answers'[r].status \in Codes
  BY DEF Submitted
<1> QED BY <1>1, <1>2, <1>3 DEF Submitted

-----------------------------------------------------------------------------
(* The steps of a worker.                                                  *)

\* What the invariant says of the types and of one worker.
LEMMA OfWorker ==
  ASSUME CInv, NEW w \in Workers
  PROVE  /\ Types /\ OnePlace /\ Underway /\ CountTypes /\ Submitted /\ Local(w) /\ Flow /\ IsFiniteSet(Dropped)
         /\ PoolVisible /\ counters \in [Workers -> Counters] /\ counters[w] \in Counters
         /\ counters[w].requests \in Nat /\ counters[w].completed \in Nat
         /\ poolSync[w] \in Nat /\ observed[w] \in Nat /\ durationSync[w] \in Nat
         /\ depth[w] \in Nat /\ high_water[w] \in Nat
         /\ completions[w] \in Seq(Requests) /\ taken[w] \in Seq(Requests)
<1>1. Types /\ OnePlace /\ Underway /\ CountTypes /\ Submitted /\ Local(w) /\ Flow /\ IsFiniteSet(Dropped) /\ PoolVisible
  BY DEF CInv, Places, Flow
<1>2. counters \in [Workers -> Counters]
  BY <1>1 DEF CountTypes
<1>3. counters[w] \in Counters
  BY <1>2
<1>4. counters[w].requests \in Nat /\ counters[w].completed \in Nat
  BY <1>3 DEF Counters
<1>5. /\ poolSync[w] \in Nat /\ observed[w] \in Nat /\ durationSync[w] \in Nat
      /\ depth[w] \in Nat /\ high_water[w] \in Nat
      /\ completions[w] \in Seq(Requests) /\ taken[w] \in Seq(Requests)
  BY <1>1 DEF CountTypes
<1> QED BY <1>1, <1>2, <1>3, <1>4, <1>5

\* What is within a sequence that was emptied, shortened or extended.
LEMMA WithinSequences ==
  ASSUME NEW s \in Seq(Requests), NEW r \in Requests, NEW q
  PROVE  /\ ~Within(<<>>, q)
         /\ s # <<>> => Within(s, Head(s)) /\ (Within(Tail(s), q) => Within(s, q))
         /\ Within(Append(s, r), q) => Within(s, q) \/ q = r
  BY SMT DEF Within

\* Requests stay held while no queue and no thread changes.
LEMMA HeldSame ==
  ASSUME UNCHANGED <<tasks, job, completions, taken>>
  PROVE  \A r : (Held(r)' <=> Held(r)) /\ (Replied(r)' <=> Replied(r))
  BY DEF Held, Returned, Replied

\* handle_client starts a request.
LEMMA StartRequestCounts ==
  ASSUME FiniteSetFacts, CInv, Places', NEW w \in Workers, NEW r \in Requests, StartRequest(w, r)
  PROVE  CInv'
<1>0. /\ Types /\ CountTypes /\ Submitted /\ Local(w) /\ Flow /\ IsFiniteSet(Dropped) /\ PoolVisible
      /\ counters \in [Workers -> Counters] /\ counters[w].requests \in Nat /\ poolSync[w] \in Nat
  BY OfWorker
<1>1. /\ worker[w] = Poll /\ progress[r] = "new"
      /\ progress' = [progress EXCEPT ![r] = "pending"] /\ counters' = RequestStarted(w)
      /\ worker' = [worker EXCEPT ![w] = [at |-> "submit", request |-> r]]
      /\ UNCHANGED <<completions, taken, answers, tasks, busy_threads, job, poolSync, observed, durationSync,
                     depth, high_water, scrapes>>
  BY DEF StartRequest, poolVars
<1>2. /\ counters' \in [Workers -> Counters] /\ \A v \in Workers : v # w => counters'[v] = counters[v]
      /\ counters'[w].completed = counters[w].completed /\ counters'[w].classes = counters[w].classes
      /\ counters'[w].requests = counters[w].requests + 1
  BY <1>0, <1>1, CountedRequest
<1>3. CountTypes'
  BY <1>0, <1>1, <1>2 DEF CountTypes
<1>4. worker'[w] = [at |-> "submit", request |-> r] /\ \A v \in Workers : v # w => worker'[v] = worker[v]
  BY <1>0, <1>1 DEF Types
<1>5. \A v \in Workers : v # w => Untouched(v)
  BY <1>1, <1>2, <1>4 DEF Untouched
<1>6. worker[w].at = "poll" /\ worker'[w].at = "submit" /\ worker'[w].request = r
  BY <1>1, <1>4, SMT DEF Poll
<1>7. Pending(w) = 0 /\ Observing(w) = 0 /\ Pending(w)' = 1 /\ Observing(w)' = 0
  BY <1>6, SMT DEF Pending, Observing
<1>8. Local(w)'
  <2>1. poolSync[w] + 1 <= counters[w].requests + 1
    <3>1. poolSync[w] + 0 <= counters[w].requests
      BY <1>0, <1>7 DEF Local
    <3> QED BY <1>0, <3>1, SMT
  <2>2. taken[w] = <<>>
    BY <1>0, <1>6 DEF Local
  <2> QED BY <1>0, <1>1, <1>2, <1>6, <1>7, <2>1, <2>2 DEF Local
<1>9. /\ progress'[r] = "pending" /\ \A q \in Requests : q # r => progress'[q] = progress[q]
  BY <1>0, <1>1 DEF Types
<1>10. Dropped' = Dropped
  BY <1>1, <1>9 DEF Dropped
<1>11. Moved(w)
  <2>1. PICK a \in Nat, x \in Nat, l \in Nat, b \in Nat, d \in Nat : Amount(w, a, x, l, b, d)
    BY <1>0, Amounts
  <2>2. Own[w] = x + 0 /\ Own'[w] = x + 1
    BY <1>1, <1>2, <1>7, <2>1 DEF Own, Amount
  <2>3. Asked[w] = a /\ Asked'[w] = a + 1
    BY <1>2, <2>1 DEF Asked, Amount
  <2>4. Len(tasks') = l /\ Cardinality(Working') = b /\ Cardinality(Dropped') = d
    BY <1>1, <1>10, <2>1 DEF Amount, Working
  <2>5. (a + 1) + (x + 0) + l + b + d = (x + 1) + a + l + b + d
    BY SMT
  <2> QED BY <1>5, <2>1, <2>2, <2>3, <2>4, <2>5 DEF Moved, Amount
<1>12. Submitted'
  <2>1. \A q : (Held(q)' <=> Held(q)) /\ (Replied(q)' <=> Replied(q))
    BY <1>1, HeldSame
  <2>2. ~Held(r)
    BY <1>0, <1>1 DEF Submitted, Kept
  <2>3. ASSUME NEW v \in Workers, NEW q \in Requests, Submits(v, q)' PROVE progress'[q] = "pending" /\ ~Held(q)'
    <3>1. q = r \/ Submits(v, q)
      BY <1>4, <1>6, <2>3 DEF Submits
    <3> QED BY <1>0, <1>9, <2>1, <2>2, <3>1 DEF Submitted
  <2>4. \A q \in Requests : Held(q)' => Kept(q)'
    BY <1>0, <1>9, <2>1 DEF Submitted, Kept
  <2>5. \A q \in Requests : Replied(q)' => answers'[q].status \in Codes
    BY <1>0, <1>1, <2>1 DEF Submitted
  <2> QED BY <2>3, <2>4, <2>5 DEF Submitted
<1>13. PoolVisible'
  BY <1>0, <1>1 DEF PoolVisible
<1> QED BY <1>0, <1>1, <1>3, <1>8, <1>10, <1>11, <1>12, <1>13, WorkerKept

\* handle_client answers what it cannot parse; that is no request.
LEMMA RejectMalformedCounts ==
  ASSUME FiniteSetFacts, CInv, Places', NEW w \in Workers, NEW r \in Requests, RejectMalformed(w, r)
  PROVE  CInv'
<1>0. /\ Types /\ CountTypes /\ Submitted /\ Local(w) /\ Flow /\ IsFiniteSet(Dropped) /\ PoolVisible
      /\ counters \in [Workers -> Counters]
  BY OfWorker
<1>1. /\ progress[r] = "new" /\ progress' = [progress EXCEPT ![r] = "rejected"] /\ counters' = ParseError(w)
      /\ UNCHANGED <<worker, completions, taken, answers, tasks, busy_threads, job, poolSync, observed,
                     durationSync, depth, high_water, scrapes>>
  BY DEF RejectMalformed, poolVars
<1>2. /\ counters' \in [Workers -> Counters] /\ \A v \in Workers : v # w => counters'[v] = counters[v]
      /\ counters'[w].completed = counters[w].completed /\ counters'[w].classes = counters[w].classes
      /\ counters'[w].requests = counters[w].requests
  BY <1>0, <1>1, CountedRequest
<1>3. CountTypes'
  BY <1>0, <1>1, <1>2 DEF CountTypes
<1>4. \A v \in Workers : v # w => Untouched(v)
  BY <1>1, <1>2 DEF Untouched
<1>5. Pending(w)' = Pending(w) /\ Observing(w)' = Observing(w)
  BY <1>1 DEF Pending, Observing
<1>6. Local(w)'
  BY <1>0, <1>1, <1>2, <1>5 DEF Local
<1>7. progress'[r] = "rejected" /\ \A q \in Requests : q # r => progress'[q] = progress[q]
  BY <1>0, <1>1 DEF Types
<1>8. Dropped' = Dropped
  BY <1>1, <1>7 DEF Dropped
<1>9. Moved(w)
  <2>1. PICK a \in Nat, x \in Nat, l \in Nat, b \in Nat, d \in Nat : Amount(w, a, x, l, b, d)
    BY <1>0, Amounts
  <2>2. Own'[w] = Own[w] /\ Asked'[w] = Asked[w]
    BY <1>1, <1>2, <1>5 DEF Own, Asked
  <2>3. Len(tasks') = l /\ Cardinality(Working') = b /\ Cardinality(Dropped') = d
    BY <1>1, <1>8, <2>1 DEF Amount, Working
  <2>4. PICK o \in Nat : o = Own[w]
    BY <1>0, NumbersOf DEF Numbers
  <2>5. a + o + l + b + d = o + a + l + b + d
    BY SMT
  <2> QED BY <1>4, <2>1, <2>2, <2>3, <2>4, <2>5 DEF Moved, Amount
<1>10. Submitted'
  <2>1. \A q : (Held(q)' <=> Held(q)) /\ (Replied(q)' <=> Replied(q))
    BY <1>1, HeldSame
  <2>2. \A q \in Requests : Held(q) => q # r
    BY <1>0, <1>1 DEF Submitted, Kept
  <2>3. \A v \in Workers : \A q \in Requests : Submits(v, q)' => Submits(v, q) /\ q # r
    BY <1>0, <1>1 DEF Submits, Submitted
  <2> QED BY <1>0, <1>1, <1>7, <2>1, <2>2, <2>3, SubmittedKept
<1>11. PoolVisible'
  BY <1>0, <1>1 DEF PoolVisible
<1> QED BY <1>0, <1>1, <1>3, <1>6, <1>8, <1>9, <1>10, <1>11, WorkerKept

\* modify_fd fails: the request is gone with its connection.
LEMMA DropRequestCounts ==
  ASSUME FiniteSetFacts, CInv, Places', NEW w \in Workers, DropRequest(w)
  PROVE  CInv'
<1> DEFINE r == worker[w].request
<1>0. /\ Types /\ OnePlace /\ CountTypes /\ Submitted /\ Local(w) /\ Flow /\ IsFiniteSet(Dropped) /\ PoolVisible
      /\ counters[w].requests \in Nat /\ poolSync[w] \in Nat
  BY OfWorker
<1>1. /\ worker[w].at = "submit" /\ progress' = [progress EXCEPT ![r] = "dropped"]
      /\ worker' = [worker EXCEPT ![w] = Poll]
      /\ UNCHANGED <<completions, taken, answers, tasks, busy_threads, job, counters, poolSync, observed,
                     durationSync, depth, high_water, scrapes>>
  BY DEF DropRequest, poolVars, metricsVars
<1>2. r \in Requests
  BY <1>0, <1>1, SubmitType
<1>3. progress[r] = "pending" /\ ~Held(r)
  BY <1>0, <1>1, <1>2 DEF Submitted, Submits
<1> HIDE DEF r
<1>4. CountTypes'
  BY <1>0, <1>1 DEF CountTypes
<1>5. worker'[w] = Poll /\ \A v \in Workers : v # w => worker'[v] = worker[v]
  BY <1>0, <1>1 DEF Types
<1>6. \A v \in Workers : v # w => Untouched(v)
  BY <1>1, <1>5 DEF Untouched
<1>7. worker'[w].at = "poll"
  BY <1>5, SMT DEF Poll
<1>8. Pending(w) = 1 /\ Observing(w) = 0 /\ Pending(w)' = 0 /\ Observing(w)' = 0
  BY <1>1, <1>7, SMT DEF Pending, Observing
<1>9. Local(w)'
  <2>1. poolSync[w] + 0 <= counters[w].requests
    <3>1. poolSync[w] + 1 <= counters[w].requests
      BY <1>0, <1>8 DEF Local
    <3> QED BY <1>0, <3>1, SMT
  <2>2. taken[w] = <<>>
    BY <1>0, <1>1 DEF Local
  <2> QED BY <1>0, <1>1, <1>7, <1>8, <2>1, <2>2 DEF Local
<1>10. progress'[r] = "dropped" /\ \A q \in Requests : q # r => progress'[q] = progress[q]
  BY <1>0, <1>1, <1>2 DEF Types
<1>11. Dropped' = Dropped \cup {r} /\ r \notin Dropped
  BY <1>2, <1>3, <1>10 DEF Dropped
<1>12. IsFiniteSet(Dropped') /\ Cardinality(Dropped') = Cardinality(Dropped) + 1
  BY <1>0, <1>11 DEF FiniteSetFacts, ElementAdded
<1>13. Moved(w)
  <2>1. PICK a \in Nat, x \in Nat, l \in Nat, b \in Nat, d \in Nat : Amount(w, a, x, l, b, d)
    BY <1>0, Amounts
  <2>2. Own[w] = x + 1 /\ Own'[w] = x + 0
    BY <1>1, <1>8, <2>1 DEF Own, Amount
  <2>3. Asked[w] = a /\ Asked'[w] = a
    BY <1>1, <2>1 DEF Asked, Amount
  <2>4. Len(tasks') = l /\ Cardinality(Working') = b /\ Cardinality(Dropped') = d + 1
    BY <1>1, <1>12, <2>1 DEF Amount, Working
  <2>5. a + (x + 1) + l + b + d = (x + 0) + a + l + b + (d + 1)
    BY SMT
  <2> QED BY <1>6, <2>1, <2>2, <2>3, <2>4, <2>5 DEF Moved, Amount
<1>14. Submitted'
  <2>1. \A q : (Held(q)' <=> Held(q)) /\ (Replied(q)' <=> Replied(q))
    BY <1>1, HeldSame
  <2>2. ASSUME NEW v \in Workers, NEW q \in Requests, Submits(v, q)' PROVE Submits(v, q) /\ q # r
    <3>1. v # w
      BY <1>7, <2>2 DEF Submits
    <3>2. Submits(v, q)
      BY <1>5, <2>2, <3>1 DEF Submits
    <3> QED BY <1>0, <1>1, <3>1, <3>2 DEF Submits, OnePlace, r
  <2> QED BY <1>0, <1>1, <1>3, <1>10, <2>1, <2>2, SubmittedKept
<1>15. PoolVisible'
  BY <1>0, <1>1 DEF PoolVisible
<1> QED BY <1>1, <1>4, <1>9, <1>12, <1>13, <1>14, <1>15, WorkerKept

\* What a worker shows with the lock of the pool only grows.
LEMMA ShownGrows ==
  ASSUME FiniteSetFacts, CountTypes, NEW w \in Workers, Local(w), worker[w].at = "submit",
         poolSync' = [poolSync EXCEPT ![w] = counters[w].requests]
  PROVE  /\ poolSync' \in [Workers -> Nat] /\ poolSync'[w] = counters[w].requests
         /\ \A v \in Workers : v # w => poolSync'[v] = poolSync[v]
         /\ SumFunction(poolSync) \in Nat /\ SumFunction(poolSync') \in Nat
         /\ SumFunction(poolSync') >= SumFunction(poolSync) + 1
<1>1. poolSync \in [Workers -> Nat] /\ poolSync[w] \in Nat
  BY DEF CountTypes
<1>2. counters[w].requests \in Nat
  <2>1. counters[w] \in Counters
    BY DEF CountTypes
  <2> QED BY <2>1 DEF Counters
<1>3. /\ poolSync' \in [Workers -> Nat] /\ poolSync'[w] = counters[w].requests
      /\ \A v \in Workers : v # w => poolSync'[v] = poolSync[v]
  BY <1>1, <1>2
<1>4. poolSync[w] + 1 <= poolSync'[w]
  <2>1. Pending(w) = 1
    BY DEF Pending
  <2> QED BY <1>3, <2>1 DEF Local
<1>5. PICK f, g : f = poolSync /\ g = poolSync'
  OBVIOUS
<1>6. f \in [Workers -> Nat] /\ g \in [Workers -> Nat] /\ f[w] + 1 <= g[w] /\ \A v \in Workers : v # w => g[v] = f[v]
  BY <1>1, <1>3, <1>4, <1>5
<1>7. IsFiniteSet(Workers)
  BY GatewayAssumption
<1>8. SumFunction(f) \in Nat /\ SumFunction(g) \in Nat
  BY <1>6, <1>7, SumType
<1>9. SumFunction(g) + f[w] = SumFunction(f) + g[w]
  BY <1>6, <1>7, SumChange, SMT
<1>10. SumFunction(g) >= SumFunction(f) + 1
  <2>1. PICK F \in Nat, G \in Nat : F = SumFunction(f) /\ G = SumFunction(g)
    BY <1>8
  <2>2. PICK i \in Nat, j \in Nat : i = f[w] /\ j = g[w]
    BY <1>6
  <2>3. G + i = F + j /\ i + 1 <= j
    BY <1>6, <1>9, <2>1, <2>2
  <2>4. G >= F + 1
    BY <2>3, SMT
  <2> QED BY <2>1, <2>4
<1> QED BY <1>3, <1>5, <1>8, <1>10

\* submit puts the request into the queue of the pool.
LEMMA SubmitCounts ==
  ASSUME FiniteSetFacts, CInv, Places', NEW w \in Workers, Submit(w)
  PROVE  CInv'
<1> DEFINE r == worker[w].request
           task == [request |-> r, worker |-> w]
<1>0. /\ Types /\ OnePlace /\ CountTypes /\ Submitted /\ Local(w) /\ Flow /\ IsFiniteSet(Dropped) /\ PoolVisible
      /\ counters[w].requests \in Nat /\ poolSync[w] \in Nat
  BY OfWorker
<1>1. /\ worker[w].at = "submit" /\ tasks' = Append(tasks, task)
      /\ poolSync' = [poolSync EXCEPT ![w] = counters[w].requests]
      /\ worker' = [worker EXCEPT ![w] = Poll]
      /\ UNCHANGED <<progress, completions, taken, answers, busy_threads, job, counters, observed,
                     durationSync, depth, high_water, scrapes>>
  BY DEF Submit
<1>2. r \in Requests
  BY <1>0, <1>1, SubmitType
<1>3. progress[r] = "pending" /\ ~Held(r)
  BY <1>0, <1>1, <1>2 DEF Submitted, Submits
<1>4. /\ poolSync' \in [Workers -> Nat] /\ poolSync'[w] = counters[w].requests
      /\ \A v \in Workers : v # w => poolSync'[v] = poolSync[v]
      /\ SumFunction(poolSync) \in Nat /\ SumFunction(poolSync') \in Nat
      /\ SumFunction(poolSync') >= SumFunction(poolSync) + 1
  BY <1>0, <1>1, ShownGrows
<1>5. task \in [request : Requests, worker : Workers] /\ task.request = r
  BY <1>2
<1> HIDE DEF r, task
<1>6. Len(tasks) \in Nat /\ Len(tasks') = Len(tasks) + 1
  <2> DEFINE T == [request : Requests, worker : Workers]
  <2>1. tasks \in Seq(T)
    BY <1>0 DEF Types
  <2> HIDE DEF T
  <2> QED BY <1>1, <2>1, SMT
<1>7. ASSUME NEW i \in DOMAIN tasks' PROVE tasks'[i] = task \/ (i \in DOMAIN tasks /\ tasks'[i] = tasks[i])
  <2> DEFINE T == [request : Requests, worker : Workers]
  <2>1. tasks \in Seq(T) /\ task \in T
    BY <1>0, <1>5 DEF Types
  <2> HIDE DEF T
  <2> QED BY <1>1, <1>7, <2>1, SMT
<1>8. CountTypes'
  BY <1>0, <1>1, <1>4 DEF CountTypes
<1>9. worker'[w] = Poll /\ \A v \in Workers : v # w => worker'[v] = worker[v]
  BY <1>0, <1>1 DEF Types
<1>10. \A v \in Workers : v # w => Untouched(v)
  BY <1>1, <1>4, <1>9 DEF Untouched
<1>11. worker'[w].at = "poll"
  BY <1>9, SMT DEF Poll
<1>12. Pending(w) = 1 /\ Observing(w) = 0 /\ Pending(w)' = 0 /\ Observing(w)' = 0
  BY <1>1, <1>11, SMT DEF Pending, Observing
<1>13. Local(w)'
  <2>1. counters[w].requests + 0 <= counters[w].requests
    BY <1>0, SMT
  <2>2. taken[w] = <<>>
    BY <1>0, <1>1 DEF Local
  <2> QED BY <1>0, <1>1, <1>4, <1>11, <1>12, <2>1, <2>2 DEF Local
<1>14. Dropped' = Dropped
  BY <1>1 DEF Dropped
<1>15. Moved(w)
  <2>1. PICK a \in Nat, x \in Nat, l \in Nat, b \in Nat, d \in Nat : Amount(w, a, x, l, b, d)
    BY <1>0, Amounts
  <2>2. Own[w] = x + 1 /\ Own'[w] = x + 0
    BY <1>1, <1>12, <2>1 DEF Own, Amount
  <2>3. Asked[w] = a /\ Asked'[w] = a
    BY <1>1, <2>1 DEF Asked, Amount
  <2>4. Len(tasks') = l + 1 /\ Cardinality(Working') = b /\ Cardinality(Dropped') = d
    BY <1>1, <1>6, <1>14, <2>1 DEF Amount, Working
  <2>5. a + (x + 1) + l + b + d = (x + 0) + a + (l + 1) + b + d
    BY SMT
  <2> QED BY <1>10, <2>1, <2>2, <2>3, <2>4, <2>5 DEF Moved, Amount
<1>16. Submitted'
  <2>1. ASSUME NEW q, Held(q)' PROVE Held(q) \/ q = r
    BY <1>1, <1>5, <1>7, <2>1 DEF Held, Returned
  <2>2. \A q : Replied(q)' <=> Replied(q)
    BY <1>1 DEF Replied, Returned
  <2>3. ASSUME NEW v \in Workers, NEW q \in Requests, Submits(v, q)' PROVE progress'[q] = "pending" /\ ~Held(q)'
    <3>1. v # w
      BY <1>11, <2>3 DEF Submits
    <3>2. Submits(v, q)
      BY <1>9, <2>3, <3>1 DEF Submits
    <3>3. q # r
      BY <1>0, <1>1, <3>1, <3>2 DEF Submits, OnePlace, r
    <3> QED BY <1>0, <1>1, <2>1, <3>2, <3>3 DEF Submitted
  <2>4. \A q \in Requests : Held(q)' => Kept(q)'
    BY <1>0, <1>1, <1>3, <2>1 DEF Submitted, Kept
  <2> QED BY <1>0, <1>1, <2>2, <2>3, <2>4 DEF Submitted
<1>17. PoolVisible'
  <2>1. PICK s \in Nat, s1 \in Nat, l \in Nat : s = SumFunction(poolSync) /\ s1 = SumFunction(poolSync') /\ l = Len(tasks)
    BY <1>4, <1>6
  <2>2. PICK b \in Int : b = busy_threads
    BY <1>0 DEF CountTypes
  <2>3. b + l <= s /\ s1 >= s + 1
    BY <1>0, <1>4, <2>1, <2>2 DEF PoolVisible
  <2>4. b + (l + 1) <= s1
    BY <2>3, SMT
  <2> QED BY <1>1, <1>6, <2>1, <2>2, <2>4 DEF PoolVisible
<1> QED BY <1>0, <1>1, <1>8, <1>13, <1>14, <1>15, <1>16, <1>17, WorkerKept

\* A worker moves a request from one of its counts to another.
LEMMA MovedSame ==
  ASSUME FiniteSetFacts, Types, CountTypes, IsFiniteSet(Dropped), NEW w \in Workers, \A v \in Workers : v # w => Untouched(v),
         Own'[w] = Own[w], Asked'[w] = Asked[w], Len(tasks') = Len(tasks), Working' = Working, Dropped' = Dropped
  PROVE  Moved(w)
<1>1. PICK a \in Nat, x \in Nat, l \in Nat, b \in Nat, d \in Nat : Amount(w, a, x, l, b, d)
  BY Amounts
<1>2. PICK o \in Nat : o = Own[w]
  BY NumbersOf DEF Numbers
<1>3. a + o + l + b + d = o + a + l + b + d
  BY SMT
<1> QED BY <1>1, <1>2, <1>3 DEF Moved, Amount

\* The pool is full and the worker answers 503 itself.
LEMMA RefuseCounts ==
  ASSUME FiniteSetFacts, CInv, Places', NEW w \in Workers, Refuse(w)
  PROVE  CInv'
<1> DEFINE r == worker[w].request
<1>0. /\ Types /\ OnePlace /\ CountTypes /\ Submitted /\ Local(w) /\ Flow /\ IsFiniteSet(Dropped) /\ PoolVisible
      /\ counters \in [Workers -> Counters] /\ counters[w].requests \in Nat /\ counters[w].completed \in Nat
      /\ completions[w] \in Seq(Requests) /\ taken[w] \in Seq(Requests) /\ observed[w] \in Nat
  BY OfWorker
<1>a. PICK code \in Codes : code = 503
  BY SMT DEF Codes
<1>1. /\ worker[w].at = "submit" /\ poolSync' = [poolSync EXCEPT ![w] = counters[w].requests]
      /\ answers' = [answers EXCEPT ![r] = Status(code)] /\ counters' = RequestCompleted(w, code)
      /\ progress' = [progress EXCEPT ![r] = "delivered"] /\ worker' = [worker EXCEPT ![w] = [at |-> "observe"]]
      /\ UNCHANGED <<completions, taken, tasks, busy_threads, job, observed, durationSync, depth, high_water, scrapes>>
  BY <1>a DEF Refuse, Deliver, poolVars
<1>2. r \in Requests
  BY <1>0, <1>1, SubmitType
<1>3. progress[r] = "pending" /\ ~Held(r)
  BY <1>0, <1>1, <1>2 DEF Submitted, Submits
<1> HIDE DEF r
<1>4. /\ poolSync' \in [Workers -> Nat] /\ poolSync'[w] = counters[w].requests
      /\ \A v \in Workers : v # w => poolSync'[v] = poolSync[v]
      /\ SumFunction(poolSync) \in Nat /\ SumFunction(poolSync') \in Nat
      /\ SumFunction(poolSync') >= SumFunction(poolSync) + 1
  BY <1>0, <1>1, ShownGrows
<1>5. /\ counters' \in [Workers -> Counters] /\ \A v \in Workers : v # w => counters'[v] = counters[v]
      /\ counters'[w].requests = counters[w].requests /\ counters'[w].completed = counters[w].completed + 1
      /\ SumFunction(counters'[w].classes) = SumFunction(counters[w].classes) + 1
  <2>1. counters' = RequestCompleted(w, code)
    BY <1>1
  <2> QED BY <1>0, <2>1, CountedResponse, SMT
<1>6. CountTypes'
  BY <1>0, <1>1, <1>4, <1>5 DEF CountTypes
<1>7. worker'[w] = [at |-> "observe"] /\ \A v \in Workers : v # w => worker'[v] = worker[v]
  BY <1>0, <1>1 DEF Types
<1>8. \A v \in Workers : v # w => Untouched(v)
  BY <1>1, <1>4, <1>5, <1>7 DEF Untouched
<1>9. worker'[w].at = "observe"
  BY <1>7, SMT
<1>10. Pending(w) = 1 /\ Observing(w) = 0 /\ Pending(w)' = 0 /\ Observing(w)' = 1
  BY <1>1, <1>9, SMT DEF Pending, Observing
<1>11. Local(w)'
  <2>1. counters[w].requests + 0 <= counters[w].requests
    BY <1>0, SMT
  <2>2. observed[w] + 1 = counters[w].completed + 1
    <3>1. observed[w] + 0 = counters[w].completed
      BY <1>0, <1>10 DEF Local
    <3> QED BY <1>0, <3>1, SMT
  <2> QED BY <1>0, <1>1, <1>4, <1>5, <1>9, <1>10, <2>1, <2>2 DEF Local
<1>12. progress'[r] = "delivered" /\ \A q \in Requests : q # r => progress'[q] = progress[q]
  BY <1>0, <1>1, <1>2 DEF Types
<1>13. Dropped' = Dropped
  BY <1>1, <1>3, <1>12 DEF Dropped
<1>14. Own'[w] = Own[w] /\ Asked'[w] = Asked[w]
  <2>1. PICK c \in Nat, n \in Nat, k \in Nat : c = counters[w].completed /\ n = Len(completions[w]) /\ k = Len(taken[w])
    <3>1. Len(completions[w]) \in Nat /\ Len(taken[w]) \in Nat
      BY <1>0, SMT
    <3> QED BY <1>0, <3>1
  <2>2. (c + 1) + n + k + 0 = c + n + k + 1
    BY SMT
  <2> QED BY <1>1, <1>5, <1>10, <2>1, <2>2 DEF Own, Asked
<1>15. Moved(w)
  <2>1. Working' = Working /\ Len(tasks') = Len(tasks)
    BY <1>1 DEF Working
  <2> QED BY <1>0, <1>8, <1>13, <1>14, <2>1, MovedSame
<1>16. Submitted'
  <2>1. \A q : (Held(q)' <=> Held(q)) /\ (Replied(q)' <=> Replied(q))
    BY <1>1, HeldSame
  <2>2. ASSUME NEW v \in Workers, NEW q \in Requests, Submits(v, q)' PROVE Submits(v, q) /\ q # r
    <3>1. v # w
      BY <1>9, <2>2 DEF Submits
    <3>2. Submits(v, q)
      BY <1>7, <2>2, <3>1 DEF Submits
    <3> QED BY <1>0, <1>1, <3>1, <3>2 DEF Submits, OnePlace, r
  <2>3. ASSUME NEW q \in Requests PROVE answers'[q] = answers[q] \/ answers'[q].status \in Codes
    <3>1. q # r => answers'[q] = answers[q]
      BY <1>0, <1>1 DEF Types
    <3>2. answers'[r] = Status(code)
      BY <1>0, <1>1, <1>2 DEF Types
    <3>3. Status(code).status \in Codes
      BY DEF Status
    <3> QED BY <3>1, <3>2, <3>3
  <2> QED BY <1>0, <1>12, <2>1, <2>2, <2>3, <1>3, SubmittedKept
<1>17. PoolVisible'
  <2>1. PICK s \in Nat, s1 \in Nat, l \in Nat : s = SumFunction(poolSync) /\ s1 = SumFunction(poolSync') /\ l = Len(tasks)
    <3>1. Len(tasks) \in Nat
      BY <1>0, SMT DEF Types
    <3> QED BY <1>4, <3>1
  <2>2. PICK b \in Int : b = busy_threads
    BY <1>0 DEF CountTypes
  <2>3. b + l <= s /\ s1 >= s + 1
    BY <1>0, <1>4, <2>1, <2>2 DEF PoolVisible
  <2>4. b + l <= s1
    BY <2>3, SMT
  <2> QED BY <1>1, <2>1, <2>2, <2>4 DEF PoolVisible
<1> QED BY <1>0, <1>1, <1>6, <1>11, <1>13, <1>15, <1>16, <1>17, WorkerKept

\* process_completions takes the queue of its worker.
LEMMA SwapCompletionsCounts ==
  ASSUME FiniteSetFacts, CInv, Places', NEW w \in Workers, SwapCompletions(w)
  PROVE  CInv'
<1>0. /\ Types /\ CountTypes /\ Submitted /\ Local(w) /\ Flow /\ IsFiniteSet(Dropped) /\ PoolVisible
      /\ counters[w].completed \in Nat /\ high_water[w] \in Nat /\ completions[w] \in Seq(Requests)
  BY OfWorker
<1>1. /\ worker[w] = Poll /\ completions[w] # <<>>
      /\ taken' = [taken EXCEPT ![w] = completions[w]] /\ completions' = [completions EXCEPT ![w] = <<>>]
      /\ depth' = [depth EXCEPT ![w] = 0]
      /\ high_water' = [high_water EXCEPT ![w] = IF 0 > @ THEN 0 ELSE @]
      /\ worker' = [worker EXCEPT ![w] = [at |-> "completions"]]
      /\ UNCHANGED <<progress, answers, tasks, busy_threads, job, counters, poolSync, observed, durationSync, scrapes>>
  BY DEF SwapCompletions, CompletionQueueSize, poolVars
<1>2. (IF 0 > high_water[w] THEN 0 ELSE high_water[w]) = high_water[w]
  BY <1>0, SMT
<1>3. <<>> \in Seq(Requests) /\ Len(<<>>) = 0
  BY SMT
<1>4. /\ completions' \in [Workers -> Seq(Requests)] /\ taken' \in [Workers -> Seq(Requests)]
      /\ depth' \in [Workers -> Nat] /\ high_water' = high_water
  <2>1. high_water' = high_water
    BY <1>0, <1>1, <1>2 DEF CountTypes
  <2>2. 0 \in Nat
    BY SMT
  <2> QED BY <1>0, <1>1, <1>3, <2>1, <2>2 DEF CountTypes
<1>5. CountTypes'
  BY <1>0, <1>1, <1>4 DEF CountTypes
<1>6. /\ worker'[w] = [at |-> "completions"] /\ completions'[w] = <<>> /\ taken'[w] = completions[w] /\ depth'[w] = 0
      /\ \A v \in Workers : v # w => /\ worker'[v] = worker[v] /\ completions'[v] = completions[v]
                                     /\ taken'[v] = taken[v] /\ depth'[v] = depth[v]
  BY <1>0, <1>1 DEF Types, CountTypes
<1>7. \A v \in Workers : v # w => Untouched(v)
  BY <1>1, <1>4, <1>6 DEF Untouched
<1>8. worker[w].at = "poll" /\ worker'[w].at = "completions"
  BY <1>1, <1>6, SMT DEF Poll
<1>9. Pending(w) = 0 /\ Observing(w) = 0 /\ Pending(w)' = 0 /\ Observing(w)' = 0
  BY <1>8, SMT DEF Pending, Observing
<1>10. Local(w)'
  <2>1. high_water[w] >= 0
    BY <1>0, SMT
  <2>2. poolSync[w] + Pending(w)' <= counters[w].requests /\ observed[w] + Observing(w)' = counters[w].completed
    BY <1>0, <1>9 DEF Local
  <2> QED BY <1>0, <1>1, <1>3, <1>4, <1>6, <1>8, <2>1, <2>2 DEF Local
<1>11. Dropped' = Dropped /\ Working' = Working
  BY <1>1 DEF Dropped, Working
<1>12. Own'[w] = Own[w] /\ Asked'[w] = Asked[w]
  <2>1. PICK c \in Nat, n \in Nat : c = counters[w].completed /\ n = Len(completions[w])
    <3>1. Len(completions[w]) \in Nat
      BY <1>0, SMT
    <3> QED BY <1>0, <3>1
  <2>2. c + 0 + n + 0 = c + n + 0 + 0
    BY SMT
  <2>3. Len(taken[w]) = 0
    BY <1>0, <1>3, <1>8 DEF Local
  <2> QED BY <1>1, <1>3, <1>6, <1>9, <2>1, <2>2, <2>3 DEF Own, Asked
<1>13. Moved(w)
  BY <1>0, <1>1, <1>7, <1>11, <1>12, MovedSame
<1>14. ASSUME NEW r, Returned(r)' PROVE Returned(r)
  <2>1. PICK v \in Workers : Within(completions'[v], r) \/ Within(taken'[v], r)
    BY <1>14 DEF Returned
  <2>2. ~Within(<<>>, r)
    BY SMT DEF Within
  <2>3. CASE v = w
    BY <1>6, <2>1, <2>2, <2>3 DEF Returned
  <2>4. CASE v # w
    BY <1>6, <2>1, <2>4 DEF Returned
  <2> QED BY <2>3, <2>4
<1>15. Submitted'
  <2>1. \A r \in Requests : (Held(r)' => Held(r)) /\ (Replied(r)' => Replied(r))
    BY <1>1, <1>14 DEF Held, Replied
  <2>2. \A v \in Workers : \A r \in Requests : Submits(v, r)' => Submits(v, r)
    BY <1>6, <1>8 DEF Submits
  <2> QED BY <1>0, <1>1, <2>1, <2>2, SubmittedKept
<1>16. PoolVisible'
  BY <1>0, <1>1 DEF PoolVisible
<1> QED BY <1>0, <1>1, <1>5, <1>10, <1>11, <1>13, <1>15, <1>16, WorkerKept

\* request_completed ends under duration_mutex.
LEMMA ObserveRequestCounts ==
  ASSUME FiniteSetFacts, CInv, Places', NEW w \in Workers, ObserveRequest(w)
  PROVE  CInv'
<1> DEFINE next == IF taken[w] = <<>> THEN Poll ELSE [at |-> "completions"]
<1>0. /\ Types /\ CountTypes /\ Submitted /\ Local(w) /\ Flow /\ IsFiniteSet(Dropped) /\ PoolVisible
      /\ counters[w].completed \in Nat /\ observed[w] \in Nat
  BY OfWorker
<1>1. /\ worker[w].at = "observe" /\ worker' = [worker EXCEPT ![w] = next]
      /\ observed' = [observed EXCEPT ![w] = @ + 1]
      /\ durationSync' = [durationSync EXCEPT ![w] = counters[w].completed]
      /\ UNCHANGED <<progress, completions, taken, answers, tasks, busy_threads, job, counters, poolSync, depth,
                     high_water, scrapes>>
  BY DEF ObserveRequest, ObserveDuration, poolVars
<1>2. /\ next.at \in {"poll", "completions"} /\ (next.at = "poll" => taken[w] = <<>>)
      /\ (next.at = "completions" => taken[w] # <<>>)
  BY SMT DEF Poll
<1> HIDE DEF next
<1>3. /\ worker'[w] = next /\ observed'[w] = observed[w] + 1 /\ durationSync'[w] = counters[w].completed
      /\ \A v \in Workers : v # w =>
           worker'[v] = worker[v] /\ observed'[v] = observed[v] /\ durationSync'[v] = durationSync[v]
  BY <1>0, <1>1 DEF Types, CountTypes
<1>4. observed[w] + 1 \in Nat
  BY <1>0, SMT
<1>5. CountTypes'
  <2>1. observed' \in [Workers -> Nat] /\ durationSync' \in [Workers -> Nat]
    BY <1>0, <1>1, <1>4 DEF CountTypes
  <2> QED BY <1>0, <1>1, <2>1 DEF CountTypes
<1>6. \A v \in Workers : v # w => Untouched(v)
  BY <1>1, <1>3 DEF Untouched
<1>7. Pending(w) = 0 /\ Observing(w) = 1 /\ Pending(w)' = 0 /\ Observing(w)' = 0
  BY <1>1, <1>2, <1>3, SMT DEF Pending, Observing
<1>8. Local(w)'
  <2>1. observed[w] + 1 = counters[w].completed
    BY <1>0, <1>7 DEF Local
  <2>2. counters[w].completed + 0 = counters[w].completed
    BY <1>0, SMT
  <2>3. poolSync[w] + Pending(w)' <= counters[w].requests
    BY <1>0, <1>7 DEF Local
  <2>4. worker'[w].at # "submit"
    BY <1>2, <1>3
  <2> QED BY <1>0, <1>1, <1>2, <1>3, <1>7, <2>1, <2>2, <2>3, <2>4 DEF Local
<1>9. Dropped' = Dropped /\ Working' = Working
  BY <1>1 DEF Dropped, Working
<1>10. Own'[w] = Own[w] /\ Asked'[w] = Asked[w]
  BY <1>1, <1>7 DEF Own, Asked
<1>11. Moved(w)
  BY <1>0, <1>1, <1>6, <1>9, <1>10, MovedSame
<1>12. Submitted'
  <2>1. \A q : (Held(q)' <=> Held(q)) /\ (Replied(q)' <=> Replied(q))
    BY <1>1, HeldSame
  <2>2. \A v \in Workers : \A r \in Requests : Submits(v, r)' => Submits(v, r)
    BY <1>2, <1>3 DEF Submits
  <2> QED BY <1>0, <1>1, <2>1, <2>2, SubmittedKept
<1>13. PoolVisible'
  BY <1>0, <1>1 DEF PoolVisible
<1> QED BY <1>0, <1>1, <1>5, <1>8, <1>9, <1>11, <1>12, <1>13, WorkerKept

\* The next of the completions is counted and its answer delivered.
LEMMA ProcessCompletionCounts ==
  ASSUME FiniteSetFacts, CInv, Places', NEW w \in Workers, ProcessCompletion(w)
  PROVE  CInv'
<1> DEFINE r == Head(taken[w])
<1>0. /\ Types /\ CountTypes /\ Submitted /\ Local(w) /\ Flow /\ IsFiniteSet(Dropped) /\ PoolVisible
      /\ counters \in [Workers -> Counters] /\ counters[w].completed \in Nat /\ observed[w] \in Nat
      /\ completions[w] \in Seq(Requests) /\ taken[w] \in Seq(Requests)
  BY OfWorker
<1>1. /\ worker[w].at = "completions" /\ taken' = [taken EXCEPT ![w] = Tail(@)]
      /\ counters' = RequestCompleted(w, answers[r].status)
      /\ progress' = [progress EXCEPT ![r] = "delivered"] /\ worker' = [worker EXCEPT ![w] = [at |-> "observe"]]
      /\ UNCHANGED <<completions, answers, tasks, busy_threads, job, poolSync, observed, durationSync, depth,
                     high_water, scrapes>>
  BY DEF ProcessCompletion, Deliver, poolVars
<1>2. taken[w] # <<>>
  BY <1>0, <1>1 DEF Local
<1>3. /\ r \in Requests /\ Tail(taken[w]) \in Seq(Requests) /\ Len(Tail(taken[w])) = Len(taken[w]) - 1
      /\ Within(taken[w], r) /\ \A q : Within(Tail(taken[w]), q) => Within(taken[w], q)
  <2>1. r \in Requests /\ Tail(taken[w]) \in Seq(Requests) /\ Len(Tail(taken[w])) = Len(taken[w]) - 1
    BY <1>0, <1>2, SMT
  <2> QED BY <1>0, <1>2, <2>1, WithinSequences
<1> HIDE DEF r
<1>4. Returned(r) /\ Held(r) /\ Replied(r)
  BY <1>3 DEF Returned, Held, Replied
<1>5. answers[r].status \in Codes /\ Kept(r)
  BY <1>0, <1>3, <1>4 DEF Submitted
<1>6. /\ counters' \in [Workers -> Counters] /\ \A v \in Workers : v # w => counters'[v] = counters[v]
      /\ counters'[w].requests = counters[w].requests /\ counters'[w].completed = counters[w].completed + 1
      /\ SumFunction(counters'[w].classes) = SumFunction(counters[w].classes) + 1
  <2>1. PICK code \in Codes : code = answers[r].status
    BY <1>5
  <2>2. counters' = RequestCompleted(w, code)
    BY <1>1, <2>1
  <2> QED BY <1>0, <2>2, CountedResponse, SMT
<1>7. CountTypes'
  <2>1. taken' \in [Workers -> Seq(Requests)]
    BY <1>0, <1>1, <1>3 DEF CountTypes
  <2> QED BY <1>0, <1>1, <1>6, <2>1 DEF CountTypes
<1>8. /\ worker'[w] = [at |-> "observe"] /\ taken'[w] = Tail(taken[w])
      /\ \A v \in Workers : v # w => worker'[v] = worker[v] /\ taken'[v] = taken[v]
  BY <1>0, <1>1 DEF Types, CountTypes
<1>9. \A v \in Workers : v # w => Untouched(v)
  BY <1>1, <1>6, <1>8 DEF Untouched
<1>10. worker'[w].at = "observe"
  BY <1>8, SMT
<1>11. Pending(w) = 0 /\ Observing(w) = 0 /\ Pending(w)' = 0 /\ Observing(w)' = 1
  BY <1>1, <1>10, SMT DEF Pending, Observing
<1>12. Local(w)'
  <2>1. observed[w] + 1 = counters[w].completed + 1
    <3>1. observed[w] + 0 = counters[w].completed
      BY <1>0, <1>11 DEF Local
    <3> QED BY <1>0, <3>1, SMT
  <2>2. poolSync[w] + Pending(w)' <= counters[w].requests
    BY <1>0, <1>11 DEF Local
  <2> QED BY <1>0, <1>1, <1>6, <1>10, <1>11, <2>1, <2>2 DEF Local
<1>13. progress'[r] = "delivered" /\ \A q \in Requests : q # r => progress'[q] = progress[q]
  BY <1>0, <1>1, <1>3 DEF Types
<1>14. Dropped' = Dropped /\ Working' = Working
  BY <1>1, <1>5, <1>13 DEF Dropped, Working, Kept
<1>15. Own'[w] = Own[w] /\ Asked'[w] = Asked[w]
  <2>1. PICK c \in Nat, n \in Nat, k \in Nat : c = counters[w].completed /\ n = Len(completions[w]) /\ k = Len(taken[w])
    <3>1. Len(completions[w]) \in Nat /\ Len(taken[w]) \in Nat
      BY <1>0, SMT
    <3> QED BY <1>0, <3>1
  <2>2. (c + 1) + n + (k - 1) + 0 = c + n + k + 0
    BY SMT
  <2> QED BY <1>1, <1>3, <1>6, <1>8, <1>11, <2>1, <2>2 DEF Own, Asked
<1>16. Moved(w)
  BY <1>0, <1>1, <1>9, <1>14, <1>15, MovedSame
<1>17. ASSUME NEW q, Returned(q)' PROVE Returned(q)
  <2>1. PICK v \in Workers : Within(completions'[v], q) \/ Within(taken'[v], q)
    BY <1>17 DEF Returned
  <2>2. CASE v = w
    BY <1>1, <1>3, <1>8, <2>1, <2>2 DEF Returned
  <2>3. CASE v # w
    BY <1>1, <1>8, <2>1, <2>3 DEF Returned
  <2> QED BY <2>2, <2>3
<1>18. Submitted'
  <2>1. \A q \in Requests : (Held(q)' => Held(q)) /\ (Replied(q)' => Replied(q))
    BY <1>1, <1>17 DEF Held, Replied
  <2>2. ASSUME NEW v \in Workers, NEW q \in Requests, Submits(v, q)' PROVE Submits(v, q) /\ q # r
    <3>1. Submits(v, q)
      BY <1>8, <1>10, <2>2 DEF Submits
    <3> QED BY <1>0, <1>4, <3>1 DEF Submitted
  <2> QED BY <1>0, <1>1, <1>13, <2>1, <2>2, SubmittedKept
<1>19. PoolVisible'
  BY <1>0, <1>1 DEF PoolVisible
<1> QED BY <1>0, <1>1, <1>7, <1>12, <1>14, <1>16, <1>18, <1>19, WorkerKept

-----------------------------------------------------------------------------
(* The steps of a thread of the pool.                                      *)

\* A thread queues a completion for its worker.
LEMMA PushCompletionCounts ==
  ASSUME FiniteSetFacts, CInv, Places', NEW t \in Threads, PushCompletion(t)
  PROVE  CInv'
<1>a. Types
  BY DEF CInv, Places
<1>b. job[t].at = "push" /\ job[t] # Idle
  <2>1. job[t].at = "push"
    BY DEF PushCompletion
  <2> QED BY <2>1, SMT DEF Idle
<1>c. PICK r \in Requests, w \in Workers : r = job[t].request /\ w = job[t].worker
  BY <1>a, <1>b, JobType
<1>0. /\ Types /\ OnePlace /\ CountTypes /\ Submitted /\ Local(w) /\ Flow /\ IsFiniteSet(Dropped) /\ PoolVisible
      /\ counters[w].completed \in Nat /\ high_water[w] \in Nat
      /\ completions[w] \in Seq(Requests) /\ taken[w] \in Seq(Requests)
  BY OfWorker
<1> DEFINE queue == Append(completions[w], r)
<1>1. /\ completions' = [completions EXCEPT ![w] = queue] /\ job' = [job EXCEPT ![t].at = "leave"]
      /\ CompletionQueueSize(w, Len(completions'[w]))
      /\ UNCHANGED <<progress, worker, taken, answers, tasks, busy_threads, counters, poolSync, observed,
                     durationSync, scrapes>>
  BY <1>c DEF PushCompletion
<1>2. completions'[w] = queue
  BY <1>0, <1>1 DEF CountTypes
<1>3. queue \in Seq(Requests) /\ Len(queue) = Len(completions[w]) + 1 /\ Len(queue) \in Nat
  BY <1>0, SMT
<1>d. \A q : Within(queue, q) => Within(completions[w], q) \/ q = r
  BY <1>0, WithinSequences
<1> HIDE DEF queue
<1>e. PICK size \in Nat : size = Len(queue)
  BY <1>3
<1> DEFINE high == IF size > high_water[w] THEN size ELSE high_water[w]
<1>4. depth' = [depth EXCEPT ![w] = size] /\ high_water' = [high_water EXCEPT ![w] = high]
  <2>1. CompletionQueueSize(w, size)
    BY <1>1, <1>2, <1>e
  <2> QED BY <2>1 DEF CompletionQueueSize
<1>f. high \in Nat /\ high >= size
  BY <1>0, SMT
<1> HIDE DEF high
<1>5. /\ depth'[w] = size /\ high_water'[w] = high
      /\ \A v \in Workers : v # w => completions'[v] = completions[v] /\ depth'[v] = depth[v] /\ high_water'[v] = high_water[v]
  BY <1>0, <1>1, <1>4 DEF CountTypes
<1>6. CountTypes'
  <2>1. completions' \in [Workers -> Seq(Requests)] /\ depth' \in [Workers -> Nat] /\ high_water' \in [Workers -> Nat]
    BY <1>0, <1>1, <1>3, <1>4, <1>f DEF CountTypes
  <2> QED BY <1>0, <1>1, <2>1 DEF CountTypes
<1>7. \A v \in Workers : v # w => Untouched(v)
  BY <1>1, <1>5 DEF Untouched
<1>8. Pending(w)' = Pending(w) /\ Observing(w)' = Observing(w)
  BY <1>1 DEF Pending, Observing
<1>9. Local(w)'
  BY <1>0, <1>1, <1>2, <1>5, <1>8, <1>e, <1>f DEF Local
<1>10. /\ job'[t].at = "leave" /\ job'[t].request = r /\ job'[t] # Idle
       /\ \A s \in Threads : s # t => job'[s] = job[s]
  <2>1. job[t] \in [at : {"check", "route", "scrape", "push", "leave"}, request : Requests, worker : Workers]
    BY <1>a, <1>b, JobType
  <2>2. job'[t] = [job[t] EXCEPT !.at = "leave"] /\ \A s \in Threads : s # t => job'[s] = job[s]
    BY <1>a, <1>1 DEF Types
  <2>3. job'[t].at = "leave" /\ job'[t].request = r
    BY <1>c, <2>1, <2>2
  <2>4. job'[t] # Idle
    BY <2>3, SMT DEF Idle
  <2> QED BY <2>2, <2>3, <2>4
<1>11. Working' = Working \ {t} /\ t \in Working
  BY <1>b, <1>10 DEF Working
<1>12. Dropped' = Dropped
  BY <1>1 DEF Dropped
<1>13. Moved(w)
  <2>1. PICK a \in Nat, x \in Nat, l \in Nat, b \in Nat, d \in Nat : Amount(w, a, x, l, b, d)
    BY <1>0, <1>c, Amounts
  <2>2. PICK c \in Nat, n \in Nat, k \in Nat, p \in Nat :
          c = counters[w].completed /\ n = Len(completions[w]) /\ k = Len(taken[w]) /\ p = Pending(w)
    <3>1. Len(completions[w]) \in Nat /\ Len(taken[w]) \in Nat /\ Pending(w) \in Nat
      BY <1>0, SMT DEF Pending
    <3> QED BY <1>0, <3>1
  <2>3. Own[w] = c + n + k + p /\ Own'[w] = c + (n + 1) + k + p
    BY <1>1, <1>2, <1>3, <1>8, <1>c, <2>2 DEF Own
  <2>4. Asked[w] = a /\ Asked'[w] = a
    BY <1>1, <1>c, <2>1 DEF Asked, Amount
  <2>5. Cardinality(Working') = b - 1
    <3>1. IsFiniteSet(Working)
      <4>1. Working \subseteq Threads
        BY DEF Working
      <4> QED BY <4>1, GatewayAssumption DEF FiniteSetFacts, FiniteSubsets
    <3> QED BY <1>11, <2>1, <3>1 DEF FiniteSetFacts, ElementRemoved, Amount
  <2>6. Len(tasks') = l /\ Cardinality(Dropped') = d
    BY <1>1, <1>12, <2>1 DEF Amount
  <2>7. a + (c + n + k + p) + l + b + d = (c + (n + 1) + k + p) + a + l + (b - 1) + d
    BY SMT
  <2> QED BY <1>7, <2>1, <2>3, <2>4, <2>5, <2>6, <2>7 DEF Moved, Amount
<1>14. ASSUME NEW q, Returned(q)' PROVE Returned(q) \/ q = r
  <2>1. PICK v \in Workers : Within(completions'[v], q) \/ Within(taken'[v], q)
    BY <1>14 DEF Returned
  <2>2. CASE v = w
    BY <1>1, <1>2, <1>d, <2>1, <2>2 DEF Returned
  <2>3. CASE v # w
    BY <1>1, <1>5, <2>1, <2>3 DEF Returned
  <2> QED BY <2>2, <2>3
<1>15. Submitted'
  <2>1. Held(r) /\ Replied(r)
    BY <1>b, <1>c DEF Held, Replied
  <2>2. ASSUME NEW q \in Requests, Held(q)' PROVE Held(q)
    <3>1. CASE Returned(q)'
      BY <1>14, <2>1, <3>1 DEF Held
    <3>2. CASE \E i \in DOMAIN tasks' : tasks'[i].request = q
      BY <1>1, <3>2 DEF Held
    <3>3. CASE \E s \in Threads : job'[s] # Idle /\ job'[s].request = q
      BY <1>10, <2>1, <3>3 DEF Held
    <3> QED BY <2>2, <3>1, <3>2, <3>3 DEF Held
  <2>3. ASSUME NEW q \in Requests, Replied(q)' PROVE Replied(q)
    <3>1. CASE Returned(q)'
      BY <1>14, <2>1, <3>1 DEF Replied
    <3>2. CASE \E s \in Threads : job'[s].at \in {"push", "leave"} /\ job'[s].request = q
      BY <1>10, <2>1, <3>2 DEF Replied
    <3> QED BY <2>3, <3>1, <3>2 DEF Replied
  <2>4. \A v \in Workers : \A q \in Requests : Submits(v, q)' => Submits(v, q)
    BY <1>1 DEF Submits
  <2> QED BY <1>0, <1>1, <2>2, <2>3, <2>4, SubmittedKept
<1>16. PoolVisible'
  BY <1>0, <1>1 DEF PoolVisible
<1> QED BY <1>0, <1>1, <1>6, <1>9, <1>12, <1>13, <1>15, <1>16, <1>c, WorkerKept

\* A thread takes the first task.
LEMMA TakeTaskCounts ==
  ASSUME FiniteSetFacts, CInv, Places', NEW t \in Threads, TakeTask(t)
  PROVE  CInv'
<1> DEFINE next == [at |-> "check", request |-> Head(tasks).request, worker |-> Head(tasks).worker]
<1>0. Types /\ CountTypes /\ Submitted /\ Scrapes
  BY DEF CInv, Places
<1>1. /\ job[t] = Idle /\ tasks # <<>> /\ tasks' = Tail(tasks) /\ busy_threads' = busy_threads + 1
      /\ job' = [job EXCEPT ![t] = next] /\ UNCHANGED <<asideVars, answers, scrapes>>
  BY DEF TakeTask, requestVars, metricsVars, asideVars
<1>2. /\ 1 \in DOMAIN tasks /\ Head(tasks) = tasks[1] /\ Len(tasks) \in Nat /\ Len(tasks') = Len(tasks) - 1
      /\ Len(tasks') \in Nat
      /\ \A i \in DOMAIN tasks' : i + 1 \in DOMAIN tasks /\ tasks'[i] = tasks[i + 1]
  <2> DEFINE T == [request : Requests, worker : Workers]
  <2>1. tasks \in Seq(T)
    BY <1>0 DEF Types
  <2> HIDE DEF T
  <2> QED BY <1>1, <2>1, SMT
<1>3. next.at = "check" /\ next.request = tasks[1].request
  BY <1>2, SMT
<1> HIDE DEF next
<1>4. job'[t] = next /\ \A s \in Threads : s # t => job'[s] = job[s]
  BY <1>0, <1>1 DEF Types
<1>5. job[t].at = "idle"
  BY <1>1, SMT DEF Idle
<1>6. Working' = Working \cup {t} /\ t \notin Working
  BY <1>3, <1>4, <1>5 DEF Working
<1>7. Carried
  <2>1. IsFiniteSet(Working)
    <3>1. Working \subseteq Threads
      BY DEF Working
    <3> QED BY <3>1, GatewayAssumption DEF FiniteSetFacts, FiniteSubsets
  <2>2. Cardinality(Working') = Cardinality(Working) + 1 /\ Cardinality(Working) \in Nat
    BY <1>6, <2>1 DEF FiniteSetFacts, CardinalityIsNat, ElementAdded
  <2>3. PICK l \in Nat, b \in Nat : l = Len(tasks) /\ b = Cardinality(Working)
    BY <1>2, <2>2
  <2>4. PICK n \in Int : n = busy_threads
    BY <1>0 DEF CountTypes
  <2>5. (l - 1) + (b + 1) = l + b /\ n + 1 \in Int /\ (n + 1) + (l - 1) <= n + l
    BY SMT
  <2> QED BY <1>1, <1>2, <2>2, <2>3, <2>4, <2>5 DEF Carried
<1>8. Submitted'
  <2>1. Held(tasks[1].request)
    BY <1>2 DEF Held
  <2>2. \A q : Returned(q)' <=> Returned(q)
    BY <1>1 DEF Returned, asideVars
  <2>3. ASSUME NEW q \in Requests, Held(q)' PROVE Held(q)
    <3>1. CASE Returned(q)'
      BY <2>2, <3>1 DEF Held
    <3>2. CASE \E i \in DOMAIN tasks' : tasks'[i].request = q
      BY <1>2, <3>2 DEF Held
    <3>3. CASE \E s \in Threads : job'[s] # Idle /\ job'[s].request = q
      BY <1>3, <1>4, <2>1, <3>3 DEF Held
    <3> QED BY <2>3, <3>1, <3>2, <3>3 DEF Held
  <2>4. ASSUME NEW q \in Requests, Replied(q)' PROVE Replied(q)
    BY <1>3, <1>4, <2>2, <2>4 DEF Replied
  <2>5. \A v \in Workers : \A q \in Requests : Submits(v, q)' => Submits(v, q)
    BY <1>1 DEF Submits, asideVars
  <2> QED BY <1>0, <1>1, <2>3, <2>4, <2>5, SubmittedKept DEF asideVars
<1>9. Scrapes'
  BY <1>0, <1>1 DEF Scrapes
<1> QED BY <1>1, <1>7, <1>8, <1>9, AsideKept

\* A thread is done with its task.
LEMMA FinishTaskCounts ==
  ASSUME FiniteSetFacts, CInv, Places', NEW t \in Threads, FinishTask(t)
  PROVE  CInv'
<1>0. Types /\ CountTypes /\ Submitted /\ Scrapes
  BY DEF CInv, Places
<1>1. /\ job[t].at = "leave" /\ busy_threads' = busy_threads - 1 /\ job' = [job EXCEPT ![t] = Idle]
      /\ UNCHANGED <<asideVars, tasks, answers, scrapes>>
  BY DEF FinishTask, requestVars, metricsVars, asideVars
<1>2. job'[t] = Idle /\ \A s \in Threads : s # t => job'[s] = job[s]
  BY <1>0, <1>1 DEF Types
<1>3. job'[t].at = "idle"
  BY <1>2, SMT DEF Idle
<1>4. Working' = Working
  BY <1>1, <1>2, <1>3 DEF Working
<1>5. Carried
  <2>1. PICK l \in Nat : l = Len(tasks)
    <3>1. Len(tasks) \in Nat
      BY <1>0, SMT DEF Types
    <3> QED BY <3>1
  <2>2. PICK n \in Int : n = busy_threads
    BY <1>0 DEF CountTypes
  <2>3. n - 1 \in Int /\ (n - 1) + l <= n + l
    BY SMT
  <2> QED BY <1>1, <1>4, <2>1, <2>2, <2>3 DEF Carried
<1>6. Submitted'
  <2>1. \A q : Returned(q)' <=> Returned(q)
    BY <1>1 DEF Returned, asideVars
  <2>2. \A q \in Requests : Held(q)' => Held(q)
    BY <1>1, <1>2, <2>1 DEF Held
  <2>3. \A q \in Requests : Replied(q)' => Replied(q)
    BY <1>2, <1>3, <2>1 DEF Replied
  <2>4. \A v \in Workers : \A q \in Requests : Submits(v, q)' => Submits(v, q)
    BY <1>1 DEF Submits, asideVars
  <2> QED BY <1>0, <1>1, <2>2, <2>3, <2>4, SubmittedKept DEF asideVars
<1>7. Scrapes'
  BY <1>0, <1>1 DEF Scrapes
<1> QED BY <1>1, <1>5, <1>6, <1>7, AsideKept

\* What a thread does between taking a task and queueing its completion.
Advances(t) ==
  /\ job[t].at \in {"check", "route", "scrape"}
  /\ UNCHANGED <<asideVars, tasks, busy_threads>>
  /\ \/ UNCHANGED <<job, answers>>
     \/ UNCHANGED answers /\ \E place \in {"route", "scrape"} : job' = [job EXCEPT ![t].at = place]
     \/ \E response : response.status \in Codes /\ Answer(t, response)

\* Such a step moves no request.
LEMMA AdvancesCounts ==
  ASSUME FiniteSetFacts, CInv, Places', NEW t \in Threads, Advances(t), Scrapes'
  PROVE  CInv'
<1>0. Types /\ CountTypes /\ Submitted
  BY DEF CInv, Places
<1>1. job[t].at \in {"check", "route", "scrape"} /\ UNCHANGED <<asideVars, tasks, busy_threads>>
  BY DEF Advances
<1>2. job[t] # Idle
  BY <1>1, SMT DEF Idle
<1>3. PICK r \in Requests : r = job[t].request
  BY <1>0, <1>2, JobType
<1>4. /\ job' = job \/ \E place \in {"route", "scrape", "push"} : job' = [job EXCEPT ![t].at = place]
      /\ UNCHANGED answers \/ \E response : response.status \in Codes /\ answers' = [answers EXCEPT ![r] = response]
      /\ UNCHANGED answers => job' = job \/ \E place \in {"route", "scrape"} : job' = [job EXCEPT ![t].at = place]
         \/ answers'[r].status \in Codes
  BY <1>0, <1>3 DEF Advances, Answer, Types
<1>5. \A q \in Requests : q = r \/ answers'[q] = answers[q]
  BY <1>0, <1>4 DEF Types
<1>6. UNCHANGED answers \/ answers'[r].status \in Codes
  BY <1>0, <1>4 DEF Types
<1>7. /\ job'[t].request = r /\ job'[t].at \in {"check", "route", "scrape", "push"}
      /\ \A s \in Threads : s # t => job'[s] = job[s]
      /\ job'[t].at = "push" => answers'[r].status \in Codes
  <2>1. job[t] \in [at : {"check", "route", "scrape", "push", "leave"}, request : Requests, worker : Workers]
    BY <1>0, <1>2, JobType
  <2>2. ASSUME NEW place \in {"route", "scrape", "push"}, job' = [job EXCEPT ![t].at = place]
        PROVE  job'[t].request = r /\ job'[t].at = place /\ \A s \in Threads : s # t => job'[s] = job[s]
    <3>1. job'[t] = [job[t] EXCEPT !.at = place] /\ \A s \in Threads : s # t => job'[s] = job[s]
      BY <1>0, <2>2 DEF Types
    <3> QED BY <1>3, <2>1, <3>1
  <2>3. CASE job' = job
    BY <1>1, <1>3, <2>3
  <2>4. ASSUME NEW place \in {"route", "scrape", "push"}, job' = [job EXCEPT ![t].at = place]
        PROVE  place = "push" => answers'[r].status \in Codes
    <3>1. CASE UNCHANGED answers
      <4>1. job' = job \/ (\E other \in {"route", "scrape"} : job' = [job EXCEPT ![t].at = other]) \/ answers'[r].status \in Codes
        BY <1>4, <3>1
      <4> QED BY <1>1, <2>2, <2>4, <4>1
    <3> QED BY <1>6, <3>1
  <2> QED BY <1>4, <2>2, <2>3, <2>4
<1>8. Working' = Working
  BY <1>1, <1>7 DEF Working
<1>9. Carried
  <2>1. PICK l \in Nat : l = Len(tasks)
    <3>1. Len(tasks) \in Nat
      BY <1>0, SMT DEF Types
    <3> QED BY <3>1
  <2>2. PICK n \in Int : n = busy_threads
    BY <1>0 DEF CountTypes
  <2>3. n + l <= n + l
    BY SMT
  <2> QED BY <1>1, <1>8, <2>1, <2>2, <2>3 DEF Carried
<1>10. Submitted'
  <2>1. \A q : Returned(q)' <=> Returned(q)
    BY <1>1 DEF Returned, asideVars
  <2>2. ASSUME NEW q \in Requests, Held(q)' PROVE Held(q)
    <3>1. CASE Returned(q)'
      BY <2>1, <3>1 DEF Held
    <3>2. CASE \E i \in DOMAIN tasks' : tasks'[i].request = q
      BY <1>1, <3>2 DEF Held
    <3>3. CASE \E s \in Threads : job'[s] # Idle /\ job'[s].request = q
      BY <1>2, <1>3, <1>7, <3>3 DEF Held
    <3> QED BY <2>2, <3>1, <3>2, <3>3 DEF Held
  <2>3. ASSUME NEW q \in Requests, Replied(q)' PROVE Replied(q) \/ answers'[q].status \in Codes
    <3>1. CASE Returned(q)'
      BY <2>1, <3>1 DEF Replied
    <3>2. ASSUME NEW s \in Threads, job'[s].at \in {"push", "leave"}, job'[s].request = q
          PROVE  Replied(q) \/ answers'[q].status \in Codes
      <4>1. CASE s = t
        BY <1>7, <3>2, <4>1
      <4>2. CASE s # t
        BY <1>7, <3>2, <4>2 DEF Replied
      <4> QED BY <4>1, <4>2
    <3> QED BY <2>3, <3>1, <3>2 DEF Replied
  <2>4. \A v \in Workers : \A q \in Requests : Submits(v, q)' => Submits(v, q)
    BY <1>1 DEF Submits, asideVars
  <2>5. \A q \in Requests : answers'[q] = answers[q] \/ answers'[q].status \in Codes
    BY <1>5, <1>6
  <2> QED BY <1>0, <1>1, <2>2, <2>3, <2>4, <2>5, SubmittedKept DEF asideVars
<1> QED BY <1>1, <1>9, <1>10, AsideKept

\* The handlers answer with the codes that are counted.
LEMMA HandlersAdvance ==
  ASSUME NEW t \in Threads
  PROVE  /\ CheckLookup(t) \/ CheckCreate(t) \/ CheckConsume(t) \/ RouteSimple(t) \/ RoutePublish(t)
              \/ RouteRecent(t) => Advances(t) /\ UNCHANGED scrapes
         /\ RouteMetrics(t) \/ Scrape(t) => Advances(t)
<1>0. /\ 200 \in Codes /\ 201 \in Codes /\ 400 \in Codes /\ 404 \in Codes /\ 429 \in Codes /\ 500 \in Codes
      /\ \A code : Status(code).status = code
  BY SMT DEF Codes, Status
<1>a. ASSUME NEW response, response.status \in Codes, Answer(t, response)
      PROVE  \E any : any.status \in Codes /\ Answer(t, any)
  BY <1>a
<1>b. ASSUME NEW code \in Codes, Answer(t, Status(code)) PROVE \E any : any.status \in Codes /\ Answer(t, any)
  <2>1. Status(code).status \in Codes
    BY DEF Status
  <2> QED BY <1>a, <1>b, <2>1
<1> USE DEF Advances, asideVars, poolVars, requestVars, metricsVars, logVars
<1>1. ASSUME CheckLookup(t) \/ CheckCreate(t) PROVE Advances(t) /\ UNCHANGED scrapes
  BY <1>1 DEF CheckLookup, CheckCreate
<1>2. ASSUME CheckConsume(t) PROVE Advances(t) /\ UNCHANGED scrapes
  <2>1. \/ UNCHANGED answers /\ \E place \in {"route", "scrape"} : job' = [job EXCEPT ![t].at = place]
        \/ Answer(t, Status(429))
    BY <1>2 DEF CheckConsume
  <2>2. \/ UNCHANGED answers /\ \E place \in {"route", "scrape"} : job' = [job EXCEPT ![t].at = place]
        \/ \E any : any.status \in Codes /\ Answer(t, any)
    BY <1>0, <1>b, <2>1, SMT
  <2> QED BY <1>2, <2>2 DEF CheckConsume
<1>3. ASSUME RouteSimple(t) PROVE Advances(t) /\ UNCHANGED scrapes
  <2>1. Answer(t, Status(404)) \/ Answer(t, Status(200))
    BY <1>3 DEF RouteSimple
  <2>2. \E any : any.status \in Codes /\ Answer(t, any)
    BY <1>0, <1>b, <2>1, SMT
  <2> QED BY <1>3, <2>2 DEF RouteSimple
<1>4. ASSUME RoutePublish(t) PROVE Advances(t) /\ UNCHANGED scrapes
  <2>1. \/ Answer(t, Status(400)) \/ Answer(t, Status(500))
        \/ Answer(t, [status |-> 201, offset |-> Len(log) + 1])
    BY <1>4 DEF RoutePublish
  <2>2. [status |-> 201, offset |-> Len(log) + 1].status \in Codes
    BY <1>0
  <2>3. \E any : any.status \in Codes /\ Answer(t, any)
    BY <1>0, <1>a, <1>b, <2>1, <2>2, SMT
  <2> QED BY <1>4, <2>3 DEF RoutePublish, Routed
<1>5. ASSUME RouteRecent(t) PROVE Advances(t) /\ UNCHANGED scrapes
  <2>1. PICK c \in Codes, d \in Codes : c = 400 /\ d = 200
    BY SMT DEF Codes
  <2>2. Answer(t, Status(c)) \/ \E messages : Answer(t, [status |-> d, messages |-> messages])
    BY <1>5, <2>1, ZenonT(40) DEF RouteRecent
  <2>3. ASSUME NEW messages, Answer(t, [status |-> d, messages |-> messages])
        PROVE  \E any : any.status \in Codes /\ Answer(t, any)
    <3>1. [status |-> d, messages |-> messages].status \in Codes
      OBVIOUS
    <3> QED BY <1>a, <2>3, <3>1
  <2>4. \E any : any.status \in Codes /\ Answer(t, any)
    BY <1>b, <2>2, <2>3
  <2> QED BY <1>5, <2>4 DEF RouteRecent, Routed
<1>6. ASSUME RouteMetrics(t) PROVE Advances(t)
  <2>1. \/ UNCHANGED answers /\ \E place \in {"route", "scrape"} : job' = [job EXCEPT ![t].at = place]
        \/ Answer(t, Status(500))
    BY <1>6 DEF RouteMetrics
  <2>2. \/ UNCHANGED answers /\ \E place \in {"route", "scrape"} : job' = [job EXCEPT ![t].at = place]
        \/ \E any : any.status \in Codes /\ Answer(t, any)
    BY <1>0, <1>b, <2>1, SMT
  <2> QED BY <1>6, <2>2 DEF RouteMetrics, Routed
<1>7. ASSUME Scrape(t) PROVE Advances(t)
  <2>1. UNCHANGED <<job, answers>> \/ Answer(t, Status(200))
    BY <1>7 DEF Scrape
  <2>2. UNCHANGED <<job, answers>> \/ \E any : any.status \in Codes /\ Answer(t, any)
    BY <1>0, <1>b, <2>1, SMT
  <2> QED BY <1>7, <2>2 DEF Scrape
<1> HIDE DEF Advances
<1> QED BY <1>1, <1>2, <1>3, <1>4, <1>5, <1>6, <1>7

-----------------------------------------------------------------------------
(* The text of GET /metrics.                                               *)

\* A thread writes the next part of its text.
LEMMA ScrapeOne ==
  ASSUME Scrapes, NEW t \in Threads, NEW text, Scraped(text), scrapes' = [scrapes EXCEPT ![t] = text]
  PROVE  Scrapes'
<1>1. scrapes' = [s \in Threads |-> scrapes'[s]] /\ scrapes'[t] = text /\ \A s \in Threads : s # t => scrapes'[s] = scrapes[s]
  BY DEF Scrapes
<1>2. ASSUME NEW s \in Threads PROVE Scraped(scrapes'[s])
  BY <1>1 DEF Scrapes
<1> QED BY <1>1, <1>2 DEF Scrapes

\* stats() is read under the lock that shows what the workers started.
LEMMA ScrapePoolText ==
  ASSUME FiniteSetFacts, CInv, NEW t \in Threads, ScrapePool(t, busy_threads, Len(tasks))
  PROVE  Scrapes'
<1>0. Types /\ CountTypes /\ PoolVisible /\ Scrapes
  BY DEF CInv, Places
<1>1. SumFunction(poolSync) \in Nat /\ Len(tasks) \in Nat /\ busy_threads \in Int
  <2>1. Len(tasks) \in Nat
    BY <1>0, SMT DEF Types
  <2> QED BY <1>0, <2>1, NumbersOf DEF Numbers, CountTypes
<1>2. PICK n \in Int, v \in Nat : n = busy_threads + Len(tasks) /\ v = SumFunction(poolSync)
  <2>1. \A b \in Int, l \in Nat : b + l \in Int
    BY SMT
  <2> QED BY <1>1, <2>1
<1>3. n <= v
  BY <1>0, <1>2 DEF PoolVisible
<1> DEFINE text == [step |-> "totals", in_pool |-> n, visible |-> v]
<1>4. Scraped(text)
  BY <1>3, SMT DEF Scraped
<1>5. scrapes' = [scrapes EXCEPT ![t] = text]
  BY <1>2 DEF ScrapePool
<1> HIDE DEF text
<1> QED BY <1>0, <1>4, <1>5, ScrapeOne

\* A text that is at a step has what the steps before have read.
LEMMA ScrapedAt ==
  ASSUME NEW s, Scraped(s)
  PROVE  /\ s.step = "totals" => s.in_pool \in Int /\ s.visible \in Nat /\ s.in_pool <= s.visible
         /\ s.step = "histogram" => s.in_pool \in Int /\ s.requests \in Nat /\ s.in_pool <= s.requests
         /\ s.step = "workers" => /\ s.in_pool \in Int /\ s.requests \in Nat /\ s.in_pool <= s.requests
                                  /\ s.observed \in Nat /\ s.visible \in Nat /\ s.observed <= s.visible
         /\ s.step = "done" => /\ s.in_pool \in Int /\ s.requests \in Nat /\ s.in_pool <= s.requests
                               /\ s.observed \in Nat /\ s.completed \in Nat /\ s.observed <= s.completed
  BY SMT DEF Scraped, NoScrape

\* The loads of the totals and of the counters see at least what was shown, and the
\* histogram shows the completions it holds.
LEMMA ScrapeText ==
  ASSUME FiniteSetFacts, CInv, NEW t \in Threads, Scrape(t)
  PROVE  Scrapes'
<1>0. CountTypes /\ Scrapes /\ Scraped(scrapes[t]) /\ \A w \in Workers : Local(w)
  BY DEF CInv, Scrapes
<1>1. CASE ScrapeTotals(t)
  <2>1. PICK n \in scrapes[t].visible..RequestsTotal :
          scrapes' = [scrapes EXCEPT ![t] = [step |-> "histogram", in_pool |-> @.in_pool, requests |-> n]]
    BY <1>1 DEF ScrapeTotals
  <2>2. PICK i \in Int, v \in Nat : i = scrapes[t].in_pool /\ v = scrapes[t].visible /\ i <= v
    BY <1>0, <1>1, ScrapedAt DEF ScrapeTotals
  <2> DEFINE text == [step |-> "histogram", in_pool |-> i, requests |-> n]
  <2>3. n \in v..RequestsTotal
    BY <2>1, <2>2
  <2>4. n \in Nat /\ i <= n
    BY <2>2, <2>3, SMT
  <2>5. Scraped(text)
    BY <2>4, SMT DEF Scraped
  <2>6. scrapes' = [scrapes EXCEPT ![t] = text]
    BY <2>1, <2>2
  <2> HIDE DEF text
  <2> QED BY <1>0, <2>5, <2>6, ScrapeOne
<1>2. CASE ScrapeHistogram(t)
  <2>1. scrapes' = [scrapes EXCEPT ![t] =
          [step |-> "workers", in_pool |-> @.in_pool, requests |-> @.requests,
           observed |-> SumFunction(observed), visible |-> SumFunction(durationSync)]]
    BY <1>2 DEF ScrapeHistogram
  <2>2. PICK i \in Int, m \in Nat : i = scrapes[t].in_pool /\ m = scrapes[t].requests /\ i <= m
    BY <1>0, <1>2, ScrapedAt DEF ScrapeHistogram
  <2>3. durationSync = observed
    <3>1. \A w \in Workers : durationSync[w] = observed[w]
      BY <1>0 DEF Local
    <3>2. durationSync = [w \in Workers |-> durationSync[w]] /\ observed = [w \in Workers |-> observed[w]]
      BY <1>0 DEF CountTypes
    <3> QED BY <3>1, <3>2
  <2>4. PICK o \in Nat : o = SumFunction(observed)
    BY <1>0, SumType, GatewayAssumption DEF CountTypes
  <2> DEFINE text == [step |-> "workers", in_pool |-> i, requests |-> m, observed |-> o, visible |-> o]
  <2>5. Scraped(text)
    BY <2>2, SMT DEF Scraped
  <2>6. scrapes' = [scrapes EXCEPT ![t] = text]
    BY <2>1, <2>2, <2>3, <2>4
  <2> HIDE DEF text
  <2> QED BY <1>0, <2>5, <2>6, ScrapeOne
<1>3. CASE ScrapeWorkers(t)
  <2>1. PICK n \in scrapes[t].visible..CompletedTotal :
          scrapes' = [scrapes EXCEPT ![t] =
            [step |-> "done", in_pool |-> @.in_pool, requests |-> @.requests,
             observed |-> @.observed, completed |-> n]]
    BY <1>3 DEF ScrapeWorkers
  <2>2. PICK i \in Int, m \in Nat : i = scrapes[t].in_pool /\ m = scrapes[t].requests /\ i <= m
    BY <1>0, <1>3, ScrapedAt DEF ScrapeWorkers
  <2>3. PICK o \in Nat, v \in Nat : o = scrapes[t].observed /\ v = scrapes[t].visible /\ o <= v
    BY <1>0, <1>3, ScrapedAt DEF ScrapeWorkers
  <2> DEFINE text == [step |-> "done", in_pool |-> i, requests |-> m, observed |-> o, completed |-> n]
  <2>4. n \in v..CompletedTotal
    BY <2>1, <2>3
  <2>5. n \in Nat /\ o <= n
    BY <2>3, <2>4, SMT
  <2>6. Scraped(text)
    BY <2>2, <2>5, SMTT(30) DEF Scraped
  <2>7. scrapes' = [scrapes EXCEPT ![t] = text]
    BY <2>1, <2>2, <2>3
  <2> HIDE DEF text
  <2> QED BY <1>0, <2>6, <2>7, ScrapeOne
<1>4. CASE scrapes' = [scrapes EXCEPT ![t] = NoScrape]
  <2>1. Scraped(NoScrape)
    BY DEF Scraped
  <2> QED BY <1>0, <1>4, <2>1, ScrapeOne
<1> QED BY <1>1, <1>2, <1>3, <1>4 DEF Scrape

-----------------------------------------------------------------------------
(* The induction.                                                          *)

\* Nothing is counted before main has read its settings.
LEMMA CountsInitially == FiniteSetFacts /\ Init => CInv
<1> SUFFICES ASSUME FiniteSetFacts, Init PROVE CInv
  OBVIOUS
<1>1. Places
  BY PlacesInitially
<1>2. Len(<<>>) = 0 /\ DOMAIN <<>> = {} /\ <<>> \in Seq(Requests) /\ 0 \in Nat /\ 0 \in Int
      /\ 0 + 0 = 0 /\ 0 <= 0 /\ 0 >= 0
  BY SMT
<1>3. /\ worker = [w \in Workers |-> Poll] /\ job = [t \in Threads |-> Idle] /\ tasks = <<>> /\ busy_threads = 0
      /\ completions = [w \in Workers |-> <<>>] /\ taken = [w \in Workers |-> <<>>]
      /\ progress = [r \in Requests |-> "new"]
      /\ poolSync = [w \in Workers |-> 0] /\ observed = [w \in Workers |-> 0] /\ durationSync = [w \in Workers |-> 0]
      /\ depth = [w \in Workers |-> 0] /\ high_water = [w \in Workers |-> 0]
      /\ scrapes = [t \in Threads |-> NoScrape]
  BY DEF Init, MetricsInit
<1> DEFINE zero == [c \in StatusClasses |-> 0]
           c0 == [requests |-> 0, completed |-> 0, blocked |-> 0, parse_errors |-> 0, classes |-> zero]
<1>4. counters = [w \in Workers |-> c0]
  BY DEF Init, MetricsInit
<1>5. c0 \in Counters /\ c0.requests = 0 /\ c0.completed = 0 /\ c0.classes = zero
  <2>1. zero \in [StatusClasses -> Nat]
    BY <1>2
  <2> HIDE DEF zero
  <2> QED BY <1>2, <2>1 DEF Counters
<1>6. IsFiniteSet(Workers) /\ IsFiniteSet(StatusClasses)
  <2>1. 1 \in Int /\ 5 \in Int
    BY SMT
  <2> QED BY <2>1, GatewayAssumption DEF FiniteSetFacts, IntervalCounts, StatusClasses
<1>7. SumFunction(zero) = 0
  BY <1>6, SumOfZeros
<1> HIDE DEF zero, c0
<1>8. CountTypes
  BY <1>2, <1>3, <1>4, <1>5 DEF CountTypes
<1>9. Poll.at = "poll" /\ Idle.at = "idle"
  BY SMT DEF Poll, Idle
<1>10. ASSUME NEW r PROVE ~Held(r) /\ ~Replied(r)
  <2>1. ~Returned(r)
    BY <1>2, <1>3 DEF Returned, Within
  <2> QED BY <1>2, <1>3, <1>9, <2>1 DEF Held, Replied
<1>11. Submitted
  BY <1>3, <1>9, <1>10 DEF Submitted, Submits
<1>12. ASSUME NEW w \in Workers PROVE Pending(w) = 0 /\ Observing(w) = 0
  BY <1>3, <1>9, SMT DEF Pending, Observing
<1>13. ASSUME NEW w \in Workers PROVE Local(w)
  BY <1>2, <1>3, <1>4, <1>5, <1>7, <1>9, <1>12 DEF Local
<1>14. Asked = [w \in Workers |-> 0] /\ Own = [w \in Workers |-> 0]
  BY <1>2, <1>3, <1>4, <1>5, <1>12 DEF Asked, Own
<1>15. SumFunction(Asked) = 0 /\ SumFunction(Own) = 0 /\ SumFunction(poolSync) = 0
  BY <1>3, <1>6, <1>14, SumOfZeros
<1>16. Working = {} /\ Dropped = {}
  BY <1>3, <1>9 DEF Working, Dropped
<1>17. IsFiniteSet({}) /\ Cardinality({}) = 0
  BY DEF FiniteSetFacts, EmptyCounts
<1>18. Flow
  BY <1>2, <1>3, <1>15, <1>16, <1>17 DEF Flow
<1>19. PoolVisible
  BY <1>2, <1>3, <1>15 DEF PoolVisible
<1>20. Scrapes
  BY <1>3 DEF Scrapes, Scraped
<1> QED BY <1>1, <1>8, <1>11, <1>13, <1>18, <1>19, <1>20 DEF CInv

\* A step that is none of a worker's or a thread's.
LEMMA OthersCount ==
  ASSUME FiniteSetFacts, CInv, Places', UNCHANGED <<asideVars, tasks, busy_threads, job, answers, scrapes>>
  PROVE  CInv'
<1>0. Types /\ CountTypes /\ Submitted /\ Scrapes
  BY DEF CInv, Places
<1>1. Carried
  <2>1. PICK l \in Nat : l = Len(tasks)
    <3>1. Len(tasks) \in Nat
      BY <1>0, SMT DEF Types
    <3> QED BY <3>1
  <2>2. PICK n \in Int : n = busy_threads
    BY <1>0 DEF CountTypes
  <2>3. n + l <= n + l
    BY SMT
  <2>4. Working' = Working
    BY DEF Working
  <2> QED BY <2>1, <2>2, <2>3, <2>4 DEF Carried
<1>2. Submitted'
  <2>1. \A q : (Held(q)' <=> Held(q)) /\ (Replied(q)' <=> Replied(q))
    BY HeldSame DEF asideVars
  <2>2. \A v \in Workers : \A q \in Requests : Submits(v, q)' => Submits(v, q)
    BY DEF Submits, asideVars
  <2> QED BY <1>0, <2>1, <2>2, SubmittedKept DEF asideVars
<1>3. Scrapes'
  BY <1>0 DEF Scrapes
<1> QED BY <1>1, <1>2, <1>3, AsideKept

\* Every step counts what it does.
LEMMA NextCounts == FiniteSetFacts /\ CInv /\ [Next]_vars => CInv'
<1> SUFFICES ASSUME FiniteSetFacts, CInv, [Next]_vars PROVE CInv'
  OBVIOUS
<1>0. Places' /\ Scrapes
  BY NextPlaces DEF CInv
<1>1. CASE Exit \/ Start \/ Tick
  BY <1>0, <1>1, OthersCount DEF Exit, Start, Tick, requestVars, poolVars, metricsVars, asideVars
<1>2. ASSUME NEW w \in Workers, WorkerStep(w) PROVE CInv'
  BY <1>0, <1>2, DropRequestCounts, SubmitCounts, RefuseCounts, SwapCompletionsCounts, ProcessCompletionCounts,
     ObserveRequestCounts DEF WorkerStep
<1>3. ASSUME NEW w \in Workers, NEW r \in Requests, RejectMalformed(w, r) \/ StartRequest(w, r) PROVE CInv'
  BY <1>0, <1>3, RejectMalformedCounts, StartRequestCounts
<1>4. ASSUME NEW t \in Threads, Advances(t), UNCHANGED scrapes PROVE CInv'
  <2>1. Scrapes'
    BY <1>0, <1>4 DEF Scrapes
  <2> QED BY <1>0, <1>4, <2>1, AdvancesCounts
<1>5. ASSUME NEW t \in Threads, RouteMetrics(t) \/ Scrape(t) PROVE CInv'
  <2>1. Advances(t)
    BY <1>5, HandlersAdvance
  <2>2. Scrapes'
    <3>1. CASE Scrape(t)
      BY <3>1, ScrapeText
    <3>2. CASE RouteMetrics(t)
      <4>1. ScrapePool(t, busy_threads, Len(tasks)) \/ UNCHANGED scrapes
        BY <3>2 DEF RouteMetrics
      <4>2. ASSUME UNCHANGED scrapes PROVE Scrapes'
        BY <1>0, <4>2 DEF Scrapes
      <4> QED BY <4>1, <4>2, ScrapePoolText
    <3> QED BY <1>5, <3>1, <3>2
  <2> QED BY <1>0, <2>1, <2>2, AdvancesCounts
<1>6. ASSUME NEW t \in Threads, ThreadStep(t) PROVE CInv'
  <2>1. CASE TakeTask(t) \/ FinishTask(t) \/ PushCompletion(t)
    BY <1>0, <2>1, TakeTaskCounts, FinishTaskCounts, PushCompletionCounts
  <2>2. CASE CheckLookup(t) \/ CheckCreate(t) \/ CheckConsume(t) \/ RouteSimple(t) \/ RoutePublish(t) \/ RouteRecent(t)
    BY <1>4, <2>2, HandlersAdvance
  <2>3. CASE RouteMetrics(t) \/ Scrape(t)
    BY <1>5, <2>3
  <2> QED BY <1>6, <2>1, <2>2, <2>3 DEF ThreadStep
<1>7. CASE UNCHANGED vars
  BY <1>0, <1>7, OthersCount DEF vars, requestVars, poolVars, metricsVars, asideVars
<1> QED BY <1>1, <1>2, <1>3, <1>6, <1>7 DEF Next

\* A text that was assembled agrees with itself.
LEMMA TextAgrees == CInv => ScrapeConsistent
<1> SUFFICES ASSUME CInv, NEW t \in DOMAIN scrapes, scrapes[t].step = "done"
             PROVE  scrapes[t].requests >= scrapes[t].in_pool /\ scrapes[t].completed >= scrapes[t].observed
  BY DEF ScrapeConsistent
<1>1. Scraped(scrapes[t])
  BY DEF CInv, Scrapes
<1>2. /\ scrapes[t].in_pool \in Int /\ scrapes[t].requests \in Nat /\ scrapes[t].in_pool <= scrapes[t].requests
      /\ scrapes[t].observed \in Nat /\ scrapes[t].completed \in Nat /\ scrapes[t].observed <= scrapes[t].completed
  BY <1>1, ScrapedAt
<1> QED BY <1>2, SMT

\* What is counted where it is is counted.
LEMMA AllCounted == FiniteSetFacts /\ CInv => NothingUncounted
<1> SUFFICES ASSUME FiniteSetFacts, CInv, \A w \in Workers : worker[w] = Poll
             PROVE  /\ RequestsTotal = CompletedTotal + Len(tasks) + Cardinality(Working)
                         + SumFunction([w \in Workers |-> Len(completions[w])]) + Cardinality(Dropped)
                    /\ \A w \in Workers :
                         /\ counters[w].completed = SumFunction(counters[w].classes)
                         /\ counters[w].completed = observed[w]
                         /\ depth[w] = Len(completions[w]) /\ high_water[w] >= depth[w]
  BY DEF NothingUncounted, Working, Dropped
<1>0. Types /\ CountTypes /\ Flow /\ \A w \in Workers : Local(w)
  BY DEF CInv, Places
<1>1. ASSUME NEW w \in Workers
      PROVE  /\ Pending(w) = 0 /\ Observing(w) = 0 /\ Len(taken[w]) = 0
             /\ counters[w].completed \in Nat /\ Len(completions[w]) \in Nat /\ observed[w] \in Nat
  <2>1. worker[w].at = "poll"
    BY SMT DEF Poll
  <2>2. Len(taken[w]) = 0
    <3>1. taken[w] = <<>>
      BY <1>0, <2>1 DEF Local
    <3> QED BY <3>1, SMT
  <2>3. Pending(w) = 0 /\ Observing(w) = 0
    BY <2>1, SMT DEF Pending, Observing
  <2>4. counters[w].completed \in Nat /\ observed[w] \in Nat /\ completions[w] \in Seq(Requests)
    BY OfWorker
  <2>5. Len(completions[w]) \in Nat
    BY <2>4, SMT
  <2> QED BY <2>2, <2>3, <2>4, <2>5
<1> DEFINE f == [w \in Workers |-> counters[w].completed]
           g == [w \in Workers |-> Len(completions[w])]
<1>2. f \in [Workers -> Nat] /\ g \in [Workers -> Nat]
  BY <1>1
<1>3. Own = [w \in Workers |-> f[w] + g[w]]
  <2>1. ASSUME NEW w \in Workers
        PROVE  counters[w].completed + Len(completions[w]) + Len(taken[w]) + Pending(w) = f[w] + g[w]
    <3>1. PICK c \in Nat, n \in Nat : c = counters[w].completed /\ n = Len(completions[w])
      BY <1>1
    <3>2. c + n + 0 + 0 = c + n
      BY SMT
    <3> QED BY <1>1, <3>1, <3>2
  <2> QED BY <2>1 DEF Own
<1>4. RequestsTotal = SumFunction(Asked) /\ CompletedTotal = SumFunction(f)
  BY DEF RequestsTotal, CompletedTotal, Asked
<1> HIDE DEF f, g
<1>5. IsFiniteSet(Workers)
  BY GatewayAssumption
<1>6. SumFunction(Own) = SumFunction(f) + SumFunction(g)
  <2>1. PICK h : h = Own
    OBVIOUS
  <2>2. h = [w \in Workers |-> f[w] + g[w]]
    BY <1>3, <2>1
  <2>3. SumFunction(h) = SumFunction(f) + SumFunction(g)
    BY <1>2, <1>5, <2>2, SumAdds, SMT
  <2> QED BY <2>1, <2>3
<1>7. PICK F \in Nat, G \in Nat : F = SumFunction(f) /\ G = SumFunction(g)
  BY <1>2, <1>5, SumType
<1>8. PICK l \in Nat, b \in Nat, d \in Nat : l = Len(tasks) /\ b = Cardinality(Working) /\ d = Cardinality(Dropped)
  <2>1. Len(tasks) \in Nat
    BY <1>0, SMT DEF Types
  <2>2. Working \subseteq Threads
    BY DEF Working
  <2> QED BY <1>0, <2>1, <2>2, GatewayAssumption DEF FiniteSetFacts, FiniteSubsets, CardinalityIsNat, Flow
<1>9. SumFunction(Asked) = (F + G) + l + b + d
  BY <1>0, <1>6, <1>7, <1>8 DEF Flow
<1>10. (F + G) + l + b + d = F + l + b + G + d
  BY SMT
<1>11. ASSUME NEW w \in Workers
       PROVE  /\ counters[w].completed = SumFunction(counters[w].classes)
              /\ counters[w].completed = observed[w]
              /\ depth[w] = Len(completions[w]) /\ high_water[w] >= depth[w]
  <2>1. observed[w] + 0 = counters[w].completed
    BY <1>0, <1>1 DEF Local
  <2>2. counters[w].completed = observed[w]
    BY <1>1, <2>1, SMT
  <2> QED BY <1>0, <2>2 DEF Local
<1> QED BY <1>4, <1>7, <1>8, <1>9, <1>10, <1>11 DEF g

-----------------------------------------------------------------------------
(* Finite sets are what the lemmas assume they are.                        *)

Sets == INSTANCE FiniteSetTheorems

\* Finite sets and their sizes are those of the library.
LEMMA SameSets == \A S : (IsFiniteSet(S) <=> Sets!IsFiniteSet(S)) /\ Cardinality(S) = Sets!Cardinality(S)
BY DEF IsFiniteSet, Sets!IsFiniteSet, Cardinality, Sets!Cardinality

\* Induction over the naturals, for a set of them.
LEMMA Induction == NaturalInduction
<1> SUFFICES ASSUME NEW T, 0 \in T, \A n \in Nat : n \in T => n + 1 \in T
             PROVE  \A n \in Nat : n \in T
  BY DEF NaturalInduction
<1> DEFINE B == Nat \ T
<1>1. ASSUME NEW m \in B PROVE FALSE
  <2>1. PICK n \in B : \A k \in B : <<k, n>> \notin Sets!OpToRel(<, Nat)
    BY <1>1, Sets!NatLessThanWellFounded, Sets!WFMin
  <2>2. \A k \in B : ~(k < n)
    BY <2>1 DEF Sets!OpToRel
  <2>3. n # 0 /\ n \in Nat
    OBVIOUS
  <2>4. n - 1 \in Nat /\ n - 1 < n /\ (n - 1) + 1 = n
    BY <2>3, SMT
  <2> QED BY <2>2, <2>3, <2>4
<1> QED BY <1>1

\* The facts about finite sets that the lemmas assume.
LEMMA FactsHold == FiniteSetFacts
<1>1. FiniteSubsets
  BY SameSets, Sets!FS_Subset DEF FiniteSubsets
<1>2. CardinalityIsNat
  BY SameSets, Sets!FS_CardinalityType DEF CardinalityIsNat
<1>3. EmptyCounts
  BY SameSets, Sets!FS_EmptySet DEF EmptyCounts
<1>4. ElementAdded
  BY SameSets, Sets!FS_AddElement DEF ElementAdded
<1>5. ElementRemoved
  BY SameSets, Sets!FS_RemoveElement DEF ElementRemoved
<1>6. IntervalCounts
  BY SameSets, Sets!FS_Interval DEF IntervalCounts
<1> QED BY <1>1, <1>2, <1>3, <1>4, <1>5, <1>6, Induction DEF FiniteSetFacts

-----------------------------------------------------------------------------
(* The theorems.                                                           *)

\* Every request is counted where it is, in every reachable state.
THEOREM CountsKept == Spec => []CInv
<1>1. Init => CInv
  BY FactsHold, CountsInitially
<1>2. CInv /\ [Next]_vars => CInv'
  BY FactsHold, NextCounts
<1> QED BY <1>1, <1>2, PTL DEF Spec

\* A text of GET /metrics agrees with itself, however many workers and threads
\* count while metrics_text reads.
THEOREM TextsConsistent == Spec => []ScrapeConsistent
BY TextAgrees, CountsKept, PTL

\* The counters of the workers, the queues and the pool account for every request
\* that was started, for every number of requests, workers and threads.
THEOREM EveryRequestCounted == Spec => []NothingUncounted
<1>1. CInv => NothingUncounted
  BY FactsHold, AllCounted
<1> QED BY <1>1, CountsKept, PTL
=============================================================================
