------------------------- MODULE GatewayPathProofs -------------------------
(***************************************************************************)
(* What the proofs about the gateway share: its rate limiter, by itself,   *)
(* for every set of addresses and threads, every capacity and refill rate; *)
(* and the path of a request, which is in one place at a time, for every   *)
(* number of requests, workers and threads.                                *)
(***************************************************************************)
EXTENDS Gateway, TLAPS

-----------------------------------------------------------------------------
(* What the lemmas about the gateway use of finite sets.  They assume it;  *)
(* GatewayCountsProofs and GatewayProofs prove it from FiniteSetTheorems.  *)

FiniteSubsets ==
  \A S : IsFiniteSet(S) => \A T \in SUBSET S : IsFiniteSet(T) /\ Cardinality(T) <= Cardinality(S)
CardinalityIsNat == \A S : IsFiniteSet(S) => Cardinality(S) \in Nat
EmptyCounts ==
  /\ IsFiniteSet({}) /\ Cardinality({}) = 0
  /\ \A S : IsFiniteSet(S) => ((Cardinality(S) = 0) <=> (S = {}))
ElementAdded ==
  \A S, x : IsFiniteSet(S) =>
    /\ IsFiniteSet(S \cup {x})
    /\ Cardinality(S \cup {x}) = IF x \in S THEN Cardinality(S) ELSE Cardinality(S) + 1
ElementRemoved ==
  \A S, x : IsFiniteSet(S) =>
    /\ IsFiniteSet(S \ {x})
    /\ Cardinality(S \ {x}) = IF x \in S THEN Cardinality(S) - 1 ELSE Cardinality(S)
IntervalCounts ==
  \A a, b \in Int : IsFiniteSet(a..b) /\ Cardinality(a..b) = IF a > b THEN 0 ELSE b - a + 1
NaturalInduction ==
  \A T : 0 \in T /\ (\A n \in Nat : n \in T => n + 1 \in T) => \A n \in Nat : n \in T

FiniteSetFacts ==
  /\ FiniteSubsets /\ CardinalityIsNat /\ EmptyCounts /\ ElementAdded /\ ElementRemoved
  /\ IntervalCounts /\ NaturalInduction

-----------------------------------------------------------------------------
(* The rate limiter by itself.                                             *)

AdmittedCount(ip, s) == Cardinality(Window!AdmittedSince(ip, s))

TypeOK ==
  /\ capacity \in Nat /\ refill_rate \in Nat /\ clock \in Nat
  /\ buckets \in [Addresses -> Nat]
  /\ entries \in Seq(Entry)
  /\ calls \in [Threads -> Calls]
  /\ decisions \in [Addresses -> Seq([at : Nat, allowed : BOOLEAN])]

NothingBeforeConstruction ==
  capacity = 0 => entries = <<>> /\ \A t \in Threads : calls[t] = NoCall

\* An address has one bucket, its own, and every check of it uses that one.
OneBucketPerAddress ==
  /\ \A ip \in Addresses : buckets[ip] <= Len(entries)
  /\ \A ip, jp \in Addresses : ip # jp /\ buckets[ip] # 0 => buckets[ip] # buckets[jp]
  /\ \A t \in Threads : calls[t].pc = "consume" =>
       calls[t].entry # 0 /\ calls[t].entry = buckets[calls[t].ip]

\* What a bucket holds is what the fullest window leaves of its allowance.
Accounts(ip) ==
  LET e == entries[buckets[ip]] IN
  /\ e.last_refill_time <= clock
  /\ \A i \in DOMAIN decisions[ip] : decisions[ip][i].at <= e.last_refill_time
  /\ \A s \in 0..e.last_refill_time :
       Unit * AdmittedCount(ip, s) + e.tokens <= capacity + refill_rate * (e.last_refill_time - s)
  /\ \E s \in 0..e.last_refill_time :
       Unit * AdmittedCount(ip, s) + e.tokens = capacity + refill_rate * (e.last_refill_time - s)

BucketsAccount ==
  \A ip \in Addresses :
    /\ buckets[ip] = 0 => decisions[ip] = <<>>
    /\ buckets[ip] # 0 => Accounts(ip)

IInv == TypeOK /\ NothingBeforeConstruction /\ OneBucketPerAddress /\ BucketsAccount

-----------------------------------------------------------------------------
\* The cardinality WindowLimiter refers to is the one of FiniteSets.
LEMMA SameCardinality == \A S : Window!Cardinality(S) = Cardinality(S)
  BY Zenon DEF Cardinality, Window!Cardinality

\* An entry of a sequence is one of its values.
LEMMA ValueOfSeq ==
  ASSUME NEW S, NEW q \in Seq(S), NEW i \in DOMAIN q
  PROVE  q[i] \in S
  OBVIOUS

\* Multiplication distributes over addition.
LEMMA Distribute ==
  \A r, a, b \in Int : r * (a + b) = r * a + r * b
  OBVIOUS

\* A product of naturals is a natural.
LEMMA ProductIsNat ==
  \A a, b \in Nat : a * b \in Nat
  OBVIOUS

\* What a refill to the present adds, a longer window allows.
LEMMA RefillArithmetic ==
  ASSUME NEW cap \in Nat, NEW rate \in Nat, NEW last \in Nat, NEW now \in Nat, last <= now,
         NEW tokens \in Nat, NEW used \in Nat, NEW s \in 0..last
  PROVE  /\ used + tokens <= cap + rate * (last - s)
            => used + (tokens + (now - last) * rate) <= cap + rate * (now - s)
         /\ used + tokens = cap + rate * (last - s)
            => used + (tokens + (now - last) * rate) = cap + rate * (now - s)
<1>1. rate * ((last - s) + (now - last)) = rate * (last - s) + rate * (now - last)
  BY Distribute
<1>2. (last - s) + (now - last) = now - s
  OBVIOUS
<1>3. (now - last) * rate = rate * (now - last)
  OBVIOUS
<1> DEFINE x == rate * (last - s)
           y == rate * (now - last)
           z == rate * (now - s)
<1>4. x \in Nat /\ y \in Nat /\ z \in Nat
  <2>1. last - s \in Nat /\ now - last \in Nat /\ now - s \in Nat
    OBVIOUS
  <2> QED BY <2>1, ProductIsNat
<1>5. z = x + y /\ (now - last) * rate = y
  BY <1>1, <1>2, <1>3
<1> HIDE DEF x, y, z
<1>6. /\ used + tokens <= cap + x => used + (tokens + y) <= cap + z
      /\ used + tokens = cap + x => used + (tokens + y) = cap + z
  BY <1>4, <1>5
<1> QED BY <1>5, <1>6 DEF x, z

\* Counting the admissions of an address, before and after one more decision.
LEMMA CountIsNat ==
  ASSUME FiniteSetFacts, TypeOK, NEW ip \in Addresses, NEW s
  PROVE  IsFiniteSet(Window!AdmittedSince(ip, s)) /\ AdmittedCount(ip, s) \in Nat
<1> DEFINE d == decisions[ip]
           A == Window!AdmittedSince(ip, s)
<1>1. d \in Seq([at : Nat, allowed : BOOLEAN])
  BY DEF TypeOK
<1>2. A \subseteq 1..Len(d) /\ Len(d) \in Nat
  BY <1>1 DEF Window!AdmittedSince
<1>3. IsFiniteSet(1..Len(d))
  BY <1>2 DEF FiniteSetFacts, IntervalCounts
<1>4. IsFiniteSet(A)
  BY <1>2, <1>3 DEF FiniteSetFacts, FiniteSubsets
<1> QED BY <1>4 DEF FiniteSetFacts, CardinalityIsNat, AdmittedCount

\* How a decision changes the number of admissions in a window.
LEMMA CountAfterDecision ==
  ASSUME FiniteSetFacts, TypeOK, NEW ip \in Addresses, NEW s \in 0..clock, NEW verdict \in BOOLEAN,
         decisions' = [decisions EXCEPT ![ip] = Append(@, [at |-> clock, allowed |-> verdict])]
  PROVE  AdmittedCount(ip, s)' = IF verdict THEN AdmittedCount(ip, s) + 1 ELSE AdmittedCount(ip, s)
<1> DEFINE d == decisions[ip]
           n == Len(d) + 1
           A == Window!AdmittedSince(ip, s)
           B == Window!AdmittedSince(ip, s)'
<1>1. d \in Seq([at : Nat, allowed : BOOLEAN]) /\ clock \in Nat
  BY DEF TypeOK
<1>2. decisions'[ip] = Append(d, [at |-> clock, allowed |-> verdict])
  BY DEF TypeOK
<1>3. /\ DOMAIN decisions'[ip] = DOMAIN d \cup {n} /\ n \notin DOMAIN d
      /\ decisions'[ip][n] = [at |-> clock, allowed |-> verdict]
      /\ \A i \in DOMAIN d : decisions'[ip][i] = d[i]
  BY <1>1, <1>2
<1>4. A = {i \in DOMAIN d : d[i].allowed /\ d[i].at >= s}
  BY DEF Window!AdmittedSince
<1>5. B = {i \in DOMAIN decisions'[ip] : decisions'[ip][i].allowed /\ decisions'[ip][i].at >= s}
  BY DEF Window!AdmittedSince
<1>6. decisions'[ip][n].allowed = verdict /\ decisions'[ip][n].at >= s
  <2>1. decisions'[ip][n].at = clock
    BY <1>3
  <2>2. decisions'[ip][n].allowed = verdict
    <3>1. [at |-> clock, allowed |-> verdict].allowed = verdict
      OBVIOUS
    <3> QED BY <1>3, <3>1, Zenon
  <2> QED BY <1>1, <2>1, <2>2
<1>7. CASE verdict
  <2>1. B = A \cup {n}
    BY <1>3, <1>4, <1>5, <1>6, <1>7
  <2>2. n \notin A
    BY <1>3, <1>4
  <2> QED BY <1>7, <2>1, <2>2, CountIsNat DEF FiniteSetFacts, ElementAdded, AdmittedCount
<1>8. CASE ~verdict
  <2>1. B = A
    BY <1>3, <1>4, <1>5, <1>6, <1>8
  <2> QED BY <1>8, <2>1 DEF AdmittedCount
<1> QED BY <1>7, <1>8

-----------------------------------------------------------------------------
(* A bucket brought up to date.                                            *)

\* Refill and cap keep the account of a bucket.
LEMMA RefilledAccounts ==
  ASSUME FiniteSetFacts, TypeOK, NEW ip \in Addresses, buckets[ip] # 0, buckets[ip] <= Len(entries), Accounts(ip),
         NEW R, R = Refill(entries[buckets[ip]])
  PROVE  /\ R \in Nat
         /\ \A s \in 0..clock :
              Unit * AdmittedCount(ip, s) + R <= capacity + refill_rate * (clock - s)
         /\ \E s \in 0..clock :
              Unit * AdmittedCount(ip, s) + R = capacity + refill_rate * (clock - s)
<1> DEFINE e == entries[buckets[ip]]
           last == e.last_refill_time
           tokens == e.tokens
           full == tokens + (clock - last) * refill_rate
<1>1. /\ capacity \in Nat /\ refill_rate \in Nat /\ clock \in Nat /\ Unit \in Nat
      /\ last \in Nat /\ tokens \in Nat /\ last <= clock
  <2>1. e \in Entry
    BY DEF TypeOK
  <2> QED BY <2>1, LimiterAssumption DEF TypeOK, Entry, Accounts
<1>2. R = IF capacity < full THEN capacity ELSE full
  BY DEF Refill
<1>3. full \in Nat
  <2>1. clock - last \in Nat
    BY <1>1
  <2>2. (clock - last) * refill_rate \in Nat
    BY <1>1, <2>1, ProductIsNat
  <2> HIDE DEF last, tokens
  <2> QED BY <1>1, <2>2
<1>4. /\ \A s \in 0..last : Unit * AdmittedCount(ip, s) + tokens <= capacity + refill_rate * (last - s)
      /\ \E s \in 0..last : Unit * AdmittedCount(ip, s) + tokens = capacity + refill_rate * (last - s)
      /\ \A i \in DOMAIN decisions[ip] : decisions[ip][i].at <= last
  BY DEF Accounts
<1> HIDE DEF e, last, tokens
<1>5. R \in Nat /\ R <= capacity /\ R <= full
  <2> HIDE DEF full
  <2> QED BY <1>1, <1>2, <1>3
<1>6. ASSUME NEW s \in 0..clock
      PROVE  /\ Unit * AdmittedCount(ip, s) \in Nat /\ refill_rate * (clock - s) \in Nat
             /\ s > last => Unit * AdmittedCount(ip, s) = 0
  <2>1. AdmittedCount(ip, s) \in Nat
    BY CountIsNat
  <2>2. Unit * AdmittedCount(ip, s) \in Nat
    BY <1>1, <2>1, ProductIsNat
  <2>3. clock - s \in Nat
    BY <1>1
  <2>4. refill_rate * (clock - s) \in Nat
    BY <1>1, <2>3, ProductIsNat
  <2>5. ASSUME s > last PROVE AdmittedCount(ip, s) = 0
    <3>1. decisions[ip] \in Seq([at : Nat, allowed : BOOLEAN])
      BY DEF TypeOK
    <3>2. ASSUME NEW i \in DOMAIN decisions[ip] PROVE ~(decisions[ip][i].at >= s)
      <4>1. decisions[ip][i] \in [at : Nat, allowed : BOOLEAN]
        BY <3>1, ValueOfSeq, Zenon
      <4>3. decisions[ip][i].at \in Nat
        BY <4>1
      <4>2. decisions[ip][i].at <= last
        BY <1>4
      <4> QED BY <1>1, <2>5, <4>2, <4>3
    <3>3. Window!AdmittedSince(ip, s) = {}
      BY <3>2 DEF Window!AdmittedSince
    <3> QED BY <3>3 DEF FiniteSetFacts, EmptyCounts, AdmittedCount
  <2>6. Unit * 0 = 0
    BY <1>1
  <2> QED BY <2>2, <2>4, <2>5, <2>6
<1>7. ASSUME NEW s \in 0..clock
      PROVE  Unit * AdmittedCount(ip, s) + R <= capacity + refill_rate * (clock - s)
  <2> DEFINE used == Unit * AdmittedCount(ip, s)
             more == refill_rate * (clock - s)
  <2>1. used \in Nat /\ more \in Nat /\ (s > last => used = 0)
    BY <1>6
  <2>2. CASE s > last
    <3> HIDE DEF used, more
    <3>1. used + R <= capacity + more
      BY <1>1, <1>5, <2>1, <2>2
    <3> QED BY <3>1 DEF used, more
  <2>3. CASE s <= last
    <3>1. s \in 0..last
      BY <1>1, <2>3
    <3>2. used + tokens <= capacity + refill_rate * (last - s)
      BY <1>4, <3>1
    <3>3. used + full <= capacity + more
      <4> HIDE DEF used
      <4> QED BY <1>1, <2>1, <3>1, <3>2, RefillArithmetic
    <3> HIDE DEF used, more, full
    <3>4. used + R <= capacity + more
      BY <1>1, <1>3, <1>5, <2>1, <3>3
    <3> QED BY <3>4 DEF used, more
  <2> QED BY <1>1, <2>2, <2>3
<1>8. \E s \in 0..clock :
        Unit * AdmittedCount(ip, s) + R = capacity + refill_rate * (clock - s)
  <2>1. CASE capacity < full
    <3>1. R = capacity
      BY <1>2, <2>1
    <3>2. ASSUME clock = last PROVE FALSE
      <4>1. Unit * AdmittedCount(ip, last) + tokens <= capacity + refill_rate * (last - last)
        BY <1>1, <1>4
      <4>2. Unit * AdmittedCount(ip, last) \in Nat
        BY <1>1, <1>6, <3>2
      <4>3. refill_rate * (last - last) = 0 /\ (clock - last) * refill_rate = 0
        BY <1>1, <3>2
      <4>4. full = tokens
        BY <1>1, <4>3
      <4> HIDE DEF full
      <4> QED BY <1>1, <2>1, <4>1, <4>2, <4>3, <4>4
    <3>3. clock > last /\ clock \in 0..clock
      BY <1>1, <3>2
    <3>4. Unit * AdmittedCount(ip, clock) = 0
      BY <1>6, <3>3
    <3>5. refill_rate * (clock - clock) = 0
      BY <1>1
    <3>6. Unit * AdmittedCount(ip, clock) + R = capacity + refill_rate * (clock - clock)
      BY <1>1, <3>1, <3>4, <3>5
    <3> QED BY <3>3, <3>6
  <2>2. CASE ~(capacity < full)
    <3>1. R = full
      BY <1>2, <2>2
    <3>2. PICK s \in 0..last :
            Unit * AdmittedCount(ip, s) + tokens = capacity + refill_rate * (last - s)
      BY <1>4
    <3>3. s \in 0..clock
      BY <1>1
    <3>4. Unit * AdmittedCount(ip, s) \in Nat
      BY <1>6, <3>3
    <3> DEFINE used == Unit * AdmittedCount(ip, s)
    <3>5. used + full = capacity + refill_rate * (clock - s)
      <4> HIDE DEF used
      <4>1. used \in Nat /\ used + tokens = capacity + refill_rate * (last - s)
        BY <3>2, <3>4 DEF used
      <4> QED BY <1>1, <4>1, RefillArithmetic
    <3> QED BY <3>1, <3>3, <3>5
  <2> QED BY <2>1, <2>2
<1> QED BY <1>5, <1>7, <1>8

\* consume() on an up-to-date bucket returns what the windows allow.
LEMMA AllowsWhatWindowsAllow ==
  ASSUME FiniteSetFacts, TypeOK, NEW ip \in Addresses, buckets[ip] # 0, buckets[ip] <= Len(entries), Accounts(ip),
         NEW R, R = Refill(entries[buckets[ip]])
  PROVE  R >= Unit <=> Window!Admissible(ip)
<1>1. Unit \in Nat /\ capacity \in Nat /\ refill_rate \in Nat /\ clock \in Nat
  BY LimiterAssumption DEF TypeOK
<1>2. /\ R \in Nat
      /\ \A s \in 0..clock :
           Unit * AdmittedCount(ip, s) + R <= capacity + refill_rate * (clock - s)
      /\ \E s \in 0..clock :
           Unit * AdmittedCount(ip, s) + R = capacity + refill_rate * (clock - s)
  BY RefilledAccounts
<1>3. Window!Admissible(ip) <=> \A s \in 0..clock :
        Unit * (AdmittedCount(ip, s) + 1) <= capacity + refill_rate * (clock - s)
  BY SameCardinality DEF Window!Admissible, AdmittedCount
<1>4. ASSUME NEW s \in 0..clock
      PROVE  /\ Unit * (AdmittedCount(ip, s) + 1) = Unit * AdmittedCount(ip, s) + Unit
             /\ Unit * AdmittedCount(ip, s) \in Nat
             /\ refill_rate * (clock - s) \in Nat
  <2>1. AdmittedCount(ip, s) \in Nat /\ clock - s \in Nat
    BY <1>1, CountIsNat
  <2>2. Unit * (AdmittedCount(ip, s) + 1) = Unit * AdmittedCount(ip, s) + Unit * 1
    BY <1>1, <2>1, Distribute
  <2> QED BY <1>1, <2>1, <2>2, ProductIsNat
<1>5. ASSUME R >= Unit, NEW s \in 0..clock
      PROVE  Unit * (AdmittedCount(ip, s) + 1) <= capacity + refill_rate * (clock - s)
  <2> DEFINE used == Unit * AdmittedCount(ip, s)
             more == refill_rate * (clock - s)
  <2>1. used \in Nat /\ more \in Nat /\ used + R <= capacity + more
    BY <1>2, <1>4
  <2> HIDE DEF used, more
  <2>2. used + Unit <= capacity + more
    BY <1>1, <1>2, <1>5, <2>1
  <2> QED BY <1>4, <2>2 DEF used, more
<1>6. ASSUME Window!Admissible(ip) PROVE R >= Unit
  <2>1. PICK s \in 0..clock :
          Unit * AdmittedCount(ip, s) + R = capacity + refill_rate * (clock - s)
    BY <1>2
  <2> DEFINE used == Unit * AdmittedCount(ip, s)
             more == refill_rate * (clock - s)
  <2>2. used \in Nat /\ more \in Nat /\ used + R = capacity + more /\ used + Unit <= capacity + more
    BY <1>3, <1>4, <1>6, <2>1
  <2> HIDE DEF used, more
  <2> QED BY <1>1, <1>2, <2>2
<1> QED BY <1>3, <1>5, <1>6

-----------------------------------------------------------------------------
(* The invariant is inductive.                                             *)

\* The limiter starts without buckets.
LEMMA Initially == LimiterInit => IInv
<1> SUFFICES ASSUME LimiterInit PROVE IInv
  OBVIOUS
<1>1. TypeOK
  <2>1. calls \in [Threads -> Calls]
    BY DEF LimiterInit, Calls
  <2>2. decisions \in [Addresses -> Seq([at : Nat, allowed : BOOLEAN])]
    BY DEF LimiterInit
  <2> QED BY <2>1, <2>2 DEF LimiterInit, TypeOK
<1>2. NothingBeforeConstruction /\ OneBucketPerAddress
  BY DEF LimiterInit, NothingBeforeConstruction, OneBucketPerAddress, NoCall
<1>3. BucketsAccount
  BY DEF LimiterInit, BucketsAccount
<1> QED BY <1>1, <1>2, <1>3 DEF IInv

\* The call of a thread that is inside check.
LEMMA CallType ==
  ASSUME TypeOK, NEW t \in Threads, calls[t].pc \in {"create", "consume"}
  PROVE  calls[t] \in [pc : {"create", "consume"}, ip : Addresses, entry : Nat] /\ calls[t].ip \in Addresses
<1>1. calls[t] \in Calls
  BY DEF TypeOK
<1>2. calls[t] # NoCall
  BY DEF NoCall
<1> QED BY <1>1, <1>2 DEF Calls

\* A bucket that a step leaves alone still accounts for its address.
LEMMA AccountsKept ==
  ASSUME NEW ip \in Addresses, Accounts(ip), TypeOK, buckets[ip] # 0, buckets[ip] <= Len(entries),
         entries'[buckets'[ip]] = entries[buckets[ip]], decisions'[ip] = decisions[ip],
         capacity' = capacity, refill_rate' = refill_rate, clock' \in Nat, clock <= clock'
  PROVE  Accounts(ip)'
<1>1. \A s : AdmittedCount(ip, s)' = AdmittedCount(ip, s)
  BY Zenon DEF AdmittedCount, Window!AdmittedSince
<1>2. entries[buckets[ip]].last_refill_time \in Nat /\ clock \in Nat
  <2>1. entries[buckets[ip]] \in Entry
    BY DEF TypeOK
  <2> QED BY <2>1 DEF TypeOK, Entry
<1>3. entries[buckets[ip]].last_refill_time <= clock'
  BY <1>2 DEF Accounts
<1> QED BY <1>1, <1>3, Zenon DEF Accounts

\* Every step keeps the types.
LEMMA StepTypes ==
  ASSUME FiniteSetFacts, IInv, LimiterNext
  PROVE  TypeOK'
<1>0. TypeOK /\ OneBucketPerAddress /\ BucketsAccount
  BY DEF IInv
<1>1. ASSUME NEW c \in Nat, NEW r \in Nat, Construct(c, r) PROVE TypeOK'
  BY <1>0, <1>1 DEF Construct, TypeOK
<1>2. CASE Elapse
  BY <1>0, <1>2 DEF Elapse, TypeOK
<1>3. ASSUME NEW t \in Threads, NEW ip \in Addresses, Lookup(t, ip) PROVE TypeOK'
  <2>1. calls' \in [Threads -> Calls]
    BY <1>0, <1>3 DEF Lookup, TypeOK, Calls
  <2> QED BY <1>0, <1>3, <2>1 DEF Lookup, TypeOK
<1>4. ASSUME NEW t \in Threads, Create(t) PROVE TypeOK'
  <2>1. calls[t].ip \in Addresses
    BY <1>0, <1>4, CallType DEF Create
  <2>2. entries' \in Seq(Entry) /\ buckets' \in [Addresses -> Nat]
    <3>1. NewEntry \in Entry
      BY <1>0 DEF NewEntry, TypeOK, Entry
    <3>2. entries \in Seq(Entry) /\ buckets \in [Addresses -> Nat] /\ Len(entries) \in Nat
      BY <1>0 DEF TypeOK
    <3>3. CASE UNCHANGED <<buckets, entries>>
      BY <3>2, <3>3
    <3>4. CASE /\ entries' = Append(entries, NewEntry)
               /\ buckets' = [buckets EXCEPT ![calls[t].ip] = Len(entries) + 1]
      <4>1. entries' \in Seq(Entry)
        BY <3>1, <3>2, <3>4
      <4>2. buckets' \in [Addresses -> Nat]
        BY <2>1, <3>2, <3>4
      <4> QED BY <4>1, <4>2
    <3> QED BY <1>4, <3>3, <3>4 DEF Create, FindOrEmplace
  <2>3. calls' \in [Threads -> Calls]
    BY <1>0, <1>4, <2>1, <2>2 DEF Create, TypeOK, Calls
  <2> QED BY <1>0, <1>4, <2>2, <2>3 DEF Create, TypeOK
<1>5. ASSUME NEW t \in Threads, Consume(t) PROVE TypeOK'
  <2> DEFINE ip == calls[t].ip
             e == calls[t].entry
             R == Refill(entries[e])
  <2>1. ip \in Addresses /\ e # 0 /\ e = buckets[ip] /\ e <= Len(entries)
    BY <1>0, <1>5, CallType DEF Consume, OneBucketPerAddress
  <2>2. entries' \in Seq(Entry)
    <3>1. R \in Nat
      BY <1>0, <2>1, RefilledAccounts DEF BucketsAccount
    <3>2. /\ entries \in Seq(Entry) /\ e \in 1..Len(entries)
          /\ clock \in Nat /\ Unit \in Nat
      BY <1>0, <2>1, LimiterAssumption DEF TypeOK
    <3> DEFINE left == IF Allows(t) THEN R - Unit ELSE R
    <3>3. left \in Nat
      <4>1. Allows(t) <=> R >= Unit
        BY DEF Allows
      <4> HIDE DEF R
      <4> QED BY <3>1, <3>2, <4>1
    <3>4. entries' = [entries EXCEPT ![e] = [tokens |-> left, last_refill_time |-> clock]]
      BY <1>5, Zenon DEF Consume
    <3> HIDE DEF left, e
    <3> QED BY <3>2, <3>3, <3>4 DEF Entry
  <2>3. decisions' \in [Addresses -> Seq([at : Nat, allowed : BOOLEAN])]
    <3>1. [at |-> clock, allowed |-> Allows(t)] \in [at : Nat, allowed : BOOLEAN]
      <4>1. Allows(t) \in BOOLEAN
        BY DEF Allows
      <4>2. clock \in Nat
        BY <1>0 DEF TypeOK
      <4> QED BY <4>1, <4>2
    <3> DEFINE d == [at |-> clock, allowed |-> Allows(t)]
               D == [at : Nat, allowed : BOOLEAN]
    <3>2. decisions' = [decisions EXCEPT ![ip] = Append(@, d)] /\ decisions \in [Addresses -> Seq(D)]
      BY <1>0, <1>5 DEF Consume, TypeOK
    <3>3. d \in D
      BY <3>1
    <3> HIDE DEF d, D, ip
    <3>4. decisions' \in [Addresses -> Seq(D)]
      BY <2>1, <3>2, <3>3
    <3> QED BY <3>4 DEF D
  <2>4. calls' \in [Threads -> Calls]
    BY <1>0, <1>5 DEF Consume, TypeOK, Calls
  <2> QED BY <1>0, <1>5, <2>2, <2>3, <2>4 DEF Consume, TypeOK
<1> QED BY <1>1, <1>2, <1>3, <1>4, <1>5 DEF LimiterNext

\* Nothing happens before the construction.
LEMMA StepKeepsConstruction ==
  ASSUME IInv, LimiterNext
  PROVE  NothingBeforeConstruction'
<1>0. TypeOK /\ NothingBeforeConstruction
  BY DEF IInv
<1>1. ASSUME NEW c \in Nat, NEW r \in Nat, Construct(c, r) PROVE capacity' # 0
  BY <1>1, LimiterAssumption DEF Construct
<1>2. ASSUME NEW t \in Threads, Create(t) \/ Consume(t) PROVE capacity # 0
  <2>1. calls[t] # NoCall
    BY <1>2 DEF Create, Consume, NoCall
  <2> QED BY <1>0, <2>1 DEF NothingBeforeConstruction
<1>3. ASSUME NEW t \in Threads, NEW ip \in Addresses, Lookup(t, ip) PROVE capacity' # 0
  BY <1>0, <1>3 DEF Lookup, TypeOK
<1>4. CASE Elapse
  BY <1>0, <1>4 DEF Elapse, NothingBeforeConstruction
<1> QED
  BY <1>1, <1>2, <1>3, <1>4 DEF LimiterNext, Create, Consume, NothingBeforeConstruction

\* Every step keeps one bucket per address.
LEMMA StepKeepsOneBucket ==
  ASSUME FiniteSetFacts, IInv, LimiterNext
  PROVE  OneBucketPerAddress'
<1>0. /\ OneBucketPerAddress /\ TypeOK /\ TypeOK'
      /\ calls \in [Threads -> Calls] /\ buckets \in [Addresses -> Nat] /\ Len(entries) \in Nat
  BY StepTypes DEF IInv, TypeOK
<1>1. ASSUME NEW c \in Nat, NEW r \in Nat, Construct(c, r) PROVE OneBucketPerAddress'
  BY <1>0, <1>1 DEF Construct, OneBucketPerAddress
<1>2. CASE Elapse
  BY <1>0, <1>2 DEF Elapse, OneBucketPerAddress
<1>3. ASSUME NEW t \in Threads, NEW ip \in Addresses, Lookup(t, ip) PROVE OneBucketPerAddress'
  <2>1. \A u \in Threads \ {t} : calls'[u] = calls[u]
    BY <1>0, <1>3 DEF Lookup
  <2>2. calls'[t].pc = "consume" =>
          calls'[t].entry # 0 /\ calls'[t].entry = buckets[calls'[t].ip]
    BY <1>0, <1>3 DEF Lookup
  <2> QED BY <1>0, <1>3, <2>1, <2>2 DEF Lookup, OneBucketPerAddress
<1>4. ASSUME NEW t \in Threads, Create(t) PROVE OneBucketPerAddress'
  <2> DEFINE ip == calls[t].ip
  <2>1. ip \in Addresses
    BY <1>0, <1>4, CallType DEF Create
  <2>2. \A u \in Threads \ {t} : calls'[u] = calls[u]
    BY <1>0, <1>4 DEF Create
  <2>3. calls'[t] = [pc |-> "consume", ip |-> ip, entry |-> buckets'[ip]]
    BY <1>0, <1>4 DEF Create
  <2>4. calls'[t].ip = ip /\ calls'[t].entry = buckets'[ip]
    BY <2>3
  <2> HIDE DEF ip
  <2>5. CASE buckets[ip] # 0 /\ UNCHANGED <<buckets, entries>>
    BY <1>0, <2>2, <2>4, <2>5 DEF OneBucketPerAddress
  <2>6. CASE /\ buckets[ip] = 0 /\ entries' = Append(entries, NewEntry)
             /\ buckets' = [buckets EXCEPT ![ip] = Len(entries) + 1]
    <3>1. Len(entries') = Len(entries) + 1
      BY <1>0, <2>6 DEF TypeOK
    <3>2. \A jp \in Addresses : buckets[jp] \in Nat /\ buckets[jp] <= Len(entries)
      BY <1>0 DEF OneBucketPerAddress
    <3>3. buckets'[ip] = Len(entries) + 1 /\ \A jp \in Addresses \ {ip} : buckets'[jp] = buckets[jp]
      BY <1>0, <2>1, <2>6
    <3>4. \A jp \in Addresses : buckets'[jp] <= Len(entries')
      BY <1>0, <3>1, <3>2, <3>3
    <3>5. \A jp, kp \in Addresses : jp # kp /\ buckets'[jp] # 0 => buckets'[jp] # buckets'[kp]
      <4> SUFFICES ASSUME NEW jp \in Addresses, NEW kp \in Addresses, jp # kp, buckets'[jp] # 0
                   PROVE  buckets'[jp] # buckets'[kp]
        OBVIOUS
      <4>1. CASE jp = ip
        BY <1>0, <3>2, <3>3, <4>1
      <4>2. CASE kp = ip
        BY <1>0, <3>2, <3>3, <4>2
      <4>3. CASE jp # ip /\ kp # ip
        BY <1>0, <3>3, <4>3 DEF OneBucketPerAddress
      <4> QED BY <4>1, <4>2, <4>3
    <3>6. ASSUME NEW u \in Threads, calls'[u].pc = "consume"
          PROVE  calls'[u].entry # 0 /\ calls'[u].entry = buckets'[calls'[u].ip]
      <4>1. CASE u = t
        BY <1>0, <2>4, <3>3, <4>1
      <4>2. CASE u # t
        <5>1. calls'[u] = calls[u]
          BY <2>2, <4>2
        <5>2. calls[u].entry # 0 /\ calls[u].entry = buckets[calls[u].ip]
          BY <1>0, <3>6, <5>1 DEF OneBucketPerAddress
        <5>3. calls[u].ip # ip /\ calls[u].ip \in Addresses
          BY <1>0, <2>6, <3>6, <5>1, <5>2, CallType
        <5> QED BY <3>3, <5>1, <5>2, <5>3
      <4> QED BY <4>1, <4>2
    <3> QED BY <3>4, <3>5, <3>6 DEF OneBucketPerAddress
  <2> QED BY <1>4, <2>5, <2>6 DEF Create, FindOrEmplace, ip
<1>5. ASSUME NEW t \in Threads, Consume(t) PROVE OneBucketPerAddress'
  <2>1. \A u \in Threads : calls'[u] = calls[u] \/ calls'[u] = NoCall
    BY <1>0, <1>5 DEF Consume
  <2>2. Len(entries') = Len(entries) /\ buckets' = buckets
    BY <1>0, <1>5 DEF Consume, TypeOK
  <2>3. NoCall.pc # "consume"
    BY DEF NoCall
  <2> QED BY <1>0, <2>1, <2>2, <2>3 DEF OneBucketPerAddress
<1> QED BY <1>1, <1>2, <1>3, <1>4, <1>5 DEF LimiterNext

\* A new bucket is full and its address has been admitted nothing.
LEMMA NewBucketAccounts ==
  ASSUME FiniteSetFacts, TypeOK, NEW ip \in Addresses, decisions[ip] = <<>>, decisions' = decisions,
         entries'[buckets'[ip]] = NewEntry, UNCHANGED <<capacity, refill_rate, clock>>
  PROVE  Accounts(ip)'
<1>1. capacity \in Nat /\ refill_rate \in Nat /\ clock \in Nat /\ Unit \in Nat
  BY LimiterAssumption DEF TypeOK
<1>2. entries'[buckets'[ip]].tokens = capacity /\ entries'[buckets'[ip]].last_refill_time = clock
  BY DEF NewEntry
<1>3. ASSUME NEW s PROVE AdmittedCount(ip, s)' = 0
  <2>1. Window!AdmittedSince(ip, s)' = {}
    BY DEF Window!AdmittedSince
  <2> QED BY <2>1 DEF FiniteSetFacts, EmptyCounts, AdmittedCount
<1>4. ASSUME NEW s \in 0..clock PROVE refill_rate * (clock - s) \in Nat
  BY <1>1, ProductIsNat
<1>5. Unit * 0 = 0 /\ refill_rate * (clock - clock) = 0 /\ clock \in 0..clock
  BY <1>1
<1>6. ASSUME NEW s \in 0..clock
      PROVE  Unit * AdmittedCount(ip, s)' + capacity <= capacity + refill_rate * (clock - s)
  <2> DEFINE more == refill_rate * (clock - s)
  <2>1. more \in Nat
    BY <1>4
  <2> HIDE DEF more
  <2>2. 0 + capacity <= capacity + more
    BY <1>1, <2>1
  <2> QED BY <1>3, <1>5, <2>2 DEF more
<1>7. Unit * AdmittedCount(ip, clock)' + capacity = capacity + refill_rate * (clock - clock)
  BY <1>1, <1>3, <1>5
<1>8. \A i \in DOMAIN decisions'[ip] : FALSE
  OBVIOUS
<1>9. clock <= clock
  BY <1>1
<1>10. /\ \A s \in 0..clock :
            Unit * AdmittedCount(ip, s)' + capacity <= capacity + refill_rate * (clock - s)
       /\ \E s \in 0..clock :
            Unit * AdmittedCount(ip, s)' + capacity = capacity + refill_rate * (clock - s)
  BY <1>5, <1>6, <1>7
<1>11. capacity' = capacity /\ refill_rate' = refill_rate /\ clock' = clock
  OBVIOUS
<1> QED BY <1>2, <1>8, <1>9, <1>10, <1>11, Zenon DEF Accounts

\* The critical section of an entry keeps the account of its bucket.
LEMMA ConsumeAccounts ==
  ASSUME FiniteSetFacts, IInv, NEW t \in Threads, Consume(t), NEW ip, ip = calls[t].ip
  PROVE  /\ ip \in Addresses
         /\ Allows(t) <=> Window!Admissible(ip)
         /\ Accounts(ip)'
<1> DEFINE e == calls[t].entry
           R == Refill(entries[e])
           left == IF Allows(t) THEN R - Unit ELSE R
<1>1. ip \in Addresses /\ e # 0 /\ e = buckets[ip] /\ e <= Len(entries) /\ Accounts(ip)
  <2>1. ip \in Addresses
    BY CallType DEF Consume, IInv
  <2> QED BY <2>1 DEF Consume, IInv, OneBucketPerAddress, BucketsAccount
<1>2. TypeOK /\ e \in 1..Len(entries) /\ entries \in Seq(Entry)
  BY <1>1 DEF IInv, TypeOK
<1>3. /\ R \in Nat
      /\ \A s \in 0..clock : Unit * AdmittedCount(ip, s) + R <= capacity + refill_rate * (clock - s)
      /\ \E s \in 0..clock : Unit * AdmittedCount(ip, s) + R = capacity + refill_rate * (clock - s)
  BY <1>1, <1>2, RefilledAccounts
<1>4. Allows(t) <=> Window!Admissible(ip)
  <2>1. Allows(t) <=> R >= Unit
    BY DEF Allows
  <2>2. R >= Unit <=> Window!Admissible(ip)
    BY <1>1, <1>2, AllowsWhatWindowsAllow
  <2> QED BY <2>1, <2>2
<1>5. entries'[buckets'[ip]] = [tokens |-> left, last_refill_time |-> clock]
  <2>1. entries' = [entries EXCEPT ![e] = [tokens |-> left, last_refill_time |-> clock]]
    BY Zenon DEF Consume
  <2>2. buckets' = buckets
    BY DEF Consume
  <2> HIDE DEF left, e
  <2> QED BY <1>1, <1>2, <2>1, <2>2
<1>6. /\ capacity \in Nat /\ refill_rate \in Nat /\ clock \in Nat /\ Unit \in Nat
      /\ UNCHANGED <<capacity, refill_rate, clock>>
  BY <1>2, LimiterAssumption DEF TypeOK, Consume
<1>7. ASSUME NEW s \in 0..clock
      PROVE  Unit * AdmittedCount(ip, s)' + left = Unit * AdmittedCount(ip, s) + R
  <2>1. Allows(t) \in BOOLEAN
    BY DEF Allows
  <2>2. decisions' = [decisions EXCEPT ![ip] = Append(@, [at |-> clock, allowed |-> Allows(t)])]
    BY DEF Consume
  <2>3. AdmittedCount(ip, s)' = IF Allows(t) THEN AdmittedCount(ip, s) + 1 ELSE AdmittedCount(ip, s)
    BY <1>1, <1>2, <2>1, <2>2, CountAfterDecision
  <2> DEFINE n == AdmittedCount(ip, s)
             m == AdmittedCount(ip, s)'
  <2>4. n \in Nat
    BY <1>1, <1>2, CountIsNat
  <2>5. Unit * n \in Nat /\ Unit * (n + 1) = Unit * n + Unit
    <3>1. Unit * (n + 1) = Unit * n + Unit * 1
      BY <1>6, <2>4, Distribute
    <3> QED BY <1>6, <2>4, <3>1, ProductIsNat
  <2>6. CASE Allows(t)
    <3>1. m = n + 1 /\ left = R - Unit
      BY <2>3, <2>6
    <3>2. Unit * m = Unit * n + Unit
      BY <2>5, <3>1
    <3> DEFINE x == Unit * n
               y == Unit * m
    <3>3. x \in Nat /\ y = x + Unit
      BY <2>5, <3>2
    <3> HIDE DEF R, left, x, y, n, m
    <3>4. y + left = x + R
      BY <1>3, <1>6, <3>1, <3>3
    <3> QED BY <3>4 DEF x, y, n, m
  <2>7. CASE ~Allows(t)
    BY <2>3, <2>7
  <2> QED BY <2>6, <2>7
<1>8. ASSUME NEW i \in DOMAIN decisions'[ip] PROVE decisions'[ip][i].at <= clock
  <2> DEFINE d == decisions[ip]
             v == [at |-> clock, allowed |-> Allows(t)]
  <2>1. d \in Seq([at : Nat, allowed : BOOLEAN]) /\ decisions'[ip] = Append(d, v)
    BY <1>1, <1>2 DEF TypeOK, Consume
  <2>2. v.at = clock
    OBVIOUS
  <2>3. entries[e].last_refill_time \in Nat /\ entries[e].last_refill_time <= clock
    <3>1. entries[e] \in Entry
      BY <1>2
    <3> QED BY <1>1, <3>1 DEF Entry, Accounts
  <2>4. ASSUME NEW j \in DOMAIN d PROVE d[j].at <= clock
    <3>1. d[j] \in [at : Nat, allowed : BOOLEAN]
      BY <2>1, ValueOfSeq, Zenon
    <3>2. d[j].at \in Nat
      BY <3>1
    <3>3. d[j].at <= entries[e].last_refill_time
      BY <1>1 DEF Accounts
    <3> QED BY <1>6, <2>3, <3>2, <3>3
  <2> HIDE DEF d, v
  <2>5. CASE i \in DOMAIN d
    BY <2>1, <2>4, <2>5
  <2>6. CASE i \notin DOMAIN d
    <3>1. decisions'[ip][i] = v
      BY <2>1, <2>6
    <3> QED BY <1>6, <2>2, <3>1
  <2> QED BY <2>5, <2>6
<1>9. entries'[buckets'[ip]].tokens = left /\ entries'[buckets'[ip]].last_refill_time = clock
  BY <1>5
<1> HIDE DEF left, R, e
<1>10. /\ \A s \in 0..clock : Unit * AdmittedCount(ip, s)' + left <= capacity + refill_rate * (clock - s)
       /\ \E s \in 0..clock : Unit * AdmittedCount(ip, s)' + left = capacity + refill_rate * (clock - s)
  BY <1>3, <1>7
<1>11. clock <= clock
  BY <1>6
<1>12. Accounts(ip)'
  BY <1>6, <1>8, <1>9, <1>10, <1>11 DEF Accounts
<1> QED BY <1>1, <1>4, <1>12

\* Every step keeps the accounts of the buckets.
LEMMA StepKeepsAccounts ==
  ASSUME FiniteSetFacts, IInv, LimiterNext
  PROVE  BucketsAccount'
<1>0. /\ TypeOK /\ OneBucketPerAddress /\ BucketsAccount /\ NothingBeforeConstruction
      /\ clock \in Nat /\ buckets \in [Addresses -> Nat] /\ entries \in Seq(Entry)
      /\ Len(entries) \in Nat
  BY DEF IInv, TypeOK
<1>1. ASSUME NEW c \in Nat, NEW r \in Nat, Construct(c, r) PROVE BucketsAccount'
  <2>1. entries = <<>>
    BY <1>0, <1>1 DEF Construct, NothingBeforeConstruction
  <2>2. \A ip \in Addresses : buckets[ip] = 0
    <3>1. Len(entries) = 0
      BY <2>1
    <3> SUFFICES ASSUME NEW ip \in Addresses PROVE buckets[ip] = 0
      OBVIOUS
    <3>2. buckets[ip] \in Nat
      BY <1>0
    <3>3. buckets[ip] <= 0
      BY <1>0, <3>1 DEF OneBucketPerAddress
    <3> QED BY <3>2, <3>3
  <2> QED BY <1>0, <1>1, <2>2 DEF Construct, BucketsAccount
<1>2. CASE Elapse
  <2>1. clock' \in Nat /\ clock <= clock'
    BY <1>0, <1>2 DEF Elapse
  <2>2. UNCHANGED <<capacity, refill_rate, buckets, entries, decisions>>
    BY <1>2 DEF Elapse
  <2>3. ASSUME NEW ip \in Addresses, buckets[ip] # 0 PROVE Accounts(ip)'
    BY <1>0, <2>1, <2>2, <2>3, AccountsKept DEF BucketsAccount, OneBucketPerAddress
  <2> QED BY <1>0, <2>2, <2>3 DEF BucketsAccount
<1>3. ASSUME NEW t \in Threads, NEW jp \in Addresses, Lookup(t, jp) PROVE BucketsAccount'
  <2>1. UNCHANGED <<capacity, refill_rate, clock, buckets, entries, decisions>> /\ clock <= clock'
    BY <1>0, <1>3 DEF Lookup
  <2>2. ASSUME NEW ip \in Addresses, buckets[ip] # 0 PROVE Accounts(ip)'
    BY <1>0, <2>1, <2>2, AccountsKept DEF BucketsAccount, OneBucketPerAddress
  <2> QED BY <1>0, <2>1, <2>2 DEF BucketsAccount
<1>4. ASSUME NEW t \in Threads, Create(t) PROVE BucketsAccount'
  <2>1. PICK jp \in Addresses : jp = calls[t].ip
    BY <1>0, <1>4, CallType DEF Create
  <2>2. UNCHANGED <<capacity, refill_rate, clock, decisions>> /\ clock <= clock'
    BY <1>0, <1>4 DEF Create
  <2>3. CASE UNCHANGED <<buckets, entries>>
    <3>1. ASSUME NEW ip \in Addresses, buckets[ip] # 0 PROVE Accounts(ip)'
      BY <1>0, <2>2, <2>3, <3>1, AccountsKept DEF BucketsAccount, OneBucketPerAddress
    <3> QED BY <1>0, <2>2, <2>3, <3>1 DEF BucketsAccount
  <2>4. CASE /\ buckets[jp] = 0 /\ entries' = Append(entries, NewEntry)
             /\ buckets' = [buckets EXCEPT ![jp] = Len(entries) + 1]
    <3>1. buckets'[jp] = Len(entries) + 1 /\ \A ip \in Addresses \ {jp} : buckets'[ip] = buckets[ip]
      BY <1>0, <2>1, <2>4
    <3>2. entries'[Len(entries) + 1] = NewEntry /\ \A k \in 1..Len(entries) : entries'[k] = entries[k]
      BY <1>0, <2>4
    <3>3. Accounts(jp)'
      BY <1>0, <2>1, <2>2, <2>4, <3>1, <3>2, NewBucketAccounts DEF BucketsAccount
    <3>4. ASSUME NEW ip \in Addresses, ip # jp, buckets[ip] # 0 PROVE Accounts(ip)'
      <4>1. buckets[ip] \in 1..Len(entries)
        BY <1>0, <3>4 DEF OneBucketPerAddress
      <4>2. entries'[buckets'[ip]] = entries[buckets[ip]]
        BY <3>1, <3>2, <3>4, <4>1
      <4> QED BY <1>0, <2>2, <3>4, <4>1, <4>2, AccountsKept DEF BucketsAccount
    <3>5. buckets'[jp] # 0
      BY <1>0, <3>1
    <3> QED BY <1>0, <2>2, <3>1, <3>3, <3>4, <3>5 DEF BucketsAccount
  <2> QED BY <1>4, <2>1, <2>3, <2>4 DEF Create, FindOrEmplace
<1>5. ASSUME NEW t \in Threads, Consume(t) PROVE BucketsAccount'
  <2>0. PICK jp \in Addresses : jp = calls[t].ip
    BY <1>0, <1>5, CallType DEF Consume
  <2> DEFINE e == calls[t].entry
  <2>1. Accounts(jp)'
    BY <1>5, <2>0, ConsumeAccounts
  <2>2. e = buckets[jp] /\ e # 0
    BY <1>0, <1>5, <2>0 DEF Consume, OneBucketPerAddress
  <2>3. UNCHANGED <<capacity, refill_rate, clock, buckets>> /\ clock <= clock'
    BY <1>0, <1>5 DEF Consume
  <2>4. \A k \in 1..Len(entries) : k # e => entries'[k] = entries[k]
    BY <1>0, <1>5, SMTT(30) DEF Consume
  <2>5. \A ip \in Addresses : ip # jp => decisions'[ip] = decisions[ip]
    BY <1>0, <1>5, <2>0 DEF Consume, TypeOK
  <2> HIDE DEF e
  <2>6. ASSUME NEW ip \in Addresses, ip # jp, buckets[ip] # 0 PROVE Accounts(ip)'
    <3>1. buckets[ip] \in 1..Len(entries) /\ buckets[ip] # e
      BY <1>0, <2>1, <2>2, <2>6 DEF OneBucketPerAddress
    <3>2. entries'[buckets'[ip]] = entries[buckets[ip]]
      BY <2>3, <2>4, <3>1
    <3>3. /\ Accounts(ip) /\ TypeOK /\ buckets[ip] <= Len(entries) /\ clock' \in Nat
          /\ decisions'[ip] = decisions[ip]
      BY <1>0, <2>3, <2>5, <2>6, <3>1 DEF BucketsAccount
    <3> QED BY <2>3, <2>6, <3>2, <3>3, AccountsKept, Zenon
  <2> QED BY <1>0, <2>1, <2>2, <2>3, <2>5, <2>6 DEF BucketsAccount
<1> QED BY <1>1, <1>2, <1>3, <1>4, <1>5 DEF LimiterNext

\* So does a step in which nothing changes.
LEMMA StutterKeepsInvariant == IInv /\ UNCHANGED limiterVars => IInv'
<1> SUFFICES ASSUME IInv, UNCHANGED limiterVars PROVE IInv'
  OBVIOUS
<1>1. UNCHANGED <<capacity, refill_rate, clock, buckets, entries, calls, decisions>>
  BY DEF limiterVars
<1>2. TypeOK' /\ NothingBeforeConstruction' /\ OneBucketPerAddress'
  BY <1>1 DEF IInv, TypeOK, NothingBeforeConstruction, OneBucketPerAddress
<1>3. clock <= clock' /\ clock' \in Nat
  BY <1>1 DEF IInv, TypeOK
<1>4. ASSUME NEW ip \in Addresses, buckets[ip] # 0 PROVE Accounts(ip)'
  BY <1>1, <1>3, <1>4, AccountsKept DEF IInv, BucketsAccount, OneBucketPerAddress
<1>5. BucketsAccount'
  BY <1>1, <1>4 DEF IInv, BucketsAccount
<1> QED BY <1>2, <1>5 DEF IInv

\* Every step is one of the window limiter or a stutter.
LEMMA StepImplementsWindow ==
  ASSUME FiniteSetFacts, IInv, [LimiterNext]_limiterVars
  PROVE  [Window!Next]_(Window!windowVars)
<1>1. ASSUME NEW c \in Nat, NEW r \in Nat, Construct(c, r) PROVE Window!Configure
  <2>1. c # 0
    BY <1>1, LimiterAssumption DEF Construct
  <2> QED BY <1>1, <2>1 DEF Construct, Window!Configure
<1>2. CASE Elapse
  <2>1. clock' \in Nat /\ clock' > clock
    BY <1>2 DEF Elapse, IInv, TypeOK
  <2> QED BY <1>2, <2>1 DEF Elapse, Window!Elapse, Window!Next
<1>3. ASSUME NEW t \in Threads, NEW ip \in Addresses, Lookup(t, ip) PROVE UNCHANGED Window!windowVars
  BY <1>3 DEF Lookup, Window!windowVars
<1>4. ASSUME NEW t \in Threads, Create(t) PROVE UNCHANGED Window!windowVars
  BY <1>4 DEF Create, Window!windowVars
<1>5. ASSUME NEW t \in Threads, Consume(t) PROVE \E ip \in Addresses : Window!Decide(ip)
  <2> DEFINE ip == calls[t].ip
  <2>1. ip \in Addresses /\ (Allows(t) <=> Window!Admissible(ip))
    BY <1>5, ConsumeAccounts
  <2>2. Allows(t) = Window!Admissible(ip)
    <3>1. Allows(t) \in BOOLEAN /\ Window!Admissible(ip) \in BOOLEAN
      BY DEF Allows, Window!Admissible
    <3> QED BY <2>1, <3>1
  <2>3. Window!Decide(ip)
    BY <1>5, <2>2, Zenon DEF Consume, Window!Decide
  <2> QED BY <2>1, <2>3
<1>6. CASE UNCHANGED limiterVars
  BY <1>6 DEF limiterVars, Window!windowVars
<1> QED
  BY <1>1, <1>2, <1>3, <1>4, <1>5, <1>6 DEF LimiterNext, Window!Next

-----------------------------------------------------------------------------
(* The path of a request.                                                  *)

\* A leaf is for Zenon unless it names SMT.
USE Zenon

WorkerStates ==
  {Poll} \cup [at : {"submit"}, request : Requests] \cup [at : {"observe", "completions"}]
JobStates ==
  {Idle} \cup [at : {"check", "route", "scrape", "push", "leave"}, request : Requests, worker : Workers]

Types ==
  /\ worker \in [Workers -> WorkerStates]
  /\ tasks \in Seq([request : Requests, worker : Workers])
  /\ job \in [Threads -> JobStates]
  /\ log \in Seq(Requests)
  /\ progress = [r \in Requests |-> progress[r]]
  /\ answers = [r \in Requests |-> answers[r]]

\* Before main has read its settings nothing has happened.
NothingBeforeStart ==
  commandLine # NoCommandLine =>
    /\ commandLine \in CommandLines
    /\ content = [r \in Requests |-> NoContent]
    /\ worker = [w \in Workers |-> Poll] /\ tasks = <<>> /\ job = [t \in Threads |-> Idle]
    /\ completions = [w \in Workers |-> <<>>] /\ log = <<>>

SentFromAddresses ==
  \A r \in Requests : content[r].method \notin {"none", "malformed"} => content[r].ip \in Addresses

\* A request is in one place: with a worker, in the queue or with a thread.
OnePlace ==
  /\ \A v, w \in Workers :
       worker[v].at = "submit" /\ worker[w].at = "submit" /\ worker[v].request = worker[w].request => v = w
  /\ \A i, j \in DOMAIN tasks : tasks[i].request = tasks[j].request => i = j
  /\ \A s, t \in Threads : job[s] # Idle /\ job[t] # Idle /\ job[s].request = job[t].request => s = t
  /\ \A w \in Workers : worker[w].at = "submit" =>
       /\ \A i \in DOMAIN tasks : tasks[i].request # worker[w].request
       /\ \A t \in Threads : job[t] # Idle => job[t].request # worker[w].request
  /\ \A t \in Threads : job[t] # Idle => \A i \in DOMAIN tasks : tasks[i].request # job[t].request

\* On its way to a thread a request is started and not answered.
Waiting(r) == progress[r] # "new" /\ answers[r] = NoAnswer /\ content[r].ip \in Addresses
Underway ==
  /\ \A w \in Workers : worker[w].at = "submit" => Waiting(worker[w].request)
  /\ \A i \in DOMAIN tasks : Waiting(tasks[i].request)
  /\ \A t \in Threads : job[t].at \in {"check", "route", "scrape"} => Waiting(job[t].request)
  /\ \A t \in Threads : job[t] # Idle => progress[job[t].request] # "new"
  /\ \A r \in Requests : progress[r] = "new" => answers[r] = NoAnswer

Places == Types /\ NothingBeforeStart /\ SentFromAddresses /\ OnePlace /\ Underway

-----------------------------------------------------------------------------
(* Requests stay in their places.                                          *)

placeVars == <<commandLine, content, progress, worker, tasks, job, completions, answers, log>>

\* No request is anywhere before main has read its settings.
LEMMA PlacesInitially == Init => Places
<1> SUFFICES ASSUME Init PROVE Places
  OBVIOUS
<1> USE DEF Init
<1>1. Types
  BY SMT DEF Types, WorkerStates, JobStates
<1>2. NothingBeforeStart
  BY DEF NothingBeforeStart
<1>3. SentFromAddresses
  BY DEF SentFromAddresses, NoContent
<1>4. OnePlace
  BY SMT DEF OnePlace, Poll
<1>5. Underway
  BY SMT DEF Underway, Poll, Idle
<1> QED BY <1>1, <1>2, <1>3, <1>4, <1>5 DEF Places

\* A request that no step takes up stays in one place.
LEMMA OnePlaceKept ==
  ASSUME OnePlace, tasks' = tasks,
         \A v \in Workers : worker'[v].at = "submit" =>
           worker[v].at = "submit" /\ worker'[v].request = worker[v].request,
         \A s \in Threads : job'[s] # Idle => job[s] # Idle /\ job'[s].request = job[s].request
  PROVE  OnePlace'
<1>1. ASSUME NEW v \in Workers, NEW w \in Workers, worker'[v].at = "submit", worker'[w].at = "submit",
             worker'[v].request = worker'[w].request
      PROVE  v = w
  <2>1. worker[v].at = "submit" /\ worker[w].at = "submit" /\ worker[v].request = worker[w].request
    BY <1>1
  <2> QED BY <2>1 DEF OnePlace
<1>2. \A i, j \in DOMAIN tasks' : tasks'[i].request = tasks'[j].request => i = j
  BY DEF OnePlace
<1>3. ASSUME NEW s \in Threads, NEW t \in Threads, job'[s] # Idle, job'[t] # Idle,
             job'[s].request = job'[t].request
      PROVE  s = t
  <2>1. job[s] # Idle /\ job[t] # Idle /\ job[s].request = job[t].request
    BY <1>3
  <2> QED BY <2>1 DEF OnePlace
<1>4. ASSUME NEW w \in Workers, worker'[w].at = "submit"
      PROVE  /\ \A i \in DOMAIN tasks' : tasks'[i].request # worker'[w].request
             /\ \A t \in Threads : job'[t] # Idle => job'[t].request # worker'[w].request
  <2>1. worker[w].at = "submit" /\ worker'[w].request = worker[w].request
    BY <1>4
  <2>2. /\ \A i \in DOMAIN tasks : tasks[i].request # worker[w].request
        /\ \A t \in Threads : job[t] # Idle => job[t].request # worker[w].request
    BY <2>1 DEF OnePlace
  <2> QED BY <2>1, <2>2
<1>5. ASSUME NEW t \in Threads, job'[t] # Idle, NEW i \in DOMAIN tasks'
      PROVE  tasks'[i].request # job'[t].request
  <2>1. job[t] # Idle /\ job'[t].request = job[t].request
    BY <1>5
  <2>2. i \in DOMAIN tasks
    BY <1>5
  <2>3. tasks[i].request # job[t].request
    BY <2>1, <2>2 DEF OnePlace
  <2> QED BY <2>1, <2>3
<1> QED BY <1>1, <1>2, <1>3, <1>4, <1>5 DEF OnePlace

\* A step that touches no place keeps the requests where they are.
LEMMA PlacesKept == Places /\ UNCHANGED placeVars => Places'
<1> SUFFICES ASSUME Places, UNCHANGED placeVars PROVE Places'
  OBVIOUS
<1>1. /\ commandLine' = commandLine /\ content' = content /\ progress' = progress /\ worker' = worker
      /\ tasks' = tasks /\ job' = job /\ completions' = completions /\ answers' = answers /\ log' = log
  BY DEF placeVars
<1>2. Types' /\ NothingBeforeStart' /\ SentFromAddresses'
  BY <1>1 DEF Places, Types, NothingBeforeStart, SentFromAddresses
<1>3. OnePlace'
  BY <1>1, OnePlaceKept DEF Places
<1>4. Underway'
  BY <1>1 DEF Places, Underway, Waiting
<1> QED BY <1>2, <1>3, <1>4 DEF Places

\* What is known of a worker that submits and of a thread that runs a task.
LEMMA SubmitType ==
  ASSUME Types, NEW w \in Workers, worker[w].at = "submit"
  PROVE  worker[w].request \in Requests
<1>1. worker[w] \in WorkerStates
  BY DEF Types
<1>2. worker[w] # Poll /\ worker[w] \notin [at : {"observe", "completions"}]
  BY SMT DEF Poll
<1>3. worker[w] \in [at : {"submit"}, request : Requests]
  BY <1>1, <1>2 DEF WorkerStates
<1> QED BY <1>3

\* A thread that is not idle has a request.
LEMMA JobType ==
  ASSUME Types, NEW t \in Threads, job[t] # Idle
  PROVE  /\ job[t] \in [at : {"check", "route", "scrape", "push", "leave"}, request : Requests, worker : Workers]
         /\ job[t].request \in Requests
  BY DEF Types, JobStates

\* A queued task has a request.
LEMMA TaskType ==
  ASSUME Types, NEW i \in DOMAIN tasks
  PROVE  tasks[i] \in [request : Requests, worker : Workers] /\ tasks[i].request \in Requests
<1> DEFINE T == [request : Requests, worker : Workers]
<1>1. tasks \in Seq(T)
  BY DEF Types
<1> HIDE DEF T
<1>2. tasks[i] \in T
  BY <1>1, SMT
<1> QED BY <1>2 DEF T

\* The place of a thread tells whether it is idle.
LEMMA IdleAt ==
  ASSUME Types, NEW t \in Threads
  PROVE  job[t].at = "idle" <=> job[t] = Idle
  BY SMT DEF Types, JobStates, Idle

\* main leaves, or registers the routes and lets requests in.
LEMMA StartPlaces == Places /\ (Exit \/ Start) => Places'
<1> SUFFICES ASSUME Places, Exit \/ Start PROVE Places'
  OBVIOUS
<1>1. /\ commandLine # NoCommandLine /\ commandLine' = NoCommandLine
      /\ UNCHANGED <<progress, worker, tasks, job, answers, log>>
      /\ content' = content \/ content' \in commandLine.contents
  BY DEF Exit, Start, requestVars, poolVars, logVars
<1>2. /\ commandLine \in CommandLines
      /\ worker = [w \in Workers |-> Poll] /\ tasks = <<>> /\ job = [t \in Threads |-> Idle]
  BY <1>1 DEF Places, NothingBeforeStart
<1>3. Types'
  BY <1>1 DEF Places, Types
<1>4. NothingBeforeStart'
  BY <1>1 DEF NothingBeforeStart
<1>5. SentFromAddresses'
  BY <1>1, <1>2, GatewayAssumption DEF Places, SentFromAddresses
<1>6. OnePlace'
  BY <1>1, <1>2, SMT DEF OnePlace, Poll
<1>7. Underway'
  BY <1>1, <1>2, SMT DEF Places, Underway, Poll, Idle
<1> QED BY <1>3, <1>4, <1>5, <1>6, <1>7 DEF Places

\* A worker moves on with no request in its hands.
LEMMA WorkerMoves ==
  ASSUME Places, NEW w \in Workers, NEW next \in WorkerStates, next.at # "submit",
         worker' = [worker EXCEPT ![w] = next],
         commandLine' = NoCommandLine, UNCHANGED <<content, tasks, job, log>>,
         progress' = [r \in Requests |-> progress'[r]], answers' = [r \in Requests |-> answers'[r]],
         \A r \in Requests :
           /\ progress'[r] = progress[r] \/ progress'[r] # "new"
           /\ answers'[r] = answers[r] \/ (worker[w].at = "submit" /\ r = worker[w].request /\ progress'[r] # "new")
  PROVE  Places'
<1>0. Types /\ SentFromAddresses /\ OnePlace /\ Underway
  BY DEF Places
<1>1. Types'
  BY <1>0 DEF Types
<1>2. NothingBeforeStart'
  BY DEF NothingBeforeStart
<1>3. SentFromAddresses'
  BY <1>0 DEF SentFromAddresses
<1>4. \A v \in Workers : worker'[v].at = "submit" => v # w /\ worker'[v] = worker[v]
  BY <1>0 DEF Types
<1>5. OnePlace'
  BY <1>0, <1>4, OnePlaceKept
<1>7. ASSUME NEW v \in Workers, worker'[v].at = "submit" PROVE Waiting(worker[v].request)'
  <2>1. worker[v].at = "submit" /\ v # w /\ worker'[v] = worker[v] /\ worker[v].request \in Requests
    BY <1>0, <1>4, <1>7, SubmitType
  <2>2. answers'[worker[v].request] = answers[worker[v].request]
    BY <2>1, <1>0 DEF OnePlace
  <2>3. Waiting(worker[v].request)
    BY <2>1, <1>0 DEF Underway
  <2> QED BY <2>1, <2>2, <2>3 DEF Waiting
<1>8. ASSUME NEW i \in DOMAIN tasks PROVE Waiting(tasks[i].request)'
  <2>1. tasks[i].request \in Requests
    BY <1>0, TaskType
  <2>2. answers'[tasks[i].request] = answers[tasks[i].request]
    BY <2>1, <1>0 DEF OnePlace
  <2>3. Waiting(tasks[i].request)
    BY <1>0 DEF Underway
  <2> QED BY <2>1, <2>2, <2>3 DEF Waiting
<1>9. ASSUME NEW t \in Threads, job[t].at \in {"check", "route", "scrape"} PROVE Waiting(job[t].request)'
  <2>1. job[t] # Idle
    BY <1>9, SMT DEF Idle
  <2>2. job[t].request \in Requests
    BY <1>0, <2>1, JobType
  <2>3. answers'[job[t].request] = answers[job[t].request]
    BY <2>1, <2>2, <1>0 DEF OnePlace
  <2>4. Waiting(job[t].request)
    BY <1>0, <1>9 DEF Underway
  <2> QED BY <2>2, <2>3, <2>4 DEF Waiting
<1>10. \A t \in Threads : job[t] # Idle => progress'[job[t].request] # "new"
  BY <1>0, JobType DEF Underway
<1>11. \A r \in Requests : progress'[r] = "new" => answers'[r] = NoAnswer
  BY <1>0 DEF Underway
<1>12. Underway'
  BY <1>7, <1>8, <1>9, <1>10, <1>11 DEF Underway
<1> QED BY <1>1, <1>2, <1>3, <1>5, <1>12 DEF Places

\* A thread moves on with its task, and may answer it.
LEMMA JobMoves ==
  ASSUME Places, NEW t \in Threads, job[t] # Idle, NEW place \in {"route", "scrape", "push", "leave"},
         job' = [job EXCEPT ![t].at = place],
         UNCHANGED <<commandLine, content, progress, worker, tasks>>,
         log' = log \/ log' = Append(log, job[t].request),
         place \in {"route", "scrape"} => job[t].at \in {"check", "route", "scrape"},
         \/ UNCHANGED answers
         \/ /\ place = "push"
            /\ \E response : answers' = [answers EXCEPT ![job[t].request] = response]
  PROVE  Places'
<1> DEFINE r == job[t].request
<1>0. Types /\ SentFromAddresses /\ OnePlace /\ Underway
  BY DEF Places
<1>1. /\ job[t] \in [at : {"check", "route", "scrape", "push", "leave"}, request : Requests, worker : Workers]
      /\ r \in Requests
  BY <1>0, JobType
<1>2. job \in [Threads -> JobStates]
  BY <1>0 DEF Types
<1>3. /\ job'[t].request = r /\ job'[t].at = place /\ job'[t].worker = job[t].worker
      /\ job'[t] \in [at : {"check", "route", "scrape", "push", "leave"}, request : Requests, worker : Workers]
  BY <1>1, <1>2
<1>4. job' \in [Threads -> JobStates] /\ \A s \in Threads : s # t => job'[s] = job[s]
  <2>1. job'[t] \in JobStates
    BY <1>3 DEF JobStates
  <2> QED BY <2>1, <1>2
<1>5. /\ answers' = [q \in Requests |-> answers'[q]]
      /\ \A q \in Requests : q # r => answers'[q] = answers[q]
      /\ place # "push" => answers' = answers
  BY <1>0 DEF Types
<1>6. Types'
  <2>1. log \in Seq(Requests)
    BY <1>0 DEF Types
  <2>2. Append(log, r) \in Seq(Requests)
    BY <2>1, <1>1, SMT
  <2>3. log' \in Seq(Requests)
    BY <2>1, <2>2
  <2> QED BY <1>0, <1>4, <1>5, <2>3 DEF Types
<1>7. commandLine = NoCommandLine
  BY DEF Places, NothingBeforeStart
<1>8. NothingBeforeStart' /\ SentFromAddresses'
  BY <1>0, <1>7 DEF NothingBeforeStart, SentFromAddresses
<1>9. \A s \in Threads : job'[s] # Idle => job[s] # Idle /\ job'[s].request = job[s].request
  BY <1>3, <1>4
<1>10. OnePlace'
  BY <1>0, <1>9, OnePlaceKept
<1>11. \A w \in Workers : worker[w].at = "submit" => worker[w].request \in Requests /\ worker[w].request # r
  BY <1>0, SubmitType DEF OnePlace
<1>12. \A i \in DOMAIN tasks : tasks[i].request \in Requests /\ tasks[i].request # r
  BY <1>0, TaskType DEF OnePlace
<1>13. \A s \in Threads : s # t /\ job[s] # Idle => job[s].request \in Requests /\ job[s].request # r
  BY <1>0, JobType DEF OnePlace
<1>14. (\A w \in Workers : worker[w].at = "submit" => Waiting(worker[w].request))'
  BY <1>0, <1>5, <1>11 DEF Underway, Waiting
<1>15. (\A i \in DOMAIN tasks : Waiting(tasks[i].request))'
  BY <1>0, <1>5, <1>12 DEF Underway, Waiting
<1>16. ASSUME NEW s \in Threads, job'[s].at \in {"check", "route", "scrape"} PROVE Waiting(job[s].request)'
  <2>1. CASE s = t
    <3>1. place \in {"route", "scrape"} /\ answers' = answers
      BY <2>1, <1>3, <1>5, <1>16
    <3>2. Waiting(r)
      BY <3>1, <1>0 DEF Underway
    <3> QED BY <2>1, <3>1, <3>2, <1>3 DEF Waiting
  <2>2. CASE s # t
    <3>1. job'[s] = job[s] /\ job[s] # Idle
      BY <2>2, <1>4, <1>16, SMT DEF Idle
    <3>2. Waiting(job[s].request) /\ answers'[job[s].request] = answers[job[s].request]
      BY <2>2, <3>1, <1>16, <1>13, <1>5, <1>0 DEF Underway
    <3> QED BY <3>1, <3>2 DEF Waiting
  <2> QED BY <2>1, <2>2
<1>17. \A s \in Threads : job'[s] # Idle => progress'[job'[s].request] # "new"
  BY <1>0, <1>9 DEF Underway
<1>18. \A q \in Requests : progress'[q] = "new" => answers'[q] = NoAnswer
  <2>1. progress[r] # "new"
    BY <1>0 DEF Underway
  <2> QED BY <2>1, <1>0, <1>5 DEF Underway
<1>19. Underway'
  BY <1>14, <1>15, <1>16, <1>17, <1>18 DEF Underway
<1> QED BY <1>6, <1>8, <1>10, <1>19 DEF Places

\* A worker takes up a request that nobody has.
LEMMA StartRequestPlaces ==
  ASSUME Places, NEW w \in Workers, NEW r \in Requests, StartRequest(w, r)
  PROVE  Places'
<1>0. Types /\ SentFromAddresses /\ OnePlace /\ Underway
  BY DEF Places
<1> DEFINE next == [at |-> "submit", request |-> r]
<1>1. /\ worker[w] = Poll /\ progress[r] = "new" /\ content[r].method \notin {"none", "malformed"}
      /\ progress' = [progress EXCEPT ![r] = "pending"]
      /\ worker' = [worker EXCEPT ![w] = next]
      /\ UNCHANGED <<commandLine, content, tasks, job, answers, log>>
  BY DEF StartRequest, startVars, poolVars, logVars
<1>2. next \in WorkerStates /\ next.at = "submit" /\ next.request = r
  BY DEF WorkerStates
<1> HIDE DEF next
<1>3. /\ worker'[w] = next /\ worker' \in [Workers -> WorkerStates]
      /\ \A v \in Workers : v # w => worker'[v] = worker[v]
  BY <1>0, <1>1, <1>2 DEF Types
<1>4. /\ progress' = [q \in Requests |-> progress'[q]]
      /\ progress'[r] = "pending" /\ \A q \in Requests : q # r => progress'[q] = progress[q]
  BY <1>0, <1>1 DEF Types
<1>5. Types'
  BY <1>0, <1>1, <1>3, <1>4 DEF Types
<1>6. commandLine = NoCommandLine
  BY <1>1, SMT DEF Places, NothingBeforeStart, NoContent
<1>7. NothingBeforeStart' /\ SentFromAddresses'
  BY <1>0, <1>1, <1>6 DEF NothingBeforeStart, SentFromAddresses
<1>8. \A v \in Workers : worker[v].at = "submit" => worker[v].request \in Requests /\ worker[v].request # r
  BY <1>0, <1>1, SubmitType DEF Underway, Waiting
<1>9. \A i \in DOMAIN tasks : tasks[i].request \in Requests /\ tasks[i].request # r
  BY <1>0, <1>1, TaskType DEF Underway, Waiting
<1>10. \A t \in Threads : job[t] # Idle => job[t].request \in Requests /\ job[t].request # r
  BY <1>0, <1>1, JobType DEF Underway
<1>11. OnePlace'
  <2>1. ASSUME NEW u \in Workers, NEW v \in Workers, worker'[u].at = "submit", worker'[v].at = "submit",
               worker'[u].request = worker'[v].request
        PROVE  u = v
    <3>1. CASE u = w
      BY <2>1, <3>1, <1>2, <1>3, <1>8
    <3>2. CASE v = w
      BY <2>1, <3>2, <1>2, <1>3, <1>8
    <3>3. CASE u # w /\ v # w
      BY <2>1, <3>3, <1>0, <1>3 DEF OnePlace
    <3> QED BY <3>1, <3>2, <3>3
  <2>2. ASSUME NEW v \in Workers, worker'[v].at = "submit"
        PROVE  /\ \A i \in DOMAIN tasks : tasks[i].request # worker'[v].request
               /\ \A t \in Threads : job[t] # Idle => job[t].request # worker'[v].request
    <3>1. CASE v = w
      BY <3>1, <1>2, <1>3, <1>9, <1>10
    <3>2. CASE v # w
      BY <2>2, <3>2, <1>0, <1>3 DEF OnePlace
    <3> QED BY <3>1, <3>2
  <2>3. /\ \A i, j \in DOMAIN tasks : tasks[i].request = tasks[j].request => i = j
        /\ \A s, t \in Threads : job[s] # Idle /\ job[t] # Idle /\ job[s].request = job[t].request => s = t
        /\ \A t \in Threads : job[t] # Idle => \A i \in DOMAIN tasks : tasks[i].request # job[t].request
    BY <1>0 DEF OnePlace
  <2> QED BY <1>1, <2>1, <2>2, <2>3 DEF OnePlace
<1>12. answers[r] = NoAnswer /\ content[r].ip \in Addresses
  BY <1>0, <1>1 DEF Underway, SentFromAddresses
<1>13. (\A v \in Workers : worker[v].at = "submit" => Waiting(worker[v].request))'
  BY <1>0, <1>1, <1>2, <1>3, <1>4, <1>8, <1>12 DEF Underway, Waiting
<1>14. (\A i \in DOMAIN tasks : Waiting(tasks[i].request))'
  BY <1>0, <1>1, <1>4, <1>9 DEF Underway, Waiting
<1>15. (\A t \in Threads : job[t].at \in {"check", "route", "scrape"} => Waiting(job[t].request))'
  BY <1>0, <1>1, <1>4, <1>10, IdleAt DEF Underway, Waiting
<1>16. (\A t \in Threads : job[t] # Idle => progress[job[t].request] # "new")'
  BY <1>0, <1>1, <1>4, <1>10 DEF Underway
<1>17. (\A q \in Requests : progress[q] = "new" => answers[q] = NoAnswer)'
  BY <1>0, <1>1, <1>4 DEF Underway
<1>18. Underway'
  BY <1>13, <1>14, <1>15, <1>16, <1>17 DEF Underway
<1> QED BY <1>5, <1>7, <1>11, <1>18 DEF Places

\* submit moves the request of a worker to the end of the queue.
LEMMA SubmitPlaces ==
  ASSUME Places, NEW w \in Workers, Submit(w)
  PROVE  Places'
<1>0. Types /\ SentFromAddresses /\ OnePlace /\ Underway
  BY DEF Places
<1> DEFINE r == worker[w].request
           new == [request |-> r, worker |-> w]
           T == [request : Requests, worker : Workers]
<1>1. /\ worker[w].at = "submit"
      /\ tasks' = Append(tasks, new)
      /\ worker' = [worker EXCEPT ![w] = Poll]
      /\ UNCHANGED <<commandLine, content, progress, job, answers, log>>
  BY DEF Submit, startVars, logVars
<1>2. r \in Requests /\ Waiting(r)
  BY <1>0, <1>1, SubmitType DEF Underway
<1>3. new \in T /\ new.request = r
  BY <1>2
<1>4. tasks \in Seq(T)
  BY <1>0 DEF Types
<1>5. Poll \in WorkerStates /\ Poll.at # "submit"
  BY DEF WorkerStates, Poll
<1>6. \A i \in DOMAIN tasks : tasks[i].request \in Requests
  BY <1>0, TaskType
<1> HIDE DEF new, T
<1>7. /\ tasks' \in Seq(T) /\ DOMAIN tasks' = 1..(Len(tasks) + 1) /\ DOMAIN tasks = 1..Len(tasks)
      /\ Len(tasks) \in Nat
      /\ tasks'[Len(tasks) + 1] = new /\ \A i \in DOMAIN tasks : tasks'[i] = tasks[i]
  <2>1. Len(tasks) \in Nat /\ DOMAIN tasks = 1..Len(tasks)
    BY <1>4, SMT
  <2>2. tasks' \in Seq(T) /\ Len(tasks') = Len(tasks) + 1
    BY <1>1, <1>3, <1>4, SMT
  <2>3. DOMAIN tasks' = 1..(Len(tasks) + 1)
    BY <2>2, SMT
  <2>4. tasks'[Len(tasks) + 1] = new
    BY <1>1, <1>3, <1>4, SMT
  <2>5. \A i \in DOMAIN tasks : tasks'[i] = tasks[i]
    BY <1>1, <1>3, <1>4, SMT
  <2> QED BY <2>1, <2>2, <2>3, <2>4, <2>5
<1>8. \A i \in DOMAIN tasks' : i \in DOMAIN tasks \/ i = Len(tasks) + 1
  BY <1>7, SMT
<1>9. /\ worker' \in [Workers -> WorkerStates]
      /\ \A v \in Workers : worker'[v].at = "submit" => v # w /\ worker'[v] = worker[v]
  BY <1>0, <1>1, <1>5 DEF Types
<1>10. Types'
  BY <1>0, <1>1, <1>7, <1>9 DEF Types, T
<1>11. commandLine = NoCommandLine
  BY <1>1, SMT DEF Places, NothingBeforeStart, Poll
<1>12. NothingBeforeStart' /\ SentFromAddresses'
  BY <1>0, <1>1, <1>11 DEF NothingBeforeStart, SentFromAddresses
<1>13. (\A u, v \in Workers :
          worker[u].at = "submit" /\ worker[v].at = "submit" /\ worker[u].request = worker[v].request => u = v)'
  <2> SUFFICES ASSUME NEW u \in Workers, NEW v \in Workers, worker'[u].at = "submit", worker'[v].at = "submit",
                      worker'[u].request = worker'[v].request
               PROVE  u = v
    OBVIOUS
  <2>1. worker[u].at = "submit" /\ worker[v].at = "submit" /\ worker[u].request = worker[v].request
    BY <1>9
  <2> QED BY <2>1, <1>0 DEF OnePlace
<1>14. \A i \in DOMAIN tasks : tasks[i].request # r
  BY <1>0, <1>1 DEF OnePlace
<1>15. (\A i, j \in DOMAIN tasks : tasks[i].request = tasks[j].request => i = j)'
  <2> SUFFICES ASSUME NEW i \in DOMAIN tasks', NEW j \in DOMAIN tasks', tasks'[i].request = tasks'[j].request
               PROVE  i = j
    OBVIOUS
  <2>1. CASE i \in DOMAIN tasks /\ j \in DOMAIN tasks
    <3>1. tasks[i].request = tasks[j].request
      BY <2>1, <1>7
    <3> QED BY <2>1, <3>1, <1>0 DEF OnePlace
  <2>2. CASE i \notin DOMAIN tasks
    BY <2>2, <1>3, <1>7, <1>8, <1>14
  <2>3. CASE j \notin DOMAIN tasks
    BY <2>3, <1>3, <1>7, <1>8, <1>14
  <2> QED BY <2>1, <2>2, <2>3
<1>16. (\A v \in Workers : worker[v].at = "submit" =>
          /\ \A i \in DOMAIN tasks : tasks[i].request # worker[v].request
          /\ \A t \in Threads : job[t] # Idle => job[t].request # worker[v].request)'
  <2> SUFFICES ASSUME NEW v \in Workers, worker'[v].at = "submit"
               PROVE  /\ \A i \in DOMAIN tasks' : tasks'[i].request # worker'[v].request
                      /\ \A t \in Threads : job'[t] # Idle => job'[t].request # worker'[v].request
    OBVIOUS
  <2>1. worker[v].at = "submit" /\ v # w /\ worker'[v].request = worker[v].request
    BY <1>9
  <2>2. /\ \A i \in DOMAIN tasks : tasks[i].request # worker[v].request
        /\ \A t \in Threads : job[t] # Idle => job[t].request # worker[v].request
    BY <2>1, <1>0 DEF OnePlace
  <2>3. worker[v].request # r
    BY <2>1, <1>0, <1>1 DEF OnePlace
  <2>4. ASSUME NEW i \in DOMAIN tasks' PROVE tasks'[i].request # worker[v].request
    BY <2>2, <2>3, <1>3, <1>7, <1>8
  <2> QED BY <2>1, <2>2, <2>4, <1>1
<1>17. (\A t \in Threads : job[t] # Idle => \A i \in DOMAIN tasks : tasks[i].request # job[t].request)'
  <2> SUFFICES ASSUME NEW t \in Threads, job[t] # Idle, NEW i \in DOMAIN tasks'
               PROVE  tasks'[i].request # job[t].request
    BY <1>1
  <2>1. CASE i \in DOMAIN tasks
    <3>1. tasks[i].request # job[t].request
      BY <2>1, <1>0 DEF OnePlace
    <3> QED BY <2>1, <3>1, <1>7
  <2>2. CASE i = Len(tasks) + 1
    <3>1. job[t].request # r
      BY <1>0, <1>1 DEF OnePlace
    <3> QED BY <2>2, <3>1, <1>3, <1>7
  <2> QED BY <2>1, <2>2, <1>8
<1>18. OnePlace'
  BY <1>0, <1>1, <1>13, <1>15, <1>16, <1>17 DEF OnePlace
<1>19. (\A v \in Workers : worker[v].at = "submit" => Waiting(worker[v].request))'
  BY <1>0, <1>1, <1>9 DEF Underway, Waiting
<1>20. (\A i \in DOMAIN tasks : Waiting(tasks[i].request))'
  <2> SUFFICES ASSUME NEW i \in DOMAIN tasks' PROVE Waiting(tasks'[i].request)
    BY <1>1 DEF Waiting
  <2>1. CASE i \in DOMAIN tasks
    BY <2>1, <1>0, <1>7 DEF Underway
  <2>2. CASE i = Len(tasks) + 1
    BY <2>2, <1>2, <1>3, <1>7
  <2> QED BY <2>1, <2>2, <1>8
<1>21. Underway'
  BY <1>0, <1>1, <1>19, <1>20 DEF Underway, Waiting
<1> QED BY <1>10, <1>12, <1>18, <1>21 DEF Places

\* A thread takes the request at the head of the queue.
LEMMA TakeTaskPlaces ==
  ASSUME Places, NEW t \in Threads, TakeTask(t)
  PROVE  Places'
<1>0. Types /\ SentFromAddresses /\ OnePlace /\ Underway
  BY DEF Places
<1> DEFINE T == [request : Requests, worker : Workers]
           next == [at |-> "check", request |-> Head(tasks).request, worker |-> Head(tasks).worker]
<1>1. /\ job[t] = Idle /\ tasks # <<>> /\ tasks' = Tail(tasks)
      /\ job' = [job EXCEPT ![t] = next]
      /\ UNCHANGED <<commandLine, content, progress, worker, answers, log>>
  BY DEF TakeTask, startVars, requestVars, logVars
<1>2. tasks \in Seq(T)
  BY <1>0 DEF Types
<1> HIDE DEF T
<1>3. /\ Head(tasks) = tasks[1] /\ 1 \in DOMAIN tasks /\ tasks' \in Seq(T)
      /\ \A i \in DOMAIN tasks' : i + 1 \in DOMAIN tasks /\ tasks'[i] = tasks[i + 1] /\ i \in Nat \ {0}
  BY <1>1, <1>2, SMT
<1> DEFINE r == tasks[1].request
<1>4. tasks[1] \in T /\ r \in Requests /\ Waiting(r)
  BY <1>0, <1>3, TaskType DEF Underway, T
<1>5. /\ next.request = r /\ next.at = "check"
      /\ next \in [at : {"check", "route", "scrape", "push", "leave"}, request : Requests, worker : Workers]
  BY <1>3, <1>4 DEF T
<1>6. next \in JobStates /\ next # Idle
  BY <1>5 DEF JobStates, Idle
<1> HIDE DEF next
<1>7. /\ job' \in [Threads -> JobStates] /\ job'[t] = next
      /\ \A s \in Threads : s # t => job'[s] = job[s]
  BY <1>0, <1>1, <1>6 DEF Types
<1>8. Types'
  BY <1>0, <1>1, <1>3, <1>7 DEF Types, T
<1>9. commandLine = NoCommandLine
  BY <1>1 DEF Places, NothingBeforeStart
<1>10. NothingBeforeStart' /\ SentFromAddresses'
  BY <1>0, <1>1, <1>9 DEF NothingBeforeStart, SentFromAddresses
<1>11. \A i \in DOMAIN tasks' : tasks'[i].request # r
  BY <1>0, <1>3, SMT DEF OnePlace
<1>12. (\A i, j \in DOMAIN tasks : tasks[i].request = tasks[j].request => i = j)'
  BY <1>0, <1>3, SMT DEF OnePlace
<1>13. (\A s, u \in Threads : job[s] # Idle /\ job[u] # Idle /\ job[s].request = job[u].request => s = u)'
  <2> SUFFICES ASSUME NEW s \in Threads, NEW u \in Threads, job'[s] # Idle, job'[u] # Idle,
                      job'[s].request = job'[u].request
               PROVE  s = u
    OBVIOUS
  <2>1. ASSUME NEW x \in Threads, x # t, job'[x] # Idle PROVE job'[x].request # r
    <3>1. job'[x] = job[x] /\ job[x] # Idle
      BY <2>1, <1>7
    <3>2. tasks[1].request # job[x].request
      BY <3>1, <1>0, <1>3 DEF OnePlace
    <3> QED BY <3>1, <3>2
  <2>2. CASE s = t
    BY <2>1, <2>2, <1>5, <1>7
  <2>3. CASE u = t
    BY <2>1, <2>3, <1>5, <1>7
  <2>4. CASE s # t /\ u # t
    <3>1. job[s] # Idle /\ job[u] # Idle /\ job[s].request = job[u].request
      BY <2>4, <1>7
    <3> QED BY <3>1, <1>0 DEF OnePlace
  <2> QED BY <2>2, <2>3, <2>4
<1>14. (\A v \in Workers : worker[v].at = "submit" =>
          /\ \A i \in DOMAIN tasks : tasks[i].request # worker[v].request
          /\ \A s \in Threads : job[s] # Idle => job[s].request # worker[v].request)'
  <2> SUFFICES ASSUME NEW v \in Workers, worker[v].at = "submit"
               PROVE  /\ \A i \in DOMAIN tasks' : tasks'[i].request # worker[v].request
                      /\ \A s \in Threads : job'[s] # Idle => job'[s].request # worker[v].request
    BY <1>1
  <2>1. /\ \A i \in DOMAIN tasks : tasks[i].request # worker[v].request
        /\ \A s \in Threads : job[s] # Idle => job[s].request # worker[v].request
    BY <1>0 DEF OnePlace
  <2>2. \A i \in DOMAIN tasks' : tasks'[i].request # worker[v].request
    BY <2>1, <1>3
  <2>3. ASSUME NEW s \in Threads, job'[s] # Idle PROVE job'[s].request # worker[v].request
    <3>1. CASE s = t
      BY <3>1, <2>1, <1>3, <1>5, <1>7
    <3>2. CASE s # t
      BY <2>3, <3>2, <2>1, <1>7
    <3> QED BY <3>1, <3>2
  <2> QED BY <2>2, <2>3
<1>15. (\A s \in Threads : job[s] # Idle => \A i \in DOMAIN tasks : tasks[i].request # job[s].request)'
  <2> SUFFICES ASSUME NEW s \in Threads, job'[s] # Idle, NEW i \in DOMAIN tasks'
               PROVE  tasks'[i].request # job'[s].request
    OBVIOUS
  <2>1. CASE s = t
    BY <2>1, <1>5, <1>7, <1>11
  <2>2. CASE s # t
    <3>1. job'[s] = job[s] /\ job[s] # Idle
      BY <2>2, <1>7
    <3>2. tasks[i + 1].request # job[s].request
      BY <3>1, <1>0, <1>3 DEF OnePlace
    <3> QED BY <3>1, <3>2, <1>3
  <2> QED BY <2>1, <2>2
<1>16. OnePlace'
  BY <1>0, <1>1, <1>12, <1>13, <1>14, <1>15 DEF OnePlace
<1>17. (\A i \in DOMAIN tasks : Waiting(tasks[i].request))'
  BY <1>0, <1>1, <1>3, SMT DEF Underway, Waiting
<1>18. (\A s \in Threads : job[s].at \in {"check", "route", "scrape"} => Waiting(job[s].request))'
  BY <1>0, <1>1, <1>4, <1>5, <1>7 DEF Underway, Waiting
<1>19. (\A s \in Threads : job[s] # Idle => progress[job[s].request] # "new")'
  BY <1>0, <1>1, <1>4, <1>5, <1>7 DEF Underway, Waiting
<1>20. Underway'
  BY <1>0, <1>1, <1>17, <1>18, <1>19 DEF Underway, Waiting
<1> QED BY <1>8, <1>10, <1>16, <1>20 DEF Places

\* A thread leaves its request, which is answered.
LEMMA FinishTaskPlaces ==
  ASSUME Places, NEW t \in Threads, FinishTask(t)
  PROVE  Places'
<1>0. Types /\ SentFromAddresses /\ OnePlace /\ Underway
  BY DEF Places
<1>1. /\ job[t].at = "leave" /\ job' = [job EXCEPT ![t] = Idle]
      /\ UNCHANGED <<commandLine, content, progress, worker, tasks, answers, log>>
  BY DEF FinishTask, startVars, requestVars, logVars
<1>2. Idle \in JobStates
  BY DEF JobStates
<1>3. /\ job' \in [Threads -> JobStates]
      /\ \A s \in Threads : job'[s] # Idle => job'[s] = job[s]
      /\ \A s \in Threads : job'[s].at # "idle" => job'[s] = job[s]
  BY <1>0, <1>1, <1>2 DEF Types, Idle
<1>4. Types'
  BY <1>0, <1>1, <1>3 DEF Types
<1>5. commandLine = NoCommandLine
  BY <1>1, SMT DEF Places, NothingBeforeStart, Idle
<1>6. NothingBeforeStart' /\ SentFromAddresses'
  BY <1>0, <1>1, <1>5 DEF NothingBeforeStart, SentFromAddresses
<1>7. OnePlace'
  BY <1>0, <1>1, <1>3, OnePlaceKept
<1>8. Underway'
  BY <1>0, <1>1, <1>3, ZenonT(40) DEF Underway, Waiting
<1> QED BY <1>4, <1>6, <1>7, <1>8 DEF Places

\* The other steps of a worker give away the request it has, or none.
LEMMA WorkerPlaces ==
  ASSUME Places, NEW w \in Workers,
         \/ DropRequest(w) \/ Refuse(w) \/ SwapCompletions(w) \/ ProcessCompletion(w) \/ ObserveRequest(w)
         \/ \E r \in Requests : RejectMalformed(w, r)
  PROVE  Places'
<1> DEFINE next == worker'[w]
<1>0. Types
  BY DEF Places
<1>1. Poll \in WorkerStates /\ Poll.at # "submit"
  BY DEF WorkerStates, Poll
<1>2. \A place \in {"observe", "completions"} : [at |-> place] \in WorkerStates /\ [at |-> place].at # "submit"
  BY DEF WorkerStates
<1>3. /\ UNCHANGED <<commandLine, content, tasks, job, log>>
      /\ \/ worker' = worker /\ worker[w] = Poll
         \/ worker' = [worker EXCEPT ![w] = Poll]
         \/ worker' = [worker EXCEPT ![w] = [at |-> "observe"]]
         \/ worker' = [worker EXCEPT ![w] = [at |-> "completions"]]
  BY DEF DropRequest, Refuse, SwapCompletions, ProcessCompletion, ObserveRequest, RejectMalformed, Deliver,
         startVars, poolVars, logVars
<1>4. next \in WorkerStates /\ next.at # "submit" /\ worker' = [worker EXCEPT ![w] = next]
  BY <1>0, <1>1, <1>2, <1>3 DEF Types
<1>5. commandLine = NoCommandLine
  <2> SUFFICES ASSUME commandLine # NoCommandLine PROVE FALSE
    OBVIOUS
  <2>1. /\ worker[w] = Poll /\ completions[w] = <<>>
        /\ \A r \in Requests : content[r] = NoContent
    BY DEF Places, NothingBeforeStart
  <2>2. worker[w].at = "poll"
    BY <2>1, SMT DEF Poll
  <2>3. CASE DropRequest(w) \/ Refuse(w)
    BY <2>2, <2>3 DEF DropRequest, Refuse
  <2>4. CASE SwapCompletions(w)
    BY <2>1, <2>4 DEF SwapCompletions
  <2>5. CASE ProcessCompletion(w) \/ ObserveRequest(w)
    BY <2>2, <2>5 DEF ProcessCompletion, ObserveRequest
  <2>6. CASE \E r \in Requests : RejectMalformed(w, r)
    BY <2>1, <2>6, SMT DEF RejectMalformed, NoContent
  <2> QED BY <2>3, <2>4, <2>5, <2>6
<1>6. \/ progress' = progress
      \/ \E r, p : p # "new" /\ progress' = [progress EXCEPT ![r] = p]
  <2>1. CASE DropRequest(w)
    BY <2>1, "dropped" # "new" DEF DropRequest
  <2>2. CASE Refuse(w) \/ ProcessCompletion(w)
    <3>1. \E r : progress' = [progress EXCEPT ![r] = "delivered"]
      BY <2>2, ZenonT(40) DEF Refuse, ProcessCompletion, Deliver
    <3> QED BY <3>1, "delivered" # "new"
  <2>3. CASE SwapCompletions(w) \/ ObserveRequest(w)
    BY <2>3 DEF SwapCompletions, ObserveRequest
  <2>4. CASE \E r \in Requests : RejectMalformed(w, r)
    BY <2>4, "rejected" # "new" DEF RejectMalformed
  <2> QED BY <2>1, <2>2, <2>3, <2>4
<1>7. /\ progress' = [r \in Requests |-> progress'[r]]
      /\ \A r \in Requests : progress'[r] = progress[r] \/ progress'[r] # "new"
  BY <1>0, <1>6 DEF Types
<1>8. \/ answers' = answers
      \/ /\ worker[w].at = "submit" /\ answers' = [answers EXCEPT ![worker[w].request] = Status(503)]
         /\ progress' = [progress EXCEPT ![worker[w].request] = "delivered"]
  BY ZenonT(30) DEF DropRequest, Refuse, SwapCompletions, ProcessCompletion, ObserveRequest, RejectMalformed, Deliver
<1>9. /\ answers' = [r \in Requests |-> answers'[r]]
      /\ \A r \in Requests : \/ answers'[r] = answers[r]
                             \/ worker[w].at = "submit" /\ r = worker[w].request /\ progress'[r] # "new"
  BY <1>0, <1>8, SMT DEF Types
<1> HIDE DEF next
<1> QED BY <1>3, <1>4, <1>5, <1>7, <1>9, WorkerMoves

\* The steps of a thread on its task.
JobStep(t) ==
  \/ CheckConsume(t) \/ RouteSimple(t) \/ RoutePublish(t) \/ RouteRecent(t) \/ RouteMetrics(t)
  \/ Scrape(t) \/ PushCompletion(t)

\* A thread's step either only moves it, or answers its request, and only a
\* publish that is answered with 201 writes to the log.
LEMMA JobStepCases ==
  ASSUME NEW t \in Threads, JobStep(t)
  PROVE  /\ UNCHANGED <<commandLine, content, progress, worker, tasks>>
         /\ job[t].at # "idle"
         /\ \/ /\ UNCHANGED <<answers, log>>
               /\ \/ job' = job /\ job[t].at = "scrape"
                  \/ job' = [job EXCEPT ![t].at = "route"] /\ job[t].at = "check"
                  \/ job' = [job EXCEPT ![t].at = "scrape"] /\ job[t].at = "route"
                  \/ job' = [job EXCEPT ![t].at = "leave"] /\ job[t].at = "push"
            \/ /\ job' = [job EXCEPT ![t].at = "push"] /\ job[t].at \in {"check", "route", "scrape"}
               /\ \/ /\ log' = log
                     /\ \E response : response.status # 201
                          /\ answers' = [answers EXCEPT ![job[t].request] = response]
                  \/ /\ job[t].at = "route" /\ log' = Append(log, job[t].request)
                     /\ answers' = [answers EXCEPT ![job[t].request] =
                                      [status |-> 201, offset |-> Len(log) + 1]]
<1>1. CASE CheckConsume(t)
  BY <1>1, SMT DEF CheckConsume, Answer, Status, startVars, logVars
<1>2. CASE RouteSimple(t)
  BY <1>2, SMT DEF RouteSimple, Answer, Status, startVars, logVars
<1>3. CASE RoutePublish(t)
  <2>1. /\ UNCHANGED <<commandLine, content, progress, worker, tasks>>
        /\ job[t].at = "route" /\ job' = [job EXCEPT ![t].at = "push"]
    BY <1>3 DEF RoutePublish, Routed, Answer, startVars
  <2>2. \/ /\ log' = log
           /\ \/ answers' = [answers EXCEPT ![job[t].request] = Status(400)]
              \/ answers' = [answers EXCEPT ![job[t].request] = Status(500)]
        \/ /\ log' = Append(log, job[t].request)
           /\ answers' = [answers EXCEPT ![job[t].request] = [status |-> 201, offset |-> Len(log) + 1]]
    BY <1>3 DEF RoutePublish, Answer, logVars
  <2>3. Status(400).status # 201 /\ Status(500).status # 201
    BY SMT DEF Status
  <2> QED BY <2>1, <2>2, <2>3, SMT
<1>4. CASE RouteRecent(t)
  BY <1>4, SMT DEF RouteRecent, Routed, Answer, Status, startVars, logVars
<1>5. CASE RouteMetrics(t)
  BY <1>5, SMT DEF RouteMetrics, Routed, Answer, Status, startVars, logVars
<1>6. CASE Scrape(t)
  BY <1>6, SMT DEF Scrape, Answer, Status, startVars, logVars
<1>7. CASE PushCompletion(t)
  BY <1>7 DEF PushCompletion, startVars, logVars
<1> QED BY <1>1, <1>2, <1>3, <1>4, <1>5, <1>6, <1>7 DEF JobStep

\* A thread keeps its request while it works on it.
LEMMA JobStepPlaces ==
  ASSUME Places, NEW t \in Threads, JobStep(t)
  PROVE  Places'
<1>0. Types
  BY DEF Places
<1>1. UNCHANGED <<commandLine, content, progress, worker, tasks>> /\ job[t].at # "idle"
  BY JobStepCases
<1>2. job[t] # Idle /\ commandLine = NoCommandLine
  BY <1>0, <1>1, IdleAt DEF Places, NothingBeforeStart
<1>3. CASE UNCHANGED <<answers, log>> /\ job' = job
  BY <1>1, <1>2, <1>3, ZenonT(40) DEF Places, Types, NothingBeforeStart, SentFromAddresses, OnePlace, Underway, Waiting
<1>4. ASSUME NEW place \in {"route", "scrape", "leave"},
             UNCHANGED <<answers, log>>, job' = [job EXCEPT ![t].at = place],
             place \in {"route", "scrape"} => job[t].at \in {"check", "route", "scrape"}
      PROVE  Places'
  BY <1>1, <1>2, <1>4, JobMoves
<1>5. CASE /\ job' = [job EXCEPT ![t].at = "push"]
           /\ log' = log \/ log' = Append(log, job[t].request)
           /\ \E response : answers' = [answers EXCEPT ![job[t].request] = response]
  BY <1>1, <1>2, <1>5, JobMoves
<1>6. \/ /\ UNCHANGED <<answers, log>>
         /\ \/ job' = job
            \/ job' = [job EXCEPT ![t].at = "route"] /\ job[t].at = "check"
            \/ job' = [job EXCEPT ![t].at = "scrape"] /\ job[t].at = "route"
            \/ job' = [job EXCEPT ![t].at = "leave"]
      \/ /\ job' = [job EXCEPT ![t].at = "push"]
         /\ log' = log \/ log' = Append(log, job[t].request)
         /\ \E response : answers' = [answers EXCEPT ![job[t].request] = response]
  <2>1. ASSUME NEW response, answers' = [answers EXCEPT ![job[t].request] = response]
        PROVE  \E any : answers' = [answers EXCEPT ![job[t].request] = any]
    BY <2>1
  <2> QED BY <2>1, JobStepCases, ZenonT(30)
<1>7. ASSUME job' = [job EXCEPT ![t].at = "leave"], UNCHANGED <<answers, log>> PROVE Places'
  BY <1>4, <1>7
<1>8. ASSUME job' = [job EXCEPT ![t].at = "route"] /\ job[t].at = "check", UNCHANGED <<answers, log>> PROVE Places'
  BY <1>4, <1>8
<1>9. ASSUME job' = [job EXCEPT ![t].at = "scrape"] /\ job[t].at = "route", UNCHANGED <<answers, log>> PROVE Places'
  BY <1>4, <1>9
<1> QED BY <1>3, <1>5, <1>6, <1>7, <1>8, <1>9

\* Every step keeps the requests in their places.
LEMMA NextPlaces == Places /\ [Next]_vars => Places'
<1> SUFFICES ASSUME Places, [Next]_vars PROVE Places'
  OBVIOUS
<1>1. CASE Exit \/ Start
  BY <1>1, StartPlaces
<1>2. CASE Tick
  BY <1>2, PlacesKept DEF Tick, placeVars, startVars, requestVars, poolVars, logVars
<1>3. ASSUME NEW w \in Workers, WorkerStep(w) PROVE Places'
  BY <1>3, SubmitPlaces, WorkerPlaces DEF WorkerStep
<1>4. ASSUME NEW w \in Workers, NEW r \in Requests, RejectMalformed(w, r) \/ StartRequest(w, r) PROVE Places'
  BY <1>4, WorkerPlaces, StartRequestPlaces
<1>5. ASSUME NEW t \in Threads, CheckLookup(t) \/ CheckCreate(t) PROVE Places'
  BY <1>5, PlacesKept DEF CheckLookup, CheckCreate, placeVars, startVars, requestVars, poolVars, logVars
<1>6. ASSUME NEW t \in Threads, ThreadStep(t) PROVE Places'
  BY <1>5, <1>6, TakeTaskPlaces, FinishTaskPlaces, JobStepPlaces DEF ThreadStep, JobStep
<1>7. CASE UNCHANGED vars
  BY <1>7, PlacesKept DEF vars, placeVars, startVars, requestVars, poolVars, logVars
<1> QED BY <1>1, <1>2, <1>3, <1>4, <1>6, <1>7 DEF Next
=============================================================================
