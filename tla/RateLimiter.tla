---------------------------- MODULE RateLimiter ----------------------------
(***************************************************************************)
(* RateLimiter and TokenBucket of src/src/security/rate_limiter.cpp:       *)
(* Router::route calls check(ip) from any pool thread, and each address    *)
(* has one token bucket, made by the first check for it.                   *)
(*                                                                         *)
(* Tokens are counted in whole units of 1/Unit token and time in ticks of  *)
(* the steady clock; the rounding of double arithmetic is left out.  A     *)
(* step is a region under one lock: the shared lock, the exclusive lock,   *)
(* and the mutex of an entry.                                              *)
(*                                                                         *)
(* Definitions named Bug... are plausible mistakes in the definition that  *)
(* follows them.                                                           *)
(***************************************************************************)
EXTENDS Naturals, Sequences

CONSTANTS
  Addresses,   \* client addresses
  Threads,     \* the pool threads
  Unit         \* units in a token

ASSUME LimiterAssumption == Unit \in Nat \ {0}

VARIABLES
  capacity, refill_rate,   \* members of RateLimiter, in units (capacity 0: not constructed)
  clock,      \* steady_clock::now()
  buckets,    \* the map: address -> index in entries, 0 when it is absent
  entries,    \* every BucketEntry made, in order
  calls,      \* thread -> its call of check
  decisions   \* history: address -> what check returned, oldest first, and when

limiterVars == <<capacity, refill_rate, clock, buckets, entries, calls, decisions>>

NoCall == [pc |-> "none"]
Calls == {NoCall} \cup [pc : {"create", "consume"}, ip : Addresses, entry : Nat]
Entry == [tokens : Nat, last_refill_time : Nat]

LimiterInit ==
  /\ capacity = 0 /\ refill_rate = 0
  /\ clock = 0
  /\ buckets = [ip \in Addresses |-> 0]
  /\ entries = <<>>
  /\ calls = [t \in Threads |-> NoCall]
  /\ decisions = [ip \in Addresses |-> <<>>]

\* The constructor, with parameters Config::validate accepts.
Construct(c, r) ==
  /\ capacity = 0 /\ c \in Nat /\ c >= Unit /\ r \in Nat
  /\ capacity' = c /\ refill_rate' = r
  /\ UNCHANGED <<clock, buckets, entries, calls, decisions>>

Elapse == clock' = clock + 1 /\ UNCHANGED <<capacity, refill_rate, buckets, entries, calls, decisions>>

\* check: find the entry under the shared lock.
Lookup(t, ip) ==
  /\ capacity > 0 /\ calls[t] = NoCall
  /\ calls' = [calls EXCEPT ![t] =
       [pc |-> IF buckets[ip] = 0 THEN "create" ELSE "consume", ip |-> ip, entry |-> buckets[ip]]]
  /\ UNCHANGED <<capacity, refill_rate, clock, buckets, entries, decisions>>

\* The constructor of TokenBucket: full, as of now.
NewEntry == [tokens |-> capacity, last_refill_time |-> clock]

BugEmplaceBlindly(ip) ==
  /\ entries' = Append(entries, NewEntry)
  /\ buckets' = [buckets EXCEPT ![ip] = Len(entries) + 1]
FindOrEmplace(ip) ==
  \/ buckets[ip] # 0 /\ UNCHANGED <<buckets, entries>>
  \/ /\ buckets[ip] = 0
     /\ entries' = Append(entries, NewEntry)
     /\ buckets' = [buckets EXCEPT ![ip] = Len(entries) + 1]

\* check: under the exclusive lock, use the entry another thread made since
\* the lookup, or make one.
Create(t) ==
  /\ calls[t].pc = "create"
  /\ FindOrEmplace(calls[t].ip)
  /\ calls' = [calls EXCEPT ![t] =
       [pc |-> "consume", ip |-> calls[t].ip, entry |-> buckets'[calls[t].ip]]]
  /\ UNCHANGED <<capacity, refill_rate, clock, decisions>>

BugRefill(e) == e.tokens + (clock - e.last_refill_time) * refill_rate
Refill(e) ==
  LET refilled == e.tokens + (clock - e.last_refill_time) * refill_rate
  IN IF capacity < refilled THEN capacity ELSE refilled

\* Whether consume() on the entry of t's call returns true.
Allows(t) == Refill(entries[calls[t].entry]) >= Unit

\* check: consume() under the entry's mutex, and the end of the call.
Consume(t) ==
  /\ calls[t].pc = "consume"
  /\ LET e == calls[t].entry
         tokens == Refill(entries[e])
     IN entries' = [entries EXCEPT ![e] =
          [tokens |-> IF Allows(t) THEN tokens - Unit ELSE tokens, last_refill_time |-> clock]]
  /\ decisions' = [decisions EXCEPT ![calls[t].ip] = Append(@, [at |-> clock, allowed |-> Allows(t)])]
  /\ calls' = [calls EXCEPT ![t] = NoCall]
  /\ UNCHANGED <<capacity, refill_rate, clock, buckets>>

LimiterNext ==
  \/ \E c, r \in Nat : Construct(c, r)
  \/ Elapse
  \/ \E t \in Threads : (\E ip \in Addresses : Lookup(t, ip)) \/ Create(t) \/ Consume(t)

LimiterSpec == LimiterInit /\ [][LimiterNext]_limiterVars

-----------------------------------------------------------------------------
(* Properties.                                                             *)

Window == INSTANCE WindowLimiter

\* A request is admitted exactly when its address has not used up the capacity
\* and the refill of any window of time: whatever threads check the address at
\* once, no request passes that should be blocked and none is blocked that
\* should pass.
ImplementsWindowLimiter == Window!Spec
=============================================================================
