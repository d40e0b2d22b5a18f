--------------------------- MODULE WindowLimiter ---------------------------
(***************************************************************************)
(* What the rate limiter promises to the clients of an address, with the   *)
(* buckets, the locks and the threads left out: a request is admitted      *)
(* exactly when no window of time that ends now would hold more requests   *)
(* than the capacity and the tokens refilled during the window.            *)
(* RateLimiter implements this specification.                              *)
(***************************************************************************)
EXTENDS Naturals, Sequences, FiniteSets

CONSTANTS
  Addresses,   \* client addresses
  Unit         \* tokens are counted in fractions of one request: Unit buys one

VARIABLES
  capacity, refill_rate,   \* in units, and in units per tick of the clock
  clock,
  decisions   \* address -> what was decided for it, oldest first, and when

windowVars == <<capacity, refill_rate, clock, decisions>>

\* The requests of an address admitted at time s or later.
AdmittedSince(ip, s) ==
  {i \in DOMAIN decisions[ip] : decisions[ip][i].allowed /\ decisions[ip][i].at >= s}

Admissible(ip) ==
  \A s \in 0..clock :
    Unit * (Cardinality(AdmittedSince(ip, s)) + 1) <= capacity + refill_rate * (clock - s)

Init ==
  /\ capacity = 0 /\ refill_rate = 0
  /\ clock = 0
  /\ decisions = [ip \in Addresses |-> <<>>]

Configure ==
  /\ capacity = 0
  /\ capacity' \in Nat \ {0} /\ refill_rate' \in Nat
  /\ UNCHANGED <<clock, decisions>>

Elapse == clock' \in Nat /\ clock' > clock /\ UNCHANGED <<capacity, refill_rate, decisions>>

Decide(ip) ==
  /\ decisions' = [decisions EXCEPT ![ip] = Append(@, [at |-> clock, allowed |-> Admissible(ip)])]
  /\ UNCHANGED <<capacity, refill_rate, clock>>

Next == Configure \/ Elapse \/ \E ip \in Addresses : Decide(ip)

Spec == Init /\ [][Next]_windowVars
=============================================================================
