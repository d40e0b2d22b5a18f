--------------------------- MODULE GatewayProofs ---------------------------
(***************************************************************************)
(* The rate limiter admits exactly what WindowLimiter admits, for every    *)
(* set of addresses and threads, every capacity and refill rate, and the   *)
(* gateway keeps the promises of its rate limiter, of its log and of       *)
(* GET /recent, for every number of requests, workers, threads and         *)
(* addresses.                                                              *)
(***************************************************************************)
EXTENDS GatewayPathProofs

\* A leaf is for Zenon unless it names SMT.
USE Zenon

-----------------------------------------------------------------------------
(* The log, and what the limiter admitted.                                 *)

\* The log and the answers agree.
LogMatches ==
  /\ \A r \in Requests : answers[r].status = 201 =>
       answers[r].offset \in DOMAIN log /\ log[answers[r].offset] = r
  /\ \A i \in DOMAIN log : answers[log[i]].status = 201 /\ answers[log[i]].offset = i

\* A message of an address in the log, and a request of it that passed the
\* limiter and has yet to be routed, was admitted.
PublishedBy(ip) == {i \in DOMAIN log : content[log[i]].ip = ip}
PassedBy(ip) == {t \in Threads : job[t].at = "route" /\ content[job[t].request].ip = ip}
WithinAdmitted(ip) == Cardinality(PublishedBy(ip)) + Cardinality(PassedBy(ip)) <= AdmittedCount(ip, 0)
CallsMatch ==
  \A t \in Threads : calls[t] # NoCall => job[t].at = "check" /\ calls[t].ip = content[job[t].request].ip
Admitted == CallsMatch /\ \A ip \in Addresses : WithinAdmitted(ip)

GInv == Places /\ LogMatches /\ Admitted

-----------------------------------------------------------------------------
(* The log and the answers agree.                                          *)

\* Which answers a step gives, and which messages it writes.
LEMMA StepAnswers ==
  ASSUME Places, [Next]_vars
  PROVE  \/ UNCHANGED <<answers, log>>
         \/ \E r \in Requests : \E response :
              /\ answers[r] = NoAnswer
              /\ answers' = [answers EXCEPT ![r] = response]
              /\ \/ response.status # 201 /\ log' = log
                 \/ response = [status |-> 201, offset |-> Len(log) + 1] /\ log' = Append(log, r)
<1>0. Types /\ Underway
  BY DEF Places
<1>1. CASE \/ Exit \/ Start \/ Tick \/ UNCHANGED vars
  BY <1>1 DEF Exit, Start, Tick, vars, requestVars, logVars
<1>2. ASSUME NEW w \in Workers, Refuse(w)
      PROVE  \E r \in Requests : \E response :
               /\ answers[r] = NoAnswer
               /\ answers' = [answers EXCEPT ![r] = response]
               /\ response.status # 201 /\ log' = log
  <2> DEFINE r == worker[w].request
  <2>1. worker[w].at = "submit" /\ answers' = [answers EXCEPT ![r] = Status(503)] /\ log' = log
    BY <1>2 DEF Refuse, logVars
  <2>2. r \in Requests /\ answers[r] = NoAnswer
    BY <1>0, <2>1, SubmitType DEF Underway, Waiting
  <2>3. Status(503).status # 201
    BY SMT DEF Status
  <2> HIDE DEF r
  <2>4. PICK response : response = Status(503)
    OBVIOUS
  <2>5. /\ answers[r] = NoAnswer /\ answers' = [answers EXCEPT ![r] = response]
        /\ response.status # 201 /\ log' = log
    BY <2>1, <2>2, <2>3, <2>4
  <2> QED BY <2>2, <2>5
<1>3. ASSUME NEW w \in Workers, WorkerStep(w), ~Refuse(w) PROVE UNCHANGED <<answers, log>>
  BY <1>3 DEF WorkerStep, DropRequest, Submit, SwapCompletions, ProcessCompletion, ObserveRequest, logVars
<1>4. ASSUME NEW w \in Workers, NEW r \in Requests, RejectMalformed(w, r) \/ StartRequest(w, r)
      PROVE  UNCHANGED <<answers, log>>
  BY <1>4 DEF RejectMalformed, StartRequest, logVars
<1>5. ASSUME NEW t \in Threads, TakeTask(t) \/ CheckLookup(t) \/ CheckCreate(t) \/ FinishTask(t)
      PROVE  UNCHANGED <<answers, log>>
  BY <1>5 DEF TakeTask, CheckLookup, CheckCreate, FinishTask, requestVars, logVars
<1>6. ASSUME NEW t \in Threads, JobStep(t), ~UNCHANGED <<answers, log>>
      PROVE  \E r \in Requests : \E response :
               /\ answers[r] = NoAnswer
               /\ answers' = [answers EXCEPT ![r] = response]
               /\ \/ response.status # 201 /\ log' = log
                  \/ response = [status |-> 201, offset |-> Len(log) + 1] /\ log' = Append(log, r)
  <2> DEFINE r == job[t].request
  <2>1. /\ job[t].at \in {"check", "route", "scrape"}
        /\ \E response :
             /\ answers' = [answers EXCEPT ![r] = response]
             /\ \/ response.status # 201 /\ log' = log
                \/ response = [status |-> 201, offset |-> Len(log) + 1] /\ log' = Append(log, r)
    BY <1>6, JobStepCases, SMT
  <2>2. job[t] # Idle
    BY <1>0, <2>1, IdleAt
  <2>3. r \in Requests /\ answers[r] = NoAnswer
    BY <1>0, <2>1, <2>2, JobType DEF Underway, Waiting
  <2> QED BY <2>1, <2>3
<1>7. ASSUME NEW t \in Threads, ThreadStep(t) PROVE JobStep(t) \/ UNCHANGED <<answers, log>>
  BY <1>5, <1>7 DEF ThreadStep, JobStep
<1> QED BY <1>1, <1>2, <1>3, <1>4, <1>6, <1>7, SMTT(30) DEF Next

\* Every step keeps the log and the answers in agreement.
LEMMA NextLogMatches ==
  ASSUME Places, LogMatches, [Next]_vars
  PROVE  LogMatches'
<1>0. log \in Seq(Requests) /\ answers = [q \in Requests |-> answers[q]]
  BY DEF Places, Types
<1>1. CASE UNCHANGED <<answers, log>>
  BY <1>1 DEF LogMatches
<1>2. ASSUME NEW r \in Requests, NEW response, answers[r] = NoAnswer,
             answers' = [answers EXCEPT ![r] = response],
             \/ response.status # 201 /\ log' = log
             \/ response = [status |-> 201, offset |-> Len(log) + 1] /\ log' = Append(log, r)
      PROVE  LogMatches'
  <2>1. answers[r].status # 201
    BY <1>2, SMT DEF NoAnswer
  <2>2. \A i \in DOMAIN log : log[i] \in Requests /\ log[i] # r
    BY <1>0, <2>1, SMT DEF LogMatches
  <2>3. answers'[r] = response /\ \A q \in Requests : q # r => answers'[q] = answers[q]
    BY <1>0, <1>2
  <2>4. CASE response.status # 201 /\ log' = log
    BY <2>2, <2>3, <2>4, SMT DEF LogMatches
  <2>5. CASE response = [status |-> 201, offset |-> Len(log) + 1] /\ log' = Append(log, r)
    <3>1. /\ DOMAIN log = 1..Len(log) /\ DOMAIN log' = 1..(Len(log) + 1) /\ Len(log) \in Nat
          /\ log'[Len(log) + 1] = r /\ \A i \in 1..Len(log) : log'[i] = log[i]
      BY <1>0, <2>5, SMT
    <3>2. answers'[r].status = 201 /\ answers'[r].offset = Len(log) + 1
      BY <2>3, <2>5, SMT
    <3>3. ASSUME NEW q \in Requests, answers'[q].status = 201
          PROVE  answers'[q].offset \in DOMAIN log' /\ log'[answers'[q].offset] = q
      <4>1. CASE q = r
        BY <3>1, <3>2, <4>1, SMT
      <4>2. CASE q # r
        <5>1. answers'[q] = answers[q]
          BY <2>3, <4>2
        <5>2. answers[q].offset \in 1..Len(log) /\ log[answers[q].offset] = q
          BY <3>1, <3>3, <5>1, SMT DEF LogMatches
        <5> QED BY <3>1, <5>1, <5>2, SMT
      <4> QED BY <4>1, <4>2
    <3>4. ASSUME NEW i \in DOMAIN log' PROVE answers'[log'[i]].status = 201 /\ answers'[log'[i]].offset = i
      <4>1. CASE i = Len(log) + 1
        BY <3>1, <3>2, <4>1
      <4>2. CASE i # Len(log) + 1
        <5>1. i \in DOMAIN log /\ log'[i] = log[i]
          BY <3>1, <4>2, SMT
        <5>2. answers[log[i]].status = 201 /\ answers[log[i]].offset = i /\ answers'[log[i]] = answers[log[i]]
          BY <2>2, <2>3, <5>1, ZenonT(40) DEF LogMatches
        <5> QED BY <5>1, <5>2, SMT
      <4> QED BY <4>1, <4>2
    <3> QED BY <3>3, <3>4 DEF LogMatches
  <2> QED BY <1>2, <2>4, <2>5
<1>3. \/ UNCHANGED <<answers, log>>
      \/ \E r \in Requests : \E response :
           /\ answers[r] = NoAnswer
           /\ answers' = [answers EXCEPT ![r] = response]
           /\ \/ response.status # 201 /\ log' = log
              \/ response = [status |-> 201, offset |-> Len(log) + 1] /\ log' = Append(log, r)
  BY StepAnswers
<1> QED BY <1>1, <1>2, <1>3

-----------------------------------------------------------------------------
(* Inside the gateway the limiter runs by its own specification.           *)

\* Every step of the gateway is a step of the limiter or leaves it alone.
LEMMA NextLimiter ==
  ASSUME Places, [Next]_vars
  PROVE  [LimiterNext]_limiterVars
<1>1. CASE Exit \/ UNCHANGED vars
  BY <1>1 DEF Exit, vars
<1>2. CASE Start
  <2>1. PICK c, r : Construct(c, r)
    BY <1>2 DEF Start
  <2> QED BY <2>1 DEF Construct, LimiterNext
<1>3. CASE Tick
  BY <1>3 DEF Tick, LimiterNext
<1>4. ASSUME NEW w \in Workers, WorkerStep(w) PROVE UNCHANGED limiterVars
  BY <1>4 DEF WorkerStep, DropRequest, Submit, Refuse, SwapCompletions, ProcessCompletion, ObserveRequest
<1>5. ASSUME NEW w \in Workers, NEW r \in Requests, RejectMalformed(w, r) \/ StartRequest(w, r)
      PROVE  UNCHANGED limiterVars
  BY <1>5 DEF RejectMalformed, StartRequest
<1>6. ASSUME NEW t \in Threads, CheckLookup(t) PROVE LimiterNext
  <2>1. content[job[t].request].ip \in Addresses
    BY <1>6 DEF CheckLookup, Places, Underway, Waiting
  <2> QED BY <1>6, <2>1 DEF CheckLookup, LimiterNext
<1>7. ASSUME NEW t \in Threads, CheckCreate(t) \/ CheckConsume(t) PROVE LimiterNext
  BY <1>7 DEF CheckCreate, CheckConsume, LimiterNext
<1>8. ASSUME NEW t \in Threads, TakeTask(t) \/ FinishTask(t) \/ (JobStep(t) /\ ~CheckConsume(t))
      PROVE  UNCHANGED limiterVars
  BY <1>8 DEF TakeTask, FinishTask, JobStep, RouteSimple, RoutePublish, RouteRecent, RouteMetrics, Scrape, PushCompletion
<1>9. ASSUME NEW t \in Threads, ThreadStep(t) PROVE [LimiterNext]_limiterVars
  BY <1>6, <1>7, <1>8, <1>9 DEF ThreadStep, JobStep
<1> QED BY <1>1, <1>2, <1>3, <1>4, <1>5, <1>9 DEF Next

-----------------------------------------------------------------------------
(* What is written was admitted.                                           *)

\* What is counted of an address is finite.
LEMMA FiniteCounts ==
  ASSUME FiniteSetFacts, log \in Seq(Requests), NEW ip
  PROVE  /\ IsFiniteSet(PublishedBy(ip)) /\ Cardinality(PublishedBy(ip)) \in Nat
         /\ IsFiniteSet(PassedBy(ip)) /\ Cardinality(PassedBy(ip)) \in Nat
<1>1. PublishedBy(ip) \subseteq 1..Len(log) /\ 0 + 1 \in Int /\ Len(log) \in Int
  BY SMT DEF PublishedBy
<1>2. IsFiniteSet(1..Len(log))
  BY <1>1, SMT DEF FiniteSetFacts, IntervalCounts
<1>3. IsFiniteSet(PublishedBy(ip))
  BY <1>1, <1>2 DEF FiniteSetFacts, FiniteSubsets
<1>4. PassedBy(ip) \subseteq Threads /\ IsFiniteSet(Threads)
  BY GatewayAssumption DEF PassedBy
<1>5. IsFiniteSet(PassedBy(ip))
  BY <1>4 DEF FiniteSetFacts, FiniteSubsets
<1> QED BY <1>3, <1>5 DEF FiniteSetFacts, CardinalityIsNat

\* Nothing is written and nothing passes the limiter.
LEMMA AllowanceKept ==
  ASSUME FiniteSetFacts, Types, TypeOK, NEW ip \in Addresses, WithinAdmitted(ip), log' = log, content' = content,
         decisions'[ip] = decisions[ip], PassedBy(ip)' \subseteq PassedBy(ip)
  PROVE  WithinAdmitted(ip)'
<1>1. AdmittedCount(ip, 0)' = AdmittedCount(ip, 0)
  BY DEF AdmittedCount, Window!AdmittedSince
<1>2. PublishedBy(ip)' = PublishedBy(ip)
  BY DEF PublishedBy
<1>3. /\ IsFiniteSet(PublishedBy(ip)) /\ Cardinality(PublishedBy(ip)) \in Nat
      /\ IsFiniteSet(PassedBy(ip)) /\ Cardinality(PassedBy(ip)) \in Nat
  BY FiniteCounts DEF Types
<1>4. Cardinality(PassedBy(ip)') \in Nat /\ Cardinality(PassedBy(ip)') <= Cardinality(PassedBy(ip))
  BY <1>3 DEF FiniteSetFacts, FiniteSubsets, CardinalityIsNat
<1>5. AdmittedCount(ip, 0) \in Nat
  BY CountIsNat
<1> QED BY <1>1, <1>2, <1>3, <1>4, <1>5, SMT DEF WithinAdmitted

\* A thread passes the limiter or is refused by it.
LEMMA ConsumeWithin ==
  ASSUME FiniteSetFacts, Types, TypeOK, Admitted, NEW t \in Threads, CheckConsume(t), NEW ip \in Addresses
  PROVE  WithinAdmitted(ip)'
<1>1. /\ Consume(t) /\ log' = log /\ content' = content /\ job[t].at = "check" /\ calls[t].pc = "consume"
      /\ decisions' = [decisions EXCEPT ![calls[t].ip] = Append(@, [at |-> clock, allowed |-> Allows(t)])]
      /\ \/ Allows(t) /\ job' = [job EXCEPT ![t].at = "route"]
         \/ ~Allows(t) /\ job' = [job EXCEPT ![t].at = "push"]
  BY DEF CheckConsume, Consume, Answer, startVars, logVars
<1>2. calls[t] # NoCall /\ calls[t].ip \in Addresses /\ calls[t].ip = content[job[t].request].ip
  BY <1>1, CallType, SMT DEF Admitted, CallsMatch, NoCall
<1>3. job[t] # Idle
  BY <1>1, IdleAt
<1>4. /\ job'[t].request = job[t].request
      /\ Allows(t) => job'[t].at = "route"
      /\ ~Allows(t) => job'[t].at = "push"
      /\ \A u \in Threads : u # t => job'[u] = job[u]
  BY <1>1, <1>3, JobType, ZenonT(40) DEF Types
<1>5. CASE ip # calls[t].ip \/ ~Allows(t)
  <2>1. PassedBy(ip)' \subseteq PassedBy(ip)
    <3> SUFFICES ASSUME NEW u \in Threads, job'[u].at = "route", content'[job'[u].request].ip = ip
                 PROVE  job[u].at = "route" /\ content[job[u].request].ip = ip
      BY DEF PassedBy
    <3>1. u # t
      BY <1>1, <1>2, <1>4, <1>5
    <3> QED BY <1>1, <1>4, <3>1
  <2>2. CASE ip # calls[t].ip
    <3>1. decisions'[ip] = decisions[ip]
      BY <1>1, <2>2 DEF TypeOK
    <3> QED BY <1>1, <2>1, <3>1, AllowanceKept DEF Admitted
  <2>3. CASE ip = calls[t].ip /\ ~Allows(t)
    <3>1. AdmittedCount(ip, 0)' = AdmittedCount(ip, 0)
      <4>0. Allows(t) = FALSE
        BY <2>3, SMT DEF Allows
      <4>1. decisions' = [decisions EXCEPT ![ip] = Append(@, [at |-> clock, allowed |-> FALSE])]
        BY <1>1, <2>3, <4>0
      <4>2. 0 \in 0..clock
        BY SMT DEF TypeOK
      <4> QED BY <4>1, <4>2, CountAfterDecision
    <3>2. PublishedBy(ip)' = PublishedBy(ip)
      BY <1>1 DEF PublishedBy
    <3>3. /\ IsFiniteSet(PublishedBy(ip)) /\ Cardinality(PublishedBy(ip)) \in Nat
          /\ IsFiniteSet(PassedBy(ip)) /\ Cardinality(PassedBy(ip)) \in Nat
      BY FiniteCounts DEF Types
    <3>4. Cardinality(PassedBy(ip)') \in Nat /\ Cardinality(PassedBy(ip)') <= Cardinality(PassedBy(ip))
      BY <2>1, <3>3 DEF FiniteSetFacts, FiniteSubsets, CardinalityIsNat
    <3>5. AdmittedCount(ip, 0) \in Nat /\ WithinAdmitted(ip)
      BY CountIsNat DEF Admitted
    <3> QED BY <3>1, <3>2, <3>3, <3>4, <3>5, SMT DEF WithinAdmitted
  <2> QED BY <1>5, <2>2, <2>3
<1>6. CASE ip = calls[t].ip /\ Allows(t)
  <2>1. AdmittedCount(ip, 0)' = AdmittedCount(ip, 0) + 1
    <3>1. decisions' = [decisions EXCEPT ![ip] = Append(@, [at |-> clock, allowed |-> TRUE])]
      BY <1>1, <1>6
    <3>2. 0 \in 0..clock
      BY SMT DEF TypeOK
    <3> QED BY <3>1, <3>2, CountAfterDecision
  <2>2. PublishedBy(ip)' = PublishedBy(ip)
    BY <1>1 DEF PublishedBy
  <2>3. PassedBy(ip)' \subseteq PassedBy(ip) \cup {t}
    BY <1>1, <1>4 DEF PassedBy
  <2>4. /\ IsFiniteSet(PublishedBy(ip)) /\ Cardinality(PublishedBy(ip)) \in Nat
        /\ IsFiniteSet(PassedBy(ip)) /\ Cardinality(PassedBy(ip)) \in Nat
    BY FiniteCounts DEF Types
  <2>5. /\ IsFiniteSet(PassedBy(ip) \cup {t})
        /\ Cardinality(PassedBy(ip) \cup {t}) \in Nat
        /\ Cardinality(PassedBy(ip) \cup {t}) <= Cardinality(PassedBy(ip)) + 1
    <3>1. /\ IsFiniteSet(PassedBy(ip) \cup {t})
          /\ \/ Cardinality(PassedBy(ip) \cup {t}) = Cardinality(PassedBy(ip))
             \/ Cardinality(PassedBy(ip) \cup {t}) = Cardinality(PassedBy(ip)) + 1
      BY <2>4 DEF FiniteSetFacts, ElementAdded
    <3> QED BY <2>4, <3>1, SMT
  <2>6. Cardinality(PassedBy(ip)') \in Nat /\ Cardinality(PassedBy(ip)') <= Cardinality(PassedBy(ip) \cup {t})
    BY <2>3, <2>5 DEF FiniteSetFacts, FiniteSubsets, CardinalityIsNat
  <2>7. AdmittedCount(ip, 0) \in Nat /\ WithinAdmitted(ip)
    BY CountIsNat DEF Admitted
  <2> QED BY <2>1, <2>2, <2>4, <2>5, <2>6, <2>7, SMT DEF WithinAdmitted
<1> QED BY <1>5, <1>6

\* A step of a thread other than the limiter's.
LEMMA RouteWithin ==
  ASSUME FiniteSetFacts, Types, TypeOK, Admitted, NEW t \in Threads, JobStep(t), ~CheckConsume(t), decisions' = decisions,
         NEW ip \in Addresses
  PROVE  WithinAdmitted(ip)'
<1>1. content' = content /\ job[t].at # "idle" /\ job[t].at # "check"
  BY JobStepCases DEF JobStep, RouteSimple, RoutePublish, Routed, RouteRecent, RouteMetrics, Scrape, PushCompletion
<1>2. job[t] # Idle
  BY <1>1, IdleAt
<1>3. \/ log' = log /\ (job' = job \/ \E place \in {"scrape", "leave", "push"} : job' = [job EXCEPT ![t].at = place])
      \/ job[t].at = "route" /\ job' = [job EXCEPT ![t].at = "push"] /\ log' = Append(log, job[t].request)
  BY <1>1, JobStepCases
<1>4. PassedBy(ip)' \subseteq PassedBy(ip)
  <2>1. CASE job' = job
    BY <1>1, <2>1 DEF PassedBy
  <2>2. ASSUME NEW place \in {"scrape", "leave", "push"}, job' = [job EXCEPT ![t].at = place]
        PROVE  PassedBy(ip)' \subseteq PassedBy(ip)
    <3>1. job'[t].at # "route" /\ \A u \in Threads : u # t => job'[u] = job[u]
      BY <1>2, <2>2, JobType DEF Types
    <3> QED BY <1>1, <3>1 DEF PassedBy
  <2> QED BY <1>3, <2>1, <2>2
<1>5. CASE log' = log
  BY <1>1, <1>4, <1>5, AllowanceKept DEF Admitted
<1>6. CASE job[t].at = "route" /\ job' = [job EXCEPT ![t].at = "push"] /\ log' = Append(log, job[t].request)
  <2>1. /\ log \in Seq(Requests) /\ job[t].request \in Requests
        /\ DOMAIN log = 1..Len(log) /\ DOMAIN log' = 1..(Len(log) + 1) /\ Len(log) \in Nat
        /\ log'[Len(log) + 1] = job[t].request /\ \A i \in 1..Len(log) : log'[i] = log[i]
    BY <1>2, <1>6, JobType, SMT DEF Types
  <2>2. /\ IsFiniteSet(PublishedBy(ip)) /\ Cardinality(PublishedBy(ip)) \in Nat
        /\ IsFiniteSet(PassedBy(ip)) /\ Cardinality(PassedBy(ip)) \in Nat
    BY <2>1, FiniteCounts
  <2>3. AdmittedCount(ip, 0)' = AdmittedCount(ip, 0) /\ AdmittedCount(ip, 0) \in Nat
    <3>1. AdmittedCount(ip, 0)' = AdmittedCount(ip, 0)
      BY DEF AdmittedCount, Window!AdmittedSince
    <3> QED BY <3>1, CountIsNat
  <2>4. CASE content[job[t].request].ip # ip
    <3>1. PublishedBy(ip)' = PublishedBy(ip)
      <4>1. ASSUME NEW i PROVE i \in PublishedBy(ip)' <=> i \in PublishedBy(ip)
        <5>1. CASE i \in 1..Len(log)
          BY <1>1, <2>1, <5>1, SMT DEF PublishedBy
        <5>2. CASE i \notin 1..Len(log)
          <6>1. i \notin PublishedBy(ip)
            BY <2>1, <5>2 DEF PublishedBy
          <6>2. i \in DOMAIN log' => i = Len(log) + 1
            BY <2>1, <5>2, SMT
          <6> QED BY <1>1, <2>1, <2>4, <6>1, <6>2 DEF PublishedBy
        <5> QED BY <5>1, <5>2
      <4> QED BY <4>1
    <3>2. Cardinality(PassedBy(ip)') \in Nat /\ Cardinality(PassedBy(ip)') <= Cardinality(PassedBy(ip))
      BY <1>4, <2>2 DEF FiniteSetFacts, FiniteSubsets, CardinalityIsNat
    <3>3. WithinAdmitted(ip)
      BY DEF Admitted
    <3> QED BY <2>2, <2>3, <3>1, <3>2, <3>3, SMT DEF WithinAdmitted
  <2>5. CASE content[job[t].request].ip = ip
    <3>1. t \in PassedBy(ip) /\ PassedBy(ip)' \subseteq PassedBy(ip) \ {t}
      <4>1. t \in PassedBy(ip)
        BY <1>6, <2>5 DEF PassedBy
      <4>2. job'[t].at = "push"
        BY <1>2, <1>6, JobType DEF Types
      <4>3. t \notin PassedBy(ip)'
        BY <4>2 DEF PassedBy
      <4> QED BY <1>4, <4>1, <4>3
    <3>2. PublishedBy(ip)' \subseteq PublishedBy(ip) \cup {Len(log) + 1}
      <4> SUFFICES ASSUME NEW i \in DOMAIN log', content'[log'[i]].ip = ip, i # Len(log) + 1
                   PROVE  i \in PublishedBy(ip)
        BY DEF PublishedBy
      <4>1. i \in 1..Len(log)
        BY <2>1, SMT
      <4>2. i \in DOMAIN log /\ log'[i] = log[i]
        BY <2>1, <4>1
      <4> QED BY <1>1, <4>2 DEF PublishedBy
    <3>3. Len(log) + 1 \notin PublishedBy(ip)
      BY <2>1, SMT DEF PublishedBy
    <3>4. /\ IsFiniteSet(PublishedBy(ip) \cup {Len(log) + 1})
          /\ Cardinality(PublishedBy(ip) \cup {Len(log) + 1}) = Cardinality(PublishedBy(ip)) + 1
      BY <2>2, <3>3 DEF FiniteSetFacts, ElementAdded
    <3>5. /\ IsFiniteSet(PassedBy(ip) \ {t})
          /\ Cardinality(PassedBy(ip) \ {t}) = Cardinality(PassedBy(ip)) - 1
      BY <2>2, <3>1 DEF FiniteSetFacts, ElementRemoved
    <3>6. /\ Cardinality(PublishedBy(ip)') \in Nat
          /\ Cardinality(PublishedBy(ip)') <= Cardinality(PublishedBy(ip)) + 1
      BY <3>2, <3>4, SMT DEF FiniteSetFacts, FiniteSubsets, CardinalityIsNat
    <3>7. /\ Cardinality(PassedBy(ip)') \in Nat
          /\ Cardinality(PassedBy(ip)') <= Cardinality(PassedBy(ip)) - 1
      BY <3>1, <3>5, SMT DEF FiniteSetFacts, FiniteSubsets, CardinalityIsNat
    <3>8. WithinAdmitted(ip)
      BY DEF Admitted
    <3> QED BY <2>2, <2>3, <3>6, <3>7, <3>8, SMT DEF WithinAdmitted
  <2> QED BY <2>4, <2>5
<1> QED BY <1>3, <1>5, <1>6

\* At the start there is nothing to account for.
LEMMA EmptyWithin ==
  ASSUME FiniteSetFacts, TypeOK, log = <<>>, job = [t \in Threads |-> Idle], NEW ip \in Addresses
  PROVE  WithinAdmitted(ip)
<1>1. PublishedBy(ip) = {} /\ PassedBy(ip) = {}
  BY SMT DEF PublishedBy, PassedBy, Idle
<1>2. Cardinality({}) = 0
  BY DEF FiniteSetFacts, EmptyCounts
<1> QED BY <1>1, <1>2, CountIsNat, SMT DEF WithinAdmitted

\* No step lets an address publish more than it was admitted.
LEMMA NextWithin ==
  ASSUME FiniteSetFacts, Places, TypeOK, TypeOK', Admitted, [Next]_vars, NEW ip \in Addresses
  PROVE  WithinAdmitted(ip)'
<1>0. Types /\ WithinAdmitted(ip)
  BY DEF Places, Admitted
<1>1. ASSUME UNCHANGED <<log, content, job, decisions>> PROVE WithinAdmitted(ip)'
  <2>1. PassedBy(ip)' = PassedBy(ip)
    BY <1>1 DEF PassedBy
  <2> QED BY <1>0, <1>1, <2>1, AllowanceKept
<1>2. CASE Exit \/ Tick \/ UNCHANGED vars
  BY <1>1, <1>2 DEF Exit, Tick, Elapse, vars, startVars, poolVars, logVars, limiterVars
<1>3. CASE Start
  <2>1. log' = <<>> /\ job' = [t \in Threads |-> Idle]
    BY <1>3 DEF Start, Places, NothingBeforeStart, poolVars, logVars
  <2>2. PublishedBy(ip)' = {} /\ PassedBy(ip)' = {}
    BY <2>1, SMT DEF PublishedBy, PassedBy, Idle
  <2>3. Cardinality({}) = 0
    BY DEF FiniteSetFacts, EmptyCounts
  <2>4. AdmittedCount(ip, 0)' \in Nat
    <3>1. decisions' = decisions
      BY <1>3 DEF Start, Construct
    <3>2. AdmittedCount(ip, 0)' = AdmittedCount(ip, 0)
      BY <3>1 DEF AdmittedCount, Window!AdmittedSince
    <3> QED BY <3>2, CountIsNat
  <2> QED BY <2>2, <2>3, <2>4, SMT DEF WithinAdmitted
<1>4. ASSUME NEW w \in Workers, WorkerStep(w) PROVE WithinAdmitted(ip)'
  <2>1. UNCHANGED <<log, content, job, decisions>>
    BY <1>4 DEF WorkerStep, DropRequest, Submit, Refuse, SwapCompletions, ProcessCompletion, ObserveRequest,
                startVars, poolVars, logVars, limiterVars
  <2> QED BY <1>1, <2>1
<1>5. ASSUME NEW w \in Workers, NEW r \in Requests, RejectMalformed(w, r) \/ StartRequest(w, r)
      PROVE  WithinAdmitted(ip)'
  BY <1>1, <1>5 DEF RejectMalformed, StartRequest, startVars, poolVars, logVars, limiterVars
<1>6. ASSUME NEW t \in Threads, CheckLookup(t) \/ CheckCreate(t) PROVE WithinAdmitted(ip)'
  BY <1>1, <1>6 DEF CheckLookup, CheckCreate, Lookup, Create, startVars, poolVars, logVars
<1>7. ASSUME NEW t \in Threads, TakeTask(t) \/ FinishTask(t) PROVE WithinAdmitted(ip)'
  <2>1. UNCHANGED <<log, content, decisions>>
    BY <1>7 DEF TakeTask, FinishTask, startVars, logVars, limiterVars
  <2>2. job'[t].at # "route" /\ \A u \in Threads : u # t => job'[u] = job[u]
    BY <1>0, <1>7, SMT DEF TakeTask, FinishTask, Types, Idle
  <2>3. PassedBy(ip)' \subseteq PassedBy(ip)
    BY <2>1, <2>2 DEF PassedBy
  <2> QED BY <1>0, <2>1, <2>3, AllowanceKept
<1>8. ASSUME NEW t \in Threads, JobStep(t), ~CheckConsume(t) PROVE WithinAdmitted(ip)'
  <2>1. decisions' = decisions
    BY <1>8 DEF JobStep, RouteSimple, RoutePublish, RouteRecent, RouteMetrics, Scrape, PushCompletion, limiterVars
  <2> QED BY <1>0, <1>8, <2>1, RouteWithin
<1>9. ASSUME NEW t \in Threads, ThreadStep(t) PROVE WithinAdmitted(ip)'
  BY <1>0, <1>6, <1>7, <1>8, <1>9, ConsumeWithin DEF ThreadStep, JobStep
<1> QED BY <1>2, <1>3, <1>4, <1>5, <1>9 DEF Next

\* A call of check is for the address of the request its thread has.
LEMMA NextCallsMatch ==
  ASSUME Places, TypeOK, CallsMatch, [Next]_vars
  PROVE  CallsMatch'
<1>0. Types /\ calls \in [Threads -> Calls]
  BY DEF Places, TypeOK
<1>1. ASSUME UNCHANGED <<content, job, calls>> PROVE CallsMatch'
  BY <1>1 DEF CallsMatch
<1>2. CASE Exit \/ Tick \/ UNCHANGED vars
  BY <1>1, <1>2 DEF Exit, Tick, Elapse, vars, startVars, poolVars, limiterVars
<1>3. CASE Start
  <2>0. job = [t \in Threads |-> Idle]
    BY <1>3 DEF Start, Places, NothingBeforeStart
  <2>1. \A t \in Threads : job[t].at # "check"
    BY <2>0 DEF Idle
  <2>2. calls' = calls
    BY <1>3 DEF Start, Construct
  <2> QED BY <2>1, <2>2 DEF CallsMatch
<1>4. ASSUME NEW w \in Workers, WorkerStep(w) PROVE CallsMatch'
  <2>1. UNCHANGED <<content, job, calls>>
    BY <1>4 DEF WorkerStep, DropRequest, Submit, Refuse, SwapCompletions, ProcessCompletion, ObserveRequest,
                startVars, poolVars, limiterVars
  <2> QED BY <1>1, <2>1
<1>5. ASSUME NEW w \in Workers, NEW r \in Requests, RejectMalformed(w, r) \/ StartRequest(w, r)
      PROVE  CallsMatch'
  BY <1>1, <1>5 DEF RejectMalformed, StartRequest, startVars, poolVars, limiterVars
<1>6. ASSUME NEW t \in Threads, content' = content, calls' = calls, job[t].at # "check",
             \A u \in Threads : u # t => job'[u] = job[u]
      PROVE  CallsMatch'
  BY <1>6 DEF CallsMatch
<1>7. ASSUME NEW t \in Threads, TakeTask(t) \/ FinishTask(t) PROVE CallsMatch'
  <2>1. content' = content /\ calls' = calls /\ job[t].at # "check"
    <3>1. CASE TakeTask(t)
      <4>1. content' = content /\ calls' = calls /\ job[t] = Idle
        BY <3>1 DEF TakeTask, startVars, limiterVars
      <4> QED BY <4>1, SMT DEF Idle
    <3>2. CASE FinishTask(t)
      <4>1. content' = content /\ calls' = calls /\ job[t].at = "leave"
        BY <3>2 DEF FinishTask, startVars, limiterVars
      <4> QED BY <4>1
    <3> QED BY <1>7, <3>1, <3>2
  <2>2. \A u \in Threads : u # t => job'[u] = job[u]
    BY <1>0, <1>7 DEF TakeTask, FinishTask, Types
  <2> QED BY <1>6, <2>1, <2>2
<1>8. ASSUME NEW t \in Threads, JobStep(t) PROVE content' = content /\ \A u \in Threads : u # t => job'[u] = job[u]
  <2>1. \/ job' = job
        \/ \E place : job' = [job EXCEPT ![t].at = place]
    BY <1>8, JobStepCases
  <2> QED BY <1>0, <1>8, <2>1, JobStepCases, SMT DEF Types
<1>9. ASSUME NEW t \in Threads, JobStep(t), ~CheckConsume(t) PROVE CallsMatch'
  <2>1. calls' = calls /\ job[t].at # "check"
    BY <1>9 DEF JobStep, RouteSimple, RoutePublish, Routed, RouteRecent, RouteMetrics, Scrape, PushCompletion, limiterVars
  <2> QED BY <1>6, <1>8, <1>9, <2>1
<1>10. ASSUME NEW t \in Threads, CheckConsume(t) PROVE CallsMatch'
  <2>1. content' = content /\ \A u \in Threads : u # t => job'[u] = job[u]
    BY <1>8, <1>10 DEF JobStep
  <2>2. calls' = [calls EXCEPT ![t] = NoCall]
    BY <1>10 DEF CheckConsume, Consume
  <2> QED BY <1>0, <2>1, <2>2 DEF CallsMatch
<1>11. ASSUME NEW t \in Threads, CheckLookup(t) \/ CheckCreate(t) PROVE CallsMatch'
  <2>1. content' = content /\ job' = job /\ job[t].at = "check"
    BY <1>11 DEF CheckLookup, CheckCreate, startVars, poolVars
  <2>2. \E pc, entry : calls' = [calls EXCEPT ![t] = [pc |-> pc, ip |-> content[job[t].request].ip, entry |-> entry]]
    <3>1. CASE CheckLookup(t)
      BY <3>1 DEF CheckLookup, Lookup
    <3>2. CASE CheckCreate(t)
      <4>1. calls[t].ip = content[job[t].request].ip
        BY <3>2, SMT DEF CheckCreate, Create, CallsMatch, NoCall
      <4> QED BY <3>2, <4>1 DEF CheckCreate, Create
    <3> QED BY <1>11, <3>1, <3>2
  <2>3. PICK pc, entry : calls' = [calls EXCEPT ![t] = [pc |-> pc, ip |-> content[job[t].request].ip, entry |-> entry]]
    BY <2>2
  <2>4. calls'[t].ip = content[job[t].request].ip /\ \A u \in Threads : u # t => calls'[u] = calls[u]
    BY <1>0, <2>3
  <2> QED BY <2>1, <2>4 DEF CallsMatch
<1>12. ASSUME NEW t \in Threads, ThreadStep(t) PROVE CallsMatch'
  BY <1>7, <1>9, <1>10, <1>11, <1>12 DEF ThreadStep, JobStep
<1> QED BY <1>2, <1>3, <1>4, <1>5, <1>12 DEF Next

-----------------------------------------------------------------------------
(* What GET /recent shows.                                                 *)

\* What main set, and what a request asks for.
Bounds ==
  /\ settings.recent_capacity \in Nat
  /\ \A r \in Requests : content[r].method \notin {"none", "malformed"} =>
       content[r].query \in Nat \cup {NaN, NoQuery}
  /\ commandLine # NoCommandLine => \A r \in Requests : answers[r] = NoAnswer
Asks(r) == IF content[r].query = NoQuery THEN DefaultCount ELSE content[r].query

ScrapesMetrics == \A t \in Threads : job[t].at = "scrape" => content[job[t].request].path = "/metrics"
ReceiptsLogged ==
  receipts = [r \in Requests |-> receipts[r]] /\ \A r \in Requests : receipts[r] \subseteq DOMAIN log

\* An answer shows the end of a log that held what had been confirmed.
ShowsEnd(r, last, n) ==
  /\ Asks(r) \in Nat /\ n = Min({Asks(r), settings.recent_capacity, last})
  /\ receipts[r] \subseteq 1..last
  /\ DOMAIN answers[r].messages = 1..n
  /\ \A i \in 1..n : answers[r].messages[i] = log[last - n + i]
RecentShown ==
  \A r \in Requests : answers[r].status = 200 /\ content[r].path = "/recent" =>
    \E last \in 0..Len(log), n \in Nat : n <= last /\ ShowsEnd(r, last, n)

RInv == Bounds /\ ScrapesMetrics /\ ReceiptsLogged /\ RecentShown

\* The smallest of three numbers is one of them and no greater than any.
LEMMA SmallestOfThree ==
  ASSUME NEW a \in Nat, NEW b \in Nat, NEW c \in Nat
  PROVE  /\ Min({a, b, c}) \in {a, b, c}
         /\ Min({a, b, c}) <= a /\ Min({a, b, c}) <= b /\ Min({a, b, c}) <= c
<1>1. \E x \in {a, b, c} : \A y \in {a, b, c} : x <= y
  BY SMT
<1> QED BY <1>1, SMT DEF Min

\* And of two.
LEMMA SmallestOfTwo ==
  ASSUME NEW a \in Nat, NEW b \in Nat
  PROVE  Min({a, b}) \in {a, b} /\ Min({a, b}) <= a /\ Min({a, b}) <= b
<1>1. \E x \in {a, b} : \A y \in {a, b} : x <= y
  BY SMT
<1> QED BY <1>1, SMT DEF Min

\* Before main has read its settings there is nothing to show.
LEMMA RecentInitially == Init => RInv
<1> SUFFICES ASSUME Init PROVE RInv
  OBVIOUS
<1> USE DEF Init
<1>1. Bounds
  BY SMT DEF Bounds, NoSettings, NoContent
<1>2. ScrapesMetrics
  BY DEF ScrapesMetrics, Idle
<1>3. ReceiptsLogged
  BY DEF ReceiptsLogged
<1>4. RecentShown
  <2>1. \A r \in Requests : answers[r].status = 0
    BY DEF NoAnswer
  <2> QED BY <2>1, SMT DEF RecentShown
<1> QED BY <1>1, <1>2, <1>3, <1>4 DEF RInv

\* An answer goes on showing the end of a log that grows.
LEMMA ShownKept ==
  ASSUME log \in Seq(Requests), NEW r \in Requests, NEW last \in 0..Len(log), NEW n \in Nat,
         n <= last, ShowsEnd(r, last, n), log' = log \/ \E q \in Requests : log' = Append(log, q),
         content'[r] = content[r], settings' = settings, receipts'[r] = receipts[r], answers'[r] = answers[r]
  PROVE  last \in 0..Len(log') /\ ShowsEnd(r, last, n)'
<1>1. Len(log') \in Nat /\ Len(log') >= Len(log) /\ \A i \in 1..Len(log) : log'[i] = log[i]
  BY SMT
<1>2. last \in 0..Len(log')
  BY <1>1, SMT
<1>3. \A i \in 1..n : last - n + i \in 1..Len(log)
  BY SMT
<1>4. Asks(r)' = Asks(r)
  BY DEF Asks
<1>5. \A i \in 1..n : answers'[r].messages[i] = log'[last - n + i]
  BY <1>1, <1>3 DEF ShowsEnd
<1> QED BY <1>2, <1>4, <1>5 DEF ShowsEnd

\* The settings from_args returns are valid.
LEMMA Accepted ==
  ASSUME NEW args, NEW files, FromArgs(args, files) # Failed
  PROVE  Valid(FromArgs(args, files))
  BY DEF FromArgs, Validate

\* main starts with valid settings, and before any answer.
LEMMA StartRecent ==
  ASSUME Places, RInv, Start
  PROVE  RInv'
<1>1. /\ commandLine \in CommandLines /\ job = [t \in Threads |-> Idle] /\ log = <<>>
      /\ \A r \in Requests : answers[r] = NoAnswer
  BY DEF Start, Places, NothingBeforeStart, RInv, Bounds
<1>2. /\ UNCHANGED <<job, log, answers, receipts>> /\ content' \in commandLine.contents
      /\ commandLine' = NoCommandLine
  BY DEF Start, requestVars, poolVars, logVars
<1>3. settings'.recent_capacity \in Nat
  <2>1. PICK config : Valid(config) /\ settings' = [queue_capacity |-> config.task_queue_capacity,
                                                    recent_capacity |-> config.recent_message_capacity]
    BY Accepted DEF Start
  <2>2. ASSUME NEW most, NEW n \in 1..most PROVE n \in Nat
    BY SMT
  <2>3. config.recent_message_capacity \in 1..2^20
    BY <2>1, PTL DEF Valid
  <2>4. config.recent_message_capacity \in Nat
    BY <2>2, <2>3
  <2> QED BY <2>1, <2>4, SMT
<1>4. Bounds'
  BY <1>1, <1>2, <1>3, GatewayAssumption DEF Bounds
<1>5. ScrapesMetrics'
  <2>1. \A t \in Threads : job'[t].at = "idle"
    BY <1>1, <1>2 DEF Idle
  <2> QED BY <2>1 DEF ScrapesMetrics
<1>6. ReceiptsLogged'
  BY <1>2 DEF RInv, ReceiptsLogged
<1>7. RecentShown'
  <2>1. NoAnswer.status # 200
    BY SMT DEF NoAnswer
  <2> QED BY <1>1, <1>2, <2>1 DEF RecentShown
<1> QED BY <1>4, <1>5, <1>6, <1>7 DEF RInv

\* The settings stay, and only a request that is dispatched gets receipts.
LEMMA StepReceipts ==
  ASSUME [Next]_vars, ~Start
  PROVE  /\ UNCHANGED <<settings, content>> /\ commandLine' \in {commandLine, NoCommandLine}
         /\ \/ receipts' = receipts
            \/ \E r \in Requests : /\ progress[r] = "new" /\ UNCHANGED <<answers, log, job>>
                                   /\ \/ receipts' = [receipts EXCEPT ![r] = Confirmed]
                                      \/ receipts' = [receipts EXCEPT ![r] = {}]
<1>1. CASE Exit \/ Tick \/ UNCHANGED vars
  BY <1>1 DEF Exit, Tick, vars, startVars, requestVars
<1>2. ASSUME NEW w \in Workers, WorkerStep(w) PROVE UNCHANGED <<startVars, receipts>>
  BY <1>2 DEF WorkerStep, DropRequest, Submit, Refuse, SwapCompletions, ProcessCompletion, ObserveRequest
<1>3. ASSUME NEW w \in Workers, NEW r \in Requests, RejectMalformed(w, r) PROVE UNCHANGED <<startVars, receipts>>
  BY <1>3 DEF RejectMalformed
<1>4. ASSUME NEW w \in Workers, NEW r \in Requests, StartRequest(w, r)
      PROVE  /\ UNCHANGED startVars /\ progress[r] = "new" /\ UNCHANGED <<answers, log, job>>
             /\ \/ receipts' = [receipts EXCEPT ![r] = Confirmed]
                \/ receipts' = [receipts EXCEPT ![r] = {}]
  BY <1>4 DEF StartRequest, poolVars, logVars
<1>5. ASSUME NEW t \in Threads, ThreadStep(t) PROVE UNCHANGED <<startVars, receipts>>
  BY <1>5 DEF ThreadStep, TakeTask, CheckLookup, CheckCreate, CheckConsume, RouteSimple, RoutePublish, RouteRecent,
              RouteMetrics, Scrape, PushCompletion, FinishTask, requestVars
<1> QED BY <1>1, <1>2, <1>3, <1>4, <1>5 DEF Next, startVars

Succeeds(response) == response.status = 200

\* Only RouteRecent answers GET /recent with 200.
LEMMA StepShows ==
  ASSUME Places, ScrapesMetrics, [Next]_vars, ~Start, NEW r \in Requests,
         Succeeds(answers'[r]), answers'[r] # answers[r], content[r].path = "/recent"
  PROVE  /\ content[r].method = "GET" /\ content[r].query # NaN
         /\ answers'[r] = [status |-> 200, messages |-> MostRecent(Asks(r))]
         /\ UNCHANGED <<log, receipts>>
<1>1. answers = [q \in Requests |-> answers[q]]
  BY DEF Places, Types
<1>2. ASSUME NEW q, NEW response, answers' = [answers EXCEPT ![q] = response]
      PROVE  q = r /\ response = answers'[r] /\ Succeeds(response)
  BY <1>1, <1>2, SMT
<1>3. PICK bad, missing, limited, failed, full :
        /\ bad = 400 /\ missing = 404 /\ limited = 429 /\ failed = 500 /\ full = 503
        /\ ~Succeeds(Status(bad)) /\ ~Succeeds(Status(missing)) /\ ~Succeeds(Status(limited))
        /\ ~Succeeds(Status(failed)) /\ ~Succeeds(Status(full))
  BY SMT DEF Succeeds, Status
<1>4. /\ ~Succeeds(Status(bad)) /\ ~Succeeds(Status(missing)) /\ ~Succeeds(Status(limited))
      /\ ~Succeeds(Status(failed)) /\ ~Succeeds(Status(full))
  BY <1>3
<1>5. CASE Exit \/ Tick \/ UNCHANGED vars
  BY <1>5 DEF Exit, Tick, vars, requestVars
<1>6. ASSUME NEW w \in Workers, WorkerStep(w) PROVE FALSE
  <2>1. Refuse(w)
    BY <1>6 DEF WorkerStep, DropRequest, Submit, SwapCompletions, ProcessCompletion, ObserveRequest
  <2>2. answers' = [answers EXCEPT ![worker[w].request] = Status(full)]
    BY <1>3, <2>1 DEF Refuse
  <2> QED BY <1>2, <1>4, <2>2
<1>7. ASSUME NEW w \in Workers, NEW q \in Requests, RejectMalformed(w, q) \/ StartRequest(w, q) PROVE FALSE
  BY <1>7 DEF RejectMalformed, StartRequest
<1>8. ASSUME NEW t \in Threads, ThreadStep(t), ~RouteRecent(t) PROVE FALSE
  <2> DEFINE q == job[t].request
             logged == [status |-> 201, offset |-> Len(log) + 1]
  <2>1. CASE TakeTask(t) \/ CheckLookup(t) \/ CheckCreate(t) \/ FinishTask(t) \/ PushCompletion(t)
    BY <2>1 DEF TakeTask, CheckLookup, CheckCreate, FinishTask, PushCompletion, requestVars
  <2>2. CASE CheckConsume(t)
    <3>1. answers' = [answers EXCEPT ![q] = Status(limited)]
      BY <1>3, <2>2, ZenonT(40) DEF CheckConsume, Answer
    <3> QED BY <1>2, <1>4, <3>1
  <2>3. CASE RouteSimple(t)
    <3>1. PICK ok : ok = 200
      BY SMT
    <3>2. \/ answers' = [answers EXCEPT ![q] = Status(missing)]
          \/ /\ RouteOf(q) \in {<<"GET", "/health">>, <<"GET", "/connections">>, <<"GET", "/large-response">>}
             /\ answers' = [answers EXCEPT ![q] = Status(ok)]
      <4>1. \/ answers' = [answers EXCEPT ![q] = Status(404)]
            \/ /\ RouteOf(q) \in {<<"GET", "/health">>, <<"GET", "/connections">>, <<"GET", "/large-response">>}
               /\ answers' = [answers EXCEPT ![q] = Status(200)]
        BY <2>3 DEF RouteSimple, Answer
      <4> QED BY <1>3, <3>1, <4>1, SMT
    <3>3. q = r /\ RouteOf(r) \in {<<"GET", "/health">>, <<"GET", "/connections">>, <<"GET", "/large-response">>}
      BY <1>2, <1>4, <3>2
    <3>4. content[r].path \in {"/health", "/connections", "/large-response"}
      BY <3>3 DEF RouteOf
    <3> QED BY <3>4
  <2>4. CASE RoutePublish(t)
    <3>1. \/ answers' = [answers EXCEPT ![q] = Status(bad)]
          \/ answers' = [answers EXCEPT ![q] = Status(failed)]
          \/ answers' = [answers EXCEPT ![q] = logged]
      BY <1>3, <2>4 DEF RoutePublish, Answer
    <3>2. ~Succeeds(logged)
      BY SMT DEF Succeeds
    <3> HIDE DEF logged
    <3> QED BY <1>2, <1>4, <3>1, <3>2
  <2>5. CASE RouteMetrics(t)
    <3>1. answers' = [answers EXCEPT ![q] = Status(failed)]
      BY <1>3, <2>5, ZenonT(40) DEF RouteMetrics, Answer
    <3> QED BY <1>2, <1>4, <3>1
  <2>6. CASE Scrape(t)
    <3>1. (\E response : answers' = [answers EXCEPT ![q] = response]) /\ job[t].at = "scrape"
      BY <2>6 DEF Scrape, Answer
    <3>2. q = r
      BY <1>2, <3>1
    <3> QED BY <3>1, <3>2 DEF ScrapesMetrics
  <2> QED BY <1>8, <2>1, <2>2, <2>3, <2>4, <2>5, <2>6 DEF ThreadStep
<1>9. ASSUME NEW t \in Threads, RouteRecent(t)
      PROVE  /\ content[r].method = "GET" /\ content[r].query # NaN
             /\ answers'[r] = [status |-> 200, messages |-> MostRecent(Asks(r))]
             /\ UNCHANGED <<log, receipts>>
  <2> DEFINE q == job[t].request
             response == [status |-> 200, messages |-> MostRecent(Asks(q))]
  <2>1. RouteOf(q) = <<"GET", "/recent">> /\ UNCHANGED <<log, receipts>>
    BY <1>9 DEF RouteRecent, Routed, logVars
  <2>2. \/ answers' = [answers EXCEPT ![q] = Status(bad)]
        \/ answers' = [answers EXCEPT ![q] = response] /\ content[q].query # NaN
    BY <1>3, <1>9 DEF RouteRecent, Answer, Asks
  <2> HIDE DEF response
  <2>3. q = r /\ response = answers'[r] /\ content[q].query # NaN
    BY <1>2, <1>4, <2>2
  <2>4. content[r].method = "GET"
    BY <2>1, <2>3, SMT DEF RouteOf
  <2>5. answers'[r] = [status |-> 200, messages |-> MostRecent(Asks(r))]
    BY <2>3 DEF response
  <2> QED BY <2>1, <2>3, <2>4, <2>5
<1> QED BY <1>5, <1>6, <1>7, <1>8, <1>9 DEF Next

\* MostRecent is the end of the log.
LEMMA MostRecentEnd ==
  ASSUME log \in Seq(Requests), NEW a \in Nat, settings.recent_capacity \in Nat
  PROVE  \E last, n \in Nat :
           /\ last = Len(log) /\ n <= last /\ n = Min({a, settings.recent_capacity, last})
           /\ DOMAIN MostRecent(a) = 1..n /\ \A i \in 1..n : MostRecent(a)[i] = log[last - n + i]
<1>1. PICK last \in Nat : last = Len(log)
  BY SMT
<1>2. PICK kept \in Nat : kept = settings.recent_capacity
  OBVIOUS
<1>3. PICK n \in Nat : n <= last /\ n = Min({a, kept, last})
  <2>1. Min({a, kept, last}) \in {a, kept, last} /\ Min({a, kept, last}) <= last
    BY SmallestOfThree
  <2> QED BY <2>1
<1>4. MostRecent(a) = SubSeq(log, last - n + 1, last)
  BY <1>1, <1>2, <1>3 DEF MostRecent
<1>5. /\ DOMAIN SubSeq(log, last - n + 1, last) = 1..n
      /\ \A i \in 1..n : SubSeq(log, last - n + 1, last)[i] = log[last - n + i]
  <2>1. n <= last
    BY <1>3
  <2> QED BY <1>1, <2>1, SMT
<1>6. DOMAIN MostRecent(a) = 1..n /\ \A i \in 1..n : MostRecent(a)[i] = log[last - n + i]
  BY <1>4, <1>5
<1>7. n = Min({a, settings.recent_capacity, last})
  BY <1>2, <1>3
<1> QED BY <1>1, <1>3, <1>6, <1>7

\* What RouteRecent shows is the end of the log.
LEMMA ShowsNow ==
  ASSUME log \in Seq(Requests), Bounds, ReceiptsLogged, NEW r \in Requests,
         content[r].method = "GET", content[r].query # NaN,
         answers'[r].messages = MostRecent(Asks(r)),
         UNCHANGED <<log, content, settings, receipts>>
  PROVE  \E last \in 0..Len(log'), n \in Nat : n <= last /\ ShowsEnd(r, last, n)'
<1>1. settings.recent_capacity \in Nat /\ content[r].query \in Nat \cup {NaN, NoQuery} /\ DefaultCount \in Nat
  BY GatewayAssumption DEF Bounds
<1>2. Asks(r) \in Nat
  BY <1>1 DEF Asks
<1>3. PICK last, n \in Nat :
        /\ last = Len(log) /\ n <= last /\ n = Min({Asks(r), settings.recent_capacity, last})
        /\ DOMAIN MostRecent(Asks(r)) = 1..n /\ \A i \in 1..n : MostRecent(Asks(r))[i] = log[last - n + i]
  BY <1>1, <1>2, MostRecentEnd
<1>4. Asks(r)' = Asks(r)
  BY DEF Asks
<1>5. last \in 0..Len(log') /\ DOMAIN log = 1..last
  BY <1>3, SMT
<1>6. receipts'[r] \subseteq 1..last
  BY <1>5 DEF ReceiptsLogged
<1>7. ShowsEnd(r, last, n)'
  BY <1>2, <1>3, <1>4, <1>6 DEF ShowsEnd
<1> QED BY <1>3, <1>5, <1>7

\* No request is answered before main has read its settings.
LEMMA NoneAnswered ==
  ASSUME Places, commandLine # NoCommandLine, [Next]_vars
  PROVE  answers' = answers
<1>1. worker = [w \in Workers |-> Poll] /\ job = [t \in Threads |-> Idle]
  BY DEF Places, NothingBeforeStart
<1>2. (\A w \in Workers : worker[w].at # "submit") /\ (\A t \in Threads : job[t].at = "idle")
  BY <1>1 DEF Poll, Idle
<1>3. CASE Exit \/ Start \/ Tick \/ UNCHANGED vars
  BY <1>3 DEF Exit, Start, Tick, vars, requestVars
<1>4. ASSUME NEW w \in Workers, WorkerStep(w) PROVE answers' = answers
  BY <1>2, <1>4, ZenonT(40) DEF WorkerStep, DropRequest, Submit, Refuse, SwapCompletions, ProcessCompletion, ObserveRequest
<1>5. ASSUME NEW w \in Workers, NEW r \in Requests, RejectMalformed(w, r) \/ StartRequest(w, r)
      PROVE  answers' = answers
  BY <1>5 DEF RejectMalformed, StartRequest
<1>6. ASSUME NEW t \in Threads, ThreadStep(t) PROVE answers' = answers
  <2>1. ~JobStep(t)
    BY <1>2, JobStepCases
  <2> QED BY <1>6, <2>1 DEF ThreadStep, JobStep, TakeTask, CheckLookup, CheckCreate, FinishTask, requestVars
<1> QED BY <1>3, <1>4, <1>5, <1>6 DEF Next

\* Only GET /metrics scrapes.
LEMMA NextScrapes ==
  ASSUME Places, ScrapesMetrics, [Next]_vars, ~Start
  PROVE  ScrapesMetrics'
<1>0. Types /\ content' = content
  BY StepReceipts DEF Places
<1>1. ASSUME job' = job PROVE ScrapesMetrics'
  BY <1>0, <1>1 DEF ScrapesMetrics
<1>2. CASE Exit \/ Tick \/ UNCHANGED vars
  BY <1>1, <1>2 DEF Exit, Tick, vars, poolVars
<1>3. ASSUME NEW w \in Workers, WorkerStep(w) PROVE ScrapesMetrics'
  <2>1. job' = job
    BY <1>3 DEF WorkerStep, DropRequest, Submit, Refuse, SwapCompletions, ProcessCompletion, ObserveRequest, poolVars
  <2> QED BY <1>1, <2>1
<1>4. ASSUME NEW w \in Workers, NEW r \in Requests, RejectMalformed(w, r) \/ StartRequest(w, r)
      PROVE  ScrapesMetrics'
  BY <1>1, <1>4 DEF RejectMalformed, StartRequest, poolVars
<1>5. ASSUME NEW t \in Threads, \A u \in Threads : u # t => job'[u] = job[u],
             job'[t].at = "scrape" => content[job'[t].request].path = "/metrics"
      PROVE  ScrapesMetrics'
  BY <1>0, <1>5 DEF ScrapesMetrics
<1>6. ASSUME NEW t \in Threads, TakeTask(t) \/ FinishTask(t) PROVE ScrapesMetrics'
  <2>1. job'[t].at # "scrape" /\ \A u \in Threads : u # t => job'[u] = job[u]
    BY <1>0, <1>6, SMT DEF TakeTask, FinishTask, Types, Idle
  <2> QED BY <1>5, <2>1
<1>7. ASSUME NEW t \in Threads, CheckLookup(t) \/ CheckCreate(t) PROVE ScrapesMetrics'
  BY <1>1, <1>7 DEF CheckLookup, CheckCreate, poolVars
<1>8. ASSUME NEW t \in Threads, JobStep(t) PROVE ScrapesMetrics'
  <2>1. job[t] # Idle
    BY <1>0, <1>8, IdleAt, JobStepCases
  <2>2. ASSUME NEW place, job' = [job EXCEPT ![t].at = place],
               place = "scrape" => content[job[t].request].path = "/metrics"
        PROVE  ScrapesMetrics'
    <3>1. job'[t].at = place /\ job'[t].request = job[t].request /\ \A u \in Threads : u # t => job'[u] = job[u]
      BY <1>0, <2>1, <2>2, JobType DEF Types
    <3> QED BY <1>5, <2>2, <3>1
  <2>3. CASE RouteMetrics(t)
    <3>1. content[job[t].request].path = "/metrics"
      BY <2>3, SMT DEF RouteMetrics, Routed, RouteOf
    <3>2. job' = [job EXCEPT ![t].at = "scrape"] \/ job' = [job EXCEPT ![t].at = "push"]
      BY <2>3, SMT DEF RouteMetrics, Answer
    <3> QED BY <2>2, <3>1, <3>2
  <2>4. CASE ~RouteMetrics(t)
    <3>1. job' = job \/ \E place \in {"route", "push", "leave"} : job' = [job EXCEPT ![t].at = place]
      BY <1>8, <2>4, ZenonT(40) DEF JobStep, CheckConsume, RouteSimple, RoutePublish, RouteRecent, Scrape, PushCompletion, Answer
    <3> QED BY <1>1, <2>2, <3>1
  <2> QED BY <2>3, <2>4
<1>9. ASSUME NEW t \in Threads, ThreadStep(t) PROVE ScrapesMetrics'
  BY <1>6, <1>7, <1>8, <1>9 DEF ThreadStep, JobStep
<1> QED BY <1>2, <1>3, <1>4, <1>9 DEF Next

\* Every step keeps what GET /recent has shown.
LEMMA NextRecent ==
  ASSUME Places, LogMatches, RInv, [Next]_vars
  PROVE  RInv'
<1>0. Types /\ Bounds /\ ScrapesMetrics /\ ReceiptsLogged /\ RecentShown /\ log \in Seq(Requests)
  BY DEF Places, Types, RInv
<1>1. CASE Start
  BY <1>1, StartRecent
<1>2. CASE ~Start
  <2>1. /\ UNCHANGED <<settings, content>> /\ commandLine' \in {commandLine, NoCommandLine}
        /\ \/ receipts' = receipts
           \/ \E r \in Requests : /\ progress[r] = "new" /\ UNCHANGED <<answers, log, job>>
                                  /\ \/ receipts' = [receipts EXCEPT ![r] = Confirmed]
                                     \/ receipts' = [receipts EXCEPT ![r] = {}]
    BY <1>2, StepReceipts
  <2>2. log' = log \/ \E q \in Requests : log' = Append(log, q)
    BY StepAnswers
  <2>3. Bounds'
    BY <1>0, <2>1, NoneAnswered DEF Bounds
  <2>4. ScrapesMetrics'
    BY <1>0, <1>2, NextScrapes
  <2>5. ReceiptsLogged'
    <3>1. DOMAIN log \subseteq DOMAIN log'
      BY <1>0, <2>2, SMT
    <3>2. Confirmed \subseteq DOMAIN log
      BY SMT DEF Confirmed, LogMatches
    <3> QED BY <1>0, <2>1, <3>1, <3>2 DEF ReceiptsLogged
  <2>6. ASSUME NEW r \in Requests, Succeeds(answers'[r]), content[r].path = "/recent"
        PROVE  \E last \in 0..Len(log'), n \in Nat : n <= last /\ ShowsEnd(r, last, n)'
    <3>1. CASE answers'[r] = answers[r]
      <4>1. PICK last \in 0..Len(log), n \in Nat : n <= last /\ ShowsEnd(r, last, n)
        BY <1>0, <2>6, <3>1 DEF RecentShown, Succeeds
      <4>2. progress[r] # "new"
        <5>1. ~Succeeds(NoAnswer)
          BY SMT DEF Succeeds, NoAnswer
        <5> QED BY <2>6, <3>1, <5>1 DEF Places, Underway
      <4>3. receipts'[r] = receipts[r]
        BY <1>0, <2>1, <4>2 DEF ReceiptsLogged
      <4>4. last \in 0..Len(log') /\ ShowsEnd(r, last, n)'
        BY <1>0, <2>1, <2>2, <3>1, <4>1, <4>3, ShownKept
      <4> QED BY <4>1, <4>4
    <3>2. CASE answers'[r] # answers[r]
      <4>1. /\ content[r].method = "GET" /\ content[r].query # NaN
            /\ answers'[r] = [status |-> 200, messages |-> MostRecent(Asks(r))]
            /\ UNCHANGED <<log, receipts>>
        BY <1>0, <1>2, <2>6, <3>2, StepShows
      <4>2. answers'[r].messages = MostRecent(Asks(r))
        BY <4>1, SMT
      <4>3. content[r].method = "GET" /\ content[r].query # NaN /\ UNCHANGED <<log, receipts>>
        BY <4>1
      <4> QED BY <1>0, <2>1, <4>2, <4>3, ShowsNow
    <3> QED BY <3>1, <3>2
  <2>7. RecentShown'
    BY <2>1, <2>6 DEF RecentShown, Succeeds
  <2> QED BY <2>3, <2>4, <2>5, <2>7 DEF RInv
<1> QED BY <1>1, <1>2

-----------------------------------------------------------------------------
(* What the invariant gives.                                               *)

\* Multiplying both sides by a natural keeps their order.
LEMMA MultiplyMonotone ==
  ASSUME NEW u \in Nat, NEW a \in Nat, NEW b \in Nat, a <= b
  PROVE  u * a <= u * b
<1>1. b - a \in Nat /\ b = a + (b - a)
  BY SMT
<1>2. u * (a + (b - a)) = u * a + u * (b - a)
  BY <1>1, Distribute, SMT
<1>3. u * a \in Nat /\ u * (b - a) \in Nat
  BY <1>1, ProductIsNat
<1> QED BY <1>1, <1>2, <1>3, SMT

\* What an address was admitted is within the allowance of all the time there was.
LEMMA AdmittedBound ==
  ASSUME FiniteSetFacts, IInv, NEW ip \in Addresses
  PROVE  Unit * AdmittedCount(ip, 0) <= capacity + refill_rate * clock
<1>1. /\ TypeOK /\ Unit \in Nat /\ capacity \in Nat /\ refill_rate \in Nat /\ clock \in Nat
      /\ buckets[ip] <= Len(entries)
  BY LimiterAssumption DEF IInv, TypeOK, OneBucketPerAddress
<1>2. AdmittedCount(ip, 0) \in Nat
  BY <1>1, CountIsNat
<1>3. CASE buckets[ip] = 0
  <2>1. decisions[ip] = <<>>
    BY <1>3 DEF IInv, BucketsAccount
  <2>2. Window!AdmittedSince(ip, 0) = {}
    BY <2>1, SMT DEF Window!AdmittedSince
  <2>3. AdmittedCount(ip, 0) = 0
    BY <2>2 DEF FiniteSetFacts, EmptyCounts, AdmittedCount
  <2>4. Unit * 0 = 0 /\ refill_rate * clock \in Nat
    BY <1>1, ProductIsNat, SMT
  <2> QED BY <1>1, <2>3, <2>4, SMT
<1>4. CASE buckets[ip] # 0
  <2> DEFINE R == Refill(entries[buckets[ip]])
  <2>1. Accounts(ip)
    BY <1>4 DEF IInv, BucketsAccount
  <2>2. /\ R \in Nat
        /\ \A s \in 0..clock : Unit * AdmittedCount(ip, s) + R <= capacity + refill_rate * (clock - s)
    BY <1>1, <1>4, <2>1, RefilledAccounts
  <2> HIDE DEF R
  <2>3. Unit * AdmittedCount(ip, 0) + R <= capacity + refill_rate * (clock - 0)
    <3>1. 0 \in 0..clock
      BY <1>1, SMT
    <3> QED BY <2>2, <3>1
  <2>4. clock - 0 = clock /\ Unit * AdmittedCount(ip, 0) \in Nat /\ refill_rate * clock \in Nat
    BY <1>1, <1>2, ProductIsNat, SMT
  <2> QED BY <1>1, <2>2, <2>3, <2>4, SMT
<1> QED BY <1>3, <1>4

\* The invariant holds when main starts.
LEMMA GInitially == FiniteSetFacts /\ Init => IInv /\ GInv
<1> SUFFICES ASSUME FiniteSetFacts, Init PROVE IInv /\ GInv
  OBVIOUS
<1>1. IInv /\ TypeOK
  BY Initially DEF Init, IInv
<1>2. LogMatches
  BY SMT DEF Init, LogMatches, NoAnswer
<1>3. \A ip \in Addresses : WithinAdmitted(ip)
  BY <1>1, EmptyWithin DEF Init
<1>4. CallsMatch
  BY DEF Init, LimiterInit, CallsMatch
<1> QED BY <1>1, <1>2, <1>3, <1>4, PlacesInitially DEF GInv, Admitted

\* Every step keeps the invariant.
LEMMA GStep ==
  ASSUME FiniteSetFacts, IInv, GInv, [Next]_vars
  PROVE  IInv' /\ GInv'
<1>0. Places /\ LogMatches /\ Admitted /\ CallsMatch /\ TypeOK
  BY DEF GInv, Admitted, IInv
<1>1. IInv'
  <2>1. [LimiterNext]_limiterVars
    BY <1>0, NextLimiter
  <2> QED BY <2>1, StepTypes, StepKeepsConstruction, StepKeepsOneBucket, StepKeepsAccounts,
             StutterKeepsInvariant DEF IInv
<1>2. TypeOK'
  BY <1>1 DEF IInv
<1>3. Places' /\ LogMatches'
  BY <1>0, NextPlaces, NextLogMatches
<1>4. Admitted'
  BY <1>0, <1>2, NextWithin, NextCallsMatch DEF Admitted
<1> QED BY <1>1, <1>3, <1>4 DEF GInv

\* What the limiter admitted and the log holds agree with the answers.
LEMMA LogIsAcknowledged == FiniteSetFacts /\ IInv /\ GInv => LogHoldsAcknowledged
<1> SUFFICES ASSUME FiniteSetFacts, IInv, GInv PROVE LogHoldsAcknowledged
  OBVIOUS
<1>1. ASSUME NEW ip \in Addresses
      PROVE  Unit * Cardinality({i \in DOMAIN log : content[log[i]].ip = ip}) <= capacity + refill_rate * clock
  <2>1. /\ Unit \in Nat /\ capacity \in Nat /\ refill_rate \in Nat /\ clock \in Nat /\ TypeOK
        /\ log \in Seq(Requests) /\ WithinAdmitted(ip)
    BY LimiterAssumption DEF IInv, TypeOK, GInv, Places, Types, Admitted
  <2>2. AdmittedCount(ip, 0) \in Nat /\ Cardinality(PublishedBy(ip)) \in Nat /\ Cardinality(PassedBy(ip)) \in Nat
    BY <2>1, CountIsNat, FiniteCounts
  <2>3. Cardinality(PublishedBy(ip)) <= AdmittedCount(ip, 0)
    BY <2>1, <2>2, SMT DEF WithinAdmitted
  <2>4. Unit * Cardinality(PublishedBy(ip)) <= Unit * AdmittedCount(ip, 0)
    BY <2>1, <2>2, <2>3, MultiplyMonotone
  <2>5. /\ Unit * Cardinality(PublishedBy(ip)) \in Nat /\ Unit * AdmittedCount(ip, 0) \in Nat
        /\ refill_rate * clock \in Nat
    BY <2>1, <2>2, ProductIsNat
  <2>6. Unit * Cardinality(PublishedBy(ip)) <= capacity + refill_rate * clock
    BY <2>1, <2>4, <2>5, AdmittedBound, SMT
  <2> QED BY <2>6 DEF PublishedBy
<1> QED BY <1>1 DEF GInv, LogMatches, LogHoldsAcknowledged

\* The offsets of the messages an answer shows are the last n of the log then.
LEMMA ShownOffsets ==
  ASSUME LogMatches, log \in Seq(Requests), NEW r \in Requests, NEW last \in 0..Len(log), NEW n \in Nat,
         n <= last, ShowsEnd(r, last, n)
  PROVE  {answers[q].offset : q \in Range(answers[r].messages)} = (last - n + 1)..last
<1>1. DOMAIN answers[r].messages = 1..n /\ \A i \in 1..n : answers[r].messages[i] = log[last - n + i]
  BY DEF ShowsEnd
<1>2. \A i \in 1..n : last - n + i \in DOMAIN log
  BY SMT
<1>3. \A i \in 1..n : answers[answers[r].messages[i]].offset = last - n + i
  <2>1. \A j \in DOMAIN log : answers[log[j]].offset = j
    BY SMT DEF LogMatches
  <2> QED BY <1>1, <1>2, <2>1
<1>4. {answers[q].offset : q \in Range(answers[r].messages)} = {last - n + i : i \in 1..n}
  <2> DEFINE m == answers[r].messages
  <2>1. DOMAIN m = 1..n /\ \A i \in 1..n : answers[m[i]].offset = last - n + i
    BY <1>1, <1>3
  <2> HIDE DEF m
  <2>2. ASSUME NEW q \in Range(m) PROVE \E i \in 1..n : answers[q].offset = last - n + i
    <3>1. PICK i \in 1..n : q = m[i]
      BY <2>1 DEF Range
    <3> QED BY <2>1, <3>1
  <2>3. ASSUME NEW i \in 1..n PROVE \E q \in Range(m) : answers[q].offset = last - n + i
    <3>1. m[i] \in Range(m)
      BY <2>1 DEF Range
    <3> QED BY <2>1, <3>1
  <2> DEFINE A == {answers[q].offset : q \in Range(m)}
             B == {last - n + i : i \in 1..n}
  <2>4. A \subseteq B
    BY <2>2
  <2>5. B \subseteq A
    BY <2>3
  <2> HIDE DEF A, B
  <2>6. A = B
    BY <2>4, <2>5
  <2> QED BY <2>6 DEF m, A, B
<1>5. {last - n + i : i \in 1..n} = (last - n + 1)..last
  <2>1. ASSUME NEW x \in (last - n + 1)..last PROVE \E i \in 1..n : x = last - n + i
    <3>1. x - (last - n) \in 1..n /\ x = last - n + (x - (last - n))
      BY SMT
    <3> QED BY <3>1
  <2>2. ASSUME NEW i \in 1..n PROVE last - n + i \in (last - n + 1)..last
    BY SMT
  <2> QED BY <2>1, <2>2
<1> QED BY <1>4, <1>5

\* An answer shows what was confirmed before, or newer messages instead.
LEMMA ShowsConfirmed == FiniteSetFacts /\ Types /\ LogMatches /\ RInv => RecentSeesConfirmed
<1> SUFFICES ASSUME FiniteSetFacts, Types, LogMatches, RInv, NEW r \in Requests,
                    answers[r].status = 200 /\ content[r].path = "/recent"
             PROVE  LET shown == {answers[q].offset : q \in Range(answers[r].messages)}
                    IN \A o \in receipts[r] \ shown :
                         /\ \A m \in shown : m > o
                         /\ Cardinality(shown) = Min({Asks(r), settings.recent_capacity})
  BY DEF RecentSeesConfirmed, Asks
<1>1. log \in Seq(Requests) /\ settings.recent_capacity \in Nat
  BY DEF Types, RInv, Bounds
<1>2. PICK last \in 0..Len(log), n \in Nat : n <= last /\ ShowsEnd(r, last, n)
  BY DEF RInv, RecentShown
<1> DEFINE shown == {answers[q].offset : q \in Range(answers[r].messages)}
<1>3. shown = (last - n + 1)..last
  BY <1>1, <1>2, ShownOffsets
<1> HIDE DEF shown
<1>4. PICK asked, cached \in Nat : asked = Asks(r) /\ cached = settings.recent_capacity
  BY <1>1, <1>2 DEF ShowsEnd
<1>5. last \in Nat /\ n <= last
  BY <1>1, <1>2, SMT
<1>6. n \in {asked, cached, last} /\ n <= asked /\ n <= cached
  <2>1. n = Min({asked, cached, last})
    BY <1>2, <1>4 DEF ShowsEnd
  <2> QED BY <1>5, <2>1, SmallestOfThree
<1>7. receipts[r] \subseteq 1..last
  BY <1>2 DEF ShowsEnd
<1>8. ASSUME NEW o \in receipts[r] \ shown
      PROVE  /\ \A m \in shown : m > o
             /\ Cardinality(shown) = Min({Asks(r), settings.recent_capacity})
  <2>1. o \in 1..last /\ o \notin (last - n + 1)..last
    BY <1>3, <1>7
  <2>2. n < last /\ \A m \in (last - n + 1)..last : m > o
    BY <1>5, <2>1, SMT
  <2>3. n = Min({asked, cached})
    <3>1. /\ Min({asked, cached}) \in {asked, cached}
          /\ Min({asked, cached}) <= asked /\ Min({asked, cached}) <= cached
      BY SmallestOfTwo
    <3> QED BY <1>5, <1>6, <2>2, <3>1, SMT
  <2>4. Cardinality((last - n + 1)..last) = n
    <3>1. last - n + 1 \in Int /\ last \in Int /\ ~(last - n + 1 > last + 1) /\ last - (last - n + 1) + 1 = n
      BY <1>5, SMT
    <3>2. Cardinality((last - n + 1)..last) =
            IF last - n + 1 > last THEN 0 ELSE last - (last - n + 1) + 1
      BY <3>1 DEF FiniteSetFacts, IntervalCounts
    <3> QED BY <1>5, <3>2, SMT
  <2> QED BY <1>3, <1>4, <2>2, <2>3, <2>4
<1> QED BY <1>8 DEF shown

-----------------------------------------------------------------------------
(* Finite sets are what the lemmas assume they are.                        *)

Sets == INSTANCE FiniteSetTheorems

\* Finite sets and their sizes are those of the library.
LEMMA SameSets == \A S : (IsFiniteSet(S) <=> Sets!IsFiniteSet(S)) /\ Cardinality(S) = Sets!Cardinality(S)
BY DEF IsFiniteSet, Sets!IsFiniteSet, Cardinality, Sets!Cardinality

\* Induction over the naturals, for a set of them.
LEMMA Induction == NaturalInduction
<1> SUFFICES ASSUME NEW T, 0 \in T, \A n \in Nat : n \in T => n + 1 \in T
             PROVE  \A n \in Nat : n \in T
  BY DEF NaturalInduction
<1> DEFINE B == Nat \ T
<1>1. ASSUME NEW m \in B PROVE FALSE
  <2>1. PICK n \in B : \A k \in B : <<k, n>> \notin Sets!OpToRel(<, Nat)
    BY <1>1, Sets!NatLessThanWellFounded, Sets!WFMin
  <2>2. \A k \in B : ~(k < n)
    BY <2>1 DEF Sets!OpToRel
  <2>3. n # 0 /\ n \in Nat
    OBVIOUS
  <2>4. n - 1 \in Nat /\ n - 1 < n /\ (n - 1) + 1 = n
    BY <2>3, SMT
  <2> QED BY <2>2, <2>3, <2>4
<1> QED BY <1>1

\* The facts about finite sets that the lemmas assume.
LEMMA FactsHold == FiniteSetFacts
<1>1. FiniteSubsets
  BY SameSets, Sets!FS_Subset DEF FiniteSubsets
<1>2. CardinalityIsNat
  BY SameSets, Sets!FS_CardinalityType DEF CardinalityIsNat
<1>3. EmptyCounts
  BY SameSets, Sets!FS_EmptySet DEF EmptyCounts
<1>4. ElementAdded
  BY SameSets, Sets!FS_AddElement DEF ElementAdded
<1>5. ElementRemoved
  BY SameSets, Sets!FS_RemoveElement DEF ElementRemoved
<1>6. IntervalCounts
  BY SameSets, Sets!FS_Interval DEF IntervalCounts
<1> QED BY <1>1, <1>2, <1>3, <1>4, <1>5, <1>6, Induction DEF FiniteSetFacts

-----------------------------------------------------------------------------
(* The theorems about the rate limiter.                                    *)

\* The invariant holds always.
LEMMA InvariantHolds == LimiterSpec => []IInv
<1>1. IInv /\ LimiterNext => IInv'
  BY FactsHold, StepTypes, StepKeepsConstruction, StepKeepsOneBucket, StepKeepsAccounts DEF IInv
<1>2. IInv /\ [LimiterNext]_limiterVars => IInv'
  BY <1>1, StutterKeepsInvariant
<1> QED BY Initially, <1>2, PTL DEF LimiterSpec

\* However the checks of an address are interleaved, they share one bucket.
THEOREM ChecksShareOneBucket == LimiterSpec => []OneBucketPerAddress
<1>1. IInv => OneBucketPerAddress
  BY DEF IInv
<1> QED BY <1>1, InvariantHolds, PTL

\* For every set of addresses and threads and every capacity and refill rate:
\* check() returns true exactly when the windows of the address allow it.
THEOREM LimiterImplementsWindow == LimiterSpec => ImplementsWindowLimiter
<1>1. LimiterInit => Window!Init
  BY DEF LimiterInit, Window!Init
<1>2. IInv /\ [LimiterNext]_limiterVars => [Window!Next]_(Window!windowVars)
  BY FactsHold, StepImplementsWindow
<1> QED BY <1>1, <1>2, InvariantHolds, PTL DEF LimiterSpec, ImplementsWindowLimiter, Window!Spec

-----------------------------------------------------------------------------
(* The theorems about the gateway.                                         *)

\* The invariant holds always.
LEMMA GInvariantHolds == Spec => [](IInv /\ GInv)
<1>1. (IInv /\ GInv) /\ [Next]_vars => (IInv /\ GInv)'
  BY FactsHold, GStep
<1>2. Init => IInv /\ GInv
  BY FactsHold, GInitially
<1> QED BY <1>1, <1>2, PTL DEF Spec

\* Inside the gateway, whatever the requests, the workers and the threads of the
\* pool do, the limiter admits exactly what WindowLimiter admits.
THEOREM GatewayImplementsWindow == Spec => ImplementsWindowLimiter
<1>1. Init => LimiterInit
  BY DEF Init
<1>2. GInv /\ [Next]_vars => [LimiterNext]_limiterVars
  BY NextLimiter DEF GInv
<1>3. Spec => LimiterSpec
  BY <1>1, <1>2, GInvariantHolds, PTL DEF Spec, LimiterSpec
<1> QED BY <1>3, LimiterImplementsWindow

\* The log holds what was acknowledged with 201, at the offset the client was
\* told, and nothing else; and no address gets more into it than the limiter
\* allows (RoutePublish, CheckLookup, CheckCreate, CheckConsume).
THEOREM AcknowledgedIsLogged == Spec => []LogHoldsAcknowledged
<1>1. IInv /\ GInv => LogHoldsAcknowledged
  BY FactsHold, LogIsAcknowledged
<1> QED BY <1>1, GInvariantHolds, PTL

\* What GET /recent shows is always the end of a log that held what had been
\* confirmed before.
LEMMA RInvariantHolds == Spec => [](LogMatches /\ RInv)
<1>1. Init => Places /\ LogMatches /\ RInv
  BY FactsHold, GInitially, RecentInitially DEF GInv
<1>2. (Places /\ LogMatches /\ RInv) /\ [Next]_vars => (Places /\ LogMatches /\ RInv)'
  BY NextPlaces, NextLogMatches, NextRecent
<1> QED BY <1>1, <1>2, PTL DEF Spec

\* An answer to GET /recent leaves out a message that was confirmed before the
\* request was dispatched only when newer ones fill what was asked for or what
\* the cache holds (StartRequest, RouteRecent, MostRecent, RoutePublish).
THEOREM RecentShowsConfirmed == Spec => []RecentSeesConfirmed
<1>1. Types /\ LogMatches /\ RInv => RecentSeesConfirmed
  BY FactsHold, ShowsConfirmed
<1>2. Spec => []Types
  <2>1. Places => Types
    BY DEF Places
  <2> QED BY <2>1, PlacesInitially, NextPlaces, PTL DEF Spec
<1> QED BY <1>1, <1>2, RInvariantHolds, PTL
=============================================================================
