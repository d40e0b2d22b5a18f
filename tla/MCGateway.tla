----------------------------- MODULE MCGateway -----------------------------
(***************************************************************************)
(* Small instances of Gateway.                                             *)
(***************************************************************************)
EXTENDS Gateway, TLC

CONSTANTS r1, r2, r3, a1, a2

Get(ip, path, query) == [ip |-> ip, method |-> "GET", path |-> path, body |-> "", query |-> query]
Publish(ip, body) == [ip |-> ip, method |-> "POST", path |-> "/publish", body |-> body, query |-> NoQuery]
Malformed == [method |-> "malformed"]

Mix(x, y, z) == (r1 :> x) @@ (r2 :> y) @@ (r3 :> z)

\* Three requests that meet in the log.
Meeting == {Mix(Publish(a1, "m"), Publish(a1, "m"), Get(a1, "/recent", NoQuery))}

Pairs == {Mix(x, y, NoContent) : <<x, y>> \in {
  <<Publish(a1, "m"), Publish(a1, "m")>>,
  <<Publish(a1, "m"), Get(a1, "/metrics", NoQuery)>>,
  <<Publish(a1, ""), Get(a1, "/recent", 1)>>,
  <<Get(a1, "/recent", NaN), Get(a1, "/recent", 9)>>,
  <<Get(a1, "/metrics", NoQuery), Get(a2, "/metrics", NoQuery)>>,
  <<Get(a1, "/health", NoQuery), Get(a2, "/nowhere", NoQuery)>>,
  <<Malformed, Get(a1, "/connections", NoQuery)>>}}

-----------------------------------------------------------------------------
(* Command lines: each option with a value that makes sense, one that is    *)
(* refused and one that is not a number; files; and their combinations.     *)

Number(n) == Value("number", n)
Word == Value("word", NaN)
ConfigFile(name) == <<ConfigOption, Value(name, NaN)>>
Set(key, n) == <<Option(key), Number(n)>>

files ==
  [good |-> <<Setting("task_queue_capacity", Number(1)), Setting("rate_limit_capacity", Number(2)),
              Setting("recent_message_capacity", Number(1))>>,
   twice |-> <<Setting("port", Number(80)), Setting("rate_limit_capacity", Number(0)), Setting("rate_limit_capacity", Number(2)),
               Setting("task_queue_capacity", Number(1)), Setting("rate_limit_refill_rate", Number(0)),
               Setting("recent_message_capacity", Number(2))>>,
   invalid |-> <<Setting("recent_message_capacity", Number(0))>>,
   unknown |-> <<Setting("recent", Number(1))>>,
   broken |-> <<Setting("port", Number(80)), NotASetting>>]

Limits == Set("task_queue_capacity", 1) \o Set("rate_limit_capacity", 1) \o Set("rate_limit_refill_rate", 2)
          \o Set("recent_message_capacity", 2)

LimitKeys == {"task_queue_capacity", "rate_limit_capacity", "recent_message_capacity"}
Boundaries ==
  {Limits \o Set(key, n) : key \in Keys \ (TextKeys \cup LimitKeys \cup {"rate_limit_refill_rate"}),
                         n \in {0, 1, 72, 73, 256, 257}}
    \cup {Limits \o Set(key, 0) : key \in LimitKeys}
    \cup {Limits \o <<Option(key), Word>> : key \in Keys}

MCArgs == Boundaries \cup {
  ConfigFile("twice"), ConfigFile("good") \o ConfigFile("twice"),
  Set("port", 65536), Set("port", 65536) \o Limits,
  Set("task_queue_capacity", 2^20 + 1), Set("recent_message_capacity", 2^20 + 1),
  ConfigFile("") \o Set("port", 0),
  ConfigFile("twice") \o ConfigFile("broken"), ConfigFile("invalid"), ConfigFile("missing"), ConfigFile("unknown"),
  ConfigFile("invalid") \o Set("recent_message_capacity", 2),
  Set("port", 81) \o ConfigFile("twice"), Set("backlog", 0) \o ConfigFile("twice") \o Set("backlog", 1),
  <<ConfigOption>>, <<Option("port")>>, <<Option("prot"), Number(1)>>, <<Word, Word>>,
  Limits \o <<ConfigOption>>,
  <<Option("log_path"), ConfigOption>> \o Limits,
  <<Option("log_path"), ConfigOption, Value("good", NaN)>>}

MCCommandLines ==
  {[args |-> a, files |-> files, contents |-> Pairs] : a \in MCArgs}
    \cup {[args |-> ConfigFile("good") \o Set("rate_limit_refill_rate", 2), files |-> files, contents |-> Meeting]}
=============================================================================
