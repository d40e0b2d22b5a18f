----------------------------- MODULE DurableLog -----------------------------
(***************************************************************************)
(* What the telemetry log promises: an append-only sequence of messages of *)
(* which a prefix is durable.  A power failure may take away messages that *)
(* are not durable, from the end only; nothing else ever changes a message *)
(* or its place.  MmapLog implements this specification.                   *)
(***************************************************************************)
EXTENDS Naturals, Sequences

CONSTANT Messages

VARIABLES
  log,      \* the messages, oldest first
  durable   \* how many of them a power failure cannot take away

logVars == <<log, durable>>

Init == log = <<>> /\ durable = 0

Append1(m) == log' = Append(log, m) /\ UNCHANGED durable

Sync == durable' \in durable..Len(log) /\ UNCHANGED log

LoseTail ==
  \E n \in durable..Len(log) : log' = SubSeq(log, 1, n) /\ durable' = n

Next == (\E m \in Messages : Append1(m)) \/ Sync \/ LoseTail

Spec == Init /\ [][Next]_logVars
=============================================================================
