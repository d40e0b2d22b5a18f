------------------------------ MODULE MCMmapLog ------------------------------
(***************************************************************************)
(* Small instances of MmapLog for TLC.  The variables log and durable hold *)
(* the values the refinement mapping gives to those of DurableLog: they    *)
(* are functions of the state and add no states, and TLC computes the      *)
(* mapping once per state rather than at every use.                        *)
(***************************************************************************)
EXTENDS MmapLog, TLC

VARIABLES log, durable

mcVars == <<vars, log, durable>>

MCInit == Init /\ log = LogOf(files) /\ durable = DurableCount(disk, linked)

MCNext == Next /\ log' = LogOf(files') /\ durable' = DurableCount(disk', linked')

MCSpec == MCInit /\ [][MCNext]_mcVars

\* The log does what DurableLog promises: readers and recovery only ever see
\* a prefix of what was appended, with payloads intact, and never lose what
\* reached the disk, whatever crash or power failure interrupts append,
\* rollover, create_segment or recovery.
Promise == INSTANCE DurableLog
ImplementsDurableLog == Promise!Spec

\* Payloads are interchangeable.
Symmetry == Permutations(Ids)
=============================================================================
