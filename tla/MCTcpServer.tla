----------------------------- MODULE MCTcpServer -----------------------------
(***************************************************************************)
(* Small instances of TcpServer for TLC.                                   *)
(***************************************************************************)
EXTENDS TcpServer, TLC

\* Workers, clients and pool threads are interchangeable.
Symmetry == Permutations(Workers) \cup Permutations(Clients) \cup Permutations(PoolThreads)

\* The bound on what runs side by side: one worker with two clients, or two
\* workers with one client.
MaxActors == 3
FewActors ==
  Cardinality({w \in Workers : pc[w] # "new"}) + Cardinality({c \in Clients : sock[c].state # "new"})
    <= MaxActors
=============================================================================
