---------------------------- MODULE MCThreadPool ----------------------------
(***************************************************************************)
(* The instance of ThreadPool for TLC.  Its run checks liveness, so it     *)
(* declares no symmetry although workers and tasks are interchangeable.    *)
(***************************************************************************)
EXTENDS ThreadPool
=============================================================================
