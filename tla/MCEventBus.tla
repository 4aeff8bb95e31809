----------------------------- MODULE MCEventBus -----------------------------
(***************************************************************************)
(* Two threads and two FSMs beside the application.                        *)
(***************************************************************************)
EXTENDS EventBus, TLC

CONSTANTS t1, t2, f1, f2

MCThreads == {t1, t2}
MCFsms == {f1, f2}
MCTypes == <<"added", "withdrawn", "collision">>

\* Neither the threads nor the FSMs are told apart.
Symmetric == Permutations(MCThreads) \cup Permutations(MCFsms)
=============================================================================
