---------------------------- MODULE MCFsmSession ----------------------------
(***************************************************************************)
(* FsmSession for TLC; the configurations choose the build (threads or     *)
(* callbacks), the bus and the bounds.                                     *)
(***************************************************************************)
EXTENDS FsmSession, TLC

\* Threads are interchangeable; nested frames, ordered by depth, are not.
ThreadSymmetry == Permutations(Calls)
=============================================================================
