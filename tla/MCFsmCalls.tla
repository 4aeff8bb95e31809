----------------------------- MODULE MCFsmCalls -----------------------------
(***************************************************************************)
(* Two threads; the queue of two overflows when calls keep their changes   *)
(* queued.                                                                 *)
(***************************************************************************)
EXTENDS FsmCalls, TLC

CONSTANTS t1, t2, app

MCThreads == {t1, t2}
MCCallbacks == {app}
=============================================================================
