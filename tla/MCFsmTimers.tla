---------------------------- MODULE MCFsmTimers -----------------------------
(* FsmTimers for TLC.  Two host threads tick the same session, the clock   *)
(* wraps in the middle of it, one proposed hold time switches the timers   *)
(* off.                                                                    *)
EXTENDS FsmTimers, TLC

Symmetric == Permutations(Tickers)
=============================================================================
