-------------------------- MODULE MCUpdateJournal --------------------------
(***************************************************************************)
(* UPDATE messages for two prefixes: withdrawals come before announcements *)
(* and a prefix may occur more than once.                                  *)
(***************************************************************************)
EXTENDS UpdateJournal

W(x) == [kind |-> "withdraw", prefix |-> x]

A(x, r) == [kind |-> "announce", prefix |-> x, rank |-> r]

\* A prefix twice, withdrawn and announced, and a failure after either.
RepeatingUpdates ==
    {<<W("x")>>, <<A("x", 1), A("x", 2), A("y", 1)>>,
     <<W("x"), W("y"), A("y", 2)>>, <<W("x"), A("x", 2), A("x", 1)>>}

============================================================================
