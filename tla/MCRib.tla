------------------------------- MODULE MCRib -------------------------------
(***************************************************************************)
(* Small routing tables: addresses of two bits, three prefixes, two       *)
(* sources, two attribute records.                                         *)
(***************************************************************************)
EXTENDS Rib

Attr(lp, med, neighbor) ==
    [weight |-> 0, local_pref |-> lp, as_path_len |-> 1, origin |-> 0,
     med |-> med, neighbor |-> neighbor, is_ibgp |-> FALSE]

P(addr, len) == [addr |-> addr, len |-> len]

\* Half of the space, with and without a host bit set, and a quarter in it.
AliasPrefixes == {P(0, 1), P(1, 1), P(1, 2)}

\* What an operation reported has no bearing on what follows: states that differ
\* only in it are one.  ReportsExact looks at every step, not at every state.
WithoutReport == <<rib, uid, saved>>

TwoPrefs == {Attr(0, 0, 0), Attr(200, 0, 0)}

Table4 == INSTANCE RibTable WITH table <- Table(rib), held <- saved

\* Every operation on the indexed table is one atomic operation on a plain set
\* of routes, or leaves it alone when an allocation fails.
ImplementsTable == Table4!Spec
============================================================================
