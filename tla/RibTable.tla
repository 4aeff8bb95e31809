------------------------------ MODULE RibTable ------------------------------
(***************************************************************************)
(* What a routing table promises, without its indexes: a set of routes, at *)
(* most one for a source and a prefix, and the routes taken out of it that *)
(* callers still hold.  Every operation happens at once or not at all.     *)
(***************************************************************************)
VARIABLES table, held  \* records with at least a prefix and a source

vars == <<table, held>>

SameKey(q, r) == q.source = r.source /\ q.prefix = r.prefix

Init == table = {} /\ held = {}

\* A route enters the table; the one it replaces is freed or handed out.
Put ==
    \E r \in table' \ table :
        LET old == {q \in table : SameKey(q, r)}
        IN /\ r \notin held
           /\ table' = (table \ old) \cup {r}
           /\ held' \in {held, held \cup old}

\* A route leaves the table and is freed or handed out.
Take ==
    \E r \in table \ table' :
        /\ table' = table \ {r}
        /\ held' \in {held, held \cup {r}}

\* All the routes of a source leave the table.
Drop ==
    \E r \in table \ table' :
        /\ table' = {q \in table : q.source # r.source}
        /\ UNCHANGED held

\* A route handed out comes back, unless its place is taken.
Return ==
    \E r \in held :
        /\ \A q \in table : ~SameKey(q, r)
        /\ table' = table \cup {r}
        /\ held' = held \ {r}

Free == \E r \in held : held' = held \ {r} /\ UNCHANGED table

Next == Put \/ Take \/ Drop \/ Return \/ Free

Spec == Init /\ [][Next]_vars
============================================================================
