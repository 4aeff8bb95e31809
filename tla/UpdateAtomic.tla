---------------------------- MODULE UpdateAtomic ----------------------------
(***************************************************************************)
(* What a peer's UPDATE does to the routes learned from that peer: all its *)
(* operations in their order, in one step, or nothing.  adj[p][x] is the   *)
(* rank of the route of peer p for prefix x, or -1; pending[p] is the      *)
(* UPDATE received and not yet answered for, or <<>>; short[p] says that   *)
(* memory ran out again while it was taken back.                           *)
(***************************************************************************)
EXTENDS Integers, Sequences, SequencesExt

CONSTANTS PeerIds, PrefixSet, Updates

VARIABLES adj, pending, short

vars == <<adj, pending, short>>

After(routes, u) ==
    FoldLeft(LAMBDA acc, op :
                [acc EXCEPT ![op.prefix] = IF op.kind = "announce" THEN op.rank ELSE -1],
             routes, u)

Init ==
    /\ adj = [p \in PeerIds |-> [x \in PrefixSet |-> -1]]
    /\ pending = [p \in PeerIds |-> <<>>]
    /\ short = [p \in PeerIds |-> FALSE]

Receive(p, u) ==
    /\ pending[p] = <<>>
    /\ pending' = [pending EXCEPT ![p] = u]
    /\ UNCHANGED <<adj, short>>

Apply(p) ==
    /\ pending[p] # <<>>
    /\ adj' = [adj EXCEPT ![p] = After(@, pending[p])]
    /\ pending' = [pending EXCEPT ![p] = <<>>]
    /\ UNCHANGED short

RunShort(p) ==
    /\ pending[p] # <<>>
    /\ short' = [short EXCEPT ![p] = TRUE]
    /\ UNCHANGED <<adj, pending>>

Named(u) == {u[i].prefix : i \in 1..Len(u)}

GiveUp(p) ==
    /\ pending[p] # <<>>
    /\ \E lost \in SUBSET Named(pending[p]) :
          /\ lost # {} => short[p]
          /\ adj' = [adj EXCEPT ![p] = [x \in PrefixSet |-> IF x \in lost THEN -1 ELSE @[x]]]
    /\ pending' = [pending EXCEPT ![p] = <<>>]
    /\ short' = [short EXCEPT ![p] = FALSE]

Next ==
    \E p \in PeerIds :
        Apply(p) \/ RunShort(p) \/ GiveUp(p) \/ \E u \in Updates : Receive(p, u)

Spec == Init /\ [][Next]_vars
============================================================================
