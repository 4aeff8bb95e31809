------------------------------- MODULE Radix -------------------------------
(***************************************************************************)
(* The binary trie of radix4.c (radix6.c: the same over 128 bits) that     *)
(* answers longest-prefix lookups.  A tree is a function from its nodes to *)
(* their values; a node is the sequence of the bits that lead to it, <<>>  *)
(* the root.  A node on the way to another one has no value of its own     *)
(* until a prefix that ends there is inserted, and nodes that lead nowhere *)
(* are freed.                                                              *)
(***************************************************************************)
EXTENDS Integers, Sequences, SequencesExt

CONSTANTS Width,    \* bits of an address
          NoValue   \* a node without a value

\* tree->root is NULL.
NullTree == [n \in {} |-> NoValue]

\* bgp_radix4_bit, counted from 1.
Bit(addr, i) == (addr \div 2^(Width - i)) % 2

NodeOf(addr, len) == [i \in 1..len |-> Bit(addr, i)]

PathTo(n) == {SubSeq(n, 1, k) : k \in 0..Len(n)}

Subtree(tree, n) == {m \in DOMAIN tree : IsPrefix(n, m)}

\* The nodes are freed from n upwards, as far as they have neither a value nor
\* a child that stays; the root is the last of them.
Prune(tree, n) ==
    LET dead == {m \in PathTo(n) : \A d \in Subtree(tree, m) : d \in PathTo(n) /\ tree[d] = NoValue}
    IN [m \in DOMAIN tree \ dead |-> tree[m]]

\* The walk down to n, which creates the nodes it misses.
Walk(tree, n) ==
    [m \in DOMAIN tree \cup PathTo(n) |-> IF m \in DOMAIN tree THEN tree[m] ELSE NoValue]

\* bgp_radix4_insert.
RadixInsert(tree, addr, len, value) ==
    LET n == NodeOf(addr, len) IN [Walk(tree, n) EXCEPT ![n] = value]

\* bgp_radix4_insert out of memory at one of the nodes it misses: the nodes
\* created before it are freed again.
RadixInsertFailures(tree, addr, len) ==
    LET n == NodeOf(addr, len)
    IN {IF m = <<>> THEN tree ELSE Prune(Walk(tree, Front(m)), Front(m)) :
           m \in PathTo(n) \ DOMAIN tree}

\* bgp_radix4_remove.
RadixRemove(tree, addr, len) ==
    LET n == NodeOf(addr, len)
    IN IF n \in DOMAIN tree /\ tree[n] # NoValue
       THEN Prune([tree EXCEPT ![n] = NoValue], n) ELSE tree

\* bgp_radix4_lookup_lpm: the walk down along dest as far as there are nodes
\* remembers the last value it meets.
RadixLookup(tree, dest) ==
    LET n    == NodeOf(dest, Width)
        met  == {k \in 0..Width : /\ \A j \in 0..k : SubSeq(n, 1, j) \in DOMAIN tree
                                  /\ tree[SubSeq(n, 1, k)] # NoValue}
    IN IF met = {} THEN NoValue
       ELSE tree[SubSeq(n, 1, CHOOSE k \in met : \A j \in met : j <= k)]

\* What the tree says of one prefix.
RadixValue(tree, addr, len) ==
    LET n == NodeOf(addr, len) IN IF n \in DOMAIN tree THEN tree[n] ELSE NoValue

\* Every node leads to a value: nothing is kept that no prefix needs.
NoDeadNodes(tree) == \A n \in DOMAIN tree : \E m \in Subtree(tree, n) : tree[m] # NoValue
============================================================================
