-------------------------------- MODULE Rib --------------------------------
(***************************************************************************)
(* The routing information base of rib4.c; rib6.c is the same code over    *)
(* addresses of 128 bits.  The table keeps every route four times over:    *)
(*                                                                         *)
(*   routes   the hash table: for a prefix, its part of the chain, a new   *)
(*            route first; a resize turns the chains round;                *)
(*   sources  the index by source router id, an array kept dense by moving *)
(*            the last entry into the hole;                                *)
(*   groups   for a prefix with its host bits cleared, the entries of the  *)
(*            group (same kind of array) and the group's cached best;      *)
(*   tree     the radix tree (Radix), which maps the prefix of a group to  *)
(*            its best route and answers libbgp_rib4_lookup.               *)
(*                                                                         *)
(* Every operation runs under the lock of the table and is one action.     *)
(* Allocation may fail at each place where the code allocates; the failure *)
(* path undoes the indexes already written.                                *)
(***************************************************************************)
EXTENDS Integers, Sequences, SequencesExt

CONSTANTS Width,       \* bits of an address: 32 in rib4.c, 128 in rib6.c
          PrefixSet,   \* the prefixes inserted, [addr, len] records
          Sources,     \* source router ids, 0 for locally originated routes
          Attrs,       \* path attributes that take part in the selection
          InitialBuckets,  \* BGP_HASHMAP_INITIAL_BUCKETS
          AllocFails,  \* TRUE: an allocation may return NULL
          MaxUid,      \* bound on next_update_id
          MaxSaved     \* bound on the routes callers hold detached

ASSUME WidthAssumption == Width \in Nat
ASSUME PrefixAssumption ==
    PrefixSet \subseteq [addr : 0..(2^Width - 1), len : 0..Width]
ASSUME SourceAssumption == Sources \subseteq Nat
ASSUME AttrsAssumption ==
    Attrs \subseteq [weight : Int, local_pref : Nat, as_path_len : Nat, origin : Nat,
                     med : Nat, neighbor : Nat, is_ibgp : BOOLEAN]
ASSUME BucketsAssumption == InitialBuckets \in Nat \ {0}
ASSUME RibBoundsAssumption == AllocFails \in BOOLEAN /\ MaxUid \in Nat /\ MaxSaved \in Nat

VARIABLES rib,     \* the four structures above
          uid,     \* next_update_id
          saved,   \* bgp_rib4_saved_route_t entries in the hands of callers
          report   \* what the last operation told its caller about best routes

vars == <<rib, uid, saved, report>>

Addresses == 0..(2^Width - 1)

\* The bits of a that a prefix of length len looks at.
Network(a, len) == a \div 2^(Width - len)

Normalize(p) == [p EXCEPT !.addr = Network(p.addr, p.len) * 2^(Width - p.len)]

AddrMatches(p, dest) == Network(p.addr, p.len) = Network(dest, p.len)

Networks == {Normalize(p) : p \in PrefixSet}

Route == [prefix : PrefixSet, source : Sources, attr : Attrs, uid : 1..MaxUid]

NoRoute == [uid |-> 0]

INSTANCE Radix WITH NoValue <- NoRoute

NoGroup == [entries |-> <<>>, best |-> NoRoute]

\* The operation reports nothing about best routes.
Silent == [told |-> FALSE, best |-> <<>>]

Told(best) == [told |-> TRUE, best |-> best]
----------------------------------------------------------------------------
(* Best-path selection *)

LocalPref(a) == IF a.local_pref = 0 THEN 100 ELSE a.local_pref

\* The MEDs decide: both routes come from the same known neighbour AS.
MedApplies(a, b) == a.med # b.med /\ a.neighbor # 0 /\ a.neighbor = b.neighbor

Better(r, s) ==
    LET a == r.attr
        b == s.attr
    IN CASE a.weight # b.weight           -> a.weight > b.weight
         [] LocalPref(a) # LocalPref(b)   -> LocalPref(a) > LocalPref(b)
         [] a.as_path_len # b.as_path_len -> a.as_path_len < b.as_path_len
         [] a.origin # b.origin           -> a.origin < b.origin
         [] MedApplies(a, b)              -> a.med < b.med
         [] a.is_ibgp # b.is_ibgp         -> ~a.is_ibgp
         [] r.uid # s.uid                 -> r.uid < s.uid
         [] OTHER                         -> r.source < s.source

\* One pass over an array or a chain that keeps the better of two routes.
Scan(seq) ==
    FoldLeft(LAMBDA best, r : IF best = NoRoute \/ Better(r, best) THEN r ELSE best,
             NoRoute, seq)

BestExact(t, p) == Scan(t.routes[p])
----------------------------------------------------------------------------
(* The four structures *)

\* Removal from an unordered array: the last entry fills the hole.
SwapRemove(seq, r) ==
    LET n == Len(seq)
        i == CHOOSE k \in 1..n : seq[k] = r
    IN SubSeq([seq EXCEPT ![i] = seq[n]], 1, n - 1)

Find(t, s, p) ==
    LET hits == {i \in 1..Len(t.routes[p]) : t.routes[p][i].source = s}
    IN IF hits = {} THEN NoRoute ELSE t.routes[p][CHOOSE i \in hits : \A j \in hits : i <= j]

Table(t) == UNION {ToSet(t.routes[p]) : p \in PrefixSet}

\* hashmap_resize before an insertion that finds the table three quarters full:
\* every chain is moved entry by entry to the front of a new one.
HashGrow(t) ==
    IF Cardinality(Table(t)) < t.buckets - t.buckets \div 4 THEN t
    ELSE [t EXCEPT !.routes = [p \in PrefixSet |-> Reverse(@[p])], !.buckets = 2 * @]

HashInsert(t, r) == [t EXCEPT !.routes[r.prefix] = <<r>> \o @]

EntryUnlink(t, r) == [t EXCEPT !.routes[r.prefix] = SelectSeq(@, LAMBDA x : x # r)]

SourceIndexAdd(t, r) == [t EXCEPT !.sources[r.source] = Append(@, r)]

SourceIndexRemove(t, r) == [t EXCEPT !.sources[r.source] = SwapRemove(@, r)]

\* Deviation: a later entry never takes over from the first one of a group.
LpmIndexAddFirstWins(t, r) ==
    LET n    == Normalize(r.prefix)
        g    == t.groups[n]
        wins == g.best = NoRoute
    IN [t EXCEPT !.groups[n] = [entries |-> Append(g.entries, r),
                                best    |-> IF wins THEN r ELSE g.best],
                 !.tree = IF wins THEN RadixInsert(@, n.addr, n.len, r) ELSE @]

LpmIndexAdd(t, r) ==
    LET n    == Normalize(r.prefix)
        g    == t.groups[n]
        wins == g.best = NoRoute \/ Better(r, g.best)
    IN [t EXCEPT !.groups[n] = [entries |-> Append(g.entries, r),
                                best    |-> IF wins THEN r ELSE g.best],
                 !.tree = IF wins THEN RadixInsert(@, n.addr, n.len, r) ELSE @]

LpmIndexRemove(t, r) ==
    LET n    == Normalize(r.prefix)
        g    == t.groups[n]
        rest == SwapRemove(g.entries, r)
        best == IF rest = <<>> THEN NoRoute
                ELSE IF g.best = r THEN Scan(rest) ELSE g.best
    IN [t EXCEPT !.groups[n] = [entries |-> rest, best |-> best],
                 !.tree = IF rest = <<>> THEN RadixRemove(@, n.addr, n.len)
                          ELSE IF g.best = r THEN RadixInsert(@, n.addr, n.len, best) ELSE @]

\* rib4_withdraw_locked, rib4_detach_locked and rib4_detach_value_locked;
\* without a match nothing changes.
RemoveRoute(t, r) ==
    IF r = NoRoute THEN t ELSE EntryUnlink(LpmIndexRemove(SourceIndexRemove(t, r), r), r)

\* rib4_remove_source_locked: the array of the source goes as a whole.
RemoveSource(t, s) ==
    [FoldLeft(LAMBDA acc, r : LpmIndexRemove(EntryUnlink(acc, r), r), t, t.sources[s])
        EXCEPT !.sources[s] = <<>>]

Attach(t, r) == LpmIndexAdd(SourceIndexAdd(HashInsert(t, r), r), r)

\* Where an insertion may run out of memory.
Failures == {"clone", "hash", "source", "lpm"}

\* Deviation: a failed group entry leaves the index by source as it is.
AttachFailedForgetful(t, r, fail) ==
    {EntryUnlink(SourceIndexAdd(HashInsert(t, r), r), r)}

\* What is left of a route whose indexes run out of memory.  The index by prefix
\* allocates the group and the nodes of the tree, these for a new group only.
AttachFailed(t, r, fail) ==
    LET n      == Normalize(r.prefix)
        undone == EntryUnlink(SourceIndexRemove(SourceIndexAdd(HashInsert(t, r), r), r), r)
        trees  == IF t.groups[n].best = NoRoute
                  THEN RadixInsertFailures(t.tree, n.addr, n.len) ELSE {}
    IN IF fail = "source" THEN {EntryUnlink(HashInsert(t, r), r)}
       ELSE {undone} \cup {[undone EXCEPT !.tree = tree] : tree \in trees}

\* What is left of a failed insertion.
InsertFailed(t, r, fail) ==
    CASE fail = "clone" -> {t}
      [] fail = "hash"  -> {t, HashGrow(t)}
      [] OTHER          -> AttachFailed(HashGrow(t), r, fail)

\* rib4_insert_save_replaced_locked: the new route first, then the old one goes.
InsertReplacing(t, r, old) == RemoveRoute(Attach(HashGrow(t), r), old)

\* How much of next_update_id a failed insertion consumes: rib4_route_clone
\* draws the id after its first allocation and before the next ones.
UidAfter(fail) == IF fail = "clone" THEN {uid, uid + 1} ELSE {uid + 1}

NewRoute(p, s, a) == [prefix |-> p, source |-> s, attr |-> a, uid |-> uid + 1]
----------------------------------------------------------------------------
(* Operations *)

\* libbgp_rib4_insert and libbgp_rib4_insert_local: no report; a second local
\* route of a prefix is refused (LIBBGP_ERR_EXISTS).
Insert(p, s, a) ==
    LET old == Find(rib, s, p)
    IN /\ uid < MaxUid
       /\ s = 0 => old = NoRoute
       /\ rib' = InsertReplacing(rib, NewRoute(p, s, a), old)
       /\ uid' = uid + 1
       /\ report' = Silent
       /\ UNCHANGED saved

\* bgp_rib4_insert_track_best_save_replaced: the replaced route goes to the
\* caller, who is told the best route of the prefix when it is another one.
\* Without memory for that answer the route is in the table and nobody knows.
InsertTrackBest(p, s, a) ==
    LET old   == Find(rib, s, p)
        t     == InsertReplacing(rib, NewRoute(p, s, a), old)
        moved == BestExact(rib, p) # BestExact(t, p)
    IN /\ uid < MaxUid
       /\ old # NoRoute => Cardinality(saved) < MaxSaved
       /\ rib' = t
       /\ uid' = uid + 1
       /\ saved' = saved \cup ({old} \ {NoRoute})
       /\ \/ report' = Told([q \in IF moved THEN {p} ELSE {} |-> BestExact(t, q)])
          \/ AllocFails /\ moved /\ report' = Silent

\* Either of them without memory for the route itself: the table is as it was,
\* its caller is told nothing, and an update id may be used up.
InsertFails(p, s, a, fail) ==
    /\ AllocFails
    /\ uid < MaxUid
    /\ rib' \in InsertFailed(rib, NewRoute(p, s, a), fail)
    /\ uid' \in UidAfter(fail)
    /\ report' = Silent
    /\ UNCHANGED saved

\* libbgp_rib4_withdraw.
Withdraw(p, s) ==
    /\ rib' = RemoveRoute(rib, Find(rib, s, p))
    /\ report' = Silent
    /\ UNCHANGED <<uid, saved>>

\* bgp_rib4_withdraw_track_best and _save: the caller is told when the best
\* route before the withdrawal came from the withdrawing source.
WithdrawTrackBest(p, s, save) ==
    LET old  == Find(rib, s, p)
        t    == RemoveRoute(rib, old)
        best == BestExact(rib, p)
        hit  == best # NoRoute /\ best.source = s
    IN /\ save /\ old # NoRoute => Cardinality(saved) < MaxSaved
       /\ rib' = t
       /\ saved' = IF save THEN saved \cup ({old} \ {NoRoute}) ELSE saved
       /\ \/ report' = Told([q \in IF hit THEN {p} ELSE {} |-> BestExact(t, q)])
          \/ AllocFails /\ save /\ hit /\ report' = Silent
       /\ UNCHANGED uid

\* libbgp_rib4_discard.
Discard(s) ==
    /\ rib' = RemoveSource(rib, s)
    /\ report' = Silent
    /\ UNCHANGED <<uid, saved>>

\* Deviation: the active prefixes are looked for after the removal.
DiscardCollectLate(s) ==
    LET t == RemoveSource(rib, s)
    IN /\ rib' = t
       /\ report' = Told(<<>>)
       /\ UNCHANGED <<uid, saved>>

\* bgp_rib4_discard_collect: the prefixes whose best route came from the
\* source are collected before the removal, their new best routes after it.
DiscardCollect(s) ==
    LET t      == RemoveSource(rib, s)
        active == {r \in ToSet(rib.sources[s]) : BestExact(rib, r.prefix) = r}
    IN /\ rib' = t
       /\ report' = Told([p \in {r.prefix : r \in active} |-> BestExact(t, p)])
       /\ UNCHANGED <<uid, saved>>

\* bgp_rib4_discard_collect out of memory for its result: the routes are gone
\* all the same, and the caller is told nothing.
DiscardCollectFails(s) ==
    /\ AllocFails
    /\ rib' = RemoveSource(rib, s)
    /\ report' = Silent
    /\ UNCHANGED <<uid, saved>>

\* bgp_rib4_withdraw_exact_if_update_id: only the route with that id goes.  The
\* callers give the id of a route they inserted: the one that is there, or
\* another (in Next, the latest).
WithdrawExactIfUpdateId(p, s, id) ==
    LET old == Find(rib, s, p)
    IN /\ rib' = IF old.uid = id THEN RemoveRoute(rib, old) ELSE rib
       /\ report' = Silent
       /\ UNCHANGED <<uid, saved>>

\* Deviation: a saved route pushes out the one that took its place.
RestoreSavedAlways(r) ==
    /\ r \in saved
    /\ rib' = Attach(RemoveRoute(rib, Find(rib, r.source, r.prefix)), r)
    /\ saved' = saved \ {r}
    /\ report' = Silent
    /\ UNCHANGED uid

\* bgp_rib4_restore_saved_if_absent: a route of the same source and prefix
\* wins over the saved one, which stays with the caller, as it does when the
\* indexes run out of memory.
RestoreSavedIfAbsent(r) ==
    /\ r \in saved
    /\ report' = Silent
    /\ \/ /\ Find(rib, r.source, r.prefix) = NoRoute
          /\ rib' = Attach(rib, r)
          /\ saved' = saved \ {r}
       \/ /\ AllocFails
          /\ Find(rib, r.source, r.prefix) = NoRoute
          /\ \E fail \in {"source", "lpm"} : rib' \in AttachFailed(rib, r, fail)
          /\ UNCHANGED saved
       \/ /\ Find(rib, r.source, r.prefix) # NoRoute
          /\ UNCHANGED <<rib, saved>>
    /\ UNCHANGED uid

\* bgp_rib4_saved_route_destroy.
SavedRouteDestroy(r) ==
    /\ r \in saved
    /\ saved' = saved \ {r}
    /\ report' = Silent
    /\ UNCHANGED <<rib, uid>>
----------------------------------------------------------------------------
Init ==
    /\ rib = [routes  |-> [p \in PrefixSet |-> <<>>],
              sources |-> [s \in Sources |-> <<>>],
              groups  |-> [n \in Networks |-> NoGroup],
              tree    |-> NullTree,
              buckets |-> InitialBuckets]
    /\ uid = 0
    /\ saved = {}
    /\ report = Silent

Next ==
    \/ \E p \in PrefixSet, s \in Sources, a \in Attrs :
          \/ Insert(p, s, a)
          \/ InsertTrackBest(p, s, a)
          \/ \E fail \in Failures : InsertFails(p, s, a, fail)
    \/ \E p \in PrefixSet, s \in Sources :
          \/ Withdraw(p, s)
          \/ \E save \in BOOLEAN : WithdrawTrackBest(p, s, save)
          \/ \E id \in {uid, Find(rib, s, p).uid} : WithdrawExactIfUpdateId(p, s, id)
    \/ \E s \in Sources : Discard(s) \/ DiscardCollect(s) \/ DiscardCollectFails(s)
    \/ \E r \in saved : RestoreSavedIfAbsent(r) \/ SavedRouteDestroy(r)

Spec == Init /\ [][Next]_vars
----------------------------------------------------------------------------
(* What the table answers, and what it should answer *)

\* bgp_radix4_lookup_lpm over the tree, then rib4_addr_matches.
Lookup(dest) ==
    LET best == RadixLookup(rib.tree, dest)
    IN IF best # NoRoute /\ AddrMatches(best.prefix, dest) THEN best ELSE NoRoute

\* The pass of libbgp_rib4_lookup_scoped over the routes of one source.
LookupScoped(s, dest) ==
    FoldLeft(LAMBDA best, r :
                IF /\ AddrMatches(r.prefix, dest)
                   /\ \/ best = NoRoute
                      \/ r.prefix.len > best.prefix.len
                      \/ r.prefix.len = best.prefix.len /\ Better(r, best)
                THEN r ELSE best,
             NoRoute, rib.sources[s])

\* r is the answer for dest among the routes of S: a longest match that no
\* other longest match beats.
Answers(r, S, dest) ==
    LET hits    == {x \in S : AddrMatches(x.prefix, dest)}
        longest == {x \in hits : \A y \in hits : y.prefix.len <= x.prefix.len}
    IN IF hits = {} THEN r = NoRoute
       ELSE r \in longest /\ \A x \in longest \ {r} : ~Better(x, r)

\* The four structures hold the same routes after every operation, a failed
\* allocation included: each route once in its chain, once in the array of its
\* source and once in its group; the tree holds the best of each group and no
\* node that leads to none; a source and a prefix have at most one route; none of
\* them is also in the hands of a caller, who would free it.
IndexesAgree ==
    /\ \A s \in Sources :
          /\ ToSet(rib.sources[s]) = {r \in Table(rib) : r.source = s}
          /\ IsInjective(rib.sources[s])
    /\ \A n \in Networks :
          LET g == rib.groups[n]
          IN /\ ToSet(g.entries) = {r \in Table(rib) : Normalize(r.prefix) = n}
             /\ IsInjective(g.entries)
             /\ g.best = RadixValue(rib.tree, n.addr, n.len)
             /\ g.best \in ToSet(g.entries) \cup (IF g.entries = <<>> THEN {NoRoute} ELSE {})
    /\ \A q, r \in Table(rib) : q.source = r.source /\ q.prefix = r.prefix => q = r
    /\ NoDeadNodes(rib.tree)
    /\ saved \cap Table(rib) = {}

\* libbgp_rib4_lookup and libbgp_rib4_lookup_scoped, which read a cached best
\* route and the index by source, answer as a comparison of all the routes of
\* the table would.
LookupIsBest ==
    \A dest \in Addresses :
        /\ Answers(Lookup(dest), Table(rib), dest)
        /\ \A s \in Sources :
              Answers(LookupScoped(s, dest), {r \in Table(rib) : r.source = s}, dest)

\* The pass over the chain of a prefix decides what the FSM is told; the
\* cached best answers lookups.  An operation that reports best routes reports
\* exactly the prefixes for which lookups now get another route, with that
\* route, as long as no prefix with other host bits shares the group.
ReportsExact ==
    [][report'.told =>
          \A p \in PrefixSet :
              LET n == Normalize(p)
              IN (\A r \in Table(rib) \cup Table(rib)' : Normalize(r.prefix) = n => r.prefix = p) =>
                    RadixValue(rib'.tree, n.addr, n.len) =
                        IF p \in DOMAIN report'.best THEN report'.best[p]
                        ELSE RadixValue(rib.tree, n.addr, n.len)]_vars
============================================================================
