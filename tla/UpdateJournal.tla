--------------------------- MODULE UpdateJournal ---------------------------
(***************************************************************************)
(* How fsm.c applies an UPDATE to the routing tables it shares with other  *)
(* FSMs.  Withdrawals and announcements are carried out one by one, each   *)
(* under the lock of the table; a journal remembers how to undo them and   *)
(* which events to publish.  When memory runs out half way the journal is  *)
(* undone, otherwise the events are published, one callback at a time.     *)
(*                                                                         *)
(* The routing table is the plain table of RibTable.  An UPDATE is the     *)
(* sequence of its operations in the order fsm_apply_update takes them:    *)
(* withdrawn routes, NLRI, MP_UNREACH_NLRI, MP_REACH_NLRI.  Announcements  *)
(* that a filter or the local AS check ignores are not in the sequence.    *)
(* The calls for one FSM come one after the other; the FSMs of other peers *)
(* may run between any two operations, as the threads of the THREADSAFE    *)
(* build do.                                                               *)
(***************************************************************************)
EXTENDS Integers, Sequences, SequencesExt, FiniteSetsExt

CONSTANTS PeerIds,      \* the peers, one established FSM each
          PrefixSet,    \* prefixes of both address families
          Updates,      \* the UPDATE messages, sequences of operations
          AllocFails,   \* TRUE: an allocation may fail
          MaxUid        \* bound on the update ids drawn

\* The rank stands for what the selection compares before the update id.
Ops == [kind : {"withdraw"}, prefix : PrefixSet]
          \cup [kind : {"announce"}, prefix : PrefixSet, rank : Nat]

ASSUME UpdatesAssumption == Updates \subseteq Seq(Ops)
ASSUME JournalFlagsAssumption ==
    AllocFails \in BOOLEAN /\ MaxUid \in Nat

VARIABLES table,    \* the routes of all peers
          uid,      \* the last update id drawn
          handler,  \* handler[p]: the UPDATE that the FSM of p is working on
          view,     \* the best routes as the published events describe them
          excused   \* history: handlers overlapped, or memory was short for an
                    \* event or a restore, so that view may be out of date

vars == <<table, uid, handler, view, excused>>

NoRoute == [uid |-> 0]

Idle == [pc |-> "idle", msg |-> <<>>, todo |-> <<>>, routes |-> <<>>, withdrawn |-> <<>>,
         events |-> <<>>, undo |-> <<>>, before |-> {}, lost |-> FALSE]

RoutesOf(t, p) == {r \in t : r.peer = p}

Find(t, p, x) ==
    IF \E r \in t : r.peer = p /\ r.prefix = x
    THEN CHOOSE r \in t : r.peer = p /\ r.prefix = x
    ELSE NoRoute

Better(r, s) == r.rank > s.rank \/ (r.rank = s.rank /\ r.uid < s.uid)

Best(t, x) ==
    LET S == {r \in t : r.prefix = x}
    IN IF S = {} THEN NoRoute ELSE CHOOSE r \in S : \A s \in S \ {r} : Better(r, s)

Set(p, h) == handler' = [handler EXCEPT ![p] = h]

Event(x, t) == <<[prefix |-> x, best |-> Best(t, x)]>>

\* fsm_update_journal_has_route4: the replaced route came from this UPDATE.
HasRoute(h, r) == \E i \in 1..Len(h.routes) : h.routes[i].route.uid = r.uid

\* fsm_rollback_update_journal: the insertions go, last one first; then the
\* routes they replaced come back, then the withdrawn ones.
Rollback(h) ==
    LET n == Len(h.routes)
        replaced == SelectSeq(h.routes, LAMBDA e : e.restore)
    IN [i \in 1..n |-> [kind |-> "remove", route |-> h.routes[n + 1 - i].route]]
          \o [i \in 1..Len(replaced) |-> [kind |-> "restore", route |-> replaced[i].replaced]]
          \o [i \in 1..Len(h.withdrawn) |-> [kind |-> "restore", route |-> h.withdrawn[i]]]

StartRollback(h) == [h EXCEPT !.pc = "undo", !.todo = <<>>, !.events = <<>>, !.undo = Rollback(h)]
----------------------------------------------------------------------------
\* The update ids that the operations of u may draw, for the bound.
Draws(u) == Len(SelectSeq(u, LAMBDA op : op.kind = "announce"))

Busy(p) == handler[p].pc # "idle"

\* fsm_on_established hands an UPDATE to fsm_apply_update, which reserves
\* room for the whole journal before it touches a table.
Begin(p, u) ==
    /\ handler[p].pc = "idle"
    /\ Draws(u) = 0 \/ uid + Draws(u) + MapThenSumSet(LAMBDA q : Draws(handler[q].todo), PeerIds) <= MaxUid
    /\ Set(p, [Idle EXCEPT !.pc = "apply", !.msg = u, !.todo = u,
                       !.before = RoutesOf(table, p)])
    /\ excused' = (excused \/ \E q \in PeerIds : Busy(q))
    /\ UNCHANGED <<table, uid, view>>

\* No memory for the journal: there is nothing to undo.
ReserveFails(p, u) ==
    /\ AllocFails
    /\ handler[p].pc = "idle"
    /\ Set(p, [Idle EXCEPT !.pc = "undo", !.msg = u, !.before = RoutesOf(table, p)])
    /\ UNCHANGED <<table, uid, view, excused>>

Applying(p, kind) ==
    /\ handler[p].pc = "apply"
    /\ handler[p].todo # <<>>
    /\ Head(handler[p].todo).kind = kind

\* Deviation: the journal keeps a route that the table keeps as well.
RecordWithdrawShared(p) ==
    LET h    == handler[p]
        x    == Head(h.todo).prefix
        old  == Find(table, p, x)
    IN /\ Applying(p, "withdraw")
       /\ Set(p, [h EXCEPT !.todo = Tail(@),
                           !.withdrawn = IF old = NoRoute THEN @ ELSE Append(@, old)])
       /\ UNCHANGED <<table, uid, view, excused>>

\* Deviation: a route that is not the best one stays.
RecordWithdrawBestOnly(p) ==
    LET h    == handler[p]
        x    == Head(h.todo).prefix
        old  == Find(table, p, x)
        t    == table \ {old}
        hit  == old # NoRoute /\ Best(table, x) = old
    IN /\ Applying(p, "withdraw")
       /\ table' = IF hit THEN t ELSE table
       /\ Set(p, [h EXCEPT !.todo = Tail(@),
                           !.withdrawn = IF hit THEN Append(@, old) ELSE @,
                           !.events = IF hit THEN @ \o Event(x, t) ELSE @])
       /\ UNCHANGED <<uid, view, excused>>

\* The operation on the route old fails, and old is put back; the memory that
\* this takes may be missing too, and then old is gone.
GiveUp(p, old) ==
    \E lost \in {FALSE, old # NoRoute} :
        /\ table' = IF lost THEN table \ {old} ELSE table
        /\ Set(p, [StartRollback(handler[p]) EXCEPT !.lost = lost])
        /\ excused' = (excused \/ lost)

\* fsm_update_journal_record_withdraw4: the event tells the route that is
\* best now, or that there is none.
RecordWithdraw(p) ==
    LET h    == handler[p]
        x    == Head(h.todo).prefix
        old  == Find(table, p, x)
        t    == table \ {old}
        hit  == old # NoRoute /\ Best(table, x) = old
    IN /\ Applying(p, "withdraw")
       /\ table' = t
       /\ Set(p, [h EXCEPT !.todo = Tail(@),
                           !.withdrawn = IF old = NoRoute THEN @ ELSE Append(@, old),
                           !.events = IF hit THEN @ \o Event(x, t) ELSE @])
       /\ UNCHANGED <<uid, view, excused>>

\* No memory for a copy of the route that is best now: the withdrawn route is
\* put back and the UPDATE given up.
RecordWithdrawFails(p) ==
    LET h   == handler[p]
        x   == Head(h.todo).prefix
        old == Find(table, p, x)
    IN /\ AllocFails
       /\ Applying(p, "withdraw")
       /\ old # NoRoute /\ Best(table, x) = old /\ Best(table \ {old}, x) # NoRoute
       /\ GiveUp(p, old)
       /\ UNCHANGED <<uid, view>>

NewRoute(p, op) == [peer |-> p, prefix |-> op.prefix, rank |-> op.rank, uid |-> uid + 1]

\* Deviation: only the first route of a prefix is announced, not a better one.
RecordRouteNewOnly(p) ==
    LET h   == handler[p]
        r   == NewRoute(p, Head(h.todo))
        old == Find(table, p, r.prefix)
        t   == (table \ {old}) \cup {r}
    IN /\ Applying(p, "announce")
       /\ table' = t
       /\ uid' = uid + 1
       /\ Set(p, [h EXCEPT !.todo = Tail(@),
                           !.routes = Append(@, [route |-> r, replaced |-> old,
                                                 restore |-> old # NoRoute /\ ~HasRoute(h, old)]),
                           !.events = IF Best(table, r.prefix) = NoRoute
                                      THEN @ \o Event(r.prefix, t) ELSE @])
       /\ UNCHANGED <<view, excused>>

\* bgp_rib4_insert_track_best_save_replaced, then fsm_update_journal_record4.
RecordRoute(p) ==
    LET h   == handler[p]
        r   == NewRoute(p, Head(h.todo))
        old == Find(table, p, r.prefix)
        t   == (table \ {old}) \cup {r}
    IN /\ Applying(p, "announce")
       /\ table' = t
       /\ uid' = uid + 1
       /\ Set(p, [h EXCEPT !.todo = Tail(@),
                           !.routes = Append(@, [route |-> r, replaced |-> old,
                                                 restore |-> old # NoRoute /\ ~HasRoute(h, old)]),
                           !.events = IF Best(table, r.prefix) # Best(t, r.prefix)
                                      THEN @ \o Event(r.prefix, t) ELSE @])
       /\ UNCHANGED <<view, excused>>

\* The insertion fails, or there is no memory for a copy of the new best
\* route and bgp_rib4_withdraw_exact_if_update_id and
\* bgp_rib4_restore_saved_if_absent take the insertion back.
RecordRouteFails(p) ==
    LET h   == handler[p]
        old == Find(table, p, Head(h.todo).prefix)
    IN /\ AllocFails
       /\ Applying(p, "announce")
       /\ GiveUp(p, old)
       /\ uid' \in {uid, uid + 1}
       /\ UNCHANGED view

Applied(p) ==
    /\ handler[p].pc = "apply"
    /\ handler[p].todo = <<>>
    /\ Set(p, [handler[p] EXCEPT !.pc = "publish"])
    /\ UNCHANGED <<table, uid, view, excused>>

\* One step of fsm_rollback_update_journal.  An insertion is removed if it is
\* still the route of its prefix; a route comes back if its place is free and
\* the indexes find memory for it.
Undo(p) ==
    LET h    == handler[p]
        step == Head(h.undo)
        r    == step.route
        back == IF step.kind = "remove" THEN table \ {r}
                ELSE IF Find(table, p, r.prefix) = NoRoute THEN table \cup {r} ELSE table
    IN /\ h.pc = "undo"
       /\ h.undo # <<>>
       /\ \E lost \in {FALSE, AllocFails /\ step.kind = "restore" /\ back # table} :
             /\ table' = IF lost THEN table ELSE back
             /\ Set(p, [h EXCEPT !.undo = Tail(@), !.lost = @ \/ lost])
             /\ excused' = (excused \/ lost)
       /\ UNCHANGED <<uid, view>>

Undone(p) ==
    /\ handler[p].pc = "undo"
    /\ handler[p].undo = <<>>
    /\ Set(p, Idle)
    /\ UNCHANGED <<table, uid, view, excused>>

\* One event of fsm_publish_update_events; an added route needs memory for
\* the UPDATE that describes it, and without it the event is not sent.
Publish(p) ==
    LET h == handler[p]
        e == Head(h.events)
    IN /\ h.pc = "publish"
       /\ h.events # <<>>
       /\ \E lost \in {FALSE, AllocFails /\ e.best # NoRoute} :
             /\ view' = IF lost THEN view ELSE [view EXCEPT ![e.prefix] = e.best]
             /\ excused' = (excused \/ lost)
       /\ Set(p, [h EXCEPT !.events = Tail(@)])
       /\ UNCHANGED <<table, uid>>

Published(p) ==
    /\ handler[p].pc = "publish"
    /\ handler[p].events = <<>>
    /\ Set(p, Idle)
    /\ UNCHANGED <<table, uid, view, excused>>
----------------------------------------------------------------------------
Init ==
    /\ table = {}
    /\ uid = 0
    /\ handler = [p \in PeerIds |-> Idle]
    /\ view = [x \in PrefixSet |-> NoRoute]
    /\ excused = FALSE

Next ==
    \E p \in PeerIds :
        \/ \E u \in Updates : Begin(p, u) \/ ReserveFails(p, u)
        \/ RecordWithdraw(p) \/ RecordWithdrawFails(p)
        \/ RecordRoute(p) \/ RecordRouteFails(p)
        \/ Applied(p) \/ Undo(p) \/ Undone(p) \/ Publish(p) \/ Published(p)

Spec == Init /\ [][Next]_vars
----------------------------------------------------------------------------
\* A peer has one route for a prefix, and a route that a journal keeps for
\* putting back is not in the table at the same time: the table and the
\* journal would both free it.
JournalOwnsSaved ==
    /\ \A r, s \in table : r.peer = s.peer /\ r.prefix = s.prefix => r = s
    /\ \A p \in PeerIds :
          LET h == handler[p]
          IN h.pc \in {"apply", "publish"} =>
                /\ ToSet(h.withdrawn) \cap table = {}
                /\ \A i \in 1..Len(h.routes) : h.routes[i].replaced \notin table

\* When no UPDATE is in progress, whoever followed the published events knows
\* the best route of every prefix, after failed UPDATEs too: each change was
\* published, in an order that ends with the route that is best now.  UPDATEs
\* handled at the same time and events or routes lost for lack of memory are
\* excused.
EventsTellBest ==
    ~excused /\ (\A p \in PeerIds : ~Busy(p)) =>
        \A x \in PrefixSet : view[x] = Best(table, x)

\* The routes of a peer with the UPDATE in progress taken as not begun.
Settled ==
    [p \in PeerIds |->
        LET t == IF handler[p].pc \in {"apply", "undo"} THEN handler[p].before
                 ELSE RoutesOf(table, p)
        IN [x \in PrefixSet |-> IF Find(t, p, x) = NoRoute THEN -1 ELSE Find(t, p, x).rank]]

InProgress ==
    [p \in PeerIds |-> IF handler[p].pc \in {"apply", "undo"} THEN handler[p].msg ELSE <<>>]

Atomic == INSTANCE UpdateAtomic WITH adj <- Settled, pending <- InProgress,
                                     short <- [p \in PeerIds |-> handler[p].lost]

\* An UPDATE changes the routes of its peer as a whole or, when memory runs
\* out, not at all, whatever the order in which other FSMs use the table; only
\* memory that is short for the rollback as well makes it lose a route, and
\* then one of a prefix it names.
ImplementsAtomic == Atomic!Spec
============================================================================
