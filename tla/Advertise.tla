----------------------------- MODULE Advertise ------------------------------
(***************************************************************************)
(* One speaker and its peers: how the best route of a prefix reaches them  *)
(* (src/src/fsm.c).                                                        *)
(*                                                                         *)
(* All FSMs share a table and a bus.  An UPDATE changes the table first,   *)
(* under the locks; the events about it are published afterwards, and the  *)
(* callback of every other FSM turns an event into a message to its peer.  *)
(* A peer whose session comes up is sent the best routes of a snapshot of  *)
(* the table.  Each FSM is driven by a thread of its own; a callback runs  *)
(* on the thread of the publisher, and when it cannot send it tears its    *)
(* session down there, which publishes events in turn, about every prefix  *)
(* of that peer, and inside the publication that is under way.             *)
(*                                                                         *)
(* One table stands for the two of the code.  What a message says is in    *)
(* Relay, the table in Rib, the bus in EventBus, the UPDATE that fails     *)
(* half way in UpdateJournal; here no allocation fails.                    *)
(***************************************************************************)
EXTENDS Naturals, Sequences, FiniteSets

CONSTANTS
    Order,     \* the peers, in the order their FSMs subscribed to the bus
    Peers,     \* each names its session, its FSM and the thread that drives it
    Walk,      \* the prefixes, in the order in which the table and UPDATEs list them
    Prefixes,
    Local,     \* the source of local routes
    Locals,    \* the prefixes with a local route
    Versions,  \* of the attributes in a peer's UPDATE
    Updates,   \* the UPDATEs of a peer
    Pref,      \* Pref[r]: the rank of a route in the decision process
    Denied,    \* Denied[p]: the routes the out filter for p denies
    Ibgp,      \* the peers of the speaker's own AS
    NoRoute,
    NoOne,     \* the publisher of an event that every FSM gets
    MaxBusy,   \* bound: threads inside the library
    MaxOps,    \* bound: sessions up or down, and UPDATEs
    MaxFails   \* bound: messages that cannot be sent

VARIABLES
    table,   \* the routes in the RIB
    up,      \* up[p]: the session is ESTABLISHED
    gen,     \* session_generation
    stack,   \* stack[t]: the calls in progress on thread t, the latest first
    told,    \* told[p][x]: the route to x the peer has been told of
    ops,
    fails,
    tainted, \* history: threads whose call overlaps with that of another
    excused  \* history: <<p, x>> where p may not know the best route to x

vars == <<table, up, gen, stack, told, ops, fails, tainted, excused>>

Routes == [pfx : Prefixes, src : Peers, v : Versions]
          \cup [pfx : Prefixes, src : {Local}, v : {0}]

\* The decision process ranks the routes and has a best one for every table.  It
\* ends with the update id and the router id (rib4_better_cached): no two are equal.
ASSUME PrefAssumption ==
    /\ Pref \in [Routes -> Nat]
    /\ \A q, r \in Routes : Pref[q] = Pref[r] => q = r
    /\ \A x \in Prefixes : \A tab \in SUBSET {r \in Routes : r.pfx = x} :
          tab # {} => \E r \in tab : \A q \in tab : Pref[r] >= Pref[q]

ASSUME NamesAssumption == NoRoute \notin Routes /\ NoOne \notin Peers

ASSUME LocalsAssumption == Locals \subseteq Prefixes

\* An UPDATE withdraws the prefixes in wd and announces those in nlri, all with
\* one set of attributes.
ASSUME UpdatesAssumption ==
    \A u \in Updates :
        /\ u \in [wd : SUBSET Prefixes, nlri : SUBSET Prefixes, v : Versions]
        /\ u.wd \cap u.nlri = {}

\* The best route to a prefix (rib4_best_exact_locked; Rib has the rule).
To(tab, x) == {r \in tab : r.pfx = x}
Best(tab, x) ==
    IF To(tab, x) = {} THEN NoRoute
    ELSE CHOOSE r \in To(tab, x) : \A q \in To(tab, x) : Pref[r] >= Pref[q]

\* The prefixes whose best route a change of the table changes.
Changed(old, new) == {x \in Prefixes : Best(old, x) # Best(new, x)}

\* An event about x after a change of p's routes: the new best route, or that
\* there is none (fsm_publish_route4_added_snapshot, fsm_publish_event).
Event(p, x, tab) ==
    LET b == Best(tab, x)
    IN  IF b = NoRoute
        THEN [type |-> "withdrawn", pfx |-> x, src |-> p, route |-> NoRoute]
        ELSE [type |-> "added", pfx |-> x, src |-> b.src, route |-> b]

\* What the peer knows of the prefix after a withdrawal.
Withdrawal == NoRoute

\* fsm_send_route_event_update: what the message about an event says.
Message(ev) == IF ev.type = "added" THEN ev.route ELSE Withdrawal

\* The events about the prefixes in xs, in the order of the table.
Listing(xs) == SelectSeq(Walk, LAMBDA x : x \in xs)
Events(p, xs, tab) == [i \in 1..Len(Listing(xs)) |-> Event(p, Listing(xs)[i], tab)]

\* Every prefix is listed once.
ASSUME WalkAssumption ==
    \A xs \in SUBSET Prefixes :
        /\ Listing(xs) \in Seq(Prefixes)
        /\ \A x \in Prefixes : x \in xs <=> \E i \in 1..Len(Listing(xs)) : Listing(xs)[i] = x
        /\ \A i, j \in 1..Len(Listing(xs)) : Listing(xs)[i] = Listing(xs)[j] => i = j

-----------------------------------------------------------------------------
(* Calls.  A frame is what one function of the call chain still has to do. *)

\* The FSMs that an event of by is given to, in this order.
Others(by) == SelectSeq(Order, LAMBDA p : p # by)

\* Every peer's FSM subscribes, and nobody else.
ASSUME OrderAssumption ==
    \A by \in Peers \cup {NoOne} :
        /\ Others(by) \in Seq(Peers)
        /\ \A p \in Peers : p # by <=> \E i \in 1..Len(Others(by)) : Others(by)[i] = p

\* late is history: the prefixes whose best route has changed since the events
\* were made.
Frame(op, who, g, evs, todo, late) ==
    [op |-> op, who |-> who, gen |-> g, evs |-> evs, todo |-> todo, late |-> late]

Publish(by, g, evs) == Frame("publish", by, g, evs, <<>>, {})
Deliver(by, ev, late) == Frame("deliver", by, 0, <<ev>>, Others(by), late)
Sending(to, g, ev, late) == Frame("send", to, g, <<ev>>, <<>>, late)
Discard(p) == Frame("discard", p, 0, <<>>, <<>>, {})
Dump(p, g) == Frame("dump", p, g, <<>>, <<>>, {})
Dumping(p, g, evs) == Frame("dumping", p, g, evs, <<>>, {})

\* The call f in front of others; one with nothing left to do returns at once.
Done(f) == \/ f.op \in {"publish", "dumping"} /\ f.evs = <<>>
           \/ f.op = "deliver" /\ f.todo = <<>>
On(f, calls) == IF Done(f) THEN calls ELSE <<f>> \o calls

Top(t) == Head(stack[t])
Below(t) == Tail(stack[t])
Becomes(t, calls) == [stack EXCEPT ![t] = calls]
At(t, op) == stack[t] # <<>> /\ Top(t).op = op

Current(p, g) == up[p] /\ gen[p] = g

\* The thread enters the library; history notes the calls that overlap.
Enter(t, f) ==
    LET busy == {q \in Peers : stack[q] # <<>>}
    IN  /\ stack[t] = <<>> /\ ops < MaxOps /\ Cardinality(busy) < MaxBusy
        /\ ops' = ops + 1
        /\ stack' = Becomes(t, On(f, <<>>))
        /\ tainted' = (tainted \cap busy) \cup (IF busy = {} THEN {} ELSE busy \cup {t})

\* The session of p ends (fsm_snapshot_teardown), and what the peer was told
\* with it.
TearDown(p) == /\ up' = [up EXCEPT ![p] = FALSE]
               /\ gen' = [gen EXCEPT ![p] = @ + 1]
               /\ told' = [told EXCEPT ![p] = [x \in Prefixes |-> NoRoute]]
               /\ excused' = {e \in excused : e[1] # p}

-----------------------------------------------------------------------------
(* What a thread begins: the peer's KEEPALIVE, its UPDATE, the end.        *)

\* fsm_on_open_confirm, up to fsm_run_established_actions
Establish(t) ==
    /\ ~up[t]
    /\ Enter(t, Dump(t, gen[t] + 1))
    /\ up' = [up EXCEPT ![t] = TRUE]
    /\ gen' = [gen EXCEPT ![t] = @ + 1]
    /\ UNCHANGED <<table, told, fails, excused>>

\* fsm_on_established: the withdrawals are applied and published first.
Update(t) ==
    \E u \in Updates :
        LET kept == {r \in table : ~(r.src = t /\ r.pfx \in u.wd \cup u.nlri)}
            new  == kept \cup [pfx : u.nlri, src : {t}, v : {u.v}]
            xs   == Changed(table, new)
        IN  /\ up[t] /\ new # table
            /\ table' = new
            /\ Enter(t, Publish(t, gen[t],
                  Events(t, xs \cap u.wd, new) \o Events(t, xs \cap u.nlri, new)))
            /\ UNCHANGED <<up, gen, told, fails, excused>>

\* A NOTIFICATION, an expired timer, a stop.
Down(t) == /\ up[t]
           /\ Enter(t, Discard(t))
           /\ TearDown(t)
           /\ UNCHANGED <<table, fails>>

-----------------------------------------------------------------------------
(* Publication.                                                            *)

\* History: the calls in progress whose events about xs have been overtaken.
Overtaken(calls, xs) ==
    [i \in 1..Len(calls) |-> [calls[i] EXCEPT !.late = @ \cup xs]]

\* fsm_discard_peer_routes_publish: the routes of the peer, to whatever prefix,
\* are discarded (bgp_rib4_discard_collect), the withdrawals published first.
DiscardRoutes(t) ==
    LET p    == Top(t).who
        new  == {r \in table : r.src # p}
        xs   == Changed(table, new)
        gone == {x \in xs : To(new, x) = {}}
    IN  /\ At(t, "discard")
        /\ table' = new
        /\ stack' = Becomes(t,
              On(Publish(NoOne, 0, Events(p, gone, new) \o Events(p, xs \ gone, new)),
                 Overtaken(Below(t), xs)))
        /\ UNCHANGED <<up, gen, told, ops, fails, tainted, excused>>

\* bgp_rib4_foreach_best_route: the best routes are copied under the lock.
Snapshot(t) ==
    LET f == Top(t)
    IN  /\ At(t, "dump")
        /\ stack' = Becomes(t,
              On(Dumping(f.who, f.gen, Events(f.who, {x \in Prefixes : To(table, x) # {}}, table)),
                 Below(t)))
        /\ UNCHANGED <<table, up, gen, told, ops, fails, tainted, excused>>

\* Deviation for the mutants: the dump does not ask whose route it is.
AllowedToSource(p, ev) == ev.route \notin Denied[p]

\* fsm_advertise_rib4_cb: whether the peer is sent a route of the table.
Allowed(p, ev) ==
    /\ ev.src # p
    /\ ~(p \in Ibgp /\ ev.src \in Ibgp)
    /\ ev.route \notin Denied[p]

\* The loop of bgp_rib4_foreach_best_route; fsm_run_established_actions returns.
Advertise(t) ==
    LET f == Top(t)
        rest == On([f EXCEPT !.evs = Tail(@)], Below(t))
    IN  /\ At(t, "dumping")
        /\ stack' = Becomes(t,
              IF ~Current(f.who, f.gen) THEN Below(t)
              ELSE IF Allowed(f.who, Head(f.evs))
              THEN <<Sending(f.who, f.gen, Head(f.evs), f.late)>> \o rest
              ELSE rest)
        /\ UNCHANGED <<table, up, gen, told, ops, fails, tainted, excused>>

\* fsm_publish_update_events stops when the session is no longer current;
\* fsm_discard_peer_routes_publish does not look.
GoesOn(f) == IF f.who = NoOne THEN TRUE ELSE Current(f.who, f.gen)

\* libbgp_event_bus_publish_from: the next event goes to all that subscribed,
\* come what may.  (Excused: the publisher, which does not hear of its own change.)
Begin(t) ==
    LET f  == Top(t)
        ev == Head(f.evs)
        x  == ev.pfx
    IN  /\ At(t, "publish") /\ GoesOn(f)
        /\ stack' = Becomes(t,
              On(Deliver(f.who, ev, f.late), On([f EXCEPT !.evs = Tail(@)], Below(t))))
        /\ excused' = IF /\ f.who # NoOne /\ x \notin f.late
                         /\ told[f.who][x] # NoRoute \/ ev.src # f.who
                      THEN excused \cup {<<f.who, x>>} ELSE excused
        /\ UNCHANGED <<table, up, gen, told, ops, fails, tainted>>

\* fsm_route_event_cb of the next FSM, up to the send.  (Excused: a peer from
\* which the change is withheld, after it was told another route.)
Callback(t) ==
    LET f  == Top(t)
        d  == Head(f.todo)
        ev == Head(f.evs)
        passes == up[d] /\ ev.src # d /\ ev.route \notin Denied[d]
        rest   == On([f EXCEPT !.todo = Tail(@)], Below(t))
    IN  /\ At(t, "deliver")
        /\ stack' = Becomes(t,
              IF passes THEN <<Sending(d, gen[d], ev, f.late)>> \o rest ELSE rest)
        /\ excused' = IF ~passes /\ told[d][ev.pfx] # NoRoute /\ ev.pfx \notin f.late
                      THEN excused \cup {<<d, ev.pfx>>} ELSE excused
        /\ UNCHANGED <<table, up, gen, told, ops, fails, tainted>>

\* The session of the publisher has ended: the other events are not published.
\* (Excused: the peers, which will not hear of them.)
Abandon(t) ==
    LET f == Top(t)
        left == {f.evs[i].pfx : i \in 1..Len(f.evs)} \ f.late
    IN  /\ At(t, "publish") /\ ~GoesOn(f)
        /\ stack' = Becomes(t, Below(t))
        /\ excused' = excused \cup ({p \in Peers : up[p]} \X left)
        /\ UNCHANGED <<table, up, gen, told, ops, fails, tainted>>

\* The peer reads the message.  (Excused: calls overlapped, or the best route
\* changed after the event.)
Tell(t, d, ev, late) ==
    /\ told' = [told EXCEPT ![d][ev.pfx] = Message(ev)]
    /\ excused' = IF t \in tainted \/ ev.pfx \in late THEN excused \cup {<<d, ev.pfx>>}
                  ELSE excused \ {<<d, ev.pfx>>}

\* Deviation for the mutants: a message that cannot be sent is forgotten.
SendDropped(t) ==
    LET f == Top(t)
    IN  /\ At(t, "send")
        /\ \/ /\ IF up[f.who] THEN Tell(t, f.who, Head(f.evs), f.late) ELSE UNCHANGED <<told, excused>>
              /\ UNCHANGED fails
           \/ /\ fails < MaxFails
              /\ fails' = fails + 1
              /\ UNCHANGED <<told, excused>>
        /\ stack' = Becomes(t, Below(t))
        /\ UNCHANGED <<table, up, gen, ops, tainted>>

\* fsm_send_prepared_update hands the message to the out handler, with no lock
\* held: it reaches the session there is by then.  When the message cannot be
\* built or sent, fsm_teardown_current_established ends the session.
Send(t) ==
    LET f == Top(t)
        d == f.who
    IN  /\ At(t, "send")
        /\ \/ /\ IF up[d] THEN Tell(t, d, Head(f.evs), f.late) ELSE UNCHANGED <<told, excused>>
              /\ stack' = Becomes(t, Below(t))
              /\ UNCHANGED <<up, gen, fails>>
           \/ /\ fails < MaxFails
              /\ fails' = fails + 1
              /\ IF Current(d, f.gen)
                 THEN TearDown(d) /\ stack' = Becomes(t, <<Discard(d)>> \o Below(t))
                 ELSE UNCHANGED <<up, gen, told, excused>> /\ stack' = Becomes(t, Below(t))
        /\ UNCHANGED <<table, ops, tainted>>

-----------------------------------------------------------------------------
\* What the peer should know: the best route, unless it is its own or the out
\* filter denies it.
Wanted(p, x) ==
    LET b == Best(table, x)
    IN  IF b = NoRoute \/ b \in Denied[p] THEN NoRoute
        ELSE IF b.src = p THEN NoRoute ELSE b

\* Some sessions came up, and their dumps went out, undisturbed.
Init == /\ table = [pfx : Locals, src : {Local}, v : {0}]
        /\ up \in [Peers -> BOOLEAN] /\ gen = [p \in Peers |-> 0]
        /\ stack = [t \in Peers |-> <<>>]
        /\ told = [p \in Peers |-> [x \in Prefixes |-> IF up[p] THEN Wanted(p, x) ELSE NoRoute]]
        /\ ops = 0 /\ fails = 0 /\ tainted = {} /\ excused = {}

Next == \E t \in Peers :
            \/ Establish(t) \/ Update(t) \/ Down(t)
            \/ DiscardRoutes(t) \/ Snapshot(t) \/ Advertise(t)
            \/ Begin(t) \/ Callback(t) \/ Abandon(t) \/ Send(t)

Spec == Init /\ [][Next]_vars

-----------------------------------------------------------------------------
(* Properties.                                                             *)

Quiet == \A t \in Peers : stack[t] = <<>>

\* Once all calls have returned, every peer with a session knows exactly the best
\* route of the table to every prefix, or nothing where it is not to know it:
\* whatever the order of UPDATEs and sessions, and also when messages cannot be
\* sent and their sessions end, with all their routes, inside the publication of
\* others (fsm_publish_update_events, fsm_discard_peer_routes_publish,
\* fsm_route_event_cb, fsm_run_established_actions).
\* Excused is a peer, for one prefix, when the latest change of the best route
\*   - was published by calls that overlapped;
\*   - was withheld, the best route being its own or denied to it, after it had
\*     been told another;
\*   - was its own doing, which its FSM as the publisher does not hear of;
\*   - was followed by an older event: one of a publication inside which the
\*     session that changed the best route ended;
\*   - was never published: the session of the publisher ended inside the
\*     publication of another event of the same UPDATE.
\* The initial dump, unlike the events, keeps iBGP routes from iBGP peers.
PeersTold ==
    Quiet => \A p \in Peers, x \in Prefixes :
        up[p] /\ <<p, x>> \notin excused =>
            \/ told[p][x] = Wanted(p, x)
            \/ told[p][x] = NoRoute /\ p \in Ibgp /\ Best(table, x).src \in Ibgp

\* No peer is ever sent its own route or one its out filter denies, by no
\* interleaving of dumps, events and sessions that come and go between the
\* decision to send and the send (fsm_advertise_rib4_cb, fsm_route_event_cb).
PolicyKept ==
    \A p \in Peers, x \in Prefixes :
        told[p][x] # NoRoute => told[p][x].src # p /\ told[p][x] \notin Denied[p]
=============================================================================
