----------------------------- MODULE FsmSession -----------------------------
(***************************************************************************)
(* The BGP session state machine of libbgp (src/fsm.c).                    *)
(*                                                                         *)
(* An entry point of the library takes the lock of one FSM, changes its    *)
(* record, releases the lock, and then sends a packet, publishes an event  *)
(* or touches the shared RIB; many take the lock again afterwards and look *)
(* whether the session they left is still there (session_generation).      *)
(* Everything between two lock operations is one atomic action here; what  *)
(* a call remembers across an unlock is its call frame.                    *)
(*                                                                         *)
(* Frames interleave in one of two ways.  With Threads = TRUE each frame   *)
(* is a thread of the THREADSAFE build and any frame may take the next     *)
(* step.  With Threads = FALSE there is one thread: frame n + 1 is a call  *)
(* made from inside a callback of frame n (the send function of the output *)
(* handler, an event subscriber), so only the innermost frame moves, and a *)
(* new one appears only while the innermost is inside a callback.          *)
(***************************************************************************)
EXTENDS Integers, Sequences

CONSTANTS
    Fsms,        \* the FSM handles of one speaker; they share RIB and bus
    Calls,       \* call frames; if they nest, numbers that give the depth
    Peers,       \* BGP identifiers a peer may send in an OPEN
    LocalId,     \* config.local_bgp_id
    CollisionDetection, \* a bus is attached and no_collision_detection is off
    Threads,     \* frames are threads (TRUE) or nested calls (FALSE)
    AllocFails,  \* an allocation may fail while an UPDATE is applied
    MaxGen,      \* bound: calls that open a generation stop here
    MaxUid       \* bound: number of routes learned

ASSUME FsmsAssumption == Fsms # {}
ASSUME CallsAssumption == ~Threads => Calls \subseteq Nat
ASSUME IdsAssumption == LocalId \in Nat \ {0} /\ Peers \subseteq Nat \ {0, LocalId}
ASSUME FlagsAssumption ==
    CollisionDetection \in BOOLEAN /\ Threads \in BOOLEAN /\ AllocFails \in BOOLEAN
ASSUME BoundsAssumption == MaxGen \in Nat /\ MaxUid \in Nat

VARIABLES
    fsm,        \* fsm_impl_t, per FSM
    call,       \* the call frames
    rib,        \* the route each peer has in the RIB (one prefix stands for all)
    uid,        \* next_update_id of the RIB
    published   \* SESSION_UP and SESSION_DOWN in the order subscribers saw them

vars == <<fsm, call, rib, uid, published>>

-----------------------------------------------------------------------------
(* The session record and the changes the lock sections make to it.        *)

States == {"IDLE", "CONNECT", "ACTIVE", "OPEN_SENT", "OPEN_CONFIRM", "ESTABLISHED"}

PreOpen == {"IDLE", "CONNECT", "ACTIVE"}

NoPeer == 0

\* kaOut and kaIn are history: our KEEPALIVE of this attempt was accepted by
\* the send function, and the peer's KEEPALIVE of this attempt was received.
\* valid is fsm_local_open_config_valid: the configuration never changes.
Session == [st : States, gen : Nat, peer : Peers \cup {NoPeer},
            lkSend : BOOLEAN, lkPend : BOOLEAN, poSend : BOOLEAN, pkPend : BOOLEAN,
            kaOut : BOOLEAN, kaIn : BOOLEAN, valid : BOOLEAN]

Route == [fsm : Fsms, gen : Nat, uid : Nat]

AnyFsm == CHOOSE f \in Fsms : TRUE

NoRoute == [fsm |-> AnyFsm, gen |-> 0, uid |-> 0]

\* Every lock section that changes the state writes the peer fields and all four
\* pending flags, and increments session_generation.
NewGeneration(s, st, peer, lkSend, poSend) ==
    [st |-> st, gen |-> s.gen + 1, peer |-> peer,
     lkSend |-> lkSend, lkPend |-> FALSE, poSend |-> poSend, pkPend |-> FALSE,
     kaOut |-> FALSE, kaIn |-> FALSE, valid |-> s.valid]

Moved(s, to) == NewGeneration(s, to, NoPeer, FALSE, FALSE)

\* Deviation of Teardown: a flag is kept.
TeardownKeepsFlag(s) == NewGeneration(s, "IDLE", NoPeer, s.lkSend, FALSE)

\* fsm_snapshot_teardown
Teardown(s) == Moved(s, "IDLE")

\* The OPEN was accepted; the answer (KEEPALIVE, or OPEN and KEEPALIVE) is not
\* sent yet and the pending flag says so.
OpenConfirm(s, p, from) ==
    IF from \in PreOpen THEN NewGeneration(s, "OPEN_CONFIRM", p, FALSE, TRUE)
                        ELSE NewGeneration(s, "OPEN_CONFIRM", p, TRUE, FALSE)

\* The peer stays, and what is known of the KEEPALIVEs of the attempt.
Establish(s) ==
    [st |-> "ESTABLISHED", gen |-> s.gen + 1, peer |-> s.peer,
     lkSend |-> FALSE, lkPend |-> FALSE, poSend |-> FALSE, pkPend |-> FALSE,
     kaOut |-> s.kaOut, kaIn |-> s.kaIn, valid |-> s.valid]

Current(s, st, g) == s.st = st /\ s.gen = g

\* Deviation: the session comes up although no KEEPALIVE is pending.
EstablishWithoutPending(s, g) ==
    IF Current(s, "OPEN_CONFIRM", g) THEN Establish(s) ELSE s

\* The KEEPALIVE went out.
KeepaliveOut(s) == [s EXCEPT !.lkSend = FALSE, !.kaOut = TRUE]

\* The same for the answer to a passive OPEN: a KEEPALIVE received while the OPEN
\* or the KEEPALIVE was being sent counts now.
PassiveKeepaliveOut(s) ==
    LET deferred == s.pkPend \/ s.lkPend
    IN  [s EXCEPT !.lkSend = FALSE, !.lkPend = deferred, !.kaOut = TRUE]

EstablishPending(s, g) ==
    IF Current(s, "OPEN_CONFIRM", g) /\ s.lkPend THEN Establish(s) ELSE s

RollbackFailedLocalKeepalive(s, g) ==
    IF Current(s, "OPEN_CONFIRM", g) \/ Current(s, "ESTABLISHED", g + 1)
    THEN Teardown(s)
    ELSE s

-----------------------------------------------------------------------------
(* Call frames.                                                            *)

SendPcs == {"start_send", "ka_send", "open_send", "pka_send", "tick_send",
            "event_send", "dump4", "dump6"}

Pcs == SendPcs \cup {"idle", "collide", "gap", "up", "work"}

\* What is left to do after a teardown or a failed UPDATE.
Tasks == {"rb_remove", "rb_restore", "notify", "cease", "discard", "routes", "down"}

Frame == [pc : Pcs, fsm : Fsms, gen : Nat, peer : Peers \cup {NoPeer}, from : States,
          handled : BOOLEAN, ask : SUBSET Fsms, todo : Seq(Tasks),
          saved : Route, uid : Nat]

Idle == [pc |-> "idle", fsm |-> AnyFsm, gen |-> 0, peer |-> NoPeer, from |-> "IDLE",
         handled |-> FALSE, ask |-> {}, todo |-> <<>>, saved |-> NoRoute, uid |-> 0]

InCallback(fr) ==
    \/ fr.pc \in SendPcs \cup {"collide"}
    \/ fr.pc = "work" /\ \/ Head(fr.todo) \in {"notify", "cease", "down"}
                         \/ Head(fr.todo) = "routes" /\ fr.saved # NoRoute

CanEnter(c) ==
    /\ call[c].pc = "idle"
    /\ ~Threads =>
         \A d \in Calls : IF d < c THEN InCallback(call[d]) ELSE call[d].pc = "idle"

CanStep(c, pc) ==
    /\ call[c].pc = pc
    /\ ~Threads => \A d \in Calls : d > c => call[d].pc = "idle"

-----------------------------------------------------------------------------
(* Building blocks of the entry points.                                    *)

\* The bound on generations applies to calls, never to the completion of one.
CanCall(c, f) == CanEnter(c) /\ fsm[f].gen < MaxGen

Finish(c) == call' = [call EXCEPT ![c] = Idle]

\* The frame of a call that has only tasks left; s is the session before the call.
WorkFrame(f, s, todo) ==
    IF todo = <<>> THEN Idle
    ELSE [Idle EXCEPT !.pc = "work", !.fsm = f, !.gen = s.gen, !.peer = s.peer, !.todo = todo]

\* The frame of a failed UPDATE: the journal holds the route it replaced and the
\* update_id of the one it inserted.
RollbackFrame(f, s, saved, id) ==
    [Idle EXCEPT !.pc = "work", !.fsm = f, !.gen = s.gen, !.peer = s.peer,
                 !.todo = <<"rb_remove", "rb_restore">>, !.saved = saved, !.uid = id]

CleanUp == <<"discard", "routes", "down">>

\* fsm_snapshot_teardown under the lock; the tasks depend on the state it found.
TeardownCall(c, f, established, otherwise) ==
    /\ fsm' = [fsm EXCEPT ![f] = Teardown(@)]
    /\ call' = [call EXCEPT ![c] = WorkFrame(f, fsm[f],
                    IF fsm[f].st = "ESTABLISHED" THEN established ELSE otherwise)]
    /\ UNCHANGED <<rib, uid, published>>

\* fsm_teardown_current_established: only the session of generation g.
TeardownCurrentEstablished(c, f, g) ==
    IF Current(fsm[f], "ESTABLISHED", g)
    THEN TeardownCall(c, f, CleanUp, <<>>)
    ELSE Finish(c) /\ UNCHANGED <<fsm, rib, uid, published>>

\* from is the state in which the OPEN was received; an OPEN before ours is passive.
AcceptOpen(c, f, p, from) ==
    /\ fsm' = [fsm EXCEPT ![f] = OpenConfirm(@, p, from)]
    /\ call' = [call EXCEPT ![c] =
                  [Idle EXCEPT !.pc = IF from \in PreOpen THEN "open_send" ELSE "ka_send",
                               !.fsm = f, !.gen = fsm[f].gen + 1, !.peer = p]]
    /\ UNCHANGED <<rib, uid, published>>

-----------------------------------------------------------------------------
(* Operator calls: enter_connect, enter_active, start, stop, reset.        *)

EnterPreOpenState(c, f, to) ==
    /\ CanCall(c, f)
    /\ fsm[f].st \in PreOpen
    /\ fsm' = [fsm EXCEPT ![f] = Moved(@, to)]
    /\ UNCHANGED <<call, rib, uid, published>>

Start(c, f) ==
    /\ CanCall(c, f)
    /\ fsm[f].valid /\ fsm[f].st \in PreOpen
    /\ fsm' = [fsm EXCEPT ![f] = Moved(@, "OPEN_SENT")]
    /\ call' = [call EXCEPT ![c] = [Idle EXCEPT !.pc = "start_send", !.fsm = f,
                                       !.gen = fsm[f].gen + 1, !.from = fsm[f].st]]
    /\ UNCHANGED <<rib, uid, published>>

StartSent(c, ok) ==
    /\ CanStep(c, "start_send")
    /\ LET f == call[c].fsm IN
       fsm' = IF ~ok /\ Current(fsm[f], "OPEN_SENT", call[c].gen)
              THEN [fsm EXCEPT ![f] = Moved(@, call[c].from)]
              ELSE fsm
    /\ Finish(c)
    /\ UNCHANGED <<rib, uid, published>>

Stop(c, f) ==
    /\ CanCall(c, f)
    /\ TeardownCall(c, f, <<"discard", "routes", "cease", "down">>,
                    IF fsm[f].st = "IDLE" THEN <<>> ELSE <<"cease">>)

ResetSoft(c, f) ==
    /\ CanCall(c, f)
    /\ TeardownCall(c, f, <<"cease">> \o CleanUp,
                    IF fsm[f].st = "IDLE" THEN <<>> ELSE <<"cease">>)

ResetHard(c, f) == CanCall(c, f) /\ TeardownCall(c, f, CleanUp, <<>>)

-----------------------------------------------------------------------------
(* OPEN, and the collision check that gives up the lock.                   *)

OpenPacket(c, f, p) ==
    /\ CanCall(c, f)
    /\ fsm[f].valid /\ fsm[f].st \in PreOpen \cup {"OPEN_SENT"}
    /\ IF CollisionDetection
       THEN /\ call' = [call EXCEPT ![c] =
                          [Idle EXCEPT !.pc = "collide", !.fsm = f, !.gen = fsm[f].gen, !.peer = p,
                                       !.from = fsm[f].st, !.ask = Fsms \ {f}]]
            /\ UNCHANGED <<fsm, rib, uid, published>>
       ELSE AcceptOpen(c, f, p, fsm[f].st)

\* Version, hold time, identifier or AS rejected, or no OPEN in OPEN_SENT; an
\* OPEN that is fine is dropped in silence when the own configuration is not.
OpenRejected(c, f) ==
    /\ CanCall(c, f)
    /\ fsm[f].st \in PreOpen \cup {"OPEN_SENT"}
    /\ \/ TeardownCall(c, f, <<>>, <<"notify">>)
       \/ ~fsm[f].valid /\ TeardownCall(c, f, <<>>, <<>>)

\* fsm_collision_event_cb of another FSM, called from the publication.
CollisionEvent(c, o) ==
    /\ CanStep(c, "collide") /\ o \in call[c].ask
    /\ LET meant == fsm[o].st = "OPEN_CONFIRM" /\ fsm[o].peer = call[c].peer IN
       /\ fsm' = IF meant /\ LocalId <= call[c].peer THEN [fsm EXCEPT ![o] = Teardown(@)] ELSE fsm
       /\ call' = [call EXCEPT ![c].ask = @ \ {o}, ![c].handled = @ \/ meant]
    /\ UNCHANGED <<rib, uid, published>>

\* Deviation: the answer of the other FSM is not looked at.
CollisionIgnored(c) ==
    /\ CanStep(c, "collide") /\ call[c].ask = {}
    /\ AcceptOpen(c, call[c].fsm, call[c].peer, call[c].from)

\* The lock is taken again and the handler goes on: to OPEN_CONFIRM from
\* whatever state the FSM is in by now.
CollisionChecked(c) ==
    /\ CanStep(c, "collide") /\ call[c].ask = {}
    /\ LET f == call[c].fsm IN
       IF call[c].handled /\ LocalId > call[c].peer
       THEN TeardownCall(c, f, <<"cease">>, <<"cease">>)
       ELSE AcceptOpen(c, f, call[c].peer, call[c].from)

\* Back from the KEEPALIVE that answers an OPEN received in OPEN_SENT.
KeepaliveSent(c, ok) ==
    /\ CanStep(c, "ka_send")
    /\ LET f == call[c].fsm
           g == call[c].gen
           s == KeepaliveOut(fsm[f])
       IN  IF ok /\ Current(fsm[f], "OPEN_CONFIRM", g)
           THEN /\ fsm' = [fsm EXCEPT ![f] = EstablishPending(s, g)]
                /\ call' = [call EXCEPT ![c] =
                              IF s.lkPend THEN [Idle EXCEPT !.pc = "dump4", !.fsm = f, !.gen = g + 1]
                                          ELSE Idle]
           ELSE /\ fsm' = IF ok THEN fsm
                          ELSE [fsm EXCEPT ![f] = RollbackFailedLocalKeepalive(@, g)]
                /\ Finish(c)
    /\ UNCHANGED <<rib, uid, published>>

\* Passive open: back from the OPEN.  Clearing passive_open_send_pending and
\* setting local_keepalive_send_pending are two lock sections.
PassiveOpenSent(c, ok) ==
    /\ CanStep(c, "open_send")
    /\ LET f == call[c].fsm
           g == call[c].gen
       IN  IF ok /\ Current(fsm[f], "OPEN_CONFIRM", g)
           THEN /\ fsm' = [fsm EXCEPT ![f].poSend = FALSE]
                /\ call' = [call EXCEPT ![c].pc = "gap"]
           ELSE /\ fsm' = IF ok THEN fsm
                          ELSE [fsm EXCEPT ![f] = RollbackFailedLocalKeepalive(@, g)]
                /\ Finish(c)
    /\ UNCHANGED <<rib, uid, published>>

PassiveKeepalivePending(c) ==
    /\ CanStep(c, "gap")
    /\ LET f == call[c].fsm IN
       IF Current(fsm[f], "OPEN_CONFIRM", call[c].gen)
       THEN /\ fsm' = [fsm EXCEPT ![f].lkSend = TRUE]
            /\ call' = [call EXCEPT ![c].pc = "pka_send"]
       ELSE fsm' = fsm /\ Finish(c)
    /\ UNCHANGED <<rib, uid, published>>

\* Deviation: passive_keepalive_pending is not looked at.
PassiveKeepaliveForgotten(c, ok) ==
    /\ CanStep(c, "pka_send")
    /\ LET f == call[c].fsm
           g == call[c].gen
       IN  /\ fsm' = IF ok /\ Current(fsm[f], "OPEN_CONFIRM", g)
                     THEN [fsm EXCEPT ![f] = EstablishPending([@ EXCEPT !.lkSend = FALSE], g)]
                     ELSE [fsm EXCEPT ![f] = RollbackFailedLocalKeepalive(@, g)]
           /\ Finish(c)
    /\ UNCHANGED <<rib, uid, published>>

PassiveKeepaliveSent(c, ok) ==
    /\ CanStep(c, "pka_send")
    /\ LET f == call[c].fsm
           g == call[c].gen
           s == PassiveKeepaliveOut(fsm[f])
       IN  IF ok /\ Current(fsm[f], "OPEN_CONFIRM", g)
           THEN /\ fsm' = [fsm EXCEPT ![f] = EstablishPending(s, g)]
                /\ call' = [call EXCEPT ![c] =
                              IF s.lkPend THEN [Idle EXCEPT !.pc = "dump4", !.fsm = f, !.gen = g + 1]
                                          ELSE Idle]
           ELSE /\ fsm' = IF ok THEN fsm
                          ELSE [fsm EXCEPT ![f] = RollbackFailedLocalKeepalive(@, g)]
                /\ Finish(c)
    /\ UNCHANGED <<rib, uid, published>>

-----------------------------------------------------------------------------
(* Packets in OPEN_CONFIRM and ESTABLISHED, and NOTIFICATION in any state. *)

\* KEEPALIVE while our own answer is still being sent: remembered, not acted on.
KeepaliveDeferred(c, f) ==
    /\ CanEnter(c)
    /\ fsm[f].st = "OPEN_CONFIRM" /\ (fsm[f].poSend \/ fsm[f].lkSend)
    /\ fsm' = [fsm EXCEPT ![f] = IF fsm[f].poSend
                                 THEN [@ EXCEPT !.pkPend = TRUE, !.kaIn = TRUE]
                                 ELSE [@ EXCEPT !.lkPend = TRUE, !.kaIn = TRUE]]
    /\ UNCHANGED <<call, rib, uid, published>>

\* Deviation: the session comes up while our own answer is still being sent.
KeepaliveEstablishesEarly(c, f) ==
    /\ CanCall(c, f)
    /\ fsm[f].st = "OPEN_CONFIRM"
    /\ fsm' = [fsm EXCEPT ![f] = [Establish(@) EXCEPT !.kaIn = TRUE]]
    /\ call' = [call EXCEPT ![c] = [Idle EXCEPT !.pc = "dump4", !.fsm = f, !.gen = fsm[f].gen + 1]]
    /\ UNCHANGED <<rib, uid, published>>

KeepaliveEstablishes(c, f) ==
    /\ CanCall(c, f)
    /\ fsm[f].st = "OPEN_CONFIRM" /\ ~fsm[f].poSend /\ ~fsm[f].lkSend
    /\ fsm' = [fsm EXCEPT ![f] = [Establish(@) EXCEPT !.kaIn = TRUE]]
    /\ call' = [call EXCEPT ![c] = [Idle EXCEPT !.pc = "dump4", !.fsm = f, !.gen = fsm[f].gen + 1]]
    /\ UNCHANGED <<rib, uid, published>>

\* An UPDATE, an OPEN that is not expected or not acceptable.
ConfirmRejected(c, f) ==
    /\ CanCall(c, f)
    /\ fsm[f].st = "OPEN_CONFIRM"
    /\ TeardownCall(c, f, <<>>, <<"notify">>)

Notification(c, f) == CanCall(c, f) /\ TeardownCall(c, f, CleanUp, <<>>)

\* libbgp_fsm_on_raw_packet, bytes that do not parse: whatever session is there
\* when the lock is taken is torn down.
RawPacketError(c, f) ==
    /\ CanCall(c, f)
    /\ TeardownCall(c, f, CleanUp \o <<"notify">>, <<"notify">>)

NewRoute(f) == [fsm |-> f, gen |-> fsm[f].gen, uid |-> uid]

\* The RIB changes under the lock of the FSM.  The route events published after
\* the unlock find nothing left to do for this call, so no frame is kept.
UpdateAnnounces(c, f) ==
    /\ CanEnter(c)
    /\ fsm[f].st = "ESTABLISHED" /\ uid <= MaxUid
    /\ rib' = [rib EXCEPT ![fsm[f].peer] = NewRoute(f)]
    /\ uid' = uid + 1
    /\ UNCHANGED <<fsm, call, published>>

UpdateWithdraws(c, f) ==
    /\ CanEnter(c)
    /\ fsm[f].st = "ESTABLISHED"
    /\ rib' = [rib EXCEPT ![fsm[f].peer] = NoRoute]
    /\ UNCHANGED <<fsm, call, uid, published>>

\* fsm_apply_update runs out of memory after it has replaced or withdrawn the
\* route: the session stays up, the journal is rolled back after the unlock.
UpdateFails(c, f, route) ==
    /\ AllocFails /\ CanCall(c, f)
    /\ fsm[f].st = "ESTABLISHED" /\ uid <= MaxUid
    /\ LET p == fsm[f].peer IN
       /\ rib' = [rib EXCEPT ![p] = route]
       /\ call' = [call EXCEPT ![c] = RollbackFrame(f, fsm[f], rib[p], route.uid)]
    /\ uid' = uid + 1
    /\ UNCHANGED <<fsm, published>>

\* Not a packet for ESTABLISHED, or an UPDATE that is malformed: it is validated
\* as a whole before it is applied, so there is nothing to roll back.
EstablishedRejected(c, f) ==
    /\ CanCall(c, f)
    /\ fsm[f].st = "ESTABLISHED"
    /\ TeardownCall(c, f, <<"notify">> \o CleanUp, <<>>)

-----------------------------------------------------------------------------
(* What a frame does after it established the session.                     *)

AdvertiseExistingRib4(c, ok) ==
    /\ CanStep(c, "dump4")
    /\ LET f == call[c].fsm
           g == call[c].gen
       IN  IF ok /\ Current(fsm[f], "ESTABLISHED", g)
           THEN call' = [call EXCEPT ![c].pc = "dump6"] /\ UNCHANGED <<fsm, rib, uid, published>>
           ELSE IF ok THEN Finish(c) /\ UNCHANGED <<fsm, rib, uid, published>>
                ELSE TeardownCurrentEstablished(c, f, g)

\* Deviation: fsm_run_established_actions does not check again before SESSION_UP.
AdvertiseUnchecked(c, ok) ==
    /\ CanStep(c, "dump6") /\ ok
    /\ call' = [call EXCEPT ![c].pc = "up"]
    /\ UNCHANGED <<fsm, rib, uid, published>>

AdvertiseExistingRib6(c, ok) ==
    /\ CanStep(c, "dump6")
    /\ LET f == call[c].fsm
           g == call[c].gen
       IN  IF ok /\ Current(fsm[f], "ESTABLISHED", g)
           THEN call' = [call EXCEPT ![c].pc = "up"] /\ UNCHANGED <<fsm, rib, uid, published>>
           ELSE IF ok THEN Finish(c) /\ UNCHANGED <<fsm, rib, uid, published>>
                ELSE TeardownCurrentEstablished(c, f, g)

\* The lock is not held between the check in AdvertiseExistingRib6 and this.
SessionUp(c) ==
    /\ CanStep(c, "up")
    /\ published' = Append(published, <<"SESSION_UP", call[c].fsm, call[c].gen>>)
    /\ Finish(c)
    /\ UNCHANGED <<fsm, rib, uid>>

-----------------------------------------------------------------------------
(* Timers and route events.  Time is abstracted to "it has expired".       *)

TimerActive(s) == s.st \in {"OPEN_CONFIRM", "ESTABLISHED"}

HoldExpired(c, f) ==
    /\ CanCall(c, f)
    /\ TimerActive(fsm[f])
    /\ TeardownCall(c, f, <<"notify">> \o CleanUp, <<"notify">>)

KeepaliveDue(c, f) ==
    /\ CanCall(c, f)
    /\ TimerActive(fsm[f])
    /\ call' = [call EXCEPT ![c] = [Idle EXCEPT !.pc = "tick_send", !.fsm = f,
                                       !.gen = fsm[f].gen, !.from = fsm[f].st]]
    /\ UNCHANGED <<fsm, rib, uid, published>>

\* Deviation: the failed send tears the session down without discarding its routes
\* or publishing SESSION_DOWN.
TickTeardownSilent(c, ok) ==
    /\ CanStep(c, "tick_send")
    /\ LET f == call[c].fsm
           same == Current(fsm[f], call[c].from, call[c].gen)
       IN  IF ~ok /\ same
           THEN TeardownCall(c, f, <<>>, <<>>)
           ELSE /\ fsm' = IF same THEN [fsm EXCEPT ![f].kaOut = TRUE] ELSE fsm
                /\ Finish(c)
                /\ UNCHANGED <<rib, uid, published>>

\* The KEEPALIVE of tick() has been sent, or has failed.
TickKeepaliveSent(c, ok) ==
    /\ CanStep(c, "tick_send")
    /\ LET f == call[c].fsm
           same == Current(fsm[f], call[c].from, call[c].gen)
       IN  IF ~ok /\ same
           THEN TeardownCall(c, f, CleanUp, <<>>)
           ELSE /\ fsm' = IF same THEN [fsm EXCEPT ![f].kaOut = TRUE] ELSE fsm
                /\ Finish(c)
                /\ UNCHANGED <<rib, uid, published>>

\* fsm_route_event_cb: another source's route changed, tell this peer.
RouteEvent(c, f) ==
    /\ CanCall(c, f)
    /\ fsm[f].st = "ESTABLISHED"
    /\ call' = [call EXCEPT ![c] = [Idle EXCEPT !.pc = "event_send", !.fsm = f, !.gen = fsm[f].gen]]
    /\ UNCHANGED <<fsm, rib, uid, published>>

RouteEventSent(c, ok) ==
    /\ CanStep(c, "event_send")
    /\ IF ok THEN Finish(c) /\ UNCHANGED <<fsm, rib, uid, published>>
             ELSE TeardownCurrentEstablished(c, call[c].fsm, call[c].gen)

-----------------------------------------------------------------------------
(* The tasks after the lock was released.                                  *)

Doing(c, task) == CanStep(c, "work") /\ Head(call[c].todo) = task

Advance(c, todo) ==
    call' = [call EXCEPT ![c] = IF todo = <<>> THEN Idle ELSE [@ EXCEPT !.todo = todo]]

RemoveJournaledInsertion(c) ==
    /\ Doing(c, "rb_remove")
    /\ LET p == call[c].peer IN
       rib' = IF rib[p].uid = call[c].uid THEN [rib EXCEPT ![p] = NoRoute] ELSE rib
    /\ Advance(c, Tail(call[c].todo))
    /\ UNCHANGED <<fsm, uid, published>>

RestoreJournaledRoute(c) ==
    /\ Doing(c, "rb_restore")
    /\ LET p == call[c].peer IN
       rib' = IF rib[p] = NoRoute THEN [rib EXCEPT ![p] = call[c].saved] ELSE rib
    /\ Advance(c, Tail(call[c].todo))
    /\ UNCHANGED <<fsm, uid, published>>

\* bgp_rib4_discard_collect: the routes taken out are published afterwards.
DiscardPeerRoutes(c) ==
    /\ Doing(c, "discard")
    /\ LET p == call[c].peer IN
       /\ rib' = [rib EXCEPT ![p] = NoRoute]
       /\ call' = [call EXCEPT ![c].saved = rib[p], ![c].todo = Tail(@)]
    /\ UNCHANGED <<fsm, uid, published>>

\* A NOTIFICATION, or the ROUTE_WITHDRAWN and ROUTE_ADDED of the routes discarded.
SendOrPublish(c) ==
    /\ \E task \in {"notify", "cease", "routes"} : Doing(c, task)
    /\ Advance(c, Tail(call[c].todo))
    /\ UNCHANGED <<fsm, rib, uid, published>>

SessionDown(c) ==
    /\ Doing(c, "down")
    /\ published' = Append(published, <<"SESSION_DOWN", call[c].fsm, call[c].gen>>)
    /\ Advance(c, Tail(call[c].todo))
    /\ UNCHANGED <<fsm, rib, uid>>

-----------------------------------------------------------------------------
Init ==
    /\ fsm \in [Fsms -> {[st |-> "IDLE", gen |-> 0, peer |-> NoPeer,
                          lkSend |-> FALSE, lkPend |-> FALSE, poSend |-> FALSE, pkPend |-> FALSE,
                          kaOut |-> FALSE, kaIn |-> FALSE, valid |-> v] : v \in BOOLEAN}]
    /\ call = [c \in Calls |-> Idle]
    /\ rib = [p \in Peers |-> NoRoute]
    /\ uid = 1
    /\ published = <<>>

Enter(c, f) ==
    \/ \E to \in {"CONNECT", "ACTIVE"} : EnterPreOpenState(c, f, to)
    \/ Start(c, f)
    \/ Stop(c, f)
    \/ ResetSoft(c, f)
    \/ ResetHard(c, f)
    \/ \E p \in Peers : OpenPacket(c, f, p)
    \/ OpenRejected(c, f)
    \/ KeepaliveDeferred(c, f)
    \/ KeepaliveEstablishes(c, f)
    \/ ConfirmRejected(c, f)
    \/ Notification(c, f)
    \/ RawPacketError(c, f)
    \/ UpdateAnnounces(c, f)
    \/ UpdateWithdraws(c, f)
    \/ \E route \in {NewRoute(f), NoRoute} : UpdateFails(c, f, route)
    \/ EstablishedRejected(c, f)
    \/ HoldExpired(c, f)
    \/ KeepaliveDue(c, f)
    \/ RouteEvent(c, f)

Step(c) ==
    \/ \E ok \in BOOLEAN :
           \/ StartSent(c, ok)
           \/ KeepaliveSent(c, ok)
           \/ PassiveOpenSent(c, ok)
           \/ PassiveKeepaliveSent(c, ok)
           \/ AdvertiseExistingRib4(c, ok)
           \/ AdvertiseExistingRib6(c, ok)
           \/ TickKeepaliveSent(c, ok)
           \/ RouteEventSent(c, ok)
    \/ \E o \in Fsms : CollisionEvent(c, o)
    \/ CollisionChecked(c)
    \/ PassiveKeepalivePending(c)
    \/ SessionUp(c)
    \/ RemoveJournaledInsertion(c)
    \/ RestoreJournaledRoute(c)
    \/ DiscardPeerRoutes(c)
    \/ SendOrPublish(c)
    \/ SessionDown(c)

Next == \E c \in Calls : Step(c) \/ \E f \in Fsms : Enter(c, f)

Spec == Init /\ [][Next]_vars

-----------------------------------------------------------------------------
(* Properties.                                                             *)

\* Every variable has its type; a session has a peer exactly from the accepted
\* OPEN (fsm_on_open_sent, fsm_on_pre_open_open) to the teardown.
TypeOK ==
    /\ fsm \in [Fsms -> Session]
    /\ call \in [Calls -> Frame]
    /\ rib \in [Peers -> Route]
    /\ uid \in Nat
    /\ published \in Seq({"SESSION_UP", "SESSION_DOWN"} \X Fsms \X Nat)
    /\ \A f \in Fsms : fsm[f].peer # NoPeer <=> fsm[f].st \in {"OPEN_CONFIRM", "ESTABLISHED"}

\* The frame that is sending the answer to the OPEN of this very session.
Answering(c, f, pcs) ==
    call[c].pc \in pcs /\ call[c].fsm = f /\ call[c].gen = fsm[f].gen

\* A pending flag is up only in OPEN_CONFIRM, and only while a call is still on its
\* way to take it down: no KEEPALIVE of the peer is put aside (passive_ or
\* local_keepalive_pending) that nobody will come back for.
PendingHasOwner ==
    \A f \in Fsms :
        /\ fsm[f].poSend => /\ fsm[f].st = "OPEN_CONFIRM"
                            /\ \E c \in Calls : Answering(c, f, {"open_send"})
        /\ fsm[f].lkSend => /\ fsm[f].st = "OPEN_CONFIRM"
                            /\ \E c \in Calls : Answering(c, f, {"ka_send", "pka_send"})
        /\ fsm[f].lkPend => fsm[f].lkSend
        /\ fsm[f].pkPend => /\ fsm[f].st = "OPEN_CONFIRM"
                            /\ \E c \in Calls : Answering(c, f, {"open_send", "gap", "pka_send"})

\* fsm_rollback_failed_local_keepalive never finds the session ESTABLISHED: its
\* second condition (reentrant_established) cannot hold, so the rollback, which
\* discards no routes and publishes no SESSION_DOWN, is never applied to a session
\* that has any.
RollbackSparesEstablished ==
    \A c \in Calls : call[c].pc \in {"ka_send", "open_send", "pka_send"} =>
        ~Current(fsm[call[c].fsm], "ESTABLISHED", call[c].gen + 1)

\* ESTABLISHED is entered only after a KEEPALIVE of the peer that arrived in the
\* same attempt: one put aside for an attempt that was torn down does not count.
EstablishedNeedsPeerKeepalive ==
    \A f \in Fsms : fsm[f].st = "ESTABLISHED" => fsm[f].kaIn

\* ... and only after our own KEEPALIVE was accepted by the send function.
EstablishedNeedsOwnKeepalive ==
    \A f \in Fsms : fsm[f].st = "ESTABLISHED" => fsm[f].kaOut

Owes(c, task) == \E i \in 1..Len(call[c].todo) : call[c].todo[i] = task

\* A route in the RIB belongs to a session that is up, or a call that tore that
\* session down is about to discard it (fsm_discard_peer_routes_publish).
NoOrphanRoutes ==
    \A p \in Peers : rib[p] # NoRoute =>
        \/ Current(fsm[rib[p].fsm], "ESTABLISHED", rib[p].gen)
        \/ \E c \in Calls : call[c].peer = p /\ Owes(c, "discard")

\* SESSION_UP and SESSION_DOWN are published at most once per session, and
\* SESSION_UP never after the SESSION_DOWN of the same session.
UpBeforeDown ==
    \A i, j \in 1..Len(published) :
        /\ published[i] = published[j] => i = j
        /\ (/\ published[i][1] = "SESSION_DOWN" /\ published[j][1] = "SESSION_UP"
            /\ published[i][2] = published[j][2] /\ published[i][3] = published[j][3]) => j < i

\* Every change of the state opens a new generation, and no step skips or takes
\* back one: comparing session_generation is enough to notice that a session left
\* before a send is gone.
GenerationTracksState ==
    [][\A f \in Fsms : \/ fsm'[f].gen = fsm[f].gen /\ fsm'[f].st = fsm[f].st
                       \/ fsm'[f].gen = fsm[f].gen + 1]_vars

\* A session leaves ESTABLISHED only with a call that owes its peer's routes and the
\* SESSION_DOWN of that generation.
NoSilentDown ==
    [][\A f \in Fsms :
         fsm[f].st = "ESTABLISHED" /\ fsm'[f].gen # fsm[f].gen =>
             \E c \in Calls : /\ call'[c].fsm = f /\ call'[c].gen = fsm[f].gen
                              /\ call'[c].peer = fsm[f].peer
                              /\ Owes(c, "discard")' /\ Owes(c, "down")']_vars

\* An OPEN that was received in OPEN_SENT takes the FSM to OPEN_CONFIRM only in the
\* session generation in which it was received: a stop, a reset or a NOTIFICATION
\* that ends the attempt while the lock is released for the COLLISION event wins
\* over the handler that comes back from the event
\* (fsm_collision_reject_new_locked, fsm_on_open_sent).
NoStalePromotion ==
    [][\A c \in Calls :
         call[c].pc = "collide" /\ call[c].from = "OPEN_SENT" /\ call'[c].pc = "ka_send" =>
             Current(fsm[call[c].fsm], "OPEN_SENT", call[c].gen)]_vars

\* Between calls at most one FSM negotiates with a peer (fsm_collision_event_cb,
\* fsm_collision_reject_new_locked).
OneNegotiationPerPeer ==
    (\A c \in Calls : call[c].pc = "idle") =>
        \A f, o \in Fsms : f # o /\ fsm[f].st = "OPEN_CONFIRM" /\ fsm[o].st = "OPEN_CONFIRM"
                              => fsm[f].peer # fsm[o].peer

-----------------------------------------------------------------------------
(* Liveness: a call that has begun ends.  The send functions, the          *)
(* subscribers and the lock are assumed to come back; no call is assumed   *)
(* ever to be made.  A callback that goes on making calls into the FSM for *)
(* ever would never return to the call it was made from, which is waiting  *)
(* again after each of them: that it returns is strong fairness.           *)

FairSpec == Spec /\ \A c \in Calls : SF_vars(Step(c))

\* A KEEPALIVE put aside during a send is acted on: the session comes up or the
\* attempt is given up, OPEN_CONFIRM does not last.
DeferredKeepaliveResolved ==
    \A f \in Fsms : (fsm[f].lkPend \/ fsm[f].pkPend) ~> fsm[f].st # "OPEN_CONFIRM"

\* A route whose session is gone leaves the RIB.
StaleRoutesLeave ==
    \A p \in Peers :
        (rib[p] # NoRoute /\ ~Current(fsm[rib[p].fsm], "ESTABLISHED", rib[p].gen))
            ~> (rib[p] = NoRoute \/ Current(fsm[rib[p].fsm], "ESTABLISHED", rib[p].gen))
=============================================================================
