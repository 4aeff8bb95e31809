-------------------------- MODULE FsmSessionProofs --------------------------
(***************************************************************************)
(* Proofs about FsmSession, for any number of FSMs, calls and peers, for   *)
(* threads and for nested calls, with and without an event bus.            *)
(***************************************************************************)
EXTENDS FsmSession, TLAPS

\* The routes are discarded for a peer, and something is left to do after it.
Tidy(todo) == \A i \in 1..Len(todo) : todo[i] = "discard" => i # Len(todo)

Discards(todo) == \E i \in 1..Len(todo) : todo[i] = "discard"

\* What the type of a frame leaves open: tasks are left in "work", start()
\* came from a state it may start in, a collision is about a peer, and so is
\* the discarding of routes.
FrameOK ==
    \A c \in Calls : /\ call[c].pc = "work" => call[c].todo # <<>>
                     /\ call[c].pc = "start_send" => call[c].from \in PreOpen
                     /\ call[c].pc = "collide" => call[c].peer \in Peers
                     /\ Tidy(call[c].todo)
                     /\ Discards(call[c].todo) => call[c].peer \in Peers

TypeInv == TypeOK /\ FrameOK

-----------------------------------------------------------------------------
(* What the operators on session records and frames return.                *)

\* The values Idle, NoRoute and Init's records have their types.
LEMMA Constants ==
    /\ AnyFsm \in Fsms
    /\ NoRoute \in Route
    /\ Idle \in Frame
    /\ Idle.pc = "idle" /\ Idle.gen = 0 /\ Idle.todo = <<>> /\ Idle.fsm = AnyFsm
    /\ Idle.peer = NoPeer
<1>1. AnyFsm \in Fsms
  BY FsmsAssumption, Zenon DEF AnyFsm
<1>2. NoRoute \in Route
  BY <1>1, Zenon DEF NoRoute, Route
<1>3. Idle \in Frame
  BY <1>1, <1>2 DEF Idle, Frame, Pcs, States, NoPeer
<1>. QED
  BY <1>1, <1>2, <1>3, Zenon DEF Idle

\* Moved opens the next generation without a peer and without a pending flag.
LEMMA MovedFacts ==
    ASSUME NEW s \in Session, NEW to \in States
    PROVE  /\ Moved(s, to) \in Session
           /\ Moved(s, to).st = to /\ Moved(s, to).gen = s.gen + 1
           /\ Moved(s, to).peer = NoPeer
           /\ ~Moved(s, to).lkSend /\ ~Moved(s, to).lkPend
           /\ ~Moved(s, to).poSend /\ ~Moved(s, to).pkPend
           /\ ~Moved(s, to).kaIn
BY DEF Moved, NewGeneration, Session, NoPeer

\* Marking the KEEPALIVE as sent clears the flag of the send and no other.
LEMMA KeepaliveOutFacts ==
    ASSUME NEW s \in Session
    PROVE  LET t == KeepaliveOut(s)
           IN  /\ t \in Session /\ ~t.lkSend /\ t.kaOut
               /\ t.st = s.st /\ t.gen = s.gen /\ t.peer = s.peer /\ t.kaIn = s.kaIn
               /\ t.lkPend = s.lkPend /\ t.pkPend = s.pkPend /\ t.poSend = s.poSend
BY Zenon DEF KeepaliveOut, Session

\* After a passive OPEN it also makes a deferred KEEPALIVE count.
LEMMA PassiveKeepaliveOutFacts ==
    ASSUME NEW s \in Session
    PROVE  LET t == PassiveKeepaliveOut(s)
           IN  /\ t \in Session /\ ~t.lkSend /\ t.kaOut
               /\ t.st = s.st /\ t.gen = s.gen /\ t.peer = s.peer /\ t.kaIn = s.kaIn
               /\ t.lkPend = (s.pkPend \/ s.lkPend)
               /\ t.pkPend = s.pkPend /\ t.poSend = s.poSend
<1>. DEFINE deferred == s.pkPend \/ s.lkPend
<1>1. deferred \in BOOLEAN
  BY Zenon
<1>2. PassiveKeepaliveOut(s) = [s EXCEPT !.lkSend = FALSE, !.lkPend = deferred, !.kaOut = TRUE]
  BY Zenon DEF PassiveKeepaliveOut
<1>3. deferred <=> (s.pkPend \/ s.lkPend)
  BY Zenon
<1>. HIDE DEF deferred
<1>. QED
  BY <1>1, <1>2, <1>3, Zenon DEF Session

\* A teardown is a move to IDLE.
LEMMA TeardownFacts ==
    ASSUME NEW s \in Session
    PROVE  /\ Teardown(s) \in Session
           /\ Teardown(s).st = "IDLE" /\ Teardown(s).gen = s.gen + 1
           /\ Teardown(s).peer = NoPeer
           /\ ~Teardown(s).lkSend /\ ~Teardown(s).lkPend
           /\ ~Teardown(s).poSend /\ ~Teardown(s).pkPend
           /\ ~Teardown(s).kaIn
BY MovedFacts, Zenon DEF Teardown, States

\* An accepted OPEN opens the next generation with one pending flag up.
LEMMA OpenConfirmFacts ==
    ASSUME NEW s \in Session, NEW p \in Peers, NEW from
    PROVE  LET t == OpenConfirm(s, p, from) IN
           /\ t \in Session
           /\ t.st = "OPEN_CONFIRM" /\ t.gen = s.gen + 1 /\ t.peer = p
           /\ t.lkSend <=> from \notin PreOpen
           /\ t.poSend <=> from \in PreOpen
           /\ ~t.lkPend /\ ~t.pkPend
BY DEF OpenConfirm, NewGeneration, Session, States

\* Establishing keeps the peer and takes every flag down.
LEMMA EstablishFacts ==
    ASSUME NEW s \in Session
    PROVE  /\ Establish(s) \in Session
           /\ Establish(s).st = "ESTABLISHED" /\ Establish(s).gen = s.gen + 1
           /\ Establish(s).peer = s.peer
           /\ ~Establish(s).lkSend /\ ~Establish(s).lkPend
           /\ ~Establish(s).poSend /\ ~Establish(s).pkPend
           /\ Establish(s).kaIn = s.kaIn /\ Establish(s).kaOut = s.kaOut
BY DEF Establish, Session, States

\* A frame with tasks belongs to the FSM and the generation it was made for.
LEMMA WorkFrameFacts ==
    ASSUME NEW f \in Fsms, NEW s \in Session, NEW todo \in Seq(Tasks)
    PROVE  LET fr == WorkFrame(f, s, todo) IN
           /\ fr \in Frame
           /\ fr.pc \in {"idle", "work"}
           /\ fr.pc = "work" => /\ fr.todo # <<>> /\ fr.fsm = f /\ fr.gen = s.gen
                                /\ fr.peer = s.peer /\ fr.todo = todo
           /\ fr.pc = "idle" => fr = Idle /\ todo = <<>>
BY Constants, Zenon DEF WorkFrame, Frame, Session, Pcs, Idle

-----------------------------------------------------------------------------
(* Types.  Every action replaces at most one session and one frame.        *)

SessionOK(s) ==
    s \in Session /\ (s.peer # NoPeer <=> s.st \in {"OPEN_CONFIRM", "ESTABLISHED"})

FrameIsOK(fr) ==
    /\ fr \in Frame
    /\ fr.pc = "work" => fr.todo # <<>>
    /\ fr.pc = "start_send" => fr.from \in PreOpen
    /\ fr.pc = "collide" => fr.peer \in Peers
    /\ Tidy(fr.todo)
    /\ Discards(fr.todo) => fr.peer \in Peers

Published == Seq({"SESSION_UP", "SESSION_DOWN"} \X Fsms \X Nat)

\* A step that replaces one session and one frame by well-formed ones keeps TypeInv.
LEMMA TypeStep ==
    ASSUME TypeInv, NEW c \in Calls, NEW f \in Fsms, NEW s, NEW fr,
           SessionOK(s), FrameIsOK(fr),
           fsm' = [fsm EXCEPT ![f] = s], call' = [call EXCEPT ![c] = fr],
           rib' \in [Peers -> Route], uid' \in Nat, published' \in Published
    PROVE  TypeInv'
<1>1. fsm' \in [Fsms -> Session] /\ call' \in [Calls -> Frame]
  BY Zenon DEF TypeInv, TypeOK, SessionOK, FrameIsOK
<1>2. \A o \in Fsms : fsm'[o].peer # NoPeer <=> fsm'[o].st \in {"OPEN_CONFIRM", "ESTABLISHED"}
  BY Zenon DEF TypeInv, TypeOK, SessionOK
<1>3. FrameOK'
  BY Zenon DEF TypeInv, TypeOK, FrameOK, FrameIsOK
<1>. QED
  BY <1>1, <1>2, <1>3, Zenon DEF TypeInv, TypeOK, Published

\* The sessions and frames of a well-typed state are well-formed.
LEMMA TypeParts ==
    ASSUME TypeInv
    PROVE  /\ \A f \in Fsms : SessionOK(fsm[f]) /\ fsm = [fsm EXCEPT ![f] = fsm[f]]
           /\ \A c \in Calls : FrameIsOK(call[c]) /\ call = [call EXCEPT ![c] = call[c]]
           /\ \A c \in Calls : call[c] \in Frame /\ call[c].fsm \in Fsms
           /\ rib \in [Peers -> Route] /\ uid \in Nat /\ published \in Published
BY Zenon DEF TypeInv, TypeOK, FrameOK, SessionOK, FrameIsOK, Published, Frame

\* The task lists of the source are tidy task lists.
LEMMA TaskLists ==
    /\ \A todo \in {CleanUp, <<"discard", "routes", "cease", "down">>, <<"notify">> \o CleanUp,
                    <<"cease">> \o CleanUp, CleanUp \o <<"notify">>} :
            todo \in Seq(Tasks) /\ Tidy(todo)
    /\ \A todo \in {<<>>, <<"notify">>, <<"cease">>, <<"rb_remove", "rb_restore">>} :
            todo \in Seq(Tasks) /\ Tidy(todo) /\ ~Discards(todo)
<1>1. /\ CleanUp \in Seq(Tasks) /\ <<"notify">> \in Seq(Tasks) /\ <<"cease">> \in Seq(Tasks)
      /\ <<>> \in Seq(Tasks)
      /\ <<"discard", "routes", "cease", "down">> \in Seq(Tasks)
      /\ <<"rb_remove", "rb_restore">> \in Seq(Tasks)
  BY DEF CleanUp, Tasks
<1>2. /\ <<"notify">> \o CleanUp \in Seq(Tasks) /\ <<"cease">> \o CleanUp \in Seq(Tasks)
      /\ CleanUp \o <<"notify">> \in Seq(Tasks)
  BY <1>1
<1>3. Tidy(CleanUp) /\ Tidy(<<"discard", "routes", "cease", "down">>)
  BY DEF CleanUp, Tidy
<1>4. /\ Tidy(<<"notify">> \o CleanUp) /\ Tidy(<<"cease">> \o CleanUp)
      /\ Tidy(CleanUp \o <<"notify">>)
  BY DEF CleanUp, Tidy
<1>5. \A todo \in {<<>>, <<"notify">>, <<"cease">>, <<"rb_remove", "rb_restore">>} :
          Tidy(todo) /\ ~Discards(todo)
  BY DEF Tidy, Discards
<1>. QED
  BY <1>1, <1>2, <1>3, <1>4, <1>5, Zenon

\* A frame without tasks discards nothing.
LEMMA NoTasks == Tidy(<<>>) /\ ~Discards(<<>>)
BY DEF Tidy, Discards

\* Idle is a well-formed frame.
LEMMA IdleOK == FrameIsOK(Idle) /\ Tidy(Idle.todo) /\ ~Discards(Idle.todo)
BY Constants, TaskLists, Zenon DEF FrameIsOK

\* The frame of a failed UPDATE is well-formed.
LEMMA RollbackFrameOK ==
    ASSUME NEW f \in Fsms, NEW s \in Session, NEW saved \in Route, NEW id \in Nat
    PROVE  /\ FrameIsOK(RollbackFrame(f, s, saved, id))
           /\ RollbackFrame(f, s, saved, id).pc = "work"
           /\ RollbackFrame(f, s, saved, id).fsm = f
           /\ RollbackFrame(f, s, saved, id).gen = s.gen
<1>1. s.gen \in Nat /\ s.peer \in Peers \cup {NoPeer} /\ "work" \in Pcs
  BY Zenon DEF Session, Pcs
<1>2. RollbackFrame(f, s, saved, id) \in Frame
  BY <1>1, TaskLists, Constants, Zenon DEF RollbackFrame, Frame, Idle
<1>3. RollbackFrame(f, s, saved, id).todo = <<"rb_remove", "rb_restore">>
  BY Zenon DEF RollbackFrame, Idle
<1>. QED
  BY <1>2, <1>3, TaskLists, Zenon DEF FrameIsOK, RollbackFrame, Idle

\* TeardownCall keeps TypeInv, whatever tasks it leaves.
LEMMA TypeTeardownCall ==
    ASSUME TypeInv, NEW c \in Calls, NEW f \in Fsms,
           NEW e \in Seq(Tasks), NEW o \in Seq(Tasks), Tidy(e), Tidy(o), ~Discards(o),
           TeardownCall(c, f, e, o)
    PROVE  TypeInv'
<1>. DEFINE todo == IF fsm[f].st = "ESTABLISHED" THEN e ELSE o
            fr == WorkFrame(f, fsm[f], todo)
<1>1. SessionOK(fsm[f])
  BY TypeParts, Zenon
<1>2. SessionOK(Teardown(fsm[f]))
  BY <1>1, TeardownFacts, Zenon DEF SessionOK
<1>3. FrameIsOK(fr)
  <2>1. todo \in Seq(Tasks) /\ Tidy(todo) /\ (Discards(todo) => fsm[f].peer \in Peers)
    BY <1>1, Zenon DEF SessionOK, Session
  <2>. HIDE DEF todo
  <2>. QED
    BY <1>1, <2>1, WorkFrameFacts, IdleOK DEF SessionOK, FrameIsOK
<1>4. fsm' = [fsm EXCEPT ![f] = Teardown(fsm[f])] /\ call' = [call EXCEPT ![c] = fr]
  BY Zenon DEF TeardownCall
<1>5. rib' \in [Peers -> Route] /\ uid' \in Nat /\ published' \in Published
  BY TypeParts, Zenon DEF TeardownCall
<1>. HIDE DEF fr
<1>. QED
  BY <1>2, <1>3, <1>4, <1>5, TypeStep, Zenon

\* TeardownCurrentEstablished either tears down or only ends the call.
LEMMA TypeTeardownCurrent ==
    ASSUME TypeInv, NEW c \in Calls, NEW f \in Fsms, NEW g,
           TeardownCurrentEstablished(c, f, g)
    PROVE  TypeInv'
<1>1. CASE Current(fsm[f], "ESTABLISHED", g)
  BY <1>1, TypeTeardownCall, TaskLists, Zenon DEF TeardownCurrentEstablished
<1>2. CASE ~Current(fsm[f], "ESTABLISHED", g)
  <2>1. fsm' = [fsm EXCEPT ![f] = fsm[f]] /\ call' = [call EXCEPT ![c] = Idle]
    BY <1>2, TypeParts, Zenon DEF TeardownCurrentEstablished, Finish
  <2>2. rib' \in [Peers -> Route] /\ uid' \in Nat /\ published' \in Published
    BY <1>2, TypeParts, Zenon DEF TeardownCurrentEstablished
  <2>. QED
    BY <2>1, <2>2, TypeParts, IdleOK, TypeStep, Zenon
<1>. QED
  BY <1>1, <1>2, Zenon

\* AcceptOpen puts a well-formed session and frame in place.
LEMMA TypeAcceptOpen ==
    ASSUME TypeInv, NEW c \in Calls, NEW f \in Fsms, NEW p \in Peers, NEW from,
           AcceptOpen(c, f, p, from)
    PROVE  TypeInv'
<1>. DEFINE s == OpenConfirm(fsm[f], p, from)
            fr == [Idle EXCEPT !.pc = IF from \in PreOpen THEN "open_send" ELSE "ka_send",
                               !.fsm = f, !.gen = fsm[f].gen + 1, !.peer = p]
<1>1. fsm[f] \in Session /\ fsm[f].gen + 1 \in Nat
  BY TypeParts DEF SessionOK, Session
<1>2. SessionOK(s)
  BY <1>1, OpenConfirmFacts, IdsAssumption DEF SessionOK, NoPeer
<1>3. FrameIsOK(fr)
  <2>1. /\ FrameIsOK([Idle EXCEPT !.pc = "open_send", !.fsm = f, !.gen = fsm[f].gen + 1, !.peer = p])
        /\ FrameIsOK([Idle EXCEPT !.pc = "ka_send", !.fsm = f, !.gen = fsm[f].gen + 1, !.peer = p])
    BY <1>1, Constants, NoTasks, Zenon DEF FrameIsOK, Frame, Idle, Pcs, SendPcs
  <2>. QED
    BY <2>1, Zenon
<1>4. fsm' = [fsm EXCEPT ![f] = s] /\ call' = [call EXCEPT ![c] = fr]
  BY Zenon DEF AcceptOpen
<1>5. rib' \in [Peers -> Route] /\ uid' \in Nat /\ published' \in Published
  BY TypeParts, Zenon DEF AcceptOpen
<1>. HIDE DEF s, fr
<1>. QED
  BY <1>2, <1>3, <1>4, <1>5, TypeStep, Zenon

\* A step that changes no session but gives call c a well-formed frame keeps TypeInv.
LEMMA TypeFrameStep ==
    ASSUME TypeInv, NEW c \in Calls, NEW fr, FrameIsOK(fr), fsm' = fsm,
           call' = [call EXCEPT ![c] = fr],
           rib' \in [Peers -> Route], uid' \in Nat, published' \in Published
    PROVE  TypeInv'
<1>1. PICK f \in Fsms : TRUE
  BY FsmsAssumption, Zenon
<1>2. SessionOK(fsm[f]) /\ fsm' = [fsm EXCEPT ![f] = fsm[f]]
  BY TypeParts, Zenon
<1>. QED
  BY <1>2, TypeStep, Zenon

\* Entering a call keeps TypeInv.
LEMMA TypeEnter ==
    ASSUME TypeInv, NEW c \in Calls, NEW f \in Fsms, Enter(c, f)
    PROVE  TypeInv'
<1>. USE TypeParts
<1>0. SessionOK(fsm[f]) /\ fsm[f] \in Session /\ fsm[f].gen \in Nat /\ fsm[f].gen + 1 \in Nat
  BY DEF SessionOK, Session
<1>1. ASSUME NEW to \in {"CONNECT", "ACTIVE"}, EnterPreOpenState(c, f, to)
      PROVE  TypeInv'
  <2>1. SessionOK(Moved(fsm[f], to))
    BY <1>0, MovedFacts DEF SessionOK, States
  <2>. QED
    BY <1>1, <2>1, TypeStep, Zenon DEF EnterPreOpenState
<1>2. CASE Start(c, f)
  <2>1. SessionOK(Moved(fsm[f], "OPEN_SENT"))
    BY <1>0, MovedFacts, Zenon DEF SessionOK, States
  <2>2. FrameIsOK([Idle EXCEPT !.pc = "start_send", !.fsm = f,
                               !.gen = fsm[f].gen + 1, !.from = fsm[f].st])
    BY <1>0, <1>2, Constants, NoTasks, ZenonT(60) DEF Start, FrameIsOK, Frame, Idle, Pcs, SendPcs, PreOpen, States
  <2>. QED
    BY <1>2, <2>1, <2>2, TypeStep, Zenon DEF Start
<1>3. CASE Stop(c, f) \/ ResetSoft(c, f) \/ ResetHard(c, f)
  BY <1>3, TaskLists, TypeTeardownCall, Zenon DEF Stop, ResetSoft, ResetHard
<1>4. ASSUME NEW p \in Peers, OpenPacket(c, f, p)
      PROVE  TypeInv'
  <2>1. CASE CollisionDetection
    <3>1. FrameIsOK([Idle EXCEPT !.pc = "collide", !.fsm = f, !.gen = fsm[f].gen, !.peer = p,
                                 !.from = fsm[f].st, !.ask = Fsms \ {f}])
      <4>. DEFINE fr == [Idle EXCEPT !.pc = "collide", !.fsm = f, !.gen = fsm[f].gen, !.peer = p,
                                     !.from = fsm[f].st, !.ask = Fsms \ {f}]
      <4>1. fr \in Frame /\ fr.pc = "collide" /\ fr.peer = p /\ fr.todo = <<>>
        BY <1>0, Constants, NoTasks, Zenon DEF Frame, Idle, Pcs, Session
      <4>. HIDE DEF fr
      <4>2. FrameIsOK(fr)
        BY <4>1, NoTasks, Zenon DEF FrameIsOK
      <4>. QED
        BY <4>2, Zenon DEF fr
    <3>. QED
      BY <1>4, <2>1, <3>1, TypeFrameStep DEF OpenPacket
  <2>2. CASE ~CollisionDetection
    BY <1>4, <2>2, TypeAcceptOpen, Zenon DEF OpenPacket
  <2>. QED
    BY <2>1, <2>2, Zenon
<1>5. CASE OpenRejected(c, f) \/ ConfirmRejected(c, f) \/ Notification(c, f)
           \/ RawPacketError(c, f) \/ EstablishedRejected(c, f) \/ HoldExpired(c, f)
  BY <1>5, TaskLists, TypeTeardownCall, Zenon
     DEF OpenRejected, ConfirmRejected, Notification, RawPacketError, EstablishedRejected, HoldExpired
<1>6. CASE KeepaliveDeferred(c, f)
  <2>1. /\ SessionOK([fsm[f] EXCEPT !.pkPend = TRUE, !.kaIn = TRUE])
        /\ SessionOK([fsm[f] EXCEPT !.lkPend = TRUE, !.kaIn = TRUE])
    BY <1>0, Zenon DEF SessionOK, Session
  <2>. QED
    BY <1>6, <2>1, TypeStep, Zenon DEF KeepaliveDeferred
<1>7. CASE KeepaliveEstablishes(c, f)
  <2>1. SessionOK(Establish(fsm[f])) /\ Establish(fsm[f]) \in Session
    BY <1>0, <1>7, EstablishFacts, Zenon DEF SessionOK, KeepaliveEstablishes
  <2>2. SessionOK([Establish(fsm[f]) EXCEPT !.kaIn = TRUE])
    BY <2>1, Zenon DEF SessionOK, Session
  <2>3. FrameIsOK([Idle EXCEPT !.pc = "dump4", !.fsm = f, !.gen = fsm[f].gen + 1])
    BY <1>0, Constants, NoTasks, Zenon DEF FrameIsOK, Frame, Idle, Pcs, SendPcs
  <2>. QED
    BY <1>7, <2>2, <2>3, TypeStep, Zenon DEF KeepaliveEstablishes
<1>8. CASE UpdateAnnounces(c, f) \/ UpdateWithdraws(c, f)
  <2>1. NewRoute(f) \in Route /\ NoRoute \in Route
    BY <1>0, Constants, Zenon DEF NewRoute, Route
  <2>2. rib' \in [Peers -> Route] /\ uid' \in Nat /\ published' \in Published
        /\ fsm' = fsm /\ call' = [call EXCEPT ![c] = call[c]]
    BY <1>8, <2>1 DEF UpdateAnnounces, UpdateWithdraws
  <2>. QED
    BY <2>2, TypeFrameStep, Zenon
<1>9. ASSUME NEW route \in {NewRoute(f), NoRoute}, UpdateFails(c, f, route)
      PROVE  TypeInv'
  <2>1. route \in Route /\ route.uid \in Nat
    BY <1>0, Constants DEF NewRoute, Route
  <2>2. fsm[f].peer \in Peers /\ rib[fsm[f].peer] \in Route
    BY <1>0, <1>9, Zenon DEF UpdateFails, SessionOK, Session
  <2>3. FrameIsOK(RollbackFrame(f, fsm[f], rib[fsm[f].peer], route.uid))
    BY <1>0, <2>1, <2>2, RollbackFrameOK, Zenon
  <2>4. rib' \in [Peers -> Route] /\ uid' \in Nat /\ published' \in Published
    <3>1. rib' = [rib EXCEPT ![fsm[f].peer] = route] /\ uid' = uid + 1 /\ published' = published
      BY <1>9, Zenon DEF UpdateFails
    <3>2. rib \in [Peers -> Route] /\ uid + 1 \in Nat
      OBVIOUS
    <3>3. rib' \in [Peers -> Route]
      BY <2>1, <3>1, <3>2, Zenon
    <3>. QED
      BY <3>1, <3>2, <3>3, Zenon
  <2>. QED
    BY <1>9, <2>3, <2>4, TypeFrameStep, Zenon DEF UpdateFails
<1>10. CASE KeepaliveDue(c, f) \/ RouteEvent(c, f)
  <2>1. /\ FrameIsOK([Idle EXCEPT !.pc = "tick_send", !.fsm = f, !.gen = fsm[f].gen, !.from = fsm[f].st])
        /\ FrameIsOK([Idle EXCEPT !.pc = "event_send", !.fsm = f, !.gen = fsm[f].gen])
    BY <1>0, Constants, NoTasks, ZenonT(60) DEF FrameIsOK, Frame, Idle, Pcs, SendPcs, Session
  <2>. QED
    BY <1>10, <2>1, TypeFrameStep DEF KeepaliveDue, RouteEvent
<1>. QED
  BY <1>1, <1>2, <1>3, <1>4, <1>5, <1>6, <1>7, <1>8, <1>9, <1>10, Zenon DEF Enter

\* Going on with the next task keeps the frame well-formed.
LEMMA AdvanceOK ==
    ASSUME NEW fr, FrameIsOK(fr), fr.pc = "work"
    PROVE  /\ Tail(fr.todo) \in Seq(Tasks)
           /\ FrameIsOK(IF Tail(fr.todo) = <<>> THEN Idle ELSE [fr EXCEPT !.todo = Tail(fr.todo)])
           /\ Head(fr.todo) = "discard" => /\ fr.peer \in Peers /\ Tail(fr.todo) # <<>>
                                           /\ \A r \in Route : FrameIsOK([fr EXCEPT !.saved = r, !.todo = Tail(fr.todo)])
<1>. DEFINE todo == fr.todo
            rest == Tail(fr.todo)
<1>1. fr \in Frame /\ todo \in Seq(Tasks) /\ todo # <<>>
  BY Zenon DEF FrameIsOK, Frame
<1>2. rest \in Seq(Tasks) /\ Len(rest) = Len(todo) - 1 /\ Len(todo) \in Nat \ {0}
      /\ \A i \in 1..Len(rest) : i + 1 \in 1..Len(todo) /\ rest[i] = todo[i + 1]
  BY <1>1
<1>3. Tidy(rest) /\ (Discards(rest) => fr.peer \in Peers)
  <2>1. Tidy(todo) /\ (Discards(todo) => fr.peer \in Peers)
    BY Zenon DEF FrameIsOK
  <2>. HIDE DEF todo, rest
  <2>. QED
    BY <1>2, <2>1 DEF Tidy, Discards
<1>4. Head(todo) = "discard" => fr.peer \in Peers /\ rest # <<>>
  <2>1. Tidy(todo) /\ (Discards(todo) => fr.peer \in Peers) /\ Head(todo) = todo[1]
    BY <1>1 DEF FrameIsOK
  <2>. HIDE DEF todo, rest
  <2>. QED
    BY <1>2, <2>1 DEF Tidy, Discards
<1>. HIDE DEF rest
<1>5. /\ [fr EXCEPT !.todo = rest] \in Frame
      /\ \A r \in Route : [fr EXCEPT !.saved = r, !.todo = rest] \in Frame
  BY <1>1, <1>2, Zenon DEF Frame
<1>6. /\ rest # <<>> => FrameIsOK([fr EXCEPT !.todo = rest])
      /\ rest # <<>> => \A r \in Route : FrameIsOK([fr EXCEPT !.saved = r, !.todo = rest])
  BY <1>1, <1>3, <1>5, Zenon DEF FrameIsOK, Frame
<1>. QED
  BY <1>2, <1>4, <1>6, IdleOK, Zenon DEF rest

\* A rollback, and a KEEPALIVE found pending, keep the session well-formed.
LEMMA RollbackOK ==
    ASSUME NEW s, SessionOK(s), NEW g
    PROVE  SessionOK(RollbackFailedLocalKeepalive(s, g)) /\ SessionOK(EstablishPending(s, g))
BY TeardownFacts, EstablishFacts
   DEF SessionOK, RollbackFailedLocalKeepalive, EstablishPending, Current

\* A step of a call keeps TypeInv: back from a send.
LEMMA TypeSent ==
    ASSUME TypeInv, NEW c \in Calls, NEW ok \in BOOLEAN,
           \/ StartSent(c, ok)
           \/ KeepaliveSent(c, ok)
           \/ PassiveOpenSent(c, ok)
           \/ PassiveKeepaliveSent(c, ok)
    PROVE  TypeInv'
<1>. DEFINE f == call[c].fsm
            g == call[c].gen
            dump == [Idle EXCEPT !.pc = "dump4", !.fsm = f, !.gen = g + 1]
<1>1. /\ f \in Fsms /\ g \in Nat /\ g + 1 \in Nat
      /\ SessionOK(fsm[f]) /\ fsm[f] \in Session /\ FrameIsOK(call[c]) /\ call[c] \in Frame
  BY TypeParts, SMTT(30) DEF SessionOK, Frame
<1>2. /\ rib' \in [Peers -> Route] /\ uid' \in Nat /\ published' \in Published
  BY TypeParts, Zenon DEF StartSent, KeepaliveSent, PassiveOpenSent, PassiveKeepaliveSent
<1>3. FrameIsOK(dump)
  BY <1>1, Constants, NoTasks, Zenon DEF FrameIsOK, Frame, Idle, Pcs, SendPcs
<1>4. fsm = [fsm EXCEPT ![f] = fsm[f]]
  BY <1>1, TypeParts, Zenon
<1>. HIDE DEF f, g, dump
<1>5. CASE StartSent(c, ok)
  <2>1. call[c].from \in PreOpen
    BY <1>1, <1>5, SMTT(30) DEF StartSent, CanStep, FrameIsOK
  <2>2. SessionOK(Moved(fsm[f], call[c].from))
    BY <1>1, <2>1, MovedFacts DEF SessionOK, PreOpen, States
  <2>. QED
    BY <1>1, <1>2, <1>4, <1>5, <2>2, IdleOK, TypeStep, Zenon DEF StartSent, Finish, f
<1>6. CASE KeepaliveSent(c, ok)
  <2>. DEFINE s == KeepaliveOut(fsm[f])
  <2>1. SessionOK(s)
    BY <1>1, KeepaliveOutFacts, Zenon DEF SessionOK
  <2>2. /\ SessionOK(EstablishPending(s, g))
        /\ SessionOK(RollbackFailedLocalKeepalive(fsm[f], g))
    BY <1>1, <2>1, RollbackOK, Zenon
  <2>. HIDE DEF s
  <2>3. \E t \in {EstablishPending(s, g), fsm[f], RollbackFailedLocalKeepalive(fsm[f], g)} :
          fsm' = [fsm EXCEPT ![f] = t]
    BY <1>4, <1>6, Zenon DEF KeepaliveSent, f, g, s
  <2>4. \E fr \in {dump, Idle} : call' = [call EXCEPT ![c] = fr]
    BY <1>6, Zenon DEF KeepaliveSent, Finish, f, g, dump
  <2>. QED
    BY <1>1, <1>2, <1>3, <2>2, <2>3, <2>4, IdleOK, TypeStep, Zenon
<1>7. CASE PassiveOpenSent(c, ok)
  <2>1. SessionOK([fsm[f] EXCEPT !.poSend = FALSE])
    BY <1>1, Zenon DEF SessionOK, Session
  <2>2. SessionOK(RollbackFailedLocalKeepalive(fsm[f], g))
    BY <1>1, RollbackOK, Zenon
  <2>3. FrameIsOK([call[c] EXCEPT !.pc = "gap"])
    BY <1>1, Zenon DEF FrameIsOK, Frame, Pcs
  <2>4. \E t \in {[fsm[f] EXCEPT !.poSend = FALSE], fsm[f], RollbackFailedLocalKeepalive(fsm[f], g)} :
          fsm' = [fsm EXCEPT ![f] = t]
    BY <1>4, <1>7, Zenon DEF PassiveOpenSent, f, g
  <2>5. \E fr \in {[call[c] EXCEPT !.pc = "gap"], Idle} : call' = [call EXCEPT ![c] = fr]
    BY <1>7, Zenon DEF PassiveOpenSent, Finish, f, g
  <2>. QED
    BY <1>1, <1>2, <2>1, <2>2, <2>3, <2>4, <2>5, IdleOK, TypeStep, Zenon
<1>8. CASE PassiveKeepaliveSent(c, ok)
  <2>. DEFINE s == PassiveKeepaliveOut(fsm[f])
  <2>1. SessionOK(s)
    BY <1>1, PassiveKeepaliveOutFacts, Zenon DEF SessionOK
  <2>2. /\ SessionOK(EstablishPending(s, g))
        /\ SessionOK(RollbackFailedLocalKeepalive(fsm[f], g))
    BY <1>1, <2>1, RollbackOK
  <2>. HIDE DEF s
  <2>3. \E t \in {EstablishPending(s, g), fsm[f], RollbackFailedLocalKeepalive(fsm[f], g)} :
          fsm' = [fsm EXCEPT ![f] = t]
    BY <1>4, <1>8, Zenon DEF PassiveKeepaliveSent, f, g, s
  <2>4. \E fr \in {dump, Idle} : call' = [call EXCEPT ![c] = fr]
    BY <1>8, Zenon DEF PassiveKeepaliveSent, Finish, f, g, dump
  <2>. QED
    BY <1>1, <1>2, <1>3, <2>2, <2>3, <2>4, IdleOK, TypeStep, Zenon
<1>. QED
  BY <1>5, <1>6, <1>7, <1>8, Zenon

\* A step of a call keeps TypeInv: the other steps.
LEMMA TypeOtherStep ==
    ASSUME TypeInv, NEW c \in Calls, NEW ok \in BOOLEAN, NEW o \in Fsms,
           \/ AdvertiseExistingRib4(c, ok) \/ AdvertiseExistingRib6(c, ok)
           \/ TickKeepaliveSent(c, ok) \/ RouteEventSent(c, ok)
           \/ CollisionEvent(c, o) \/ CollisionChecked(c)
           \/ PassiveKeepalivePending(c) \/ SessionUp(c)
    PROVE  TypeInv'
<1>. DEFINE f == call[c].fsm
            g == call[c].gen
<1>1. /\ f \in Fsms /\ g \in Nat
      /\ SessionOK(fsm[f]) /\ fsm[f] \in Session /\ FrameIsOK(call[c]) /\ call[c] \in Frame
  BY TypeParts, Zenon DEF SessionOK, Frame
<1>2. rib \in [Peers -> Route] /\ uid \in Nat /\ published \in Published
  BY TypeParts, Zenon
<1>3. /\ FrameIsOK([call[c] EXCEPT !.pc = "dump6"]) /\ FrameIsOK([call[c] EXCEPT !.pc = "up"])
      /\ FrameIsOK([call[c] EXCEPT !.pc = "pka_send"])
  BY <1>1 DEF FrameIsOK, Frame, Pcs, SendPcs
<1>. HIDE DEF f, g
<1>4. CASE AdvertiseExistingRib4(c, ok) \/ AdvertiseExistingRib6(c, ok)
  <2>1. CASE TeardownCurrentEstablished(c, f, g)
    BY <1>1, <2>1, TypeTeardownCurrent, Zenon
  <2>2. CASE /\ \E fr \in {Idle, [call[c] EXCEPT !.pc = "dump6"], [call[c] EXCEPT !.pc = "up"]} :
                   call' = [call EXCEPT ![c] = fr]
             /\ UNCHANGED <<fsm, rib, uid, published>>
    BY <1>2, <1>3, <2>2, IdleOK, TypeFrameStep, Zenon
  <2>. QED
    BY <1>4, <2>1, <2>2, Zenon DEF AdvertiseExistingRib4, AdvertiseExistingRib6, Finish, f, g
<1>5. CASE TickKeepaliveSent(c, ok)
  <2>1. CASE TeardownCall(c, f, CleanUp, <<>>)
    BY <1>1, <2>1, TypeTeardownCall, TaskLists, Zenon
  <2>2. SessionOK([fsm[f] EXCEPT !.kaOut = TRUE])
    BY <1>1, Zenon DEF SessionOK, Session
  <2>3. CASE /\ \E t \in {fsm[f], [fsm[f] EXCEPT !.kaOut = TRUE]} : fsm' = [fsm EXCEPT ![f] = t]
             /\ Finish(c) /\ UNCHANGED <<rib, uid, published>>
    BY <1>1, <1>2, <2>2, <2>3, IdleOK, TypeStep, Zenon DEF Finish
  <2>4. fsm = [fsm EXCEPT ![f] = fsm[f]]
    BY <1>1, TypeParts, Zenon
  <2>. QED
    BY <1>5, <2>1, <2>3, <2>4, Zenon DEF TickKeepaliveSent, f, g
<1>6. CASE RouteEventSent(c, ok)
  <2>1. CASE TeardownCurrentEstablished(c, f, g)
    BY <1>1, <2>1, TypeTeardownCurrent
  <2>2. CASE Finish(c) /\ UNCHANGED <<fsm, rib, uid, published>>
    BY <1>2, <2>2, IdleOK, TypeFrameStep, Zenon DEF Finish
  <2>. QED
    BY <1>6, <2>1, <2>2, Zenon DEF RouteEventSent, f, g
<1>7. CASE CollisionEvent(c, o)
  <2>. DEFINE meant == fsm[o].st = "OPEN_CONFIRM" /\ fsm[o].peer = call[c].peer
              fr == [call[c] EXCEPT !.ask = call[c].ask \ {o}, !.handled = call[c].handled \/ meant]
  <2>1. SessionOK(fsm[o]) /\ SessionOK(Teardown(fsm[o])) /\ fsm = [fsm EXCEPT ![o] = fsm[o]]
    BY TypeParts, TeardownFacts, Zenon DEF SessionOK
  <2>2. FrameIsOK(fr)
    <3>1. (call[c].handled \/ meant) \in BOOLEAN
      BY <1>1, Zenon DEF Frame
    <3>2. ASSUME NEW h \in BOOLEAN
          PROVE  FrameIsOK([call[c] EXCEPT !.ask = call[c].ask \ {o}, !.handled = h])
      BY <1>1, Zenon DEF FrameIsOK, Frame
    <3>. QED
      BY <3>1, <3>2, Zenon
  <2>. HIDE DEF fr
  <2>3. call' = [call EXCEPT ![c] = fr]
    BY <1>7, Zenon DEF CollisionEvent, fr
  <2>4. \E t \in {fsm[o], Teardown(fsm[o])} : fsm' = [fsm EXCEPT ![o] = t]
    BY <1>7, <2>1, Zenon DEF CollisionEvent
  <2>5. rib' = rib /\ uid' = uid /\ published' = published
    BY <1>7, SMTT(30) DEF CollisionEvent
  <2>. QED
    BY <1>2, <2>1, <2>2, <2>3, <2>4, <2>5, TypeStep, Zenon
<1>8. CASE CollisionChecked(c)
  <2>1. call[c].peer \in Peers
    BY <1>1, <1>8, SMTT(30) DEF CollisionChecked, CanStep, FrameIsOK
  <2>. QED
    BY <1>1, <1>8, <2>1, TypeTeardownCall, TypeAcceptOpen, TaskLists, Zenon DEF CollisionChecked, f
<1>9. CASE PassiveKeepalivePending(c)
  <2>1. SessionOK([fsm[f] EXCEPT !.lkSend = TRUE])
    BY <1>1, Zenon DEF SessionOK, Session
  <2>2. CASE /\ fsm' = [fsm EXCEPT ![f] = [fsm[f] EXCEPT !.lkSend = TRUE]]
             /\ call' = [call EXCEPT ![c] = [call[c] EXCEPT !.pc = "pka_send"]]
             /\ UNCHANGED <<rib, uid, published>>
    BY <1>1, <1>2, <1>3, <2>1, <2>2, TypeStep, Zenon
  <2>3. CASE Finish(c) /\ UNCHANGED <<fsm, rib, uid, published>>
    BY <1>2, <2>3, IdleOK, TypeFrameStep, Zenon DEF Finish
  <2>. QED
    BY <1>9, <2>2, <2>3, Zenon DEF PassiveKeepalivePending, f
<1>10. CASE SessionUp(c)
  <2>1. published' \in Published
    BY <1>1, <1>2, <1>10, SMTT(30) DEF SessionUp, Published, f, g
  <2>. QED
    BY <1>2, <1>10, <2>1, IdleOK, TypeFrameStep, Zenon DEF SessionUp, Finish
<1>. QED
  BY <1>4, <1>5, <1>6, <1>7, <1>8, <1>9, <1>10, Zenon

\* A step of a call keeps TypeInv: the tasks after the unlock.
LEMMA TypeTask ==
    ASSUME TypeInv, NEW c \in Calls,
           \/ RemoveJournaledInsertion(c) \/ RestoreJournaledRoute(c)
           \/ DiscardPeerRoutes(c) \/ SendOrPublish(c) \/ SessionDown(c)
    PROVE  TypeInv'
<1>1. FrameIsOK(call[c]) /\ call[c] \in Frame /\ call[c].pc = "work"
  BY TypeParts, SMTT(30) DEF RemoveJournaledInsertion, RestoreJournaledRoute, DiscardPeerRoutes,
                   SendOrPublish, SessionDown, Doing, CanStep
<1>2. rib \in [Peers -> Route] /\ uid \in Nat /\ published \in Published
  BY TypeParts, Zenon
<1>3. fsm' = fsm /\ uid' = uid
  BY Zenon DEF RemoveJournaledInsertion, RestoreJournaledRoute, DiscardPeerRoutes,
         SendOrPublish, SessionDown
<1>4. rib' \in [Peers -> Route]
  <2>1. NoRoute \in Route /\ call[c].saved \in Route
    BY <1>1, Constants, Zenon DEF Frame
  <2>. QED
    BY <1>2, <2>1, Zenon DEF RemoveJournaledInsertion, RestoreJournaledRoute, DiscardPeerRoutes,
                      SendOrPublish, SessionDown
<1>5. published' \in Published
  <2>1. call[c].fsm \in Fsms /\ call[c].gen \in Nat
    BY <1>1, Zenon DEF Frame
  <2>2. Append(published, <<"SESSION_DOWN", call[c].fsm, call[c].gen>>) \in Published
    BY <1>2, <2>1 DEF Published
  <2>. QED
    BY <1>2, <2>2, Zenon DEF RemoveJournaledInsertion, RestoreJournaledRoute, DiscardPeerRoutes,
                      SendOrPublish, SessionDown
<1>6. CASE DiscardPeerRoutes(c)
  <2>1. Head(call[c].todo) = "discard"
    BY <1>6, Zenon DEF DiscardPeerRoutes, Doing
  <2>2. rib[call[c].peer] \in Route
    BY <1>1, <1>2, <2>1, AdvanceOK, Zenon
  <2>3. FrameIsOK([call[c] EXCEPT !.saved = rib[call[c].peer], !.todo = Tail(call[c].todo)])
    BY <1>1, <2>1, <2>2, AdvanceOK, Zenon
  <2>. QED
    BY <1>2, <1>3, <1>4, <1>5, <1>6, <2>3, TypeFrameStep, ZenonT(60) DEF DiscardPeerRoutes
<1>7. CASE ~DiscardPeerRoutes(c)
  <2>1. Advance(c, Tail(call[c].todo))
    BY <1>7, SMTT(30) DEF RemoveJournaledInsertion, RestoreJournaledRoute, SendOrPublish, SessionDown
  <2>. DEFINE fr == IF Tail(call[c].todo) = <<>> THEN Idle
                    ELSE [call[c] EXCEPT !.todo = Tail(call[c].todo)]
  <2>2. FrameIsOK(fr)
    BY <1>1, AdvanceOK, Zenon
  <2>3. call' = [call EXCEPT ![c] = fr]
    BY <2>1, Zenon DEF Advance
  <2>. HIDE DEF fr
  <2>. QED
    BY <1>2, <1>3, <1>4, <1>5, <2>2, <2>3, TypeFrameStep, Zenon
<1>. QED
  BY <1>6, <1>7, Zenon

\* Every step keeps TypeInv.
LEMMA TypeNext ==
    ASSUME TypeInv, [Next]_vars
    PROVE  TypeInv'
<1>1. CASE UNCHANGED vars
  BY <1>1, Zenon DEF vars, TypeInv, TypeOK, FrameOK
<1>2. ASSUME NEW c \in Calls, NEW f \in Fsms, Enter(c, f)
      PROVE  TypeInv'
  BY <1>2, TypeEnter, Zenon
<1>3. ASSUME NEW c \in Calls, Step(c)
      PROVE  TypeInv'
  <2>1. TRUE \in BOOLEAN /\ AnyFsm \in Fsms
    BY Constants, Zenon
  <2>. QED
    BY <1>3, <2>1, TypeSent, TypeOtherStep, TypeTask, Zenon DEF Step
<1>. QED
  BY <1>1, <1>2, <1>3, Zenon DEF Next

\* Init satisfies TypeInv.
LEMMA TypeInit == Init => TypeInv
<1>. SUFFICES ASSUME Init PROVE TypeInv
  BY Zenon
<1>1. fsm \in [Fsms -> Session]
  <2>1. ASSUME NEW v \in BOOLEAN
        PROVE  [st |-> "IDLE", gen |-> 0, peer |-> NoPeer,
                lkSend |-> FALSE, lkPend |-> FALSE, poSend |-> FALSE, pkPend |-> FALSE,
                kaOut |-> FALSE, kaIn |-> FALSE, valid |-> v] \in Session
    BY Zenon DEF Session, States
  <2>2. PICK R : fsm \in [Fsms -> R] /\ \A r \in R : r \in Session
    BY <2>1, Zenon DEF Init
  <2>. QED
    BY <2>2, Zenon
<1>2. \A f \in Fsms : fsm[f].peer # NoPeer <=> fsm[f].st \in {"OPEN_CONFIRM", "ESTABLISHED"}
  BY DEF Init
<1>3. call \in [Calls -> Frame] /\ rib \in [Peers -> Route] /\ uid \in Nat /\ published = <<>>
  BY Constants, Zenon DEF Init
<1>4. FrameOK
  BY IdleOK, Zenon DEF Init, FrameOK, FrameIsOK
<1>. QED
  BY <1>1, <1>2, <1>3, <1>4 DEF TypeInv, TypeOK

\* The type invariant, for every value of the constants: a session has a peer
\* exactly from the accepted OPEN (fsm_on_open_sent, fsm_on_pre_open_open) to the
\* teardown (fsm_snapshot_teardown).
THEOREM TypeCorrect == Spec => []TypeOK
<1>1. Init => TypeInv
  BY TypeInit, Zenon
<1>2. TypeInv /\ [Next]_vars => TypeInv'
  BY TypeNext, Zenon
<1>3. TypeInv => TypeOK
  BY SMTT(30) DEF TypeInv
<1>. QED
  BY <1>1, <1>2, <1>3, PTL DEF Spec

-----------------------------------------------------------------------------
(* The pending flags and the call that sends the answer to an OPEN.        *)
(*                                                                         *)
(* RollbackSparesEstablished and PendingHasOwner are not inductive: the    *)
(* first needs to know that nobody else can establish a session whose      *)
(* answer is being sent.  AnswerOwns ties the flags to the pc of the one   *)
(* frame that has the generation of the session, OneAnswer says it is one. *)

Senders == {"ka_send", "open_send", "pka_send"}

Answers == Senders \cup {"gap"}

\* What is true of a frame that answers an OPEN of the session s.
Owns(fr, s) ==
    /\ fr.gen <= s.gen
    /\ fr.gen = s.gen => /\ s.st = "OPEN_CONFIRM"
                         /\ s.poSend <=> fr.pc = "open_send"
                         /\ s.lkSend <=> fr.pc \in {"ka_send", "pka_send"}
    /\ fr.pc \in Senders => ~Current(s, "ESTABLISHED", fr.gen + 1)

AnswerOwns == \A c \in Calls : call[c].pc \in Answers => Owns(call[c], fsm[call[c].fsm])

OneAnswer ==
    \A c, d \in Calls :
        /\ c # d /\ call[c].pc \in Answers /\ call[d].pc \in Answers
        /\ call[c].fsm = call[d].fsm
        => call[c].gen # call[d].gen

\* A KEEPALIVE put aside, and the one that established a session, did arrive.
KeepaliveArrived ==
    \A f \in Fsms : fsm[f].lkPend \/ fsm[f].pkPend \/ fsm[f].st = "ESTABLISHED" => fsm[f].kaIn

IInv == AnswerOwns /\ OneAnswer /\ PendingHasOwner /\ KeepaliveArrived

\* The kinds of steps.  s is the new session of FSM f, fr the new frame of call c.
Clear(s) == ~s.lkSend /\ ~s.lkPend /\ ~s.poSend /\ ~s.pkPend

\* What is left to do after the end of a session that was up.
Endings == {CleanUp, <<"discard", "routes", "cease", "down">>, <<"notify">> \o CleanUp,
            <<"cease">> \o CleanUp, CleanUp \o <<"notify">>}

\* The frame fr cleans up after the session f has now.
Ends(f, fr) ==
    /\ fr.pc = "work" /\ fr.fsm = f /\ fr.gen = fsm[f].gen /\ fr.peer = fsm[f].peer
    /\ fr.todo \in Endings

\* The session ends, or is established when no one else is answering its OPEN.
NewGenerationStep(c, f, s, fr) ==
    /\ s.gen = fsm[f].gen + 1 /\ s.st # "OPEN_CONFIRM" /\ Clear(s)
    /\ fr.pc \notin Answers
    /\ call[c].pc \in Answers => call[c].fsm = f
    /\ fsm[f].st = "ESTABLISHED" => call[c].pc = "collide" \/ Ends(f, fr)
    /\ s.st # "ESTABLISHED" => fr.pc # "dump4"
    /\ s.st = "ESTABLISHED" =>
         /\ s.kaIn
         /\ \/ s.kaOut
            \/ CanEnter(c) /\ ~fsm[f].poSend /\ ~fsm[f].lkSend /\ s.kaOut = fsm[f].kaOut
         /\ fsm[f].st = "OPEN_CONFIRM"
         /\ fr.pc = "dump4" /\ fr.fsm = f /\ fr.gen = s.gen
         /\ \A d \in Calls \ {c} :
                call[d].pc \in Senders /\ call[d].fsm = f => call[d].gen # fsm[f].gen

\* Nothing changes that the invariant speaks of.
QuietStep(c, f, s, fr) ==
    /\ s.st = fsm[f].st /\ s.gen = fsm[f].gen /\ s.kaIn = fsm[f].kaIn
    /\ s.lkSend = fsm[f].lkSend /\ s.lkPend = fsm[f].lkPend
    /\ s.poSend = fsm[f].poSend /\ s.pkPend = fsm[f].pkPend
    /\ s.peer = fsm[f].peer /\ (fsm[f].kaOut => s.kaOut)
    /\ fr.pc \notin Answers /\ fr.pc # "dump4"
    /\ call[c].pc \in Answers => call[c].gen # fsm[call[c].fsm].gen

\* Every other FSM was asked, and none that goes on objects.
Unopposed(c, f, s) ==
    /\ call[c].pc = "collide" /\ call[c].ask = {} /\ call[c].fsm = f /\ call[c].peer = s.peer
    /\ ~(call[c].handled /\ LocalId > call[c].peer)

\* An OPEN is accepted.
AcceptStep(c, f, s, fr) ==
    /\ s.gen = fsm[f].gen + 1 /\ s.st = "OPEN_CONFIRM" /\ ~s.lkPend /\ ~s.pkPend
    /\ fr.pc \in {"open_send", "ka_send"} /\ fr.fsm = f /\ fr.gen = s.gen
    /\ s.poSend <=> fr.pc = "open_send"
    /\ s.lkSend <=> fr.pc = "ka_send"
    /\ call[c].pc \notin Answers
    /\ fsm[f].st = "ESTABLISHED" => call[c].pc = "collide"
    /\ CollisionDetection => Unopposed(c, f, s)

\* The frame that answers the OPEN goes on, in the same generation.
AnswerStep(c, f, s, fr) ==
    /\ call[c].pc \in Answers /\ call[c].fsm = f /\ call[c].gen = fsm[f].gen
    /\ s.st = "OPEN_CONFIRM" /\ s.gen = fsm[f].gen /\ s.kaIn = fsm[f].kaIn
    /\ s.peer = fsm[f].peer
    /\ ~s.lkPend /\ ~s.poSend
    /\ s.kaOut \/ s.lkSend \/ fr.pc = "gap"
    /\ s.pkPend => fsm[f].pkPend
    /\ fr.pc \in {"gap", "pka_send"} => fr.fsm = f /\ fr.gen = s.gen
    /\ fr.pc \notin {"open_send", "ka_send", "dump4"}
    /\ s.lkSend <=> fr.pc = "pka_send"
    /\ s.pkPend => fr.pc \in {"gap", "pka_send"}

\* A KEEPALIVE is put aside.
DeferStep(c, f, s, fr) ==
    /\ s.st = "OPEN_CONFIRM" /\ fsm[f].st = "OPEN_CONFIRM" /\ s.gen = fsm[f].gen /\ s.kaIn
    /\ s.peer = fsm[f].peer /\ s.kaOut = fsm[f].kaOut
    /\ s.lkSend = fsm[f].lkSend /\ s.poSend = fsm[f].poSend
    /\ s.lkPend => s.lkSend
    /\ s.pkPend => fsm[f].pkPend \/ s.poSend
    /\ fr = call[c] /\ call[c].pc = "idle"

Kind(c, f) ==
    \E s \in Session, fr \in Frame :
        /\ fsm' = [fsm EXCEPT ![f] = s] /\ call' = [call EXCEPT ![c] = fr]
        /\ \/ NewGenerationStep(c, f, s, fr)
           \/ QuietStep(c, f, s, fr)
           \/ AcceptStep(c, f, s, fr)
           \/ AnswerStep(c, f, s, fr)
           \/ DeferStep(c, f, s, fr)

-----------------------------------------------------------------------------
\* The state after a step that replaces one session and one frame.
LEMMA After ==
    ASSUME TypeInv, NEW c \in Calls, NEW f \in Fsms, NEW s, NEW fr,
           fsm' = [fsm EXCEPT ![f] = s], call' = [call EXCEPT ![c] = fr]
    PROVE  /\ \A o \in Fsms : fsm'[o] = IF o = f THEN s ELSE fsm[o]
           /\ \A d \in Calls : call'[d] = IF d = c THEN fr ELSE call[d]
           /\ \A o \in Fsms : fsm[o] \in Session /\ fsm[o].gen \in Nat
           /\ \A d \in Calls : call[d].gen \in Nat /\ call[d].fsm \in Fsms
BY TypeParts, Zenon DEF TypeInv, TypeOK, SessionOK, Session, Frame

\* Every kind of step keeps IInv; one lemma per kind.  A new generation leaves
\* the answers of the old one behind.
LEMMA NewGenerationKeeps ==
    ASSUME TypeInv, TypeInv', IInv, NEW c \in Calls, NEW f \in Fsms, NEW s \in Session, NEW fr \in Frame,
           fsm' = [fsm EXCEPT ![f] = s], call' = [call EXCEPT ![c] = fr],
           NewGenerationStep(c, f, s, fr)
    PROVE  IInv'
<1>1. /\ \A o \in Fsms : fsm'[o] = IF o = f THEN s ELSE fsm[o]
      /\ \A d \in Calls : call'[d] = IF d = c THEN fr ELSE call[d]
      /\ \A o \in Fsms : fsm[o] \in Session /\ fsm[o].gen \in Nat
      /\ \A d \in Calls : call[d].gen \in Nat /\ call[d].fsm \in Fsms
  BY After, Zenon
<1>. USE <1>1 DEF NewGenerationStep, IInv, Clear
<1>2. AnswerOwns'
  <2>. SUFFICES ASSUME NEW d \in Calls, d # c, call[d].pc \in Answers
                PROVE  Owns(call[d], fsm'[call[d].fsm])
    BY DEF AnswerOwns
  <2>1. Owns(call[d], fsm[call[d].fsm])
    BY Zenon DEF AnswerOwns
  <2>2. CASE call[d].fsm # f
    BY <2>1, <2>2, SMTT(30)
  <2>3. CASE call[d].fsm = f
    BY <2>1, <2>3 DEF Owns, Current
  <2>. QED
    BY <2>2, <2>3, SMTT(30)
<1>3. OneAnswer'
  BY SMTT(30) DEF OneAnswer
<1>4. PendingHasOwner'
  <2>. SUFFICES ASSUME NEW o \in Fsms, o # f
                PROVE  /\ fsm[o].poSend => /\ fsm[o].st = "OPEN_CONFIRM"
                                           /\ \E d \in Calls : Answering(d, o, {"open_send"})'
                       /\ fsm[o].lkSend => /\ fsm[o].st = "OPEN_CONFIRM"
                                           /\ \E d \in Calls : Answering(d, o, {"ka_send", "pka_send"})'
                       /\ fsm[o].lkPend => fsm[o].lkSend
                       /\ fsm[o].pkPend => /\ fsm[o].st = "OPEN_CONFIRM"
                                           /\ \E d \in Calls : Answering(d, o, {"open_send", "gap", "pka_send"})'
    BY DEF PendingHasOwner
  <2>1. ASSUME NEW d \in Calls, NEW pcs \in SUBSET Answers, Answering(d, o, pcs)
        PROVE  Answering(d, o, pcs)'
    BY <2>1 DEF Answering
  <2>. QED
    BY <2>1, SMTT(30) DEF PendingHasOwner, Answers, Senders
<1>5. KeepaliveArrived'
  BY DEF KeepaliveArrived
<1>. QED
  BY <1>2, <1>3, <1>4, <1>5, Zenon

\* A stale answer may end; nothing else changes.
LEMMA QuietKeeps ==
    ASSUME TypeInv, TypeInv', IInv, NEW c \in Calls, NEW f \in Fsms, NEW s \in Session, NEW fr \in Frame,
           fsm' = [fsm EXCEPT ![f] = s], call' = [call EXCEPT ![c] = fr],
           QuietStep(c, f, s, fr)
    PROVE  IInv'
<1>1. /\ \A o \in Fsms : fsm'[o] = IF o = f THEN s ELSE fsm[o]
      /\ \A d \in Calls : call'[d] = IF d = c THEN fr ELSE call[d]
      /\ \A o \in Fsms : fsm[o] \in Session /\ fsm[o].gen \in Nat
      /\ \A d \in Calls : call[d].gen \in Nat /\ call[d].fsm \in Fsms
  BY After, Zenon
<1>2. \A o \in Fsms : /\ fsm'[o].st = fsm[o].st /\ fsm'[o].gen = fsm[o].gen
                      /\ fsm'[o].kaIn = fsm[o].kaIn
                      /\ fsm'[o].lkSend = fsm[o].lkSend /\ fsm'[o].lkPend = fsm[o].lkPend
                      /\ fsm'[o].poSend = fsm[o].poSend /\ fsm'[o].pkPend = fsm[o].pkPend
  BY <1>1, Zenon DEF QuietStep
<1>3. fr.pc \notin Answers /\ (call[c].pc \in Answers => call[c].gen # fsm[call[c].fsm].gen)
  BY SMTT(30) DEF QuietStep
<1>. USE <1>1 DEF IInv
<1>4. AnswerOwns'
  BY <1>2, <1>3, SMTT(30) DEF AnswerOwns, Owns, Current
<1>5. OneAnswer'
  BY <1>3, SMTT(30) DEF OneAnswer
<1>6. PendingHasOwner'
  <2>1. ASSUME NEW o \in Fsms, NEW d \in Calls, NEW pcs \in SUBSET Answers, Answering(d, o, pcs)
        PROVE  Answering(d, o, pcs)'
    BY <1>2, <1>3, <2>1, SMTT(30) DEF Answering
  <2>. QED
    BY <1>2, <2>1 DEF PendingHasOwner, Answers, Senders
<1>7. KeepaliveArrived'
  BY <1>2, SMTT(30) DEF KeepaliveArrived
<1>. QED
  BY <1>4, <1>5, <1>6, <1>7, Zenon

\* The new answer has a generation no other frame has.
LEMMA AcceptKeeps ==
    ASSUME TypeInv, TypeInv', IInv, NEW c \in Calls, NEW f \in Fsms, NEW s \in Session, NEW fr \in Frame,
           fsm' = [fsm EXCEPT ![f] = s], call' = [call EXCEPT ![c] = fr],
           AcceptStep(c, f, s, fr)
    PROVE  IInv'
<1>1. /\ \A o \in Fsms : fsm'[o] = IF o = f THEN s ELSE fsm[o]
      /\ \A d \in Calls : call'[d] = IF d = c THEN fr ELSE call[d]
      /\ \A o \in Fsms : fsm[o] \in Session /\ fsm[o].gen \in Nat
      /\ \A d \in Calls : call[d].gen \in Nat /\ call[d].fsm \in Fsms
  BY After, Zenon
<1>. USE <1>1 DEF AcceptStep, IInv
<1>2. \A d \in Calls : call[d].pc \in Answers /\ call[d].fsm = f => call[d].gen < s.gen
  BY DEF AnswerOwns, Owns
<1>3. AnswerOwns'
  <2>1. Owns(fr, s)
    BY SMTT(30) DEF Owns, Current
  <2>2. ASSUME NEW d \in Calls, d # c, call[d].pc \in Answers
        PROVE  Owns(call[d], fsm'[call[d].fsm])
    BY <1>2, <2>2, SMTT(30) DEF AnswerOwns, Owns, Current
  <2>. QED
    BY <2>1, <2>2 DEF AnswerOwns
<1>4. OneAnswer'
  BY <1>2, SMTT(30) DEF OneAnswer
<1>5. PendingHasOwner'
  <2>1. ASSUME NEW o \in Fsms, o # f, NEW d \in Calls, NEW pcs \in SUBSET Answers, Answering(d, o, pcs)
        PROVE  Answering(d, o, pcs)'
    BY <2>1, SMTT(30) DEF Answering
  <2>2. ASSUME NEW o \in Fsms, o # f
        PROVE  /\ fsm[o].poSend => /\ fsm[o].st = "OPEN_CONFIRM"
                                   /\ \E d \in Calls : Answering(d, o, {"open_send"})'
               /\ fsm[o].lkSend => /\ fsm[o].st = "OPEN_CONFIRM"
                                   /\ \E d \in Calls : Answering(d, o, {"ka_send", "pka_send"})'
               /\ fsm[o].lkPend => fsm[o].lkSend
               /\ fsm[o].pkPend => /\ fsm[o].st = "OPEN_CONFIRM"
                                   /\ \E d \in Calls : Answering(d, o, {"open_send", "gap", "pka_send"})'
    BY <2>1, <2>2, Zenon DEF PendingHasOwner, Answers, Senders
  <2>3. /\ s.poSend => Answering(c, f, {"open_send"})'
        /\ s.lkSend => Answering(c, f, {"ka_send", "pka_send"})'
    BY Zenon DEF Answering
  <2>. QED
    BY <2>2, <2>3, SMTT(30) DEF PendingHasOwner
<1>6. KeepaliveArrived'
  BY DEF KeepaliveArrived
<1>. QED
  BY <1>3, <1>4, <1>5, <1>6, SMTT(30)

\* Another frame that answers an OPEN of this FSM has an older generation.
LEMMA AnswerKeeps ==
    ASSUME TypeInv, TypeInv', IInv, NEW c \in Calls, NEW f \in Fsms, NEW s \in Session, NEW fr \in Frame,
           fsm' = [fsm EXCEPT ![f] = s], call' = [call EXCEPT ![c] = fr],
           AnswerStep(c, f, s, fr)
    PROVE  IInv'
<1>1. /\ \A o \in Fsms : fsm'[o] = IF o = f THEN s ELSE fsm[o]
      /\ \A d \in Calls : call'[d] = IF d = c THEN fr ELSE call[d]
      /\ \A o \in Fsms : fsm[o] \in Session /\ fsm[o].gen \in Nat
      /\ \A d \in Calls : call[d].gen \in Nat /\ call[d].fsm \in Fsms
  BY After, Zenon
<1>. USE <1>1 DEF AnswerStep, IInv
<1>2. \A d \in Calls \ {c} : call[d].pc \in Answers /\ call[d].fsm = f => call[d].gen < s.gen
  BY SMTT(30) DEF AnswerOwns, Owns, OneAnswer
<1>3. AnswerOwns'
  <2>1. fr.pc \in Answers => Owns(fr, s)
    BY SMTT(30) DEF Owns, Current, Answers, Senders
  <2>2. ASSUME NEW d \in Calls, d # c, call[d].pc \in Answers
        PROVE  Owns(call[d], fsm'[call[d].fsm])
    BY <1>2, <2>2, SMTT(30) DEF AnswerOwns, Owns, Current
  <2>. QED
    BY <2>1, <2>2, SMTT(30) DEF AnswerOwns, Answers, Senders
<1>4. OneAnswer'
  BY <1>2, SMTT(30) DEF OneAnswer, Answers, Senders
<1>5. PendingHasOwner'
  <2>1. ASSUME NEW o \in Fsms, o # f, NEW d \in Calls, NEW pcs \in SUBSET Answers, Answering(d, o, pcs)
        PROVE  Answering(d, o, pcs)'
    BY <2>1, SMTT(30) DEF Answering
  <2>2. ASSUME NEW o \in Fsms, o # f
        PROVE  /\ fsm[o].poSend => /\ fsm[o].st = "OPEN_CONFIRM"
                                   /\ \E d \in Calls : Answering(d, o, {"open_send"})'
               /\ fsm[o].lkSend => /\ fsm[o].st = "OPEN_CONFIRM"
                                   /\ \E d \in Calls : Answering(d, o, {"ka_send", "pka_send"})'
               /\ fsm[o].lkPend => fsm[o].lkSend
               /\ fsm[o].pkPend => /\ fsm[o].st = "OPEN_CONFIRM"
                                   /\ \E d \in Calls : Answering(d, o, {"open_send", "gap", "pka_send"})'
    BY <2>1, <2>2, SMTT(30) DEF PendingHasOwner, Answers, Senders
  <2>3. /\ s.lkSend => Answering(c, f, {"ka_send", "pka_send"})'
        /\ s.pkPend => Answering(c, f, {"open_send", "gap", "pka_send"})'
    BY SMTT(30) DEF Answering
  <2>. QED
    BY <2>2, <2>3, SMTT(30) DEF PendingHasOwner
<1>6. KeepaliveArrived'
  BY DEF KeepaliveArrived
<1>. QED
  BY <1>3, <1>4, <1>5, <1>6, SMTT(30)

\* Putting a KEEPALIVE aside changes no frame.
LEMMA DeferKeeps ==
    ASSUME TypeInv, TypeInv', IInv, NEW c \in Calls, NEW f \in Fsms, NEW s \in Session, NEW fr \in Frame,
           fsm' = [fsm EXCEPT ![f] = s], call' = [call EXCEPT ![c] = fr],
           DeferStep(c, f, s, fr)
    PROVE  IInv'
<1>1. /\ \A o \in Fsms : fsm'[o] = IF o = f THEN s ELSE fsm[o]
      /\ \A d \in Calls : call'[d] = IF d = c THEN fr ELSE call[d]
      /\ \A o \in Fsms : fsm[o] \in Session /\ fsm[o].gen \in Nat
      /\ \A d \in Calls : call[d].gen \in Nat /\ call[d].fsm \in Fsms
  BY After, Zenon
<1>2. \A d \in Calls : call'[d] = call[d]
  BY <1>1, Zenon DEF DeferStep
<1>3. \A o \in Fsms : /\ fsm'[o].st = fsm[o].st /\ fsm'[o].gen = fsm[o].gen
                      /\ fsm'[o].lkSend = fsm[o].lkSend /\ fsm'[o].poSend = fsm[o].poSend
                      /\ fsm'[o].lkPend => fsm[o].lkPend \/ fsm[o].lkSend
                      /\ fsm'[o].pkPend => fsm[o].pkPend \/ fsm[o].poSend
                      /\ fsm'[o].kaIn \/ fsm'[o] = fsm[o]
  BY <1>1, SMTT(30) DEF DeferStep
<1>. USE <1>1, <1>2 DEF IInv
<1>4. AnswerOwns'
  <2>1. ASSUME NEW d \in Calls, call[d].pc \in Answers
        PROVE  Owns(call[d], fsm'[call[d].fsm])
    <3>1. PICK o \in Fsms : o = call[d].fsm
      BY Zenon
    <3>2. Owns(call[d], fsm[o])
      BY <2>1, <3>1, Zenon DEF AnswerOwns
    <3>3. Owns(call[d], fsm'[o])
      BY <1>3, <3>2, ZenonT(60) DEF Owns, Current
    <3>. QED
      BY <3>1, <3>3, Zenon
  <2>. QED
    BY <2>1, Zenon DEF AnswerOwns
<1>5. OneAnswer'
  BY SMTT(30) DEF OneAnswer
<1>6. PendingHasOwner'
  <2>1. ASSUME NEW o \in Fsms, NEW d \in Calls, NEW pcs, Answering(d, o, pcs)
        PROVE  Answering(d, o, pcs)'
    BY <1>3, <2>1, Zenon DEF Answering
  <2>2. \A o \in Fsms, d \in Calls :
          Answering(d, o, {"open_send"}) => Answering(d, o, {"open_send", "gap", "pka_send"})
    BY SMTT(30) DEF Answering
  <2>. QED
    BY <1>3, <2>1, <2>2, SMTT(30) DEF PendingHasOwner
<1>7. KeepaliveArrived'
  BY <1>3, SMTT(30) DEF KeepaliveArrived
<1>. QED
  BY <1>4, <1>5, <1>6, <1>7, Zenon

\* Every kind of step keeps IInv.
LEMMA KindKeeps ==
    ASSUME TypeInv, TypeInv', IInv, NEW c \in Calls, NEW f \in Fsms, Kind(c, f)
    PROVE  IInv'
<1>1. PICK s \in Session, fr \in Frame :
          /\ fsm' = [fsm EXCEPT ![f] = s] /\ call' = [call EXCEPT ![c] = fr]
          /\ \/ NewGenerationStep(c, f, s, fr) \/ QuietStep(c, f, s, fr)
             \/ AcceptStep(c, f, s, fr) \/ AnswerStep(c, f, s, fr) \/ DeferStep(c, f, s, fr)
  BY Zenon DEF Kind
<1>. QED
  BY <1>1, NewGenerationKeeps, QuietKeeps, AcceptKeeps, AnswerKeeps, DeferKeeps, Zenon

-----------------------------------------------------------------------------
(* Every action is of one of the kinds.                                    *)

\* Each of the endings discards the routes and publishes SESSION_DOWN once.
LEMMA EndingsOwe ==
    ASSUME NEW todo \in Endings
    PROVE  /\ todo # <<>> /\ todo \in Seq(Tasks)
           /\ \E i \in 1..Len(todo) : todo[i] = "discard"
           /\ \E i \in 1..Len(todo) : todo[i] = "down"
           /\ \A i, j \in 1..Len(todo) : todo[i] = "down" /\ todo[j] = "down" => i = j
           /\ \A i \in 1..Len(todo) : todo[i] # "rb_restore"
<1>1. CASE todo = CleanUp
  BY <1>1 DEF CleanUp, Tasks
<1>2. CASE todo = <<"discard", "routes", "cease", "down">>
  BY <1>2 DEF Tasks
<1>3. CASE todo = <<"notify">> \o CleanUp
  BY <1>3 DEF CleanUp, Tasks
<1>4. CASE todo = <<"cease">> \o CleanUp
  BY <1>4 DEF CleanUp, Tasks
<1>5. CASE todo = CleanUp \o <<"notify">>
  BY <1>5 DEF CleanUp, Tasks
<1>. QED
  BY <1>1, <1>2, <1>3, <1>4, <1>5, Zenon DEF Endings

\* A teardown by any call that is not answering the OPEN of another FSM.
LEMMA KindTeardown ==
    ASSUME TypeInv, NEW c \in Calls, NEW f \in Fsms,
           NEW e \in Seq(Tasks), NEW o \in Seq(Tasks), TeardownCall(c, f, e, o),
           call[c].pc \in Answers => call[c].fsm = f,
           fsm[f].st = "ESTABLISHED" => call[c].pc = "collide" \/ e \in Endings
    PROVE  Kind(c, f)
<1>. DEFINE todo == IF fsm[f].st = "ESTABLISHED" THEN e ELSE o
            fr == WorkFrame(f, fsm[f], todo)
            s == Teardown(fsm[f])
<1>1. fsm[f] \in Session /\ todo \in Seq(Tasks)
  BY TypeParts, Zenon DEF SessionOK
<1>2. s \in Session /\ s.gen = fsm[f].gen + 1 /\ s.st = "IDLE" /\ Clear(s)
  BY <1>1, TeardownFacts, Zenon DEF Clear
<1>3. fr \in Frame /\ fr.pc \notin Answers
  <2>. HIDE DEF todo
  <2>. QED
    BY <1>1, WorkFrameFacts, SMTT(30) DEF Answers, Senders
<1>4. fsm' = [fsm EXCEPT ![f] = s] /\ call' = [call EXCEPT ![c] = fr]
  BY SMTT(30) DEF TeardownCall
<1>5. fr.pc # "dump4" /\ (fsm[f].st = "ESTABLISHED" => call[c].pc = "collide" \/ Ends(f, fr))
  <2>1. fsm[f].st = "ESTABLISHED" => todo = e
    OBVIOUS
  <2>. HIDE DEF todo
  <2>2. todo \in Endings => todo # <<>>
    BY EndingsOwe, Zenon
  <2>3. /\ fr.pc \in {"idle", "work"} /\ (todo # <<>> => fr.pc # "idle")
        /\ fr.pc = "work" => /\ fr.fsm = f /\ fr.gen = fsm[f].gen
                             /\ fr.peer = fsm[f].peer /\ fr.todo = todo
    <3>1. /\ fr \in Frame
          /\ fr.pc \in {"idle", "work"}
          /\ fr.pc = "work" => /\ fr.todo # <<>> /\ fr.fsm = f /\ fr.gen = fsm[f].gen
                               /\ fr.peer = fsm[f].peer /\ fr.todo = todo
          /\ fr.pc = "idle" => fr = Idle /\ todo = <<>>
      BY <1>1, WorkFrameFacts
    <3>. HIDE DEF fr
    <3>. QED
      BY <3>1, Zenon
  <2>. QED
    BY <2>1, <2>2, <2>3, Zenon DEF Ends
<1>. HIDE DEF fr, s
<1>6. NewGenerationStep(c, f, s, fr)
  BY <1>2, <1>3, <1>5, Zenon DEF NewGenerationStep
<1>. QED
  BY <1>2, <1>3, <1>4, <1>6, Zenon DEF Kind

\* A step that leaves the sessions alone and is not an answer's.
LEMMA KindQuiet ==
    ASSUME TypeInv, NEW c \in Calls, NEW fr \in Frame,
           fsm' = fsm, call' = [call EXCEPT ![c] = fr], fr.pc \notin Answers, fr.pc # "dump4",
           call[c].pc \in Answers => call[c].gen # fsm[call[c].fsm].gen
    PROVE  \E f \in Fsms : Kind(c, f)
<1>1. PICK f \in Fsms : TRUE
  BY FsmsAssumption, Zenon
<1>2. fsm[f] \in Session /\ fsm' = [fsm EXCEPT ![f] = fsm[f]]
  BY TypeParts, Zenon DEF SessionOK
<1>3. QuietStep(c, f, fsm[f], fr)
  BY Zenon DEF QuietStep
<1>. QED
  BY <1>2, <1>3, Zenon DEF Kind

\* AcceptOpen by a call that is not answering another OPEN.
LEMMA KindAccept ==
    ASSUME TypeInv, NEW c \in Calls, NEW f \in Fsms, NEW p \in Peers, NEW from,
           AcceptOpen(c, f, p, from), call[c].pc \notin Answers,
           fsm[f].st = "ESTABLISHED" => call[c].pc = "collide",
           CollisionDetection => /\ call[c].pc = "collide" /\ call[c].ask = {} /\ call[c].fsm = f
                                 /\ call[c].peer = p /\ ~(call[c].handled /\ LocalId > call[c].peer)
    PROVE  Kind(c, f)
<1>. DEFINE s == OpenConfirm(fsm[f], p, from)
            fr == [Idle EXCEPT !.pc = IF from \in PreOpen THEN "open_send" ELSE "ka_send",
                               !.fsm = f, !.gen = fsm[f].gen + 1, !.peer = p]
<1>1. fsm[f] \in Session
  BY TypeParts, Zenon DEF SessionOK
<1>2. /\ s \in Session /\ s.gen = fsm[f].gen + 1 /\ s.st = "OPEN_CONFIRM"
      /\ ~s.lkPend /\ ~s.pkPend
      /\ s.poSend <=> from \in PreOpen
      /\ s.lkSend <=> from \notin PreOpen
      /\ s.peer = p
  BY <1>1, OpenConfirmFacts, SMTT(30)
<1>3. fsm' = [fsm EXCEPT ![f] = s] /\ call' = [call EXCEPT ![c] = fr]
  BY Zenon DEF AcceptOpen
<1>4. TypeInv'
  BY TypeAcceptOpen, Zenon
<1>5. call'[c] = fr /\ fr \in Frame
  BY <1>3, <1>4, TypeParts, Zenon DEF TypeInv, TypeOK
<1>6. fr.pc = (IF from \in PreOpen THEN "open_send" ELSE "ka_send") /\ fr.fsm = f
      /\ fr.gen = fsm[f].gen + 1
  BY Zenon DEF Idle
<1>. HIDE DEF s, fr
<1>8. CollisionDetection => Unopposed(c, f, s)
  BY <1>2, Zenon DEF Unopposed
<1>7. AcceptStep(c, f, s, fr)
  BY <1>2, <1>6, <1>8, SMTT(30) DEF AcceptStep
<1>. QED
  BY <1>2, <1>3, <1>5, <1>7, Zenon DEF Kind

\* The kinds of the entry actions.
LEMMA KindEnter ==
    ASSUME TypeInv, TypeInv', IInv, NEW c \in Calls, NEW f \in Fsms, Enter(c, f)
    PROVE  \E o \in Fsms : Kind(c, o)
<1>0. /\ SessionOK(fsm[f]) /\ fsm[f] \in Session /\ fsm[f].gen \in Nat
      /\ call[c] \in Frame /\ call = [call EXCEPT ![c] = call[c]]
      /\ call'[c] \in Frame
      /\ Idle \in Frame
  BY TypeParts, Constants, SMTT(30) DEF SessionOK, Session, TypeInv, TypeOK
<1>1. call[c].pc = "idle" /\ call[c].pc \notin Answers
  BY Zenon DEF Enter, EnterPreOpenState, Start, Stop, ResetSoft, ResetHard, OpenPacket, OpenRejected,
         KeepaliveDeferred, KeepaliveEstablishes, ConfirmRejected, Notification, RawPacketError,
         UpdateAnnounces, UpdateWithdraws, UpdateFails, EstablishedRejected, HoldExpired,
         KeepaliveDue, RouteEvent, CanCall, CanEnter, Answers, Senders
<1>2. ASSUME NEW to \in {"CONNECT", "ACTIVE"}, EnterPreOpenState(c, f, to)
      PROVE  Kind(c, f)
  <2>1. /\ Moved(fsm[f], to) \in Session /\ Clear(Moved(fsm[f], to))
        /\ Moved(fsm[f], to).gen = fsm[f].gen + 1 /\ Moved(fsm[f], to).st = to
    BY <1>0, MovedFacts, SMTT(30) DEF Clear, States
  <2>2. fsm[f].st # "ESTABLISHED"
    BY <1>2, Zenon DEF EnterPreOpenState, PreOpen
  <2>3. NewGenerationStep(c, f, Moved(fsm[f], to), call[c])
    BY <1>1, <2>1, <2>2, SMTT(30) DEF NewGenerationStep
  <2>. QED
    BY <1>0, <1>2, <2>1, <2>3, Zenon DEF EnterPreOpenState, Kind
<1>3. CASE Start(c, f)
  <2>. DEFINE s == Moved(fsm[f], "OPEN_SENT")
              fr == [Idle EXCEPT !.pc = "start_send", !.fsm = f,
                                 !.gen = fsm[f].gen + 1, !.from = fsm[f].st]
  <2>1. s \in Session /\ Clear(s) /\ s.gen = fsm[f].gen + 1 /\ s.st = "OPEN_SENT"
    BY <1>0, MovedFacts, SMTT(30) DEF Clear, States
  <2>2. fsm' = [fsm EXCEPT ![f] = s] /\ call' = [call EXCEPT ![c] = fr]
    BY <1>3, Zenon DEF Start
  <2>3. call'[c] = fr
    BY <2>2, Zenon DEF TypeInv, TypeOK
  <2>4. fr \in Frame /\ fr.pc \notin Answers /\ fr.pc # "dump4" /\ fsm[f].st # "ESTABLISHED"
    BY <1>0, <1>3, <2>3, Zenon DEF Idle, Answers, Senders, Start, PreOpen
  <2>. HIDE DEF s, fr
  <2>5. NewGenerationStep(c, f, s, fr)
    BY <1>1, <2>1, <2>4, SMTT(30) DEF NewGenerationStep
  <2>. QED
    BY <2>1, <2>2, <2>4, <2>5, Zenon DEF Kind
<1>4. CASE \/ Stop(c, f) \/ ResetSoft(c, f) \/ ResetHard(c, f)
           \/ OpenRejected(c, f) \/ ConfirmRejected(c, f) \/ Notification(c, f)
           \/ RawPacketError(c, f) \/ EstablishedRejected(c, f) \/ HoldExpired(c, f)
  <2>1. PICK e, o \in Seq(Tasks) :
            TeardownCall(c, f, e, o) /\ (fsm[f].st # "ESTABLISHED" \/ e \in Endings)
    BY <1>4, TaskLists, Zenon
       DEF Stop, ResetSoft, ResetHard, OpenRejected, ConfirmRejected, Notification, RawPacketError,
           EstablishedRejected, HoldExpired, Endings, PreOpen
  <2>. QED
    BY <1>1, <2>1, KindTeardown, Zenon
<1>5. ASSUME NEW p \in Peers, OpenPacket(c, f, p)
      PROVE  \E o \in Fsms : Kind(c, o)
  <2>1. CASE CollisionDetection
    <3>. DEFINE fr == [Idle EXCEPT !.pc = "collide", !.fsm = f, !.gen = fsm[f].gen, !.peer = p,
                                   !.from = fsm[f].st, !.ask = Fsms \ {f}]
    <3>1. fsm' = fsm /\ call' = [call EXCEPT ![c] = fr]
      BY <1>5, <2>1, Zenon DEF OpenPacket
    <3>2. fr \in Frame
      BY <1>0, <3>1, Zenon DEF TypeInv, TypeOK
    <3>3. fr.pc = "collide"
      BY Zenon DEF Idle
    <3>. HIDE DEF fr
    <3>. QED
      BY <1>1, <3>1, <3>2, <3>3, KindQuiet, Zenon DEF Answers, Senders
  <2>2. CASE ~CollisionDetection
    BY <1>1, <1>5, <2>2, KindAccept, Zenon DEF OpenPacket, PreOpen
  <2>. QED
    BY <2>1, <2>2, Zenon
<1>6. CASE KeepaliveDeferred(c, f)
  <2>. DEFINE a == [fsm[f] EXCEPT !.pkPend = TRUE, !.kaIn = TRUE]
              b == [fsm[f] EXCEPT !.lkPend = TRUE, !.kaIn = TRUE]
  <2>1. a \in Session /\ b \in Session
    BY <1>0, Zenon DEF Session
  <2>2. fsm[f].lkPend => fsm[f].lkSend
    BY SMTT(30) DEF IInv, PendingHasOwner
  <2>3. fsm[f].poSend => DeferStep(c, f, a, call[c])
    BY <1>0, <1>1, <1>6, <2>2, Zenon DEF DeferStep, KeepaliveDeferred, Session
  <2>4. ~fsm[f].poSend => DeferStep(c, f, b, call[c])
    BY <1>0, <1>1, <1>6, <2>2, Zenon DEF DeferStep, KeepaliveDeferred, Session
  <2>5. fsm' = [fsm EXCEPT ![f] = IF fsm[f].poSend THEN a ELSE b] /\ call' = call
    BY <1>6, Zenon DEF KeepaliveDeferred
  <2>. HIDE DEF a, b
  <2>. QED
    BY <1>0, <2>1, <2>3, <2>4, <2>5, Zenon DEF Kind
<1>7. CASE KeepaliveEstablishes(c, f)
  <2>. DEFINE s == [Establish(fsm[f]) EXCEPT !.kaIn = TRUE]
              fr == [Idle EXCEPT !.pc = "dump4", !.fsm = f, !.gen = fsm[f].gen + 1]
  <2>1. fsm' = [fsm EXCEPT ![f] = s] /\ call' = [call EXCEPT ![c] = fr]
    BY <1>7, Zenon DEF KeepaliveEstablishes
  <2>2. /\ fr \in Frame /\ fr.pc \notin Answers
        /\ fr.pc = "dump4" /\ fr.fsm = f /\ fr.gen = fsm[f].gen + 1
    BY <1>0, <2>1, Zenon DEF TypeInv, TypeOK, Idle, Answers, Senders
  <2>3. /\ s \in Session /\ s.gen = fsm[f].gen + 1 /\ s.st = "ESTABLISHED" /\ Clear(s) /\ s.kaIn
        /\ s.kaOut = fsm[f].kaOut
    <3>1. PICK e \in Session : e = Establish(fsm[f])
      BY <1>0, EstablishFacts, Zenon
    <3>2. /\ e.gen = fsm[f].gen + 1 /\ e.st = "ESTABLISHED" /\ Clear(e) /\ e.kaOut = fsm[f].kaOut
      BY <1>0, <3>1, EstablishFacts, Zenon DEF Clear
    <3>3. [e EXCEPT !.kaIn = TRUE] \in Session
      BY Zenon DEF Session
    <3>4. LET t == [e EXCEPT !.kaIn = TRUE]
          IN  t.gen = e.gen /\ t.st = e.st /\ (Clear(e) => Clear(t)) /\ t.kaIn /\ t.kaOut = e.kaOut
      BY Zenon DEF Session, Clear
    <3>. QED
      BY <3>1, <3>2, <3>3, <3>4, Zenon
  <2>6. CanEnter(c) /\ fsm[f].st = "OPEN_CONFIRM" /\ ~fsm[f].poSend /\ ~fsm[f].lkSend
    BY <1>7, Zenon DEF KeepaliveEstablishes, CanCall
  <2>4. \A d \in Calls : call[d].pc \in Senders /\ call[d].fsm = f => call[d].gen # fsm[f].gen
    BY <1>7, Zenon DEF KeepaliveEstablishes, IInv, AnswerOwns, Owns, Answers, Senders
  <2>. HIDE DEF s, fr
  <2>5. NewGenerationStep(c, f, s, fr)
    BY <1>1, <2>2, <2>3, <2>4, <2>6, Zenon DEF NewGenerationStep
  <2>. QED
    BY <2>1, <2>2, <2>3, <2>5, Zenon DEF Kind
<1>8. CASE UpdateAnnounces(c, f) \/ UpdateWithdraws(c, f)
  BY <1>0, <1>1, <1>8, KindQuiet, Zenon DEF UpdateAnnounces, UpdateWithdraws
<1>9. ASSUME NEW route \in {NewRoute(f), NoRoute}, UpdateFails(c, f, route)
      PROVE  \E o \in Fsms : Kind(c, o)
  <2>. DEFINE fr == RollbackFrame(f, fsm[f], rib[fsm[f].peer], route.uid)
  <2>1. fsm' = fsm /\ call' = [call EXCEPT ![c] = fr]
    BY <1>9, SMTT(30) DEF UpdateFails
  <2>2. fr \in Frame /\ fr.pc \notin Answers /\ fr.pc # "dump4"
    BY <1>0, <2>1, Zenon DEF TypeInv, TypeOK, RollbackFrame, Idle, Answers, Senders
  <2>. HIDE DEF fr
  <2>. QED
    BY <1>1, <2>1, <2>2, KindQuiet, Zenon
<1>10. CASE KeepaliveDue(c, f) \/ RouteEvent(c, f)
  <2>. DEFINE a == [Idle EXCEPT !.pc = "tick_send", !.fsm = f, !.gen = fsm[f].gen, !.from = fsm[f].st]
              b == [Idle EXCEPT !.pc = "event_send", !.fsm = f, !.gen = fsm[f].gen]
  <2>0. a.pc \notin Answers /\ b.pc \notin Answers /\ a.pc # "dump4" /\ b.pc # "dump4"
    BY Zenon DEF Idle, Answers, Senders
  <2>1. PICK fr \in {a, b} : fsm' = fsm /\ call' = [call EXCEPT ![c] = fr]
    BY <1>10, Zenon DEF KeepaliveDue, RouteEvent
  <2>. HIDE DEF a, b
  <2>2. fr \in Frame
    BY <1>0, <2>1, Zenon DEF TypeInv, TypeOK
  <2>. QED
    BY <1>1, <2>0, <2>1, <2>2, KindQuiet, Zenon
<1>. QED
  BY <1>2, <1>3, <1>4, <1>5, <1>6, <1>7, <1>8, <1>9, <1>10, SMTT(30) DEF Enter

\* The kinds of the steps after a send that answers an OPEN or starts a session.
LEMMA KindSent ==
    ASSUME TypeInv, TypeInv', IInv, NEW c \in Calls, NEW ok \in BOOLEAN,
           \/ StartSent(c, ok)
           \/ KeepaliveSent(c, ok)
           \/ PassiveOpenSent(c, ok)
           \/ PassiveKeepaliveSent(c, ok)
           \/ PassiveKeepalivePending(c)
    PROVE  \E o \in Fsms : Kind(c, o)
<1>. DEFINE f == call[c].fsm
            g == call[c].gen
            dump == [Idle EXCEPT !.pc = "dump4", !.fsm = f, !.gen = g + 1]
<1>0. /\ f \in Fsms /\ g \in Nat /\ fsm[f] \in Session /\ fsm[f].gen \in Nat
      /\ call[c] \in Frame /\ Idle \in Frame /\ call'[c] \in Frame
      /\ fsm = [fsm EXCEPT ![f] = fsm[f]]
      /\ Idle.pc \notin Answers /\ Idle.pc # "dump4"
  <2>1. /\ f \in Fsms /\ g \in Nat /\ call[c] \in Frame /\ fsm[f] \in Session
        /\ fsm = [fsm EXCEPT ![f] = fsm[f]]
    BY TypeParts, Zenon DEF SessionOK, Frame
  <2>2. fsm[f].gen \in Nat
    BY <2>1, Zenon DEF Session
  <2>3. call'[c] \in Frame
    BY Zenon DEF TypeInv, TypeOK
  <2>4. Idle \in Frame /\ Idle.pc \notin Answers /\ Idle.pc # "dump4"
    BY Constants, Zenon DEF Answers, Senders
  <2>. QED
    BY <2>1, <2>2, <2>3, <2>4, SMTT(30)
<1>1. /\ dump \in Frame /\ dump.pc \notin Answers
      /\ dump.pc = "dump4" /\ dump.fsm = f /\ dump.gen = g + 1
  <2>1. g + 1 \in Nat /\ "dump4" \in Pcs /\ "dump4" \notin Answers
    BY <1>0, SMTT(30) DEF Pcs, SendPcs, Answers, Senders
  <2>. HIDE DEF f, g
  <2>. QED
    BY <1>0, <2>1, Constants, Zenon DEF Idle, Frame
<1>2. call[c].pc \in Answers => Owns(call[c], fsm[f])
  BY SMTT(30) DEF IInv, AnswerOwns
<1>3. \A d \in Calls \ {c} : call[c].pc \in Answers /\ call[d].pc \in Senders /\ call[d].fsm = f => call[d].gen # g
  BY SMTT(30) DEF IInv, OneAnswer, Answers
<1>4. ASSUME fsm' = fsm, Finish(c), call[c].pc \in Answers => ~Current(fsm[f], "OPEN_CONFIRM", g)
      PROVE  \E o \in Fsms : Kind(c, o)
  <2>1. call[c].pc \in Answers => g # fsm[f].gen
    BY <1>2, <1>4, SMTT(30) DEF Owns, Current
  <2>. QED
    BY <1>0, <1>4, <2>1, KindQuiet, Zenon DEF Finish
<1>5. ASSUME fsm' = [fsm EXCEPT ![f] = RollbackFailedLocalKeepalive(fsm[f], g)], Finish(c),
             call[c].pc \in Senders
      PROVE  \E o \in Fsms : Kind(c, o)
  <2>1. CASE Current(fsm[f], "OPEN_CONFIRM", g)
    <3>. DEFINE s == Teardown(fsm[f])
    <3>1. s \in Session /\ s.gen = fsm[f].gen + 1 /\ s.st = "IDLE" /\ Clear(s)
      BY <1>0, TeardownFacts, SMTT(30) DEF Clear
    <3>2. fsm' = [fsm EXCEPT ![f] = s] /\ call' = [call EXCEPT ![c] = Idle]
      BY <1>5, <2>1, SMTT(30) DEF RollbackFailedLocalKeepalive, Finish
    <3>. HIDE DEF s
    <3>3. NewGenerationStep(c, f, s, Idle)
      BY <1>0, <2>1, <3>1, SMTT(30) DEF NewGenerationStep, Current
    <3>. QED
      BY <1>0, <3>1, <3>2, <3>3, Zenon DEF Kind
  <2>2. CASE ~Current(fsm[f], "OPEN_CONFIRM", g)
    <3>1. ~Current(fsm[f], "ESTABLISHED", g + 1)
      BY <1>2, <1>5, SMTT(30) DEF Owns, Answers
    <3>2. fsm' = fsm
      BY <1>0, <1>5, <2>2, <3>1, SMTT(30) DEF RollbackFailedLocalKeepalive
    <3>. QED
      BY <1>4, <1>5, <2>2, <3>2, SMTT(30)
  <2>. QED
    BY <2>1, <2>2, SMTT(30)
<1>. HIDE DEF f, g, dump
<1>6. CASE StartSent(c, ok)
  <2>1. call[c].pc = "start_send" /\ call[c].from \in PreOpen
    BY <1>6, TypeParts, SMTT(30) DEF StartSent, CanStep, FrameIsOK
  <2>. DEFINE s == Moved(fsm[f], call[c].from)
  <2>2. s \in Session /\ s.gen = fsm[f].gen + 1 /\ s.st \in PreOpen /\ Clear(s)
    BY <1>0, <2>1, MovedFacts, SMTT(30) DEF PreOpen, States, Clear
  <2>. HIDE DEF s
  <2>3. CASE fsm' = [fsm EXCEPT ![f] = s] /\ Current(fsm[f], "OPEN_SENT", g)
    <3>1. NewGenerationStep(c, f, s, Idle)
      BY <1>0, <2>1, <2>2, <2>3, SMTT(30) DEF NewGenerationStep, Answers, Senders, PreOpen, Current
    <3>. QED
      BY <1>0, <1>6, <2>2, <2>3, <3>1, Zenon DEF Kind, StartSent, Finish
  <2>4. CASE fsm' = fsm
    BY <1>4, <1>6, <2>1, <2>4, Zenon DEF StartSent, Answers, Senders
  <2>. QED
    BY <1>6, <2>3, <2>4, SMTT(30) DEF StartSent, f, g, s
<1>7. CASE KeepaliveSent(c, ok)
  <2>. DEFINE s == KeepaliveOut(fsm[f])
  <2>1. call[c].pc = "ka_send" /\ call[c].pc \in Answers /\ call[c].pc \in Senders
    BY <1>7, Zenon DEF KeepaliveSent, CanStep, Answers, Senders
  <2>2. CASE ok /\ Current(fsm[f], "OPEN_CONFIRM", g)
    <3>1. /\ s \in Session /\ s.st = "OPEN_CONFIRM" /\ s.gen = fsm[f].gen /\ s.gen = g
          /\ s.kaIn = fsm[f].kaIn /\ s.lkPend = fsm[f].lkPend /\ s.pkPend = fsm[f].pkPend
          /\ s.poSend = fsm[f].poSend /\ ~s.lkSend /\ s.kaOut /\ s.peer = fsm[f].peer
      BY <1>0, <2>2, KeepaliveOutFacts, SMTT(30) DEF Current
    <3>2. /\ fsm' = [fsm EXCEPT ![f] = EstablishPending(s, g)]
          /\ call' = [call EXCEPT ![c] = IF s.lkPend THEN dump ELSE Idle]
      BY <1>7, <2>2, SMTT(30) DEF KeepaliveSent, f, g, dump
    <3>. HIDE DEF s
    <3>3. CASE s.lkPend
      <4>1. EstablishPending(s, g) = Establish(s)
        BY <3>1, <3>3, SMTT(30) DEF EstablishPending, Current
      <4>2. /\ Establish(s) \in Session /\ Establish(s).gen = fsm[f].gen + 1
            /\ Establish(s).st = "ESTABLISHED" /\ Clear(Establish(s)) /\ Establish(s).kaIn = s.kaIn
            /\ Establish(s).kaOut /\ fsm[f].st = "OPEN_CONFIRM"
        BY <2>2, <3>1, EstablishFacts, Zenon DEF Clear, Current
      <4>3. s.kaIn
        BY <1>0, <3>1, <3>3, Zenon DEF IInv, KeepaliveArrived
      <4>5. call[c].fsm = f /\ dump.gen = Establish(s).gen /\ Establish(s).st # "OPEN_CONFIRM"
        BY <1>1, <3>1, <4>2, Zenon DEF f
      <4>6. \A d \in Calls \ {c} : call[d].pc \in Senders /\ call[d].fsm = f => call[d].gen # fsm[f].gen
        BY <1>3, <2>1, <3>1, Zenon
      <4>4. NewGenerationStep(c, f, Establish(s), dump)
        <5>1. fsm[f].st # "ESTABLISHED"
          BY <4>2, Zenon
        <5>. QED
          BY <1>1, <4>2, <4>3, <4>5, <4>6, <5>1, Zenon DEF NewGenerationStep
      <4>. QED
        BY <1>0, <1>1, <3>2, <3>3, <4>1, <4>2, <4>4, Zenon DEF Kind
    <3>4. CASE ~s.lkPend
      <4>1. EstablishPending(s, g) = s
        BY <3>4, SMTT(30) DEF EstablishPending
      <4>2. ~s.pkPend /\ ~s.poSend
        <5>1. ~fsm[f].poSend
          BY <1>2, <2>1, <2>2, Zenon DEF Owns, Current, g
        <5>2. ASSUME NEW d \in Calls, Answering(d, f, {"open_send", "gap", "pka_send"})
              PROVE  FALSE
          BY <1>0, <2>1, <2>2, <5>2, SMTT(30) DEF Answering, IInv, OneAnswer, Current, Answers, Senders, f, g
        <5>. QED
          BY <1>0, <3>1, <5>1, <5>2, SMTT(30) DEF IInv, PendingHasOwner
      <4>3. AnswerStep(c, f, s, Idle)
        <5>1. Idle.pc = "idle" /\ "idle" \notin {"gap", "pka_send", "open_send", "ka_send", "dump4"}
          BY Constants, Zenon
        <5>2. /\ call[c].pc \in Answers /\ call[c].fsm = f /\ call[c].gen = fsm[f].gen
              /\ s.st = "OPEN_CONFIRM" /\ s.gen = fsm[f].gen /\ s.kaIn = fsm[f].kaIn /\ s.peer = fsm[f].peer
              /\ s.kaOut /\ ~s.lkSend
          BY <2>1, <3>1, SMTT(60) DEF f, g
        <5>. QED
          BY <3>4, <4>2, <5>1, <5>2, Zenon DEF AnswerStep
      <4>. QED
        BY <1>0, <3>1, <3>2, <3>4, <4>1, <4>3, Zenon DEF Kind
    <3>. QED
      BY <3>3, <3>4, SMTT(30)
  <2>3. CASE ~(ok /\ Current(fsm[f], "OPEN_CONFIRM", g))
    BY <1>4, <1>5, <1>7, <2>1, <2>3, Zenon DEF KeepaliveSent, f, g
  <2>. QED
    BY <2>2, <2>3, Zenon
<1>8. CASE PassiveOpenSent(c, ok)
  <2>. DEFINE s == [fsm[f] EXCEPT !.poSend = FALSE]
              fr == [call[c] EXCEPT !.pc = "gap"]
  <2>1. call[c].pc = "open_send" /\ call[c].pc \in Answers /\ call[c].pc \in Senders
    BY <1>8, SMTT(30) DEF PassiveOpenSent, CanStep, Answers, Senders
  <2>2. CASE ok /\ Current(fsm[f], "OPEN_CONFIRM", g)
    <3>1. /\ s \in Session /\ s.st = "OPEN_CONFIRM" /\ s.gen = fsm[f].gen /\ s.gen = g
          /\ s.kaIn = fsm[f].kaIn /\ s.lkPend = fsm[f].lkPend /\ s.pkPend = fsm[f].pkPend
          /\ s.lkSend = fsm[f].lkSend /\ ~s.poSend /\ s.peer = fsm[f].peer
      BY <1>0, <2>2, Zenon DEF Session, Current
    <3>2. fr \in Frame /\ fr.pc = "gap" /\ fr.fsm = f /\ fr.gen = g
      BY <1>0, Zenon DEF Frame, Pcs, f, g
    <3>3. fsm' = [fsm EXCEPT ![f] = s] /\ call' = [call EXCEPT ![c] = fr]
      BY <1>8, <2>2, Zenon DEF PassiveOpenSent, f, g
    <3>4. ~s.lkSend /\ ~s.lkPend
      BY <1>0, <1>2, <2>1, <2>2, <3>1, Zenon DEF Owns, Current, IInv, PendingHasOwner, g
    <3>. HIDE DEF s, fr
    <3>5. AnswerStep(c, f, s, fr)
      BY <2>1, <3>1, <3>2, <3>4, SMTT(30) DEF AnswerStep, f, g
    <3>. QED
      BY <1>0, <3>1, <3>2, <3>3, <3>5, Zenon DEF Kind
  <2>3. CASE ~(ok /\ Current(fsm[f], "OPEN_CONFIRM", g))
    BY <1>4, <1>5, <1>8, <2>1, <2>3, Zenon DEF PassiveOpenSent, f, g
  <2>. QED
    BY <2>2, <2>3
<1>9. CASE PassiveKeepalivePending(c)
  <2>. DEFINE s == [fsm[f] EXCEPT !.lkSend = TRUE]
              fr == [call[c] EXCEPT !.pc = "pka_send"]
  <2>1. call[c].pc = "gap" /\ call[c].pc \in Answers
    BY <1>9, Zenon DEF PassiveKeepalivePending, CanStep, Answers
  <2>2. CASE Current(fsm[f], "OPEN_CONFIRM", g)
    <3>1. /\ s \in Session /\ s.st = "OPEN_CONFIRM" /\ s.gen = fsm[f].gen /\ s.gen = g
          /\ s.kaIn = fsm[f].kaIn /\ s.lkPend = fsm[f].lkPend /\ s.pkPend = fsm[f].pkPend
          /\ s.poSend = fsm[f].poSend /\ s.lkSend /\ s.peer = fsm[f].peer
      BY <1>0, <2>2, Zenon DEF Session, Current
    <3>2. fr \in Frame /\ fr.pc = "pka_send" /\ fr.fsm = f /\ fr.gen = g
      BY <1>0, Zenon DEF Frame, Pcs, SendPcs, f, g
    <3>3. fsm' = [fsm EXCEPT ![f] = s] /\ call' = [call EXCEPT ![c] = fr]
      BY <1>9, <2>2, Zenon DEF PassiveKeepalivePending, f, g
    <3>4. ~s.poSend /\ ~s.lkPend
      BY <1>0, <1>2, <2>1, <2>2, <3>1, Zenon DEF Owns, Current, IInv, PendingHasOwner, g
    <3>. HIDE DEF s, fr
    <3>5. AnswerStep(c, f, s, fr)
      BY <2>1, <3>1, <3>2, <3>4, Zenon DEF AnswerStep, f, g
    <3>. QED
      BY <1>0, <3>1, <3>2, <3>3, <3>5, Zenon DEF Kind
  <2>3. CASE ~Current(fsm[f], "OPEN_CONFIRM", g)
    BY <1>4, <1>9, <2>3, Zenon DEF PassiveKeepalivePending, f, g
  <2>. QED
    BY <2>2, <2>3, Zenon
<1>10. CASE PassiveKeepaliveSent(c, ok)
  <2>. DEFINE s == PassiveKeepaliveOut(fsm[f])
  <2>1. call[c].pc = "pka_send" /\ call[c].pc \in Answers /\ call[c].pc \in Senders
    BY <1>10, SMTT(30) DEF PassiveKeepaliveSent, CanStep, Answers, Senders
  <2>2. CASE ok /\ Current(fsm[f], "OPEN_CONFIRM", g)
    <3>1. /\ s \in Session /\ s.st = "OPEN_CONFIRM" /\ s.gen = fsm[f].gen /\ s.gen = g
          /\ s.kaIn = fsm[f].kaIn /\ s.lkPend = (fsm[f].pkPend \/ fsm[f].lkPend) /\ s.pkPend = fsm[f].pkPend
          /\ s.poSend = fsm[f].poSend /\ ~s.lkSend /\ s.kaOut /\ s.peer = fsm[f].peer
      BY <1>0, <2>2, PassiveKeepaliveOutFacts, Zenon DEF Current
    <3>2. /\ fsm' = [fsm EXCEPT ![f] = EstablishPending(s, g)]
          /\ call' = [call EXCEPT ![c] = IF s.lkPend THEN dump ELSE Idle]
      BY <1>10, <2>2, SMTT(30) DEF PassiveKeepaliveSent, f, g, dump
    <3>. HIDE DEF s
    <3>3. CASE s.lkPend
      <4>1. EstablishPending(s, g) = Establish(s)
        BY <3>1, <3>3, Zenon DEF EstablishPending, Current
      <4>2. /\ Establish(s) \in Session /\ Establish(s).gen = fsm[f].gen + 1
            /\ Establish(s).st = "ESTABLISHED" /\ Clear(Establish(s)) /\ Establish(s).kaIn = s.kaIn
            /\ Establish(s).kaOut /\ fsm[f].st = "OPEN_CONFIRM"
        BY <2>2, <3>1, EstablishFacts, Zenon DEF Clear, Current
      <4>3. s.kaIn
        BY <1>0, <3>1, <3>3, Zenon DEF IInv, KeepaliveArrived
      <4>5. call[c].fsm = f /\ dump.gen = Establish(s).gen /\ Establish(s).st # "OPEN_CONFIRM"
        BY <1>1, <3>1, <4>2, Zenon DEF f
      <4>6. \A d \in Calls \ {c} : call[d].pc \in Senders /\ call[d].fsm = f => call[d].gen # fsm[f].gen
        BY <1>3, <2>1, <3>1, Zenon
      <4>4. NewGenerationStep(c, f, Establish(s), dump)
        <5>1. fsm[f].st # "ESTABLISHED"
          BY <4>2, Zenon
        <5>. QED
          BY <1>1, <4>2, <4>3, <4>5, <4>6, <5>1, Zenon DEF NewGenerationStep
      <4>. QED
        BY <1>0, <1>1, <3>2, <3>3, <4>1, <4>2, <4>4, Zenon DEF Kind
    <3>4. CASE ~s.lkPend
      <4>1. EstablishPending(s, g) = s
        BY <3>1, <3>4, Zenon DEF EstablishPending
      <4>2. ~s.pkPend /\ ~s.lkPend /\ ~s.poSend
        BY <1>2, <2>1, <2>2, <3>1, <3>4, Zenon DEF Owns, Current, g
      <4>3. AnswerStep(c, f, s, Idle)
        BY <2>1, <3>1, <4>2, Constants, Zenon DEF AnswerStep, f, g
      <4>. QED
        BY <1>0, <3>1, <3>2, <3>4, <4>1, <4>3, Zenon DEF Kind
    <3>. QED
      BY <3>3, <3>4, Zenon
  <2>3. CASE ~(ok /\ Current(fsm[f], "OPEN_CONFIRM", g))
    BY <1>4, <1>5, <1>10, <2>1, <2>3, SMTT(30) DEF PassiveKeepaliveSent, f, g
  <2>. QED
    BY <2>2, <2>3
<1>. QED
  BY <1>6, <1>7, <1>8, <1>9, <1>10, Zenon

\* The kinds of the other steps.
LEMMA KindOtherStep ==
    ASSUME TypeInv, TypeInv', IInv, NEW c \in Calls, NEW ok \in BOOLEAN, NEW o \in Fsms,
           \/ AdvertiseExistingRib4(c, ok) \/ AdvertiseExistingRib6(c, ok)
           \/ TickKeepaliveSent(c, ok) \/ RouteEventSent(c, ok)
           \/ CollisionEvent(c, o) \/ CollisionChecked(c) \/ SessionUp(c)
           \/ RemoveJournaledInsertion(c) \/ RestoreJournaledRoute(c)
           \/ DiscardPeerRoutes(c) \/ SendOrPublish(c) \/ SessionDown(c)
    PROVE  \E x \in Fsms : Kind(c, x)
<1>. DEFINE f == call[c].fsm
            g == call[c].gen
<1>0. /\ f \in Fsms /\ fsm[f] \in Session /\ fsm[o] \in Session
      /\ call[c] \in Frame /\ FrameIsOK(call[c])
      /\ fsm = [fsm EXCEPT ![f] = fsm[f]] /\ fsm = [fsm EXCEPT ![o] = fsm[o]]
  BY TypeParts, SMTT(30) DEF SessionOK
<1>1. call'[c] \in Frame /\ Idle \in Frame /\ Idle.pc \notin Answers /\ Idle.pc # "dump4"
  BY Constants, Zenon DEF TypeInv, TypeOK, Answers, Senders
<1>2. call[c].pc \in {"dump4", "dump6", "tick_send", "event_send", "collide", "up", "work"}
  BY Zenon DEF AdvertiseExistingRib4, AdvertiseExistingRib6, TickKeepaliveSent, RouteEventSent,
         CollisionEvent, CollisionChecked, SessionUp, RemoveJournaledInsertion,
         RestoreJournaledRoute, DiscardPeerRoutes, SendOrPublish, SessionDown, Doing, CanStep
<1>3. call[c].pc \notin Answers
  BY <1>2, Zenon DEF Answers, Senders
<1>4. ASSUME fsm' = fsm, NEW fr, call' = [call EXCEPT ![c] = fr], fr.pc \notin Answers, fr.pc # "dump4"
      PROVE  \E x \in Fsms : Kind(c, x)
  <2>1. fr \in Frame
    BY <1>1, <1>4, SMTT(30) DEF TypeInv, TypeOK
  <2>. QED
    BY <1>3, <1>4, <2>1, KindQuiet, Zenon
<1>5. ASSUME TeardownCurrentEstablished(c, f, g)
      PROVE  \E x \in Fsms : Kind(c, x)
  BY <1>0, <1>1, <1>3, <1>4, <1>5, KindTeardown, TaskLists, Zenon DEF TeardownCurrentEstablished, Finish, Endings
<1>6. /\ [call[c] EXCEPT !.pc = "dump6"].pc \notin Answers /\ [call[c] EXCEPT !.pc = "dump6"].pc # "dump4"
      /\ [call[c] EXCEPT !.pc = "up"].pc \notin Answers /\ [call[c] EXCEPT !.pc = "up"].pc # "dump4"
  BY <1>0, Zenon DEF Frame, Answers, Senders
<1>. HIDE DEF f, g
<1>7. CASE AdvertiseExistingRib4(c, ok) \/ AdvertiseExistingRib6(c, ok)
  BY <1>1, <1>4, <1>5, <1>6, <1>7, Zenon DEF AdvertiseExistingRib4, AdvertiseExistingRib6, Finish, f, g
<1>8. CASE TickKeepaliveSent(c, ok)
  <2>. DEFINE s == [fsm[f] EXCEPT !.kaOut = TRUE]
  <2>1. s \in Session /\ QuietStep(c, f, s, Idle)
    BY <1>0, <1>1, <1>3, Zenon DEF Session, QuietStep
  <2>. HIDE DEF s
  <2>2. CASE TeardownCall(c, f, CleanUp, <<>>)
    BY <1>0, <1>3, <2>2, KindTeardown, TaskLists, Zenon DEF Endings
  <2>3. CASE fsm' = [fsm EXCEPT ![f] = s] /\ Finish(c)
    BY <1>0, <1>1, <2>1, <2>3, Zenon DEF Kind, Finish
  <2>4. CASE fsm' = fsm /\ Finish(c)
    BY <1>1, <1>4, <2>4, Zenon DEF Finish
  <2>. QED
    BY <1>8, <2>2, <2>3, <2>4, SMTT(30) DEF TickKeepaliveSent, f, g, s
<1>9. CASE RouteEventSent(c, ok)
  BY <1>1, <1>4, <1>5, <1>9, Zenon DEF RouteEventSent, Finish, f, g
<1>10. CASE CollisionEvent(c, o)
  <2>. DEFINE meant == fsm[o].st = "OPEN_CONFIRM" /\ fsm[o].peer = call[c].peer
              fr == [call[c] EXCEPT !.ask = call[c].ask \ {o}, !.handled = call[c].handled \/ meant]
  <2>1. call' = [call EXCEPT ![c] = fr]
    BY <1>10, Zenon DEF CollisionEvent
  <2>2. fr.pc = call[c].pc
    BY <1>0, Zenon DEF Frame
  <2>6. call[c].pc = "collide"
    BY <1>10, Zenon DEF CollisionEvent, CanStep
  <2>. HIDE DEF fr
  <2>3. fr \in Frame /\ fr.pc \notin Answers /\ fr.pc # "dump4"
    BY <1>1, <1>3, <2>1, <2>2, <2>6, SMTT(30) DEF TypeInv, TypeOK
  <2>4. CASE fsm' = fsm
    BY <1>4, <2>1, <2>3, <2>4, Zenon
  <2>5. CASE fsm' = [fsm EXCEPT ![o] = Teardown(fsm[o])]
    <3>. DEFINE s == Teardown(fsm[o])
    <3>1. s \in Session /\ s.gen = fsm[o].gen + 1 /\ s.st = "IDLE" /\ Clear(s)
      BY <1>0, TeardownFacts, SMTT(30) DEF Clear
    <3>. HIDE DEF s
    <3>2. NewGenerationStep(c, o, s, fr)
      BY <1>3, <2>3, <2>6, <3>1, Zenon DEF NewGenerationStep
    <3>. QED
      BY <2>1, <2>3, <2>5, <3>1, <3>2, Zenon DEF Kind, s
  <2>. QED
    BY <1>10, <2>4, <2>5, Zenon DEF CollisionEvent
<1>11. CASE CollisionChecked(c)
  <2>1. call[c].peer \in Peers
    BY <1>0, <1>11, SMTT(30) DEF CollisionChecked, CanStep, FrameIsOK
  <2>. QED
    <3>1. call[c].pc = "collide" /\ call[c].ask = {}
      BY <1>11, Zenon DEF CollisionChecked, CanStep
    <3>2. CASE call[c].handled /\ LocalId > call[c].peer
      BY <1>0, <1>3, <1>11, <3>1, <3>2, KindTeardown, TaskLists, Zenon DEF CollisionChecked, f
    <3>3. CASE ~(call[c].handled /\ LocalId > call[c].peer)
      <4>1. AcceptOpen(c, f, call[c].peer, call[c].from)
        BY <1>11, <3>3, Zenon DEF CollisionChecked, f
      <4>2. Kind(c, f)
        BY <1>0, <1>3, <2>1, <3>1, <3>3, <4>1, KindAccept, Zenon DEF f
      <4>. QED
        BY <1>0, <4>2, Zenon DEF f
    <3>. QED
      BY <3>2, <3>3, Zenon
<1>12. CASE SessionUp(c)
  BY <1>1, <1>4, <1>12, Zenon DEF SessionUp, Finish
<1>13. CASE \/ RemoveJournaledInsertion(c) \/ RestoreJournaledRoute(c)
            \/ DiscardPeerRoutes(c) \/ SendOrPublish(c) \/ SessionDown(c)
  <2>. DEFINE rest == Tail(call[c].todo)
              adv == IF rest = <<>> THEN Idle ELSE [call[c] EXCEPT !.todo = rest]
              dis == [call[c] EXCEPT !.saved = rib[call[c].peer], !.todo = rest]
  <2>1. fsm' = fsm
    BY <1>13, SMTT(30) DEF RemoveJournaledInsertion, RestoreJournaledRoute, DiscardPeerRoutes,
                 SendOrPublish, SessionDown
  <2>2. call' = [call EXCEPT ![c] = adv] \/ call' = [call EXCEPT ![c] = dis]
    BY <1>13, Zenon DEF RemoveJournaledInsertion, RestoreJournaledRoute, DiscardPeerRoutes,
                 SendOrPublish, SessionDown, Advance
  <2>4. call[c].pc = "work"
    BY <1>13, Zenon DEF RemoveJournaledInsertion, RestoreJournaledRoute, DiscardPeerRoutes,
                 SendOrPublish, SessionDown, Doing, CanStep
  <2>3. adv.pc \notin Answers /\ dis.pc \notin Answers /\ adv.pc # "dump4" /\ dis.pc # "dump4"
    <3>. HIDE DEF rest
    <3>. QED
      BY <1>0, <1>1, <1>3, <2>4, Zenon DEF Frame
  <2>. HIDE DEF adv, dis
  <2>. QED
    BY <1>4, <2>1, <2>2, <2>3, SMTT(30)
<1>. QED
  BY <1>7, <1>8, <1>9, <1>10, <1>11, <1>12, <1>13, SMTT(30)

\* Every step is of some kind, or changes neither sessions nor frames.
LEMMA NextKind ==
    ASSUME TypeInv, TypeInv', IInv, Next
    PROVE  \E c \in Calls, f \in Fsms : Kind(c, f)
<1>1. ASSUME NEW c \in Calls, NEW f \in Fsms, Enter(c, f)
      PROVE  \E o \in Fsms : Kind(c, o)
  BY <1>1, KindEnter, SMTT(30)
<1>2. ASSUME NEW c \in Calls, Step(c)
      PROVE  \E o \in Fsms : Kind(c, o)
  <2>1. TRUE \in BOOLEAN /\ AnyFsm \in Fsms
    BY Constants, SMTT(30)
  <2>. QED
    BY <1>2, <2>1, KindSent, KindOtherStep, Zenon DEF Step
<1>. QED
  BY <1>1, <1>2, Zenon DEF Next

\* Every FSM is IDLE at the start, with no flag up.
LEMMA InitIdle ==
    ASSUME Init, NEW f \in Fsms
    PROVE  Clear(fsm[f]) /\ fsm[f].st = "IDLE" /\ fsm[f].gen = 0
<1>. DEFINE Fresh(v) == [st |-> "IDLE", gen |-> 0, peer |-> NoPeer,
                         lkSend |-> FALSE, lkPend |-> FALSE, poSend |-> FALSE, pkPend |-> FALSE,
                         kaOut |-> FALSE, kaIn |-> FALSE, valid |-> v]
<1>2. fsm \in [Fsms -> {Fresh(v) : v \in BOOLEAN}]
  BY Zenon DEF Init
<1>3. fsm[f] \in {Fresh(v) : v \in BOOLEAN}
  <2>. HIDE DEF Fresh
  <2>. QED
    BY <1>2, Zenon
<1>1. PICK v \in BOOLEAN : fsm[f] = Fresh(v)
  <2>. HIDE DEF Fresh
  <2>. QED
    BY <1>3, Zenon
<1>4. /\ Fresh(v).st = "IDLE" /\ Fresh(v).gen = 0 /\ ~Fresh(v).lkSend /\ ~Fresh(v).lkPend
      /\ ~Fresh(v).poSend /\ ~Fresh(v).pkPend
  BY Zenon
<1>. HIDE DEF Fresh
<1>. QED
  BY <1>1, <1>4, Zenon DEF Clear

\* No call is answering and no flag is up at the start.
LEMMA InvInit == Init => IInv
<1>. SUFFICES ASSUME Init PROVE IInv
  OBVIOUS
<1>1. \A c \in Calls : call[c].pc \notin Answers
  <2>1. Idle.pc \notin Answers
    BY Zenon DEF Idle, Answers, Senders
  <2>2. call = [c \in Calls |-> Idle]
    BY Zenon DEF Init
  <2>. QED
    BY <2>1, <2>2, Zenon
<1>2. ASSUME NEW f \in Fsms PROVE Clear(fsm[f]) /\ fsm[f].st = "IDLE"
  BY <1>2, InitIdle, Zenon
<1>. QED
  BY <1>1, <1>2, SMTT(30) DEF IInv, AnswerOwns, OneAnswer, PendingHasOwner, KeepaliveArrived, Clear

\* IInv is inductive relative to TypeInv.
LEMMA InvNext ==
    ASSUME TypeInv, IInv, [Next]_vars
    PROVE  IInv'
<1>1. CASE UNCHANGED vars
  <2>1. fsm' = fsm /\ call' = call
    BY <1>1, SMTT(30) DEF vars
  <2>2. AnswerOwns' /\ KeepaliveArrived'
    BY <2>1, Zenon DEF IInv, AnswerOwns, KeepaliveArrived
  <2>3. OneAnswer'
    BY <2>1, SMTT(30) DEF IInv, OneAnswer
  <2>4. PendingHasOwner'
    BY <2>1 DEF IInv, PendingHasOwner, Answering
  <2>. QED
    BY <2>2, <2>3, <2>4, Zenon DEF IInv
<1>2. CASE Next
  <2>1. TypeInv'
    BY TypeNext, Zenon
  <2>. QED
    BY <1>2, <2>1, NextKind, KindKeeps, Zenon
<1>. QED
  BY <1>1, <1>2, Zenon

\* Both invariants hold throughout.
LEMMA Invariant == Spec => [](TypeInv /\ IInv)
<1>1. Init => TypeInv /\ IInv
  BY TypeInit, InvInit, Zenon
<1>2. TypeInv /\ IInv /\ [Next]_vars => TypeInv' /\ IInv'
  BY TypeNext, InvNext, Zenon
<1>. QED
  BY <1>1, <1>2, PTL DEF Spec

\* fsm_rollback_failed_local_keepalive never finds a session that was ESTABLISHED
\* while the answer to its OPEN was being sent, for any number of threads, nested
\* calls and FSMs.
THEOREM RollbackSafe == Spec => []RollbackSparesEstablished
<1>1. IInv => RollbackSparesEstablished
  BY Zenon DEF IInv, AnswerOwns, Owns, RollbackSparesEstablished, Answers, Senders
<1>. QED
  BY <1>1, Invariant, PTL

\* No pending flag of fsm_impl_t is left up without a call that takes it down.
THEOREM PendingOwned == Spec => []PendingHasOwner
<1>1. IInv => PendingHasOwner
  BY Zenon DEF IInv
<1>. QED
  BY <1>1, Invariant, PTL

\* A session that is ESTABLISHED has received the KEEPALIVE of its own attempt.
THEOREM PeerKeepaliveSeen == Spec => []EstablishedNeedsPeerKeepalive
<1>1. IInv => EstablishedNeedsPeerKeepalive
  BY Zenon DEF IInv, KeepaliveArrived, EstablishedNeedsPeerKeepalive
<1>. QED
  BY <1>1, Invariant, PTL

\* session_generation moves with every change of the state, one at a time: two
\* reads of the same generation saw the same state of the same session.
THEOREM GenerationExact == Spec => GenerationTracksState
<1>. DEFINE A == \A f \in Fsms : \/ fsm'[f].gen = fsm[f].gen /\ fsm'[f].st = fsm[f].st
                                 \/ fsm'[f].gen = fsm[f].gen + 1
<1>1. ASSUME TypeInv, IInv, [Next]_vars
      PROVE  [A]_vars
  <2>1. CASE UNCHANGED vars
    BY <2>1, Zenon
  <2>2. CASE Next
    <3>1. TypeInv'
      BY <1>1, TypeNext, Zenon
    <3>2. PICK c \in Calls, f \in Fsms : Kind(c, f)
      BY <1>1, <2>2, <3>1, NextKind, SMTT(30)
    <3>3. PICK s \in Session, fr \in Frame :
              /\ fsm' = [fsm EXCEPT ![f] = s] /\ call' = [call EXCEPT ![c] = fr]
              /\ \/ NewGenerationStep(c, f, s, fr) \/ QuietStep(c, f, s, fr)
                 \/ AcceptStep(c, f, s, fr) \/ AnswerStep(c, f, s, fr) \/ DeferStep(c, f, s, fr)
      BY <3>2, Zenon DEF Kind
    <3>4. \A o \in Fsms : fsm'[o] = IF o = f THEN s ELSE fsm[o]
      BY <1>1, <3>3, SMTT(30) DEF TypeInv, TypeOK
    <3>5. fsm[f].st = "OPEN_CONFIRM" \/ ~AnswerStep(c, f, s, fr)
      BY <1>1, SMTT(30) DEF AnswerStep, IInv, AnswerOwns, Owns
    <3>6. (s.gen = fsm[f].gen /\ s.st = fsm[f].st) \/ s.gen = fsm[f].gen + 1
      BY <3>3, <3>5, Zenon DEF NewGenerationStep, QuietStep, AcceptStep, AnswerStep, DeferStep
    <3>. QED
      BY <3>4, <3>6, Zenon
  <2>. QED
    BY <1>1, <2>1, <2>2, Zenon
<1>. QED
  BY <1>1, Invariant, PTL DEF Spec, GenerationTracksState

=============================================================================
