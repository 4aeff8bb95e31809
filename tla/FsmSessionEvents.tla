-------------------------- MODULE FsmSessionEvents --------------------------
(***************************************************************************)
(* Proofs about FsmSession, continued: what becomes of the frame of a call *)
(* in each step, and from it the properties about two calls, two FSMs or   *)
(* two events: our own KEEPALIVE, SESSION_UP and SESSION_DOWN, the routes  *)
(* of a session that is over, and collisions.  Each theorem names the      *)
(* configurations of the library for which its property is claimed.        *)
(***************************************************************************)
EXTENDS FsmSessionProofs

-----------------------------------------------------------------------------
(* Our own KEEPALIVE, when the calls nest.  EstablishedNeedsOwnKeepalive   *)
(* is not inductive: a session comes up in OPEN_CONFIRM when neither       *)
(* pending flag is up.  OwnSent says that then the KEEPALIVE is out, or a  *)
(* call is between the two lock sections of the passive open, where it     *)
(* calls nobody back.                                                      *)

OwnSent ==
    \A f \in Fsms :
        /\ fsm[f].st = "OPEN_CONFIRM" => \/ fsm[f].poSend \/ fsm[f].lkSend \/ fsm[f].kaOut
                                         \/ \E c \in Calls : Answering(c, f, {"gap"})
        /\ fsm[f].st = "ESTABLISHED" => fsm[f].kaOut

\* What a kind of step does, with the session and the frame it puts in place.
LEMMA KindDoes ==
    ASSUME TypeInv, NEW c \in Calls, NEW f \in Fsms, Kind(c, f)
    PROVE  \E s \in Session, fr \in Frame :
              /\ \A o \in Fsms : fsm'[o] = IF o = f THEN s ELSE fsm[o]
              /\ \A d \in Calls : call'[d] = IF d = c THEN fr ELSE call[d]
              /\ \/ NewGenerationStep(c, f, s, fr) \/ QuietStep(c, f, s, fr)
                 \/ AcceptStep(c, f, s, fr) \/ AnswerStep(c, f, s, fr) \/ DeferStep(c, f, s, fr)
<1>1. PICK s \in Session, fr \in Frame :
          /\ fsm' = [fsm EXCEPT ![f] = s] /\ call' = [call EXCEPT ![c] = fr]
          /\ \/ NewGenerationStep(c, f, s, fr) \/ QuietStep(c, f, s, fr)
             \/ AcceptStep(c, f, s, fr) \/ AnswerStep(c, f, s, fr) \/ DeferStep(c, f, s, fr)
  BY Zenon DEF Kind
<1>2. /\ \A o \in Fsms : fsm'[o] = IF o = f THEN s ELSE fsm[o]
      /\ \A d \in Calls : call'[d] = IF d = c THEN fr ELSE call[d]
  <2>1. fsm' = [fsm EXCEPT ![f] = s] /\ call' = [call EXCEPT ![c] = fr]
    BY <1>1, Zenon
  <2>2. fsm \in [Fsms -> Session] /\ call \in [Calls -> Frame]
    BY Zenon DEF TypeInv, TypeOK
  <2>. QED
    BY <2>1, <2>2, Zenon
<1>. QED
  BY <1>1, <1>2, Zenon

\* Every kind of step keeps OwnSent.
LEMMA OwnSentKept ==
    ASSUME ~Threads, TypeInv, IInv, OwnSent, NEW c \in Calls, NEW f \in Fsms, Kind(c, f)
    PROVE  OwnSent'
<1>1. PICK s \in Session, fr \in Frame :
          /\ \A o \in Fsms : fsm'[o] = IF o = f THEN s ELSE fsm[o]
          /\ \A d \in Calls : call'[d] = IF d = c THEN fr ELSE call[d]
          /\ \/ NewGenerationStep(c, f, s, fr) \/ QuietStep(c, f, s, fr)
             \/ AcceptStep(c, f, s, fr) \/ AnswerStep(c, f, s, fr) \/ DeferStep(c, f, s, fr)
  BY KindDoes, Zenon
<1>2. "gap" \in Answers
  BY Zenon DEF Answers
<1>3. ASSUME NEW o \in Fsms, o # f, NEW d \in Calls, Answering(d, o, {"gap"})
      PROVE  Answering(d, o, {"gap"})'
  <2>1. CASE d # c
    BY <1>1, <1>3, <2>1, Zenon DEF Answering
  <2>2. CASE d = c
    <3>1. call[c].pc \in Answers /\ call[c].fsm # f /\ call[c].gen = fsm[call[c].fsm].gen
      BY <1>2, <1>3, <2>2, Zenon DEF Answering
    <3>2. DeferStep(c, f, s, fr)
      BY <1>1, <3>1, Zenon DEF NewGenerationStep, QuietStep, AcceptStep, AnswerStep
    <3>. QED
      BY <1>1, <1>3, <2>2, <3>2, Zenon DEF DeferStep, Answering
  <2>. QED
    BY <2>1, <2>2, Zenon
<1>4. ASSUME NEW o \in Fsms, o # f
      PROVE  /\ fsm'[o].st = "OPEN_CONFIRM" => \/ fsm'[o].poSend \/ fsm'[o].lkSend \/ fsm'[o].kaOut
                                               \/ \E d \in Calls : Answering(d, o, {"gap"})'
             /\ fsm'[o].st = "ESTABLISHED" => fsm'[o].kaOut
  BY <1>1, <1>3, <1>4, Zenon DEF OwnSent
<1>5. /\ s.st = "OPEN_CONFIRM" => \/ s.poSend \/ s.lkSend \/ s.kaOut
                                  \/ \E d \in Calls : Answering(d, f, {"gap"})'
      /\ s.st = "ESTABLISHED" => s.kaOut
  <2>0. /\ fsm[f].st = "OPEN_CONFIRM" => \/ fsm[f].poSend \/ fsm[f].lkSend \/ fsm[f].kaOut
                                         \/ \E d \in Calls : Answering(d, f, {"gap"})
        /\ fsm[f].st = "ESTABLISHED" => fsm[f].kaOut
    BY Zenon DEF OwnSent
  <2>1. CASE NewGenerationStep(c, f, s, fr)
    <3>1. ASSUME CanEnter(c), NEW d \in Calls, Answering(d, f, {"gap"})
          PROVE  FALSE
      BY <3>1, Zenon DEF CanEnter, Answering, InCallback, SendPcs
    <3>. QED
      BY <2>0, <2>1, <3>1, Zenon DEF NewGenerationStep
  <2>2. CASE QuietStep(c, f, s, fr)
    <3>1. ASSUME NEW d \in Calls, Answering(d, f, {"gap"})
          PROVE  Answering(d, f, {"gap"})'
      <4>1. d # c
        BY <1>2, <2>2, <3>1, Zenon DEF Answering, QuietStep
      <4>2. fsm'[f].gen = fsm[f].gen /\ call'[d] = call[d]
        BY <1>1, <2>2, <4>1, Zenon DEF QuietStep
      <4>. QED
        BY <3>1, <4>2, Zenon DEF Answering
    <3>. QED
      BY <2>0, <2>2, <3>1, Zenon DEF QuietStep
  <2>3. CASE AcceptStep(c, f, s, fr)
    BY <2>3, Zenon DEF AcceptStep
  <2>4. CASE AnswerStep(c, f, s, fr)
    <3>1. fr.pc = "gap" => Answering(c, f, {"gap"})'
      BY <1>1, <2>4, Zenon DEF AnswerStep, Answering
    <3>. QED
      BY <2>4, <3>1, Zenon DEF AnswerStep
  <2>5. CASE DeferStep(c, f, s, fr)
    <3>1. ASSUME NEW d \in Calls, Answering(d, f, {"gap"})
          PROVE  Answering(d, f, {"gap"})'
      BY <1>1, <2>5, <3>1, Zenon DEF Answering, DeferStep
    <3>. QED
      BY <2>0, <2>5, <3>1, Zenon DEF DeferStep
  <2>. QED
    BY <1>1, <2>1, <2>2, <2>3, <2>4, <2>5, Zenon
<1>6. \A o \in Fsms : 
        /\ fsm'[o].st = "OPEN_CONFIRM" => \/ fsm'[o].poSend \/ fsm'[o].lkSend \/ fsm'[o].kaOut
                                          \/ \E d \in Calls : Answering(d, o, {"gap"})'
        /\ fsm'[o].st = "ESTABLISHED" => fsm'[o].kaOut
  BY <1>1, <1>4, <1>5, Zenon
<1>. QED
  BY <1>6, Zenon DEF OwnSent

\* When calls nest (no THREADSAFE build, callbacks that call the FSM again), a session
\* is ESTABLISHED only after the send function took our own KEEPALIVE, for any number
\* of FSMs and any depth.
THEOREM OwnKeepaliveSent ==
    ASSUME ~Threads
    PROVE  Spec => []EstablishedNeedsOwnKeepalive
<1>1. Init => OwnSent
  <2>. SUFFICES ASSUME Init, NEW f \in Fsms
                PROVE  fsm[f].st = "IDLE"
    BY Zenon DEF OwnSent
  <2>. QED
    BY InitIdle, Zenon
<1>2. TypeInv /\ IInv /\ OwnSent /\ [Next]_vars => OwnSent'
  <2>. SUFFICES ASSUME TypeInv, IInv, OwnSent, [Next]_vars PROVE OwnSent'
    BY Zenon
  <2>1. CASE Next
    <3>1. TypeInv'
      BY <2>1, TypeNext, Zenon
    <3>. QED
      BY <2>1, <3>1, NextKind, OwnSentKept, Zenon
  <2>2. CASE UNCHANGED vars
    <3>1. fsm' = fsm /\ call' = call
      BY <2>2, Zenon DEF vars
    <3>2. \A f \in Fsms, c \in Calls : Answering(c, f, {"gap"})' <=> Answering(c, f, {"gap"})
      BY <3>1, Zenon DEF Answering
    <3>. QED
      BY <3>1, <3>2, Zenon DEF OwnSent
  <2>. QED
    BY <2>1, <2>2, Zenon
<1>3. OwnSent => EstablishedNeedsOwnKeepalive
  BY Zenon DEF OwnSent, EstablishedNeedsOwnKeepalive
<1>. QED
  BY <1>1, <1>2, <1>3, Invariant, PTL DEF Spec

-----------------------------------------------------------------------------
(* What becomes of the frame that takes a step: it does one of its tasks   *)
(* (TaskStep), or it is replaced by a frame of one of a few forms.         *)

\* A frame that cleans up after a session that ends with this step.
Closing(fr) ==
    \E f \in Fsms : fsm[f].st = "ESTABLISHED" /\ Ends(f, fr) /\ fsm'[f].gen = fsm[f].gen + 1

\* The frame fr of a collision check that has asked o: when o still negotiates with
\* the peer, it objects.
Asked(c, o, fr) ==
    /\ call[c].pc = "collide" /\ fr.ask = call[c].ask \ {o}
    /\ fr.fsm = call[c].fsm /\ fr.peer = call[c].peer /\ (call[c].handled => fr.handled)
    /\ fsm'[o].st = "OPEN_CONFIRM" /\ fsm'[o].peer = fr.peer => fr.handled /\ LocalId > fr.peer

\* The forms of the new frame fr of call c.
Form(c, fr) ==
    \/ fr.pc \notin {"work", "collide", "dump6", "up"} /\ fr.todo = <<>>
    \/ /\ fr.pc = "collide" /\ fr.todo = <<>>
       /\ (CollisionDetection /\ fr.ask = Fsms \ {fr.fsm}) \/ \E o \in Fsms : Asked(c, o, fr)
    \/ fr.pc = "work" /\ (fr.todo \in {<<"notify">>, <<"cease">>} \/ Closing(fr))
    \/ fr.pc = "work" /\ fr.todo = <<"rb_remove", "rb_restore">> /\ AllocFails
    \/ /\ \/ call[c].pc = "dump4" /\ fr.pc = "dump6"
          \/ call[c].pc = "dump6" /\ fr.pc = "up"
       /\ fr.todo = <<>> /\ fr.fsm = call[c].fsm /\ fr.gen = call[c].gen
       /\ Current(fsm[fr.fsm], "ESTABLISHED", fr.gen) /\ fsm' = fsm

\* The next task of call c is done.
TaskStep(c) ==
    LET a == call[c]
        b == call'[c]
    IN  /\ a.pc = "work" /\ a.todo # <<>> /\ a.todo \in Seq(Tasks) /\ fsm' = fsm
        /\ \/ Tail(a.todo) = <<>> /\ b = Idle
           \/ /\ b.pc = "work" /\ b.todo = Tail(a.todo)
              /\ b.fsm = a.fsm /\ b.gen = a.gen /\ b.peer = a.peer
        /\ published' = IF Head(a.todo) = "down"
                        THEN Append(published, <<"SESSION_DOWN", a.fsm, a.gen>>) ELSE published
        /\ Head(a.todo) = "discard" => rib' = [rib EXCEPT ![a.peer] = NoRoute]
        /\ Head(a.todo) \notin {"discard", "rb_remove", "rb_restore"} => rib' = rib
        /\ Head(a.todo) = "rb_remove" => rib' \in {rib, [rib EXCEPT ![a.peer] = NoRoute]}

\* SESSION_UP is published, or nothing; the RIB is changed by an UPDATE, or not at all.
OtherStep(c) ==
    /\ call[c].pc # "work"
    /\ Form(c, call'[c])
    /\ \/ published' = published
       \/ /\ call[c].pc = "up" /\ call'[c] = Idle /\ fsm' = fsm
          /\ published' = Append(published, <<"SESSION_UP", call[c].fsm, call[c].gen>>)
    /\ \/ rib' = rib
       \/ AllocFails
       \/ /\ fsm' = fsm
          /\ \E f \in Fsms : /\ fsm[f].st = "ESTABLISHED"
                             /\ rib' \in {[rib EXCEPT ![fsm[f].peer] = r] : r \in {NewRoute(f), NoRoute}}

\* The five tasks.
LEMMA TaskDoes ==
    ASSUME TypeInv, NEW c \in Calls,
           \/ RemoveJournaledInsertion(c) \/ RestoreJournaledRoute(c)
           \/ DiscardPeerRoutes(c) \/ SendOrPublish(c) \/ SessionDown(c)
    PROVE  TaskStep(c)
<1>. DEFINE a == call[c]
            rest == Tail(a.todo)
<1>1. a \in Frame /\ a.pc = "work" /\ a.todo # <<>> /\ a.todo \in Seq(Tasks)
  <2>1. a.pc = "work"
    BY Zenon DEF RemoveJournaledInsertion, RestoreJournaledRoute, DiscardPeerRoutes,
                 SendOrPublish, SessionDown, Doing, CanStep
  <2>2. a \in Frame /\ (a.pc = "work" => a.todo # <<>>)
    BY TypeParts, Zenon DEF FrameIsOK
  <2>. QED
    BY <2>1, <2>2, Zenon DEF Frame
<1>2. call \in [Calls -> Frame] /\ fsm' = fsm
  BY Zenon DEF TypeInv, TypeOK, RemoveJournaledInsertion, RestoreJournaledRoute, DiscardPeerRoutes,
               SendOrPublish, SessionDown
<1>3. ASSUME Advance(c, rest)
      PROVE  \/ rest = <<>> /\ call'[c] = Idle
             \/ /\ call'[c].pc = "work" /\ call'[c].todo = rest
                /\ call'[c].fsm = a.fsm /\ call'[c].gen = a.gen /\ call'[c].peer = a.peer
  <2>1. call'[c] = IF rest = <<>> THEN Idle ELSE [a EXCEPT !.todo = rest]
    <3>. HIDE DEF rest
    <3>. QED
      BY <1>2, <1>3, Zenon DEF Advance
  <2>. HIDE DEF rest
  <2>. QED
    BY <1>1, <2>1, Zenon DEF Frame
<1>4. CASE DiscardPeerRoutes(c)
  <2>1. /\ Head(a.todo) = "discard" /\ rib' = [rib EXCEPT ![a.peer] = NoRoute]
        /\ published' = published
        /\ call' = [call EXCEPT ![c] = [a EXCEPT !.saved = rib[a.peer], !.todo = rest]]
    BY <1>4, Zenon DEF DiscardPeerRoutes, Doing
  <2>2. call'[c] = [a EXCEPT !.saved = rib[a.peer], !.todo = rest]
    <3>. HIDE DEF rest
    <3>. QED
      BY <1>2, <2>1, Zenon
  <2>3. /\ call'[c].pc = "work" /\ call'[c].todo = rest
        /\ call'[c].fsm = a.fsm /\ call'[c].gen = a.gen /\ call'[c].peer = a.peer
    <3>. HIDE DEF rest
    <3>. QED
      BY <1>1, <2>2, Zenon DEF Frame
  <2>. QED
    BY <1>1, <1>2, <2>1, <2>3, Zenon DEF TaskStep
<1>5. CASE \/ RemoveJournaledInsertion(c) \/ RestoreJournaledRoute(c)
           \/ SendOrPublish(c) \/ SessionDown(c)
  <2>1. Advance(c, rest)
    BY <1>5, Zenon DEF RemoveJournaledInsertion, RestoreJournaledRoute, SendOrPublish, SessionDown
  <2>2. Head(a.todo) \in {"rb_remove", "rb_restore", "notify", "cease", "routes", "down"}
    BY <1>5, Zenon DEF RemoveJournaledInsertion, RestoreJournaledRoute, SendOrPublish, SessionDown, Doing
  <2>3. published' = IF Head(a.todo) = "down"
                     THEN Append(published, <<"SESSION_DOWN", a.fsm, a.gen>>) ELSE published
    BY <1>5, Zenon DEF RemoveJournaledInsertion, RestoreJournaledRoute, SendOrPublish, SessionDown, Doing
  <2>4. /\ Head(a.todo) \notin {"discard", "rb_remove", "rb_restore"} => rib' = rib
        /\ Head(a.todo) = "rb_remove" => rib' \in {rib, [rib EXCEPT ![a.peer] = NoRoute]}
    BY <1>5, Zenon DEF RemoveJournaledInsertion, RestoreJournaledRoute, SendOrPublish, SessionDown, Doing
  <2>5. Head(a.todo) # "discard"
    BY <2>2, Zenon
  <2>. QED
    BY <1>1, <1>2, <1>3, <2>1, <2>3, <2>4, <2>5, Zenon DEF TaskStep
<1>. QED
  BY <1>4, <1>5, Zenon

\* The frame a teardown leaves.
LEMMA TeardownForm ==
    ASSUME TypeInv, NEW c \in Calls, NEW f \in Fsms, NEW e, NEW o,
           TeardownCall(c, f, e, o), fsm[f].st # "ESTABLISHED" \/ e \in Endings \/ e = <<"cease">>,
           o \in {<<>>, <<"notify">>, <<"cease">>}
    PROVE  /\ Form(c, call'[c])
           /\ published' = published /\ rib' = rib
<1>. DEFINE todo == IF fsm[f].st = "ESTABLISHED" THEN e ELSE o
            fr == WorkFrame(f, fsm[f], todo)
<1>1. fsm[f] \in Session /\ call'[c] = fr /\ fsm'[f].gen = fsm[f].gen + 1
  <2>1. fsm[f] \in Session /\ fsm \in [Fsms -> Session] /\ call \in [Calls -> Frame]
    BY Zenon DEF TypeInv, TypeOK
  <2>2. fsm' = [fsm EXCEPT ![f] = Teardown(fsm[f])] /\ call' = [call EXCEPT ![c] = fr]
    BY Zenon DEF TeardownCall
  <2>3. Teardown(fsm[f]).gen = fsm[f].gen + 1
    BY <2>1, TeardownFacts, Zenon
  <2>. HIDE DEF fr
  <2>. QED
    BY <2>1, <2>2, <2>3, Zenon
<1>2. \/ todo \in Endings /\ fsm[f].st = "ESTABLISHED"
      \/ todo \in {<<>>, <<"notify">>, <<"cease">>}
  BY Zenon
<1>3. todo \in Seq(Tasks)
  <2>. HIDE DEF todo
  <2>. QED
    BY <1>2, TaskLists, Zenon DEF Endings
<1>. HIDE DEF todo
<1>4. /\ fr.pc \in {"idle", "work"}
      /\ fr.pc = "work" => /\ fr.todo # <<>> /\ fr.fsm = f /\ fr.gen = fsm[f].gen
                           /\ fr.peer = fsm[f].peer /\ fr.todo = todo
      /\ fr.pc = "idle" => fr = Idle
  <2>1. /\ fr \in Frame
        /\ fr.pc \in {"idle", "work"}
        /\ fr.pc = "work" => /\ fr.todo # <<>> /\ fr.fsm = f /\ fr.gen = fsm[f].gen
                             /\ fr.peer = fsm[f].peer /\ fr.todo = todo
        /\ fr.pc = "idle" => fr = Idle /\ todo = <<>>
    BY <1>1, <1>3, WorkFrameFacts
  <2>. HIDE DEF fr
  <2>. QED
    BY <2>1, Zenon
<1>5. Idle.todo = <<>>
  BY Constants, Zenon
<1>. HIDE DEF fr
<1>6. Form(c, fr)
  <2>1. CASE fr.pc = "idle"
    BY <1>4, <1>5, <2>1, Zenon DEF Form
  <2>2. CASE fr.pc = "work" /\ todo \in Endings /\ fsm[f].st = "ESTABLISHED"
    BY <1>1, <1>4, <2>2, Zenon DEF Form, Closing, Ends
  <2>3. CASE fr.pc = "work" /\ todo \in {<<>>, <<"notify">>, <<"cease">>}
    BY <1>4, <2>3, Zenon DEF Form
  <2>. QED
    BY <1>2, <1>4, <2>1, <2>2, <2>3, Zenon
<1>7. published' = published /\ rib' = rib
  BY Zenon DEF TeardownCall
<1>. QED
  BY <1>1, <1>6, <1>7, Zenon

\* A step that leaves no tasks and puts no session on its way to SESSION_UP.
LEMMA PlainForm ==
    ASSUME NEW c, NEW fr, fr = Idle \/ (\E pc \in {"start_send", "ka_send", "open_send", "dump4", "tick_send",
                                              "event_send", "gap", "pka_send"} : fr.pc = pc /\ fr.todo = <<>>)
    PROVE  Form(c, fr)
<1>1. Idle.pc = "idle" /\ Idle.todo = <<>>
  BY Constants, Zenon
<1>. QED
  BY <1>1, Zenon DEF Form

\* The frame that answers an OPEN.
LEMMA AcceptForm ==
    ASSUME NEW c \in Calls, NEW f, NEW p, NEW from, call \in [Calls -> Frame], AcceptOpen(c, f, p, from)
    PROVE  Form(c, call'[c])
<1>. DEFINE A(pc) == [Idle EXCEPT !.pc = pc, !.fsm = f, !.gen = fsm[f].gen + 1, !.peer = p]
<1>1. call'[c] = A(IF from \in PreOpen THEN "open_send" ELSE "ka_send")
  BY Zenon DEF AcceptOpen
<1>2. /\ A("open_send").pc = "open_send" /\ A("open_send").todo = <<>>
      /\ A("ka_send").pc = "ka_send" /\ A("ka_send").todo = <<>>
  BY Zenon DEF Idle
<1>. HIDE DEF A
<1>3. call'[c] \in {A("open_send"), A("ka_send")}
  BY <1>1, Zenon
<1>. QED
  BY <1>2, <1>3, PlainForm, Zenon

\* The entry points.
LEMMA EnterForm ==
    ASSUME TypeInv, NEW c \in Calls, NEW f \in Fsms, Enter(c, f), call[c].todo = <<>>
    PROVE  OtherStep(c)
<1>1. call[c].pc = "idle"
  BY Zenon DEF Enter, EnterPreOpenState, Start, Stop, ResetSoft, ResetHard, OpenPacket, OpenRejected,
         KeepaliveDeferred, KeepaliveEstablishes, ConfirmRejected, Notification, RawPacketError,
         UpdateAnnounces, UpdateWithdraws, UpdateFails, EstablishedRejected, HoldExpired,
         KeepaliveDue, RouteEvent, CanCall, CanEnter
<1>2. call \in [Calls -> Frame]
  BY Zenon DEF TypeInv, TypeOK
<1>3. Form(c, call[c])
  BY <1>1, Zenon DEF Form
<1>4. CASE \/ Stop(c, f) \/ ResetSoft(c, f) \/ ResetHard(c, f)
           \/ OpenRejected(c, f) \/ ConfirmRejected(c, f) \/ Notification(c, f)
           \/ RawPacketError(c, f) \/ EstablishedRejected(c, f) \/ HoldExpired(c, f)
  <2>1. PICK e, o : /\ TeardownCall(c, f, e, o) /\ (fsm[f].st # "ESTABLISHED" \/ e \in Endings)
                    /\ o \in {<<>>, <<"notify">>, <<"cease">>}
    BY <1>4, Zenon
       DEF Stop, ResetSoft, ResetHard, OpenRejected, ConfirmRejected, Notification, RawPacketError,
           EstablishedRejected, HoldExpired, Endings, PreOpen
  <2>2. Form(c, call'[c]) /\ published' = published /\ rib' = rib
    BY <2>1, TeardownForm, Zenon
  <2>. QED
    BY <1>1, <2>2, Zenon DEF OtherStep
<1>5. CASE \/ \E to \in {"CONNECT", "ACTIVE"} : EnterPreOpenState(c, f, to)
           \/ KeepaliveDeferred(c, f)
  <2>1. call' = call /\ published' = published /\ rib' = rib
    BY <1>5, Zenon DEF EnterPreOpenState, KeepaliveDeferred
  <2>. QED
    BY <1>1, <1>3, <2>1, Zenon DEF OtherStep
<1>6. CASE UpdateAnnounces(c, f) \/ UpdateWithdraws(c, f)
  <2>1. call' = call /\ published' = published /\ fsm' = fsm /\ fsm[f].st = "ESTABLISHED"
    BY <1>6, Zenon DEF UpdateAnnounces, UpdateWithdraws
  <2>2. rib' \in {[rib EXCEPT ![fsm[f].peer] = r] : r \in {NewRoute(f), NoRoute}}
    BY <1>6, Zenon DEF UpdateAnnounces, UpdateWithdraws
  <2>. QED
    BY <1>1, <1>3, <2>1, <2>2, Zenon DEF OtherStep
<1>7. CASE Start(c, f) \/ KeepaliveEstablishes(c, f) \/ KeepaliveDue(c, f) \/ RouteEvent(c, f)
  <2>1. call'[c] \in {[Idle EXCEPT !.pc = "start_send", !.fsm = f, !.gen = fsm[f].gen + 1, !.from = fsm[f].st],
                      [Idle EXCEPT !.pc = "dump4", !.fsm = f, !.gen = fsm[f].gen + 1],
                      [Idle EXCEPT !.pc = "tick_send", !.fsm = f, !.gen = fsm[f].gen, !.from = fsm[f].st],
                      [Idle EXCEPT !.pc = "event_send", !.fsm = f, !.gen = fsm[f].gen]}
    BY <1>2, <1>7, Zenon DEF Start, KeepaliveEstablishes, KeepaliveDue, RouteEvent
  <2>4. call'[c].pc \in {"start_send", "dump4", "tick_send", "event_send"} /\ call'[c].todo = <<>>
    BY <2>1, ZenonT(60) DEF Idle
  <2>2. Form(c, call'[c])
    BY <2>4, PlainForm, Zenon
  <2>3. published' = published /\ rib' = rib
    BY <1>7, Zenon DEF Start, KeepaliveEstablishes, KeepaliveDue, RouteEvent
  <2>. QED
    BY <1>1, <2>2, <2>3, Zenon DEF OtherStep
<1>8. ASSUME NEW p \in Peers, OpenPacket(c, f, p)
      PROVE  OtherStep(c)
  <2>1. CASE CollisionDetection
    <3>1. call'[c] = [Idle EXCEPT !.pc = "collide", !.fsm = f, !.gen = fsm[f].gen, !.peer = p,
                                  !.from = fsm[f].st, !.ask = Fsms \ {f}]
      BY <1>2, <1>8, <2>1, Zenon DEF OpenPacket
    <3>2. /\ call'[c].pc = "collide" /\ call'[c].todo = <<>>
          /\ call'[c].fsm = f /\ call'[c].ask = Fsms \ {f}
      BY <3>1, Zenon DEF Idle
    <3>. QED
      BY <1>1, <1>8, <2>1, <3>2, Zenon DEF OpenPacket, Form, OtherStep
  <2>2. CASE ~CollisionDetection
    <3>1. Form(c, call'[c])
      BY <1>2, <1>8, <2>2, AcceptForm, Zenon DEF OpenPacket
    <3>. QED
      BY <1>1, <1>8, <2>2, <3>1, Zenon DEF OpenPacket, AcceptOpen, OtherStep
  <2>. QED
    BY <2>1, <2>2, Zenon
<1>9. ASSUME NEW route \in {NewRoute(f), NoRoute}, UpdateFails(c, f, route)
      PROVE  OtherStep(c)
  <2>1. call'[c] = RollbackFrame(f, fsm[f], rib[fsm[f].peer], route.uid)
    BY <1>2, <1>9, Zenon DEF UpdateFails
  <2>4. call'[c].pc = "work" /\ call'[c].todo = <<"rb_remove", "rb_restore">>
    BY <2>1, Zenon DEF RollbackFrame, Idle
  <2>2. AllocFails /\ published' = published
    BY <1>9, Zenon DEF UpdateFails
  <2>3. Form(c, call'[c])
    BY <2>2, <2>4, Zenon DEF Form
  <2>. QED
    BY <1>1, <2>2, <2>3, Zenon DEF OtherStep
<1>. QED
  BY <1>4, <1>5, <1>6, <1>7, <1>8, <1>9, Zenon DEF Enter

\* The steps of a call that has no tasks.
LEMMA StepForm ==
    ASSUME TypeInv, NEW c \in Calls, NEW ok \in BOOLEAN, NEW x \in Fsms, call[c].todo = <<>>,
           \/ StartSent(c, ok) \/ KeepaliveSent(c, ok) \/ PassiveOpenSent(c, ok)
           \/ PassiveKeepaliveSent(c, ok) \/ PassiveKeepalivePending(c)
           \/ AdvertiseExistingRib4(c, ok) \/ AdvertiseExistingRib6(c, ok)
           \/ TickKeepaliveSent(c, ok) \/ RouteEventSent(c, ok)
           \/ CollisionEvent(c, x) \/ CollisionChecked(c) \/ SessionUp(c)
    PROVE  OtherStep(c)
<1>. DEFINE f == call[c].fsm
            g == call[c].gen
<1>1. call \in [Calls -> Frame] /\ call[c] \in Frame /\ f \in Fsms
  BY TypeParts, Zenon DEF TypeInv, TypeOK
<1>2. call[c].pc # "work"
  BY Zenon DEF StartSent, KeepaliveSent, PassiveOpenSent, PassiveKeepaliveSent, PassiveKeepalivePending,
       AdvertiseExistingRib4, AdvertiseExistingRib6, TickKeepaliveSent, RouteEventSent,
       CollisionEvent, CollisionChecked, SessionUp, CanStep
<1>3. ASSUME TeardownCurrentEstablished(c, f, g)
      PROVE  OtherStep(c)
  <2>1. CASE TeardownCall(c, f, CleanUp, <<>>)
    BY <1>1, <1>2, <2>1, TeardownForm, Zenon DEF Endings, OtherStep
  <2>2. CASE Finish(c) /\ UNCHANGED <<fsm, rib, uid, published>>
    <3>1. call'[c] = Idle /\ published' = published /\ rib' = rib
      BY <1>1, <2>2, Zenon DEF Finish
    <3>. QED
      BY <1>2, <3>1, PlainForm, Zenon DEF OtherStep
  <2>. QED
    BY <1>3, <2>1, <2>2, Zenon DEF TeardownCurrentEstablished
<1>4. ASSUME NEW fr, call' = [call EXCEPT ![c] = fr], Form(c, fr), published' = published, rib' = rib
      PROVE  OtherStep(c)
  <2>1. call'[c] = fr
    BY <1>1, <1>4, Zenon
  <2>. QED
    BY <1>2, <1>4, <2>1, Zenon DEF OtherStep
<1>5. Form(c, Idle)
  BY PlainForm, Zenon
<1>. HIDE DEF f, g
<1>6. CASE StartSent(c, ok)
  BY <1>4, <1>5, <1>6, Zenon DEF StartSent, Finish
<1>7. CASE KeepaliveSent(c, ok) \/ PassiveKeepaliveSent(c, ok)
  <2>. DEFINE dump == [Idle EXCEPT !.pc = "dump4", !.fsm = f, !.gen = g + 1]
  <2>1. PICK fr : call' = [call EXCEPT ![c] = fr] /\ fr \in {Idle, dump}
    BY <1>7, Zenon DEF KeepaliveSent, PassiveKeepaliveSent, Finish, f, g
  <2>3. dump.pc = "dump4" /\ dump.todo = <<>>
    BY Zenon DEF Idle
  <2>. HIDE DEF dump
  <2>2. Form(c, fr)
    BY <2>1, <2>3, PlainForm, Zenon
  <2>. QED
    BY <1>4, <1>7, <2>1, <2>2, Zenon DEF KeepaliveSent, PassiveKeepaliveSent
<1>8. CASE PassiveOpenSent(c, ok) \/ PassiveKeepalivePending(c)
  <2>1. PICK fr : /\ call' = [call EXCEPT ![c] = fr]
                  /\ fr \in {Idle, [call[c] EXCEPT !.pc = "gap"], [call[c] EXCEPT !.pc = "pka_send"]}
    BY <1>8, Zenon DEF PassiveOpenSent, PassiveKeepalivePending, Finish
  <2>3. /\ [call[c] EXCEPT !.pc = "gap"].pc = "gap" /\ [call[c] EXCEPT !.pc = "gap"].todo = <<>>
        /\ [call[c] EXCEPT !.pc = "pka_send"].pc = "pka_send" /\ [call[c] EXCEPT !.pc = "pka_send"].todo = <<>>
    BY <1>1, Zenon DEF Frame
  <2>2. Form(c, fr)
    BY <2>1, <2>3, PlainForm, Zenon
  <2>. QED
    BY <1>4, <1>8, <2>1, <2>2, Zenon DEF PassiveOpenSent, PassiveKeepalivePending
<1>9. CASE AdvertiseExistingRib4(c, ok) \/ AdvertiseExistingRib6(c, ok)
  <2>1. CASE \E pc \in {"dump6", "up"} :
                /\ call[c].pc = IF pc = "dump6" THEN "dump4" ELSE "dump6"
                /\ call' = [call EXCEPT ![c] = [call[c] EXCEPT !.pc = pc]]
                /\ Current(fsm[f], "ESTABLISHED", g)
                /\ published' = published /\ rib' = rib /\ fsm' = fsm
    <3>1. PICK pc \in {"dump6", "up"} :
                /\ call[c].pc = IF pc = "dump6" THEN "dump4" ELSE "dump6"
                /\ call' = [call EXCEPT ![c] = [call[c] EXCEPT !.pc = pc]]
                /\ Current(fsm[f], "ESTABLISHED", g)
                /\ published' = published /\ rib' = rib /\ fsm' = fsm
      BY <2>1, Zenon
    <3>. DEFINE fr == [call[c] EXCEPT !.pc = pc]
    <3>2. fr.pc = pc /\ fr.fsm = f /\ fr.gen = g /\ fr.todo = <<>>
      BY <1>1, Zenon DEF Frame, f, g
    <3>3. call' = [call EXCEPT ![c] = fr]
      BY <3>1, Zenon
    <3>4. f = call[c].fsm /\ g = call[c].gen
      BY Zenon DEF f, g
    <3>. HIDE DEF fr
    <3>5. Form(c, fr)
      BY <3>1, <3>2, <3>4, Zenon DEF Form
    <3>. QED
      BY <1>4, <3>1, <3>3, <3>5, Zenon
  <2>2. CASE Finish(c) /\ published' = published /\ rib' = rib
    BY <1>4, <1>5, <2>2, Zenon DEF Finish
  <2>. QED
    BY <1>3, <1>9, <2>1, <2>2, Zenon DEF AdvertiseExistingRib4, AdvertiseExistingRib6, CanStep, f, g
<1>10. CASE TickKeepaliveSent(c, ok)
  <2>1. CASE TeardownCall(c, f, CleanUp, <<>>)
    BY <1>1, <1>2, <2>1, TeardownForm, Zenon DEF Endings, OtherStep
  <2>2. CASE Finish(c) /\ published' = published /\ rib' = rib
    BY <1>4, <1>5, <2>2, Zenon DEF Finish
  <2>. QED
    BY <1>10, <2>1, <2>2, Zenon DEF TickKeepaliveSent, f
<1>11. CASE RouteEventSent(c, ok)
  <2>1. CASE Finish(c) /\ published' = published /\ rib' = rib
    BY <1>4, <1>5, <2>1, Zenon DEF Finish
  <2>. QED
    BY <1>3, <1>11, <2>1, Zenon DEF RouteEventSent, f, g
<1>12. CASE CollisionEvent(c, x)
  <2>. DEFINE meant == fsm[x].st = "OPEN_CONFIRM" /\ fsm[x].peer = call[c].peer
              fr == [call[c] EXCEPT !.ask = call[c].ask \ {x}, !.handled = call[c].handled \/ meant]
  <2>1. call' = [call EXCEPT ![c] = fr] /\ call[c].pc = "collide" /\ published' = published /\ rib' = rib
    BY <1>12, Zenon DEF CollisionEvent, CanStep
  <2>2. /\ fr.pc = call[c].pc /\ fr.todo = <<>> /\ fr.fsm = call[c].fsm /\ fr.peer = call[c].peer
        /\ fr.ask = call[c].ask \ {x} /\ fr.handled = (call[c].handled \/ meant)
    BY <1>1, Zenon DEF Frame
  <2>. HIDE DEF fr
  <2>4. x \in Fsms /\ call[c].peer \in Peers
    BY <1>12, <2>1, Zenon DEF CollisionEvent, TypeInv, FrameOK, TypeOK, Frame
  <2>5. LocalId > call[c].peer \/ LocalId <= call[c].peer
    <3>1. PICK p \in Peers : p = call[c].peer
      BY <2>4, Zenon
    <3>2. LocalId > p \/ LocalId <= p
      BY IdsAssumption
    <3>. QED
      BY <3>1, <3>2, Zenon
  <2>6. ASSUME meant, LocalId <= call[c].peer PROVE Form(c, fr)
    <3>1. fsm'[x] = Teardown(fsm[x]) /\ fsm[x] \in Session
      BY <1>12, <2>4, <2>6, Zenon DEF CollisionEvent, TypeInv, TypeOK
    <3>2. fsm'[x].st # "OPEN_CONFIRM"
      BY <3>1, TeardownFacts, Zenon
    <3>3. Asked(c, x, fr)
      BY <2>1, <2>2, <3>2, Zenon DEF Asked
    <3>. QED
      BY <2>1, <2>2, <2>4, <3>3, Zenon DEF Form
  <2>7. ASSUME ~(meant /\ LocalId <= call[c].peer) PROVE Form(c, fr)
    <3>1. fsm' = fsm
      BY <1>12, <2>7, Zenon DEF CollisionEvent
    <3>3. Asked(c, x, fr)
      BY <2>1, <2>2, <2>5, <2>7, <3>1, Zenon DEF Asked
    <3>. QED
      BY <2>1, <2>2, <2>4, <3>3, Zenon DEF Form
  <2>3. Form(c, fr)
    BY <2>6, <2>7, Zenon
  <2>. QED
    BY <1>4, <2>1, <2>3, Zenon
<1>13. CASE CollisionChecked(c)
  <2>1. CASE TeardownCall(c, f, <<"cease">>, <<"cease">>)
    BY <1>1, <1>2, <2>1, TeardownForm, Zenon DEF OtherStep
  <2>2. CASE AcceptOpen(c, f, call[c].peer, call[c].from)
    <3>1. Form(c, call'[c])
      BY <1>1, <2>2, AcceptForm, Zenon
    <3>. QED
      BY <1>2, <2>2, <3>1, Zenon DEF AcceptOpen, OtherStep
  <2>. QED
    BY <1>13, <2>1, <2>2, Zenon DEF CollisionChecked, f
<1>14. CASE SessionUp(c)
  <2>1. call'[c] = Idle
    BY <1>1, <1>14, Zenon DEF SessionUp, Finish
  <2>. QED
    BY <1>2, <1>5, <1>14, <2>1, Zenon DEF SessionUp, OtherStep, CanStep
<1>. QED
  BY <1>6, <1>7, <1>8, <1>9, <1>10, <1>11, <1>12, <1>13, <1>14, Zenon

-----------------------------------------------------------------------------
(* Who takes a step, and which frames there are.                           *)

\* When calls nest, only the innermost one moves, and a new one begins in a callback.
Innermost(c) ==
    ~Threads => \A d \in Calls : /\ d > c => call[d].pc = "idle"
                                 /\ d < c /\ call[c].pc = "idle" => InCallback(call[d])

StepBy(c) ==
    /\ \E f \in Fsms : Kind(c, f)
    /\ TaskStep(c) \/ OtherStep(c)
    /\ Innermost(c)

\* Only calls at work have tasks; the collision check and the rollback of a failed
\* UPDATE are there only where they are switched on; an inner call runs inside
\* callbacks of all outer ones.
FramesInv ==
    /\ \A c \in Calls : call[c].todo # <<>> => call[c].pc = "work"
    /\ ~CollisionDetection => \A c \in Calls : call[c].pc # "collide"
    /\ ~AllocFails => \A c \in Calls : \A i \in 1..Len(call[c].todo) : call[c].todo[i] # "rb_restore"
    /\ ~Threads => \A c, d \in Calls : d < c /\ call[c].pc # "idle" => InCallback(call[d])

\* Every step is taken by one call.
LEMMA NextBy ==
    ASSUME TypeInv, TypeInv', IInv, FramesInv, Next
    PROVE  \E c \in Calls : StepBy(c)
<1>0. TRUE \in BOOLEAN /\ AnyFsm \in Fsms
  BY Constants, Zenon
<1>1. PICK c \in Calls : Step(c) \/ \E f \in Fsms : Enter(c, f)
  BY Zenon DEF Next
<1>2. CASE \E f \in Fsms : Enter(c, f)
  <2>1. PICK f \in Fsms : Enter(c, f)
    BY <1>2, Zenon
  <2>2. CanEnter(c)
    BY <2>1, Zenon DEF Enter, EnterPreOpenState, Start, Stop, ResetSoft, ResetHard, OpenPacket, OpenRejected,
         KeepaliveDeferred, KeepaliveEstablishes, ConfirmRejected, Notification, RawPacketError,
         UpdateAnnounces, UpdateWithdraws, UpdateFails, EstablishedRejected, HoldExpired,
         KeepaliveDue, RouteEvent, CanCall
  <2>3. call[c].todo = <<>>
    BY <2>2, Zenon DEF CanEnter, FramesInv
  <2>4. Innermost(c)
    <3>. SUFFICES ASSUME ~Threads, NEW d \in Calls
                  PROVE  /\ d > c => call[d].pc = "idle"
                         /\ d < c => InCallback(call[d])
      BY Zenon DEF Innermost
    <3>1. d \in Nat /\ c \in Nat
      BY CallsAssumption, Zenon
    <3>2. d > c => ~(d < c)
      BY <3>1
    <3>. QED
      BY <2>2, <3>2, Zenon DEF CanEnter
  <2>5. OtherStep(c)
    BY <2>1, <2>3, EnterForm, Zenon
  <2>6. \E o \in Fsms : Kind(c, o)
    BY <2>1, KindEnter, Zenon
  <2>. QED
    BY <2>4, <2>5, <2>6, Zenon DEF StepBy
<1>3. CASE Step(c)
  <2>1. \E f \in Fsms : Kind(c, f)
    BY <1>0, <1>3, KindSent, KindOtherStep, Zenon DEF Step
  <2>2. PICK pc \in Pcs \ {"idle"} : CanStep(c, pc)
    BY <1>3, Zenon DEF Step, StartSent, KeepaliveSent, PassiveOpenSent, PassiveKeepaliveSent, PassiveKeepalivePending,
       AdvertiseExistingRib4, AdvertiseExistingRib6, TickKeepaliveSent, RouteEventSent,
       CollisionEvent, CollisionChecked, SessionUp, RemoveJournaledInsertion, RestoreJournaledRoute,
       DiscardPeerRoutes, SendOrPublish, SessionDown, Doing, Pcs, SendPcs
  <2>3. Innermost(c)
    BY <2>2, Zenon DEF CanStep, Innermost
  <2>4. TaskStep(c) \/ OtherStep(c)
    <3>1. CASE call[c].pc = "work"
      <4>1. \/ RemoveJournaledInsertion(c) \/ RestoreJournaledRoute(c)
            \/ DiscardPeerRoutes(c) \/ SendOrPublish(c) \/ SessionDown(c)
        BY <1>3, <3>1, Zenon DEF Step, StartSent, KeepaliveSent, PassiveOpenSent, PassiveKeepaliveSent,
           PassiveKeepalivePending, AdvertiseExistingRib4, AdvertiseExistingRib6, TickKeepaliveSent,
           RouteEventSent, CollisionEvent, CollisionChecked, SessionUp, CanStep
      <4>. QED
        BY <4>1, TaskDoes, Zenon
    <3>2. CASE call[c].pc # "work"
      <4>1. call[c].todo = <<>>
        BY <3>2, Zenon DEF FramesInv
      <4>2. ~(\/ RemoveJournaledInsertion(c) \/ RestoreJournaledRoute(c)
              \/ DiscardPeerRoutes(c) \/ SendOrPublish(c) \/ SessionDown(c))
        BY <3>2, Zenon DEF RemoveJournaledInsertion, RestoreJournaledRoute, DiscardPeerRoutes,
                           SendOrPublish, SessionDown, Doing, CanStep
      <4>. QED
        BY <1>0, <1>3, <4>1, <4>2, StepForm, Zenon DEF Step
    <3>. QED
      BY <3>1, <3>2, Zenon
  <2>. QED
    BY <2>1, <2>3, <2>4, Zenon DEF StepBy
<1>. QED
  BY <1>1, <1>2, <1>3, Zenon

\* The tasks that are left after one is done.
LEMMA TailTasks ==
    ASSUME NEW todo \in Seq(Tasks), todo # <<>>
    PROVE  /\ Tail(todo) \in Seq(Tasks) /\ Len(todo) \in Nat /\ Len(todo) # 0
           /\ Len(Tail(todo)) = Len(todo) - 1
           /\ \A i \in 1..Len(Tail(todo)) : i + 1 \in 1..Len(todo) /\ Tail(todo)[i] = todo[i + 1]
           /\ Head(todo) = todo[1]
OBVIOUS

\* The frames of the task lists.
LEMMA FormTasks ==
    ASSUME NEW c, NEW fr, Form(c, fr)
    PROVE  /\ fr.todo # <<>> => fr.pc = "work"
           /\ ~AllocFails => \A i \in 1..Len(fr.todo) : fr.todo[i] # "rb_restore"
           /\ (\E i \in 1..Len(fr.todo) : fr.todo[i] = "down") => Closing(fr)
           /\ \A i, j \in 1..Len(fr.todo) : fr.todo[i] = "down" /\ fr.todo[j] = "down" => i = j
<1>1. CASE fr.todo = <<>>
  BY <1>1
<1>2. CASE fr.pc = "work" /\ fr.todo \in {<<"notify">>, <<"cease">>}
  BY <1>2
<1>3. CASE fr.pc = "work" /\ fr.todo = <<"rb_remove", "rb_restore">> /\ AllocFails
  BY <1>3
<1>4. CASE fr.pc = "work" /\ Closing(fr)
  <2>1. fr.todo \in Endings
    BY <1>4, Zenon DEF Closing, Ends
  <2>. QED
    BY <1>4, <2>1, EndingsOwe, Zenon
<1>. QED
  BY <1>1, <1>2, <1>3, <1>4, Zenon DEF Form

\* The frames of the other calls stay.
LEMMA OthersStay ==
    ASSUME TypeInv, NEW c \in Calls, StepBy(c), NEW d \in Calls, d # c
    PROVE  call'[d] = call[d]
<1>1. PICK f \in Fsms : Kind(c, f)
  BY Zenon DEF StepBy
<1>2. PICK s \in Session, fr \in Frame : \A x \in Calls : call'[x] = IF x = c THEN fr ELSE call[x]
  BY <1>1, KindDoes, Zenon
<1>. QED
  BY <1>2, Zenon

\* Every step keeps FramesInv.
LEMMA FramesKept ==
    ASSUME TypeInv, FramesInv, NEW c \in Calls, StepBy(c)
    PROVE  FramesInv'
<1>1. \A d \in Calls \ {c} : call'[d] = call[d]
  BY OthersStay, Zenon
<1>2. /\ call'[c].todo # <<>> => call'[c].pc = "work"
      /\ ~CollisionDetection => call'[c].pc # "collide"
      /\ ~AllocFails => \A i \in 1..Len(call'[c].todo) : call'[c].todo[i] # "rb_restore"
  <2>1. CASE TaskStep(c)
    <3>1. CASE call'[c] = Idle
      <4>1. Idle.todo = <<>> /\ Idle.pc = "idle"
        BY Constants, Zenon
      <4>. QED
        BY <3>1, <4>1
    <3>2. CASE call'[c].pc = "work" /\ call'[c].todo = Tail(call[c].todo)
      <4>1. call[c].todo \in Seq(Tasks) /\ call[c].todo # <<>>
        BY <2>1, Zenon DEF TaskStep
      <4>2. ~AllocFails => \A i \in 1..Len(call[c].todo) : call[c].todo[i] # "rb_restore"
        BY Zenon DEF FramesInv
      <4>3. ~AllocFails => \A i \in 1..Len(Tail(call[c].todo)) : Tail(call[c].todo)[i] # "rb_restore"
        <5>1. PICK todo \in Seq(Tasks) : todo = call[c].todo
          BY <4>1, Zenon
        <5>2. \A i \in 1..Len(Tail(todo)) : i + 1 \in 1..Len(todo) /\ Tail(todo)[i] = todo[i + 1]
          BY <4>1, <5>1, TailTasks, Zenon
        <5>. QED
          BY <4>2, <5>1, <5>2, Zenon
      <4>. QED
        BY <3>2, <4>3, Zenon
    <3>. QED
      BY <2>1, <3>1, <3>2, Zenon DEF TaskStep
  <2>2. CASE OtherStep(c)
    <3>1. Form(c, call'[c])
      BY <2>2, Zenon DEF OtherStep
    <3>2. ~CollisionDetection => call'[c].pc # "collide"
      BY <3>1, Zenon DEF Form, Asked, FramesInv
    <3>. QED
      BY <3>1, <3>2, FormTasks, Zenon
  <2>. QED
    BY <2>1, <2>2, Zenon DEF StepBy
<1>3. ASSUME ~Threads, NEW a \in Calls, NEW b \in Calls, b < a, call'[a].pc # "idle"
      PROVE  InCallback(call'[b])
  <2>1. a \in Nat /\ b \in Nat /\ c \in Nat
    BY <1>3, CallsAssumption, Zenon
  <2>2. CASE a = c
    <3>1. b # c
      BY <1>3, <2>1, <2>2
    <3>2. InCallback(call[b])
      BY <1>3, <2>2, Zenon DEF StepBy, Innermost, FramesInv
    <3>. QED
      BY <1>1, <3>1, <3>2, Zenon
  <2>3. CASE a # c
    <3>1. call[a].pc # "idle"
      BY <1>1, <1>3, <2>3, Zenon
    <3>2. ~(a > c)
      BY <1>3, <3>1, Zenon DEF StepBy, Innermost
    <3>3. b # c
      BY <1>3, <2>1, <2>3, <3>2
    <3>4. InCallback(call[b])
      BY <1>3, <3>1, Zenon DEF FramesInv
    <3>. QED
      BY <1>1, <3>3, <3>4, Zenon
  <2>. QED
    BY <2>2, <2>3, Zenon
<1>4. ~Threads => \A a, b \in Calls : b < a /\ call'[a].pc # "idle" => InCallback(call'[b])
  BY <1>3, Zenon
<1>5. /\ \A d \in Calls : call'[d].todo # <<>> => call'[d].pc = "work"
      /\ ~CollisionDetection => \A d \in Calls : call'[d].pc # "collide"
      /\ ~AllocFails => \A d \in Calls : \A i \in 1..Len(call'[d].todo) : call'[d].todo[i] # "rb_restore"
  BY <1>1, <1>2, Zenon DEF FramesInv
<1>. QED
  BY <1>4, <1>5, Zenon DEF FramesInv, InCallback

\* The invariants so far, together.
AllInv == TypeInv /\ IInv /\ FramesInv

\* They hold throughout, and every step is taken by one call.
LEMMA FramesHold == Spec => []AllInv /\ [][\E c \in Calls : StepBy(c)]_vars
<1>1. Init => FramesInv
  <2>. SUFFICES ASSUME Init PROVE FramesInv
    BY Zenon
  <2>1. \A c \in Calls : call[c].todo = <<>> /\ call[c].pc = "idle"
    BY Constants, Zenon DEF Init
  <2>2. \A c \in Calls : \A i \in 1..Len(call[c].todo) : call[c].todo[i] # "rb_restore"
    BY <2>1
  <2>. QED
    BY <2>1, <2>2, Zenon DEF FramesInv
<1>2. AllInv /\ [Next]_vars => FramesInv' /\ [\E c \in Calls : StepBy(c)]_vars
  <2>. SUFFICES ASSUME AllInv, [Next]_vars PROVE FramesInv' /\ [\E c \in Calls : StepBy(c)]_vars
    BY Zenon
  <2>1. CASE Next
    <3>1. TypeInv'
      BY <2>1, TypeNext, Zenon DEF AllInv
    <3>2. \E c \in Calls : StepBy(c)
      BY <2>1, <3>1, NextBy, Zenon DEF AllInv
    <3>. QED
      BY <3>2, FramesKept, Zenon DEF AllInv
  <2>2. CASE UNCHANGED vars
    <3>1. call' = call
      BY <2>2, Zenon DEF vars
    <3>2. FramesInv'
      BY <3>1, Zenon DEF AllInv, FramesInv, InCallback
    <3>. QED
      BY <2>2, <3>2, Zenon
  <2>. QED
    BY <2>1, <2>2, Zenon
<1>. QED
  BY <1>1, <1>2, Invariant, PTL DEF Spec, AllInv

-----------------------------------------------------------------------------
(* The end of a session and its routes, without collision detection.  With *)
(* it the handler of an OPEN may find that the session came up while it    *)
(* was asking the others, and ends it without a word (NoStalePromotion).   *)

\* What happens to a session that is up: it stays, or the call that ends it cleans up.
LEMMA UpStays ==
    ASSUME AllInv, ~CollisionDetection, NEW c \in Calls, StepBy(c), NEW o \in Fsms,
           fsm[o].st = "ESTABLISHED"
    PROVE  \/ fsm'[o].st = fsm[o].st /\ fsm'[o].gen = fsm[o].gen /\ fsm'[o].peer = fsm[o].peer
           \/ Ends(o, call'[c])
<1>0. TypeInv /\ IInv /\ FramesInv
  BY Zenon DEF AllInv
<1>1. PICK f \in Fsms : Kind(c, f)
  BY Zenon DEF StepBy
<1>2. PICK s \in Session, fr \in Frame :
          /\ \A x \in Fsms : fsm'[x] = IF x = f THEN s ELSE fsm[x]
          /\ \A d \in Calls : call'[d] = IF d = c THEN fr ELSE call[d]
          /\ \/ NewGenerationStep(c, f, s, fr) \/ QuietStep(c, f, s, fr)
             \/ AcceptStep(c, f, s, fr) \/ AnswerStep(c, f, s, fr) \/ DeferStep(c, f, s, fr)
  BY <1>0, <1>1, KindDoes, Zenon
<1>3. call[c].pc # "collide" /\ call'[c] = fr
  BY <1>0, <1>2, Zenon DEF FramesInv
<1>4. CASE o # f
  BY <1>2, <1>4, Zenon
<1>5. CASE o = f
  <2>1. fsm'[o] = s
    BY <1>2, <1>5, Zenon
  <2>2. ~AnswerStep(c, f, s, fr)
    BY <1>0, <1>5, Zenon DEF AnswerStep, IInv, AnswerOwns, Owns
  <2>. QED
    BY <1>2, <1>3, <1>5, <2>1, <2>2, Zenon DEF NewGenerationStep, QuietStep, AcceptStep, DeferStep
<1>. QED
  BY <1>4, <1>5, Zenon

\* Without collision detection, every end of a session that was up goes along with a call
\* that will discard its peer's routes and publish its SESSION_DOWN, for any number of
\* threads and FSMs.
THEOREM DownAlwaysTold ==
    ASSUME ~CollisionDetection
    PROVE  Spec => NoSilentDown
<1>. DEFINE A == \A f \in Fsms :
                   fsm[f].st = "ESTABLISHED" /\ fsm'[f].gen # fsm[f].gen =>
                     \E c \in Calls : /\ call'[c].fsm = f /\ call'[c].gen = fsm[f].gen
                                      /\ call'[c].peer = fsm[f].peer
                                      /\ Owes(c, "discard")' /\ Owes(c, "down")'
<1>1. ASSUME AllInv, [\E c \in Calls : StepBy(c)]_vars
      PROVE  [A]_vars
  <2>. SUFFICES ASSUME NEW c \in Calls, StepBy(c), NEW f \in Fsms,
                       fsm[f].st = "ESTABLISHED", fsm'[f].gen # fsm[f].gen
                PROVE  /\ call'[c].fsm = f /\ call'[c].gen = fsm[f].gen
                       /\ call'[c].peer = fsm[f].peer
                       /\ Owes(c, "discard")' /\ Owes(c, "down")'
    BY <1>1, Zenon
  <2>1. Ends(f, call'[c])
    BY <1>1, UpStays, Zenon
  <2>2. PICK todo \in Endings : todo = call'[c].todo
    BY <2>1, Zenon DEF Ends
  <2>. QED
    BY <2>1, <2>2, EndingsOwe, Zenon DEF Ends, Owes
<1>. HIDE DEF A
<1>2. [][A]_vars => NoSilentDown
  BY PTL DEF A, NoSilentDown
<1>. QED
  BY <1>1, <1>2, FramesHold, PTL

\* NoOrphanRoutes with what makes it inductive: the session is one with the peer.
RibInv ==
    \A p \in Peers : rib[p] # NoRoute =>
        \/ Current(fsm[rib[p].fsm], "ESTABLISHED", rib[p].gen) /\ fsm[rib[p].fsm].peer = p
        \/ \E c \in Calls : call[c].peer = p /\ Owes(c, "discard")

\* A call that owes the discarding of routes goes on to owe it until it does it.
LEMMA OwedStays ==
    ASSUME AllInv, NEW c \in Calls, StepBy(c), NEW d \in Calls, NEW p \in Peers,
           call[d].peer = p, Owes(d, "discard"), rib'[p] # NoRoute
    PROVE  call'[d].peer = p /\ Owes(d, "discard")'
<1>0. TypeInv /\ IInv /\ FramesInv
  BY Zenon DEF AllInv
<1>1. CASE d # c
  <2>1. call'[d] = call[d]
    BY <1>0, <1>1, OthersStay, Zenon
  <2>. QED
    BY <2>1, Zenon DEF Owes
<1>2. CASE d = c
  <2>1. PICK i \in 1..Len(call[c].todo) : call[c].todo[i] = "discard"
    BY <1>2, Zenon DEF Owes
  <2>2. call[c].todo # <<>>
    BY <2>1
  <2>3. TaskStep(c)
    BY <1>0, <2>2, Zenon DEF StepBy, OtherStep, FramesInv
  <2>4. PICK todo \in Seq(Tasks) : todo = call[c].todo /\ todo # <<>>
    BY <2>3, Zenon DEF TaskStep
  <2>5. /\ Len(todo) \in Nat /\ Len(Tail(todo)) = Len(todo) - 1
        /\ \A j \in 1..Len(Tail(todo)) : j + 1 \in 1..Len(todo) /\ Tail(todo)[j] = todo[j + 1]
        /\ Head(todo) = todo[1]
    BY <2>4, TailTasks, Zenon
  <2>6. i # 1
    <3>1. Head(todo) = "discard" => rib'[p] = NoRoute
      BY <1>0, <1>2, <2>3, <2>4, Zenon DEF TaskStep, TypeInv, TypeOK
    <3>. QED
      BY <2>1, <2>4, <2>5, <3>1, Zenon
  <2>7. i - 1 \in 1..Len(Tail(todo)) /\ Tail(todo)[i - 1] = "discard"
    BY <2>1, <2>4, <2>5, <2>6
  <2>8. Tail(todo) # <<>>
    <3>. SUFFICES ASSUME Len(Tail(todo)) = 0 PROVE FALSE
      BY Zenon, Len(<<>>) = 0
    <3>. QED
      BY <2>7
  <2>9. call'[c].todo = Tail(todo) /\ call'[c].peer = p
    BY <1>2, <2>3, <2>4, <2>8, Zenon DEF TaskStep
  <2>. QED
    BY <1>2, <2>7, <2>9, Zenon DEF Owes
<1>. QED
  BY <1>1, <1>2, Zenon

\* How a step changes the route of a peer.
LEMMA RouteStep ==
    ASSUME AllInv, ~AllocFails, NEW c \in Calls, StepBy(c), NEW p \in Peers, rib'[p] # NoRoute
    PROVE  \/ rib'[p] = rib[p]
           \/ \E f \in Fsms : fsm' = fsm /\ fsm[f].st = "ESTABLISHED" /\ fsm[f].peer = p /\ rib'[p] = NewRoute(f)
<1>0. TypeInv /\ IInv /\ FramesInv /\ rib \in [Peers -> Route]
  BY Zenon DEF AllInv, TypeInv, TypeOK
<1>1. CASE TaskStep(c)
  <2>1. PICK todo \in Seq(Tasks) : todo = call[c].todo /\ todo # <<>>
    BY <1>1, Zenon DEF TaskStep
  <2>2. Head(todo) = todo[1] /\ 1 \in 1..Len(todo)
    BY <2>1
  <2>3. Head(todo) # "rb_restore"
    BY <1>0, <2>1, <2>2, Zenon DEF FramesInv
  <2>4. rib' \in {rib, [rib EXCEPT ![call[c].peer] = NoRoute]}
    BY <1>1, <2>1, <2>3, Zenon DEF TaskStep
  <2>. QED
    BY <1>0, <2>4, Zenon
<1>2. CASE OtherStep(c)
  <2>1. CASE rib' = rib
    BY <2>1, Zenon
  <2>2. CASE rib' # rib
    <3>1. PICK f \in Fsms : /\ fsm' = fsm /\ fsm[f].st = "ESTABLISHED"
                            /\ rib' \in {[rib EXCEPT ![fsm[f].peer] = r] : r \in {NewRoute(f), NoRoute}}
      BY <1>2, <2>2, Zenon DEF OtherStep
    <3>2. PICK r \in {NewRoute(f), NoRoute} : rib' = [rib EXCEPT ![fsm[f].peer] = r]
      BY <3>1, Zenon
    <3>. QED
      BY <1>0, <3>1, <3>2, Zenon
  <2>. QED
    BY <2>1, <2>2, Zenon
<1>. QED
  BY <1>1, <1>2, Zenon DEF StepBy

\* Without collision detection and with memory, no route outlives its session without a
\* call that is about to discard it, for any number of threads, FSMs and peers.
THEOREM RoutesAlwaysOwned ==
    ASSUME ~CollisionDetection, ~AllocFails
    PROVE  Spec => []NoOrphanRoutes
<1>1. Init => RibInv
  BY Zenon DEF Init, RibInv
<1>2. AllInv /\ RibInv /\ [\E c \in Calls : StepBy(c)]_vars => RibInv'
  <2>. SUFFICES ASSUME AllInv, RibInv, [\E c \in Calls : StepBy(c)]_vars PROVE RibInv'
    BY Zenon
  <2>1. CASE UNCHANGED vars
    <3>1. fsm' = fsm /\ call' = call /\ rib' = rib
      BY <2>1, Zenon DEF vars
    <3>2. \A c \in Calls : Owes(c, "discard")' <=> Owes(c, "discard")
      BY <3>1, Zenon DEF Owes
    <3>. QED
      BY <3>1, <3>2, Zenon DEF RibInv, Current
  <2>2. ASSUME NEW c \in Calls, StepBy(c), NEW p \in Peers, rib'[p] # NoRoute
        PROVE  \/ Current(fsm'[rib'[p].fsm], "ESTABLISHED", rib'[p].gen) /\ fsm'[rib'[p].fsm].peer = p
               \/ \E d \in Calls : call'[d].peer = p /\ Owes(d, "discard")'
    <3>1. CASE rib'[p] = rib[p]
      <4>1. CASE \E d \in Calls : call[d].peer = p /\ Owes(d, "discard")
        BY <2>2, <4>1, OwedStays, Zenon
      <4>2. CASE Current(fsm[rib[p].fsm], "ESTABLISHED", rib[p].gen) /\ fsm[rib[p].fsm].peer = p
        <5>1. PICK o \in Fsms : o = rib[p].fsm
          BY Zenon DEF AllInv, TypeInv, TypeOK, Route
        <5>2. fsm[o].st = "ESTABLISHED" /\ fsm[o].gen = rib[p].gen /\ fsm[o].peer = p
          BY <4>2, <5>1, Zenon DEF Current
        <5>3. CASE fsm'[o].st = fsm[o].st /\ fsm'[o].gen = fsm[o].gen /\ fsm'[o].peer = fsm[o].peer
          BY <3>1, <5>1, <5>2, <5>3, Zenon DEF Current
        <5>4. CASE Ends(o, call'[c])
          <6>1. PICK todo \in Endings : todo = call'[c].todo
            BY <5>4, Zenon DEF Ends
          <6>2. Owes(c, "discard")' /\ call'[c].peer = p
            BY <5>2, <5>4, <6>1, EndingsOwe, Zenon DEF Ends, Owes
          <6>. QED
            BY <2>2, <6>2, Zenon
        <5>. QED
          BY <2>2, <5>2, <5>3, <5>4, UpStays, Zenon
      <4>. QED
        BY <2>2, <3>1, <4>1, <4>2, Zenon DEF RibInv
    <3>2. CASE \E f \in Fsms : fsm' = fsm /\ fsm[f].st = "ESTABLISHED" /\ fsm[f].peer = p /\ rib'[p] = NewRoute(f)
      <4>1. PICK f \in Fsms : /\ fsm' = fsm /\ fsm[f].st = "ESTABLISHED" /\ fsm[f].peer = p
                              /\ rib'[p] = NewRoute(f)
        BY <3>2, Zenon
      <4>2. rib'[p].fsm = f /\ rib'[p].gen = fsm[f].gen
        <5>1. NewRoute(f).fsm = f /\ NewRoute(f).gen = fsm[f].gen
          BY Zenon DEF NewRoute
        <5>. QED
          BY <4>1, <5>1, Zenon
      <4>. QED
        BY <4>1, <4>2, Zenon DEF Current
    <3>. QED
      BY <2>2, <3>1, <3>2, RouteStep, Zenon
  <2>3. CASE \E c \in Calls : StepBy(c)
    BY <2>2, <2>3, Zenon DEF RibInv, Current
  <2>. QED
    BY <2>1, <2>3, Zenon
<1>3. RibInv => NoOrphanRoutes
  BY Zenon DEF RibInv, NoOrphanRoutes
<1>. QED
  BY <1>1, <1>2, <1>3, FramesHold, PTL DEF Spec

-----------------------------------------------------------------------------
(* SESSION_UP and SESSION_DOWN, when the calls nest.  A call is on its way *)
(* to SESSION_UP (Rising) or owes a SESSION_DOWN; UpInv says that there is *)
(* one such call for a session, that it has not published yet, and that    *)
(* SESSION_DOWN is owed and published only for generations that are over.  *)
(* A call about to publish SESSION_UP is in no callback, so no other call  *)
(* moves and its session is still up.                                      *)

Rising == {"dump4", "dump6", "up"}

Told(kind, f, g) == \E i \in 1..Len(published) : published[i] = <<kind, f, g>>

OwesDown(d) == Owes(d, "down")

UpInv ==
    /\ \A d \in Calls, f \in Fsms, g \in Nat :
            call[d].pc \in Rising /\ call[d].fsm = f /\ call[d].gen = g => g <= fsm[f].gen /\ ~Told("SESSION_UP", f, g)
    /\ \A d, e \in Calls : (call[d].pc \in Rising /\ call[e].pc \in Rising
                            /\ call[d].fsm = call[e].fsm /\ call[d].gen = call[e].gen) => d = e
    /\ \A d \in Calls : call[d].pc = "up" => Current(fsm[call[d].fsm], "ESTABLISHED", call[d].gen)
    /\ \A f \in Fsms, g \in Nat : Told("SESSION_UP", f, g) => g <= fsm[f].gen
    /\ \A f \in Fsms, g \in Nat : Told("SESSION_DOWN", f, g) => g < fsm[f].gen
    /\ \A d \in Calls, f \in Fsms, g \in Nat :
            OwesDown(d) /\ call[d].fsm = f /\ call[d].gen = g => g < fsm[f].gen /\ ~Told("SESSION_DOWN", f, g)
    /\ \A d, e \in Calls : (OwesDown(d) /\ OwesDown(e)
                            /\ call[d].fsm = call[e].fsm /\ call[d].gen = call[e].gen) => d = e
    /\ \A d \in Calls : \A i, j \in 1..Len(call[d].todo) :
                            call[d].todo[i] = "down" /\ call[d].todo[j] = "down" => i = j
    /\ UpBeforeDown

\* Generations only grow.
LEMMA GenGrows ==
    ASSUME AllInv, NEW c \in Calls, StepBy(c), NEW o \in Fsms
    PROVE  fsm[o].gen \in Nat /\ fsm'[o].gen \in Nat /\ fsm[o].gen <= fsm'[o].gen
<1>0. TypeInv /\ IInv /\ fsm[o] \in Session
  BY Zenon DEF AllInv, TypeInv, TypeOK
<1>1. PICK f \in Fsms : Kind(c, f)
  BY Zenon DEF StepBy
<1>2. PICK s \in Session, fr \in Frame :
          /\ \A x \in Fsms : fsm'[x] = IF x = f THEN s ELSE fsm[x]
          /\ \A d \in Calls : call'[d] = IF d = c THEN fr ELSE call[d]
          /\ \/ NewGenerationStep(c, f, s, fr) \/ QuietStep(c, f, s, fr)
             \/ AcceptStep(c, f, s, fr) \/ AnswerStep(c, f, s, fr) \/ DeferStep(c, f, s, fr)
  BY <1>0, <1>1, KindDoes, Zenon
<1>3. s.gen = fsm[f].gen \/ s.gen = fsm[f].gen + 1
  BY <1>2, Zenon DEF NewGenerationStep, QuietStep, AcceptStep, AnswerStep, DeferStep
<1>4. s.gen \in Nat /\ fsm[o].gen \in Nat
  BY <1>0, Zenon DEF Session
<1>5. CASE o = f
  BY <1>2, <1>3, <1>4, <1>5
<1>6. CASE o # f
  <2>1. fsm'[o] = fsm[o]
    BY <1>2, <1>6, Zenon
  <2>. QED
    BY <1>4, <2>1
<1>. QED
  BY <1>5, <1>6, Zenon

\* A call on its way to SESSION_UP was so before, or has just established the session.
LEMMA RisingStep ==
    ASSUME AllInv, NEW c \in Calls, StepBy(c), NEW d \in Calls, call'[d].pc \in Rising
    PROVE  \/ /\ call[d].pc \in Rising /\ call'[d].fsm = call[d].fsm /\ call'[d].gen = call[d].gen
              /\ call'[d].pc = "up" =>
                   \/ d # c /\ call'[d] = call[d]
                   \/ fsm' = fsm /\ Current(fsm[call[d].fsm], "ESTABLISHED", call[d].gen)
           \/ /\ d = c /\ call'[d].gen = fsm[call'[d].fsm].gen + 1 /\ call'[d].pc = "dump4"
              /\ fsm'[call'[d].fsm].gen = call'[d].gen /\ call'[d].fsm \in Fsms
<1>0. TypeInv /\ IInv /\ FramesInv
  BY Zenon DEF AllInv
<1>1. CASE d # c
  <2>1. call'[d] = call[d]
    BY <1>0, <1>1, OthersStay, Zenon
  <2>. QED
    BY <1>1, <2>1, Zenon
<1>2. CASE d = c /\ call'[c].pc = "dump4"
  <2>1. PICK f \in Fsms : Kind(c, f)
    BY Zenon DEF StepBy
  <2>2. PICK s \in Session, fr \in Frame :
            /\ \A x \in Fsms : fsm'[x] = IF x = f THEN s ELSE fsm[x]
            /\ \A x \in Calls : call'[x] = IF x = c THEN fr ELSE call[x]
            /\ \/ NewGenerationStep(c, f, s, fr) \/ QuietStep(c, f, s, fr)
               \/ AcceptStep(c, f, s, fr) \/ AnswerStep(c, f, s, fr) \/ DeferStep(c, f, s, fr)
    BY <1>0, <2>1, KindDoes, Zenon
  <2>3. call'[c] = fr /\ fr.pc = "dump4" /\ fsm'[f] = s
    BY <1>2, <2>2, Zenon
  <2>4. NewGenerationStep(c, f, s, fr) /\ s.st = "ESTABLISHED"
    BY <2>2, <2>3, Zenon DEF NewGenerationStep, QuietStep, AcceptStep, AnswerStep, DeferStep
  <2>. QED
    BY <1>2, <2>3, <2>4, Zenon DEF NewGenerationStep
<1>3. CASE d = c /\ call'[c].pc # "dump4"
  <2>1. OtherStep(c)
    <3>1. Idle.pc \notin Rising /\ "work" \notin Rising
      BY Constants, Zenon DEF Rising
    <3>. QED
      BY <1>3, <3>1, Zenon DEF StepBy, TaskStep
  <2>2. call'[c].pc \in {"dump6", "up"}
    BY <1>3, Zenon DEF Rising
  <2>. QED
    BY <1>3, <2>1, <2>2, Zenon DEF OtherStep, Form, Rising
<1>. QED
  BY <1>1, <1>2, <1>3, Zenon

\* A call that owes a SESSION_DOWN owed it before, or has just ended the session.
LEMMA OwingStep ==
    ASSUME AllInv, NEW c \in Calls, StepBy(c), NEW d \in Calls, OwesDown(d)',
           \A i, j \in 1..Len(call[c].todo) : call[c].todo[i] = "down" /\ call[c].todo[j] = "down" => i = j
    PROVE  \/ /\ OwesDown(d) /\ call'[d].fsm = call[d].fsm /\ call'[d].gen = call[d].gen
              /\ d = c => call[c].pc = "work" /\ Head(call[c].todo) # "down"
           \/ /\ d = c /\ call'[d].gen = fsm[call'[d].fsm].gen /\ call'[d].fsm \in Fsms
              /\ fsm'[call'[d].fsm].gen = call'[d].gen + 1
<1>0. TypeInv /\ IInv /\ FramesInv
  BY Zenon DEF AllInv
<1>1. CASE d # c
  <2>1. call'[d] = call[d]
    BY <1>0, <1>1, OthersStay, Zenon
  <2>. QED
    BY <1>1, <2>1, Zenon DEF OwesDown, Owes
<1>2. CASE d = c /\ TaskStep(c)
  <2>1. PICK i \in 1..Len(call'[c].todo) : call'[c].todo[i] = "down"
    BY <1>2, Zenon DEF OwesDown, Owes
  <2>2. call'[c] # Idle
    <3>1. Idle.todo = <<>> /\ 1..Len(<<>>) = {}
      BY Constants
    <3>. QED
      BY <2>1, <3>1, Zenon
  <2>3. PICK todo \in Seq(Tasks) : todo = call[c].todo /\ todo # <<>> /\ call'[c].todo = Tail(todo)
    BY <1>2, <2>2, Zenon DEF TaskStep
  <2>4. /\ \A j \in 1..Len(Tail(todo)) : j + 1 \in 1..Len(todo) /\ Tail(todo)[j] = todo[j + 1]
        /\ Head(todo) = todo[1] /\ 1 \in 1..Len(todo)
    <3>1. 1 \in 1..Len(todo)
      BY <2>3
    <3>. QED
      BY <2>3, <3>1, TailTasks, Zenon
  <2>5. i + 1 \in 1..Len(todo) /\ todo[i + 1] = "down"
    BY <2>1, <2>3, <2>4, Zenon
  <2>6. i + 1 # 1
    BY <2>1
  <2>7. Head(todo) # "down"
    BY <2>3, <2>4, <2>5, <2>6, Zenon
  <2>8. OwesDown(c)
    BY <2>3, <2>5, Zenon DEF OwesDown, Owes
  <2>. QED
    BY <1>2, <2>2, <2>3, <2>7, <2>8, Zenon DEF TaskStep
<1>3. CASE d = c /\ OtherStep(c)
  <2>1. Form(c, call'[c]) /\ \E i \in 1..Len(call'[c].todo) : call'[c].todo[i] = "down"
    BY <1>3, Zenon DEF OtherStep, OwesDown, Owes
  <2>2. Closing(call'[c])
    BY <2>1, FormTasks, Zenon
  <2>. QED
    BY <1>3, <2>2, Zenon DEF Closing, Ends
<1>. QED
  BY <1>1, <1>2, <1>3, Zenon DEF StepBy

\* What is published.
LEMMA PublishStep ==
    ASSUME NEW c \in Calls, StepBy(c)
    PROVE  \/ published' = published
           \/ /\ call[c].pc = "up" /\ call'[c] = Idle /\ fsm' = fsm
              /\ published' = Append(published, <<"SESSION_UP", call[c].fsm, call[c].gen>>)
           \/ /\ TaskStep(c) /\ Head(call[c].todo) = "down" /\ OwesDown(c) /\ fsm' = fsm
              /\ published' = Append(published, <<"SESSION_DOWN", call[c].fsm, call[c].gen>>)
<1>1. CASE TaskStep(c) /\ Head(call[c].todo) = "down"
  <2>1. PICK todo \in Seq(Tasks) : todo = call[c].todo /\ todo # <<>>
    BY <1>1, Zenon DEF TaskStep
  <2>2. 1 \in 1..Len(todo) /\ Head(todo) = todo[1]
    BY <2>1
  <2>3. OwesDown(c)
    BY <1>1, <2>1, <2>2, Zenon DEF OwesDown, Owes
  <2>. QED
    BY <1>1, <2>3, Zenon DEF TaskStep
<1>2. CASE TaskStep(c) /\ Head(call[c].todo) # "down"
  BY <1>2, Zenon DEF TaskStep
<1>3. CASE OtherStep(c)
  BY <1>3, Zenon DEF OtherStep
<1>. QED
  BY <1>1, <1>2, <1>3, Zenon DEF StepBy

\* When calls nest and one is about to publish SESSION_UP, it is the one that moves.
LEMMA OnlyUpMoves ==
    ASSUME ~Threads, AllInv, NEW c \in Calls, StepBy(c), NEW d \in Calls, call[d].pc = "up"
    PROVE  d = c
<1>1. c \in Nat /\ d \in Nat
  BY CallsAssumption, Zenon
<1>2. ~InCallback(call[d]) /\ call[d].pc # "idle"
  BY Zenon DEF InCallback, SendPcs
<1>3. ~(d > c)
  BY <1>2, Zenon DEF StepBy, Innermost
<1>4. ~(d < c)
  BY <1>2, Zenon DEF StepBy, Innermost, AllInv, FramesInv
<1>. QED
  BY <1>1, <1>3, <1>4

\* The order only depends on what is published.
LEMMA OrderStays ==
    ASSUME UpBeforeDown, published' = published
    PROVE  UpBeforeDown'
<1>. DEFINE W(p) == \A i, j \in 1..Len(p) :
                      /\ p[i] = p[j] => i = j
                      /\ (/\ p[i][1] = "SESSION_DOWN" /\ p[j][1] = "SESSION_UP"
                          /\ p[i][2] = p[j][2] /\ p[i][3] = p[j][3]) => j < i
<1>1. W(published)
  BY Zenon DEF UpBeforeDown
<1>2. W(published')
  <2>. HIDE DEF W
  <2>. QED
    BY <1>1, Zenon
<1>. QED
  BY <1>2, Zenon DEF UpBeforeDown

\* A publication adds itself and takes none away.
LEMMA ToldAfter ==
    ASSUME TypeInv, NEW k, NEW f, NEW g, published' = Append(published, <<k, f, g>>),
           NEW kk, NEW ff, NEW gg
    PROVE  Told(kk, ff, gg)' <=> Told(kk, ff, gg) \/ (kk = k /\ ff = f /\ gg = g)
<1>1. PICK p \in Seq({"SESSION_UP", "SESSION_DOWN"} \X Fsms \X Nat) : p = published
  BY Zenon DEF TypeInv, TypeOK
<1>2. PICK q : q = published'
  BY Zenon
<1>3. q = Append(p, <<k, f, g>>)
  BY <1>1, <1>2, Zenon
<1>4. /\ Len(p) \in Nat /\ Len(q) = Len(p) + 1 /\ q[Len(p) + 1] = <<k, f, g>>
      /\ \A i \in 1..Len(p) : q[i] = p[i]
  BY <1>3
<1>5. ASSUME NEW x, NEW e, q[Len(p) + 1] = e
      PROVE  (\E i \in 1..Len(q) : q[i] = x) <=> (\E i \in 1..Len(p) : p[i] = x) \/ e = x
  <2>1. \A i : i \in 1..Len(q) <=> i \in 1..Len(p) \/ i = Len(p) + 1
    BY <1>4
  <2>. QED
    BY <1>4, <1>5, <2>1, Zenon
<1>6. <<k, f, g>> = <<kk, ff, gg>> <=> kk = k /\ ff = f /\ gg = g
  BY Zenon
<1>7. (\E i \in 1..Len(q) : q[i] = <<kk, ff, gg>>) <=>
        (\E i \in 1..Len(p) : p[i] = <<kk, ff, gg>>) \/ <<k, f, g>> = <<kk, ff, gg>>
  BY <1>4, <1>5, Zenon
<1>. QED
  BY <1>1, <1>2, <1>6, <1>7, Zenon DEF Told

\* A publication that is new, and comes before the SESSION_DOWN of its session,
\* leaves the order right.
LEMMA OrderKept ==
    ASSUME TypeInv, UpBeforeDown, NEW k \in {"SESSION_UP", "SESSION_DOWN"}, NEW f \in Fsms, NEW g \in Nat,
           published' = Append(published, <<k, f, g>>),
           ~Told(k, f, g), k = "SESSION_UP" => ~Told("SESSION_DOWN", f, g)
    PROVE  UpBeforeDown'
<1>. DEFINE M == {"SESSION_UP", "SESSION_DOWN"} \X Fsms \X Nat
            W(p) == \A i, j \in 1..Len(p) :
                      /\ p[i] = p[j] => i = j
                      /\ (/\ p[i][1] = "SESSION_DOWN" /\ p[j][1] = "SESSION_UP"
                          /\ p[i][2] = p[j][2] /\ p[i][3] = p[j][3]) => j < i
<1>1. PICK p \in Seq(M) : p = published
  BY Zenon DEF TypeInv, TypeOK
<1>2. PICK q : q = published'
  BY Zenon
<1>3. PICK e \in M : e = <<k, f, g>>
  BY Zenon
<1>4. /\ Len(p) \in Nat /\ Len(q) = Len(p) + 1 /\ q[Len(p) + 1] = e
      /\ \A i \in 1..Len(p) : q[i] = p[i] /\ p[i] \in M
  <2>1. q = Append(p, e)
    BY <1>1, <1>2, <1>3, Zenon
  <2>. HIDE DEF M
  <2>. QED
    BY <2>1
<1>5. e[1] = k /\ e[2] = f /\ e[3] = g
  BY <1>3
<1>6. \A i \in 1..Len(p) : p[i] # e
  BY <1>1, <1>3, Zenon DEF Told
<1>7. ASSUME k = "SESSION_UP", NEW i \in 1..Len(p), p[i][1] = "SESSION_DOWN", p[i][2] = f, p[i][3] = g
      PROVE  FALSE
  <2>1. p[i] = <<p[i][1], p[i][2], p[i][3]>>
    <3>1. p[i] \in M
      BY <1>4, Zenon
    <3>. QED
      BY <3>1
  <2>. QED
    BY <1>1, <1>7, <2>1, Zenon DEF Told
<1>8. W(p)
  <2>1. W(published)
    BY Zenon DEF UpBeforeDown
  <2>. HIDE DEF W
  <2>. QED
    BY <1>1, <2>1, Zenon
<1>9. W(q)
  <2>. SUFFICES ASSUME NEW i \in 1..Len(q), NEW j \in 1..Len(q)
                PROVE  /\ q[i] = q[j] => i = j
                       /\ (/\ q[i][1] = "SESSION_DOWN" /\ q[j][1] = "SESSION_UP"
                           /\ q[i][2] = q[j][2] /\ q[i][3] = q[j][3]) => j < i
    BY Zenon
  <2>1. CASE i \in 1..Len(p) /\ j \in 1..Len(p)
    BY <1>4, <1>8, <2>1, ZenonT(60)
  <2>2. CASE i \in 1..Len(p) /\ j = Len(p) + 1
    BY <1>4, <1>5, <1>6, <1>7, <2>2, Zenon
  <2>3. CASE i = Len(p) + 1 /\ j \in 1..Len(p)
    <3>1. j < i
      BY <1>4, <2>3
    <3>. QED
      BY <1>4, <1>6, <2>3, <3>1, Zenon
  <2>4. CASE i = Len(p) + 1 /\ j = Len(p) + 1
    <3>1. q[i][1] = k /\ q[j][1] = k /\ i = j
      BY <1>4, <1>5, <2>4, Zenon
    <3>2. "SESSION_UP" # "SESSION_DOWN"
      OBVIOUS
    <3>. QED
      BY <3>1, <3>2, Zenon
  <2>5. \A x \in 1..Len(q) : x \in 1..Len(p) \/ x = Len(p) + 1
    BY <1>4
  <2>. QED
    BY <2>1, <2>2, <2>3, <2>4, <2>5, Zenon
<1>10. W(published')
  <2>. HIDE DEF W
  <2>. QED
    BY <1>2, <1>9, Zenon
<1>. QED
  BY <1>10, Zenon DEF UpBeforeDown

\* A step leaves at most one "down" in the list of a call.
LEMMA OneDown ==
    ASSUME AllInv, NEW c \in Calls, StepBy(c), NEW d \in Calls, NEW i \in 1..Len(call'[d].todo),
           NEW j \in 1..Len(call'[d].todo), call'[d].todo[i] = "down", call'[d].todo[j] = "down",
           \A x, y \in 1..Len(call[d].todo) : call[d].todo[x] = "down" /\ call[d].todo[y] = "down" => x = y
    PROVE  i = j
<1>1. CASE d # c
  <2>1. call'[d] = call[d]
    BY <1>1, OthersStay, Zenon DEF AllInv
  <2>. QED
    BY <2>1, Zenon
<1>2. CASE d = c /\ TaskStep(c)
  <2>2. call'[c] # Idle
    <3>1. Idle.todo = <<>> /\ 1..Len(<<>>) = {}
      BY Constants
    <3>. QED
      BY <1>2, <3>1, Zenon
  <2>3. PICK todo \in Seq(Tasks) : todo = call[c].todo /\ todo # <<>> /\ call'[c].todo = Tail(todo)
    BY <1>2, <2>2, Zenon DEF TaskStep
  <2>4. \A x \in 1..Len(Tail(todo)) : x + 1 \in 1..Len(todo) /\ Tail(todo)[x] = todo[x + 1]
    BY <2>3, TailTasks, Zenon
  <2>6. /\ i \in 1..Len(Tail(todo)) /\ Tail(todo)[i] = "down"
        /\ j \in 1..Len(Tail(todo)) /\ Tail(todo)[j] = "down"
    BY <1>2, <2>3, Zenon
  <2>7. \A x, y \in 1..Len(todo) : todo[x] = "down" /\ todo[y] = "down" => x = y
    BY <1>2, <2>3, Zenon
  <2>5. i + 1 = j + 1
    BY <2>4, <2>6, <2>7, Zenon
  <2>. QED
    BY <2>5
<1>3. CASE d = c /\ OtherStep(c)
  <2>1. PICK fr : fr = call'[c]
    BY Zenon
  <2>2. Form(c, fr)
    BY <1>3, <2>1, Zenon DEF OtherStep
  <2>3. \A x, y \in 1..Len(fr.todo) : fr.todo[x] = "down" /\ fr.todo[y] = "down" => x = y
    BY <2>2, FormTasks, Zenon
  <2>. QED
    BY <1>3, <2>1, <2>3, Zenon
<1>. QED
  BY <1>1, <1>2, <1>3, Zenon DEF StepBy

\* What a step publishes is told from then on.
LEMMA NowTold ==
    ASSUME TypeInv, NEW c \in Calls, StepBy(c), NEW f, NEW g
    PROVE  /\ Told("SESSION_UP", f, g)' =>
                \/ Told("SESSION_UP", f, g)
                \/ f = call[c].fsm /\ g = call[c].gen /\ call[c].pc = "up" /\ call'[c] = Idle
           /\ Told("SESSION_DOWN", f, g)' =>
                \/ Told("SESSION_DOWN", f, g)
                \/ /\ f = call[c].fsm /\ g = call[c].gen /\ OwesDown(c)
                   /\ Head(call[c].todo) = "down" /\ fsm' = fsm
<1>1. CASE published' = published
  BY <1>1, Zenon DEF Told
<1>. DEFINE up == <<"SESSION_UP", call[c].fsm, call[c].gen>>
            down == <<"SESSION_DOWN", call[c].fsm, call[c].gen>>
<1>0. "SESSION_UP" # "SESSION_DOWN"
  OBVIOUS
<1>2. CASE call[c].pc = "up" /\ call'[c] = Idle /\ fsm' = fsm /\ published' = Append(published, up)
  <2>1. PICK kf, kg : kf = call[c].fsm /\ kg = call[c].gen
    BY Zenon
  <2>2. published' = Append(published, <<"SESSION_UP", kf, kg>>)
    BY <1>2, <2>1, Zenon
  <2>3. \A k : Told(k, f, g)' <=> Told(k, f, g) \/ (k = "SESSION_UP" /\ f = kf /\ g = kg)
    BY <2>2, ToldAfter, Zenon
  <2>. QED
    BY <1>0, <1>2, <2>1, <2>3, Zenon
<1>3. CASE /\ TaskStep(c) /\ Head(call[c].todo) = "down" /\ OwesDown(c) /\ fsm' = fsm
           /\ published' = Append(published, down)
  <2>1. PICK kf, kg : kf = call[c].fsm /\ kg = call[c].gen
    BY Zenon
  <2>2. published' = Append(published, <<"SESSION_DOWN", kf, kg>>)
    BY <1>3, <2>1, Zenon
  <2>3. \A k : Told(k, f, g)' <=> Told(k, f, g) \/ (k = "SESSION_DOWN" /\ f = kf /\ g = kg)
    BY <2>2, ToldAfter, Zenon
  <2>4. Told("SESSION_UP", f, g)' => Told("SESSION_UP", f, g)
    BY <1>0, <2>3, Zenon
  <2>5. Told("SESSION_DOWN", f, g)' => Told("SESSION_DOWN", f, g) \/ (f = call[c].fsm /\ g = call[c].gen)
    BY <2>1, <2>3, Zenon
  <2>. QED
    BY <1>3, <2>4, <2>5, Zenon
<1>. QED
  BY <1>1, <1>2, <1>3, PublishStep, Zenon

\* No step breaks UpInv.
LEMMA UpKept ==
    ASSUME ~Threads, AllInv, AllInv', UpInv, NEW c \in Calls, StepBy(c)
    PROVE  UpInv'
<1>u1. \A d \in Calls, f \in Fsms, g \in Nat :
           call[d].pc \in Rising /\ call[d].fsm = f /\ call[d].gen = g => g <= fsm[f].gen /\ ~Told("SESSION_UP", f, g)
  BY Zenon DEF UpInv
<1>u2. \A d, e \in Calls : (call[d].pc \in Rising /\ call[e].pc \in Rising
                            /\ call[d].fsm = call[e].fsm /\ call[d].gen = call[e].gen) => d = e
  BY Zenon DEF UpInv
<1>u3. \A d \in Calls : call[d].pc = "up" => Current(fsm[call[d].fsm], "ESTABLISHED", call[d].gen)
  BY Zenon DEF UpInv
<1>u4. \A f \in Fsms, g \in Nat : Told("SESSION_UP", f, g) => g <= fsm[f].gen
  BY Zenon DEF UpInv
<1>u5. \A f \in Fsms, g \in Nat : Told("SESSION_DOWN", f, g) => g < fsm[f].gen
  BY Zenon DEF UpInv
<1>u6. \A d \in Calls, f \in Fsms, g \in Nat :
           OwesDown(d) /\ call[d].fsm = f /\ call[d].gen = g => g < fsm[f].gen /\ ~Told("SESSION_DOWN", f, g)
  BY Zenon DEF UpInv
<1>u7. \A d, e \in Calls : (OwesDown(d) /\ OwesDown(e)
                            /\ call[d].fsm = call[e].fsm /\ call[d].gen = call[e].gen) => d = e
  BY Zenon DEF UpInv
<1>u8. \A d \in Calls : \A i, j \in 1..Len(call[d].todo) :
                            call[d].todo[i] = "down" /\ call[d].todo[j] = "down" => i = j
  BY Zenon DEF UpInv
<1>u9. UpBeforeDown
  BY Zenon DEF UpInv
<1>0. /\ TypeInv /\ \A d \in Calls : call[d].fsm \in Fsms /\ call[d].gen \in Nat
      /\ TypeInv' /\ \A d \in Calls : call'[d].fsm \in Fsms /\ call'[d].gen \in Nat
  <2>1. TypeInv /\ TypeInv'
    BY Zenon DEF AllInv
  <2>2. \A d \in Calls : call[d] \in Frame /\ call'[d] \in Frame
    BY <2>1, Zenon DEF TypeInv, TypeOK
  <2>. QED
    BY <2>1, <2>2, Zenon DEF Frame
<1>1. \A o \in Fsms : fsm[o].gen \in Nat /\ fsm'[o].gen \in Nat /\ fsm[o].gen <= fsm'[o].gen
  BY GenGrows, Zenon
<1>2. Idle.pc \notin Rising /\ Idle.todo = <<>> /\ "up" \in Rising
  BY Constants, Zenon DEF Rising
<1>3. \A o \in Fsms, g \in Nat : g <= fsm[o].gen => g <= fsm'[o].gen /\ g # fsm[o].gen + 1
  BY <1>1
<1>4. \A o \in Fsms, g \in Nat : g < fsm[o].gen => g < fsm'[o].gen /\ g # fsm[o].gen
  BY <1>1
<1>5. \A o \in Fsms, g \in Nat : fsm'[o].gen = g + 1 => g < fsm'[o].gen
  OBVIOUS
<1>6. \A o \in Fsms, g \in Nat : fsm'[o].gen = g => g <= fsm'[o].gen
  OBVIOUS
<1>a. ASSUME NEW d \in Calls, NEW f \in Fsms, NEW g \in Nat,
             call'[d].pc \in Rising, call'[d].fsm = f, call'[d].gen = g
      PROVE  g <= fsm'[f].gen /\ ~Told("SESSION_UP", f, g)'
  <2>2. CASE call[d].pc \in Rising /\ f = call[d].fsm /\ g = call[d].gen
    <3>1. g <= fsm'[f].gen
      BY <1>3, <1>u1, <2>2, Zenon
    <3>2. ~Told("SESSION_UP", f, g)
      BY <1>u1, <2>2, Zenon
    <3>3. ASSUME f = call[c].fsm, g = call[c].gen, call[c].pc = "up", call'[c] = Idle PROVE FALSE
      <4>1. d = c
        BY <1>2, <1>u2, <2>2, <3>3, Zenon
      <4>. QED
        BY <1>2, <1>a, <3>3, <4>1, Zenon
    <3>4. ~Told("SESSION_UP", f, g)'
      BY <1>0, <3>2, <3>3, NowTold, Zenon
    <3>. QED
      BY <3>1, <3>4, Zenon
  <2>3. CASE d = c /\ g = fsm[f].gen + 1 /\ fsm'[f].gen = g
    <3>1. g <= fsm'[f].gen
      BY <1>6, <2>3, Zenon
    <3>2. ~Told("SESSION_UP", f, g)
      BY <1>3, <1>u4, <2>3, Zenon
    <3>3. call'[c] # Idle
      BY <1>2, <1>a, <2>3, Zenon
    <3>4. ~Told("SESSION_UP", f, g)'
      BY <1>0, <3>2, <3>3, NowTold, Zenon
    <3>. QED
      BY <3>1, <3>4, Zenon
  <2>. QED
    BY <1>a, <2>2, <2>3, RisingStep, Zenon
<1>b. ASSUME NEW d \in Calls, NEW e \in Calls, call'[d].pc \in Rising, call'[e].pc \in Rising,
             call'[d].fsm = call'[e].fsm, call'[d].gen = call'[e].gen
      PROVE  d = e
  <2>1. PICK f \in Fsms, g \in Nat : f = call'[d].fsm /\ g = call'[d].gen /\ f = call'[e].fsm /\ g = call'[e].gen
    BY <1>0, <1>b, Zenon
  <2>2. ASSUME NEW x \in Calls, call'[x].pc \in Rising, f = call'[x].fsm, g = call'[x].gen
        PROVE  (call[x].pc \in Rising /\ f = call[x].fsm /\ g = call[x].gen) \/ (x = c /\ g = fsm[f].gen + 1)
    BY <2>2, RisingStep, Zenon
  <2>4. /\ (call[d].pc \in Rising /\ f = call[d].fsm /\ g = call[d].gen) \/ (d = c /\ g = fsm[f].gen + 1)
        /\ (call[e].pc \in Rising /\ f = call[e].fsm /\ g = call[e].gen) \/ (e = c /\ g = fsm[f].gen + 1)
    BY <1>b, <2>1, <2>2, Zenon
  <2>3. \A x \in Calls : call[x].pc \in Rising /\ f = call[x].fsm /\ g = call[x].gen => g # fsm[f].gen + 1
    BY <1>3, <1>u1, Zenon
  <2>. QED
    BY <1>u2, <2>3, <2>4, Zenon
<1>c. ASSUME NEW d \in Calls, call'[d].pc = "up"
      PROVE  Current(fsm'[call'[d].fsm], "ESTABLISHED", call'[d].gen)
  <2>1. \/ d # c /\ call'[d] = call[d]
        \/ /\ fsm' = fsm /\ Current(fsm[call[d].fsm], "ESTABLISHED", call[d].gen)
           /\ call'[d].fsm = call[d].fsm /\ call'[d].gen = call[d].gen
    <3>1. call'[d].pc \in Rising /\ call'[d].pc # "dump4"
      BY <1>c, Zenon DEF Rising
    <3>. QED
      BY <1>c, <3>1, RisingStep, Zenon
  <2>. QED
    <3>1. CASE d # c /\ call'[d] = call[d]
      BY <1>c, <3>1, OnlyUpMoves, Zenon
    <3>2. CASE /\ fsm' = fsm /\ Current(fsm[call[d].fsm], "ESTABLISHED", call[d].gen)
               /\ call'[d].fsm = call[d].fsm /\ call'[d].gen = call[d].gen
      BY <3>2, Zenon
    <3>. QED
      BY <2>1, <3>1, <3>2, Zenon
<1>d. ASSUME NEW f \in Fsms, NEW g \in Nat, Told("SESSION_UP", f, g)'
      PROVE  g <= fsm'[f].gen
  <2>1. g <= fsm[f].gen
    <3>1. Told("SESSION_UP", f, g) \/ (f = call[c].fsm /\ g = call[c].gen /\ call[c].pc = "up")
      BY <1>0, <1>d, NowTold, Zenon
    <3>. QED
      BY <1>2, <1>u1, <1>u4, <3>1, Zenon
  <2>. QED
    BY <1>3, <2>1, Zenon
<1>e. ASSUME NEW f \in Fsms, NEW g \in Nat, Told("SESSION_DOWN", f, g)'
      PROVE  g < fsm'[f].gen
  <2>1. g < fsm[f].gen
    <3>1. Told("SESSION_DOWN", f, g) \/ (f = call[c].fsm /\ g = call[c].gen /\ OwesDown(c))
      BY <1>0, <1>e, NowTold, Zenon
    <3>. QED
      BY <1>u5, <1>u6, <3>1, Zenon
  <2>. QED
    BY <1>4, <2>1, Zenon
<1>f. ASSUME NEW d \in Calls, OwesDown(d)'
      PROVE  \/ /\ OwesDown(d) /\ call'[d].fsm = call[d].fsm /\ call'[d].gen = call[d].gen
                /\ d = c => call[c].pc = "work" /\ Head(call[c].todo) # "down"
             \/ /\ d = c /\ call'[d].gen = fsm[call'[d].fsm].gen /\ call'[d].fsm \in Fsms
                /\ fsm'[call'[d].fsm].gen = call'[d].gen + 1
  BY <1>f, <1>u8, OwingStep, Zenon
<1>g. ASSUME NEW d \in Calls, NEW f \in Fsms, NEW g \in Nat,
             OwesDown(d)', call'[d].fsm = f, call'[d].gen = g
      PROVE  g < fsm'[f].gen /\ ~Told("SESSION_DOWN", f, g)'
  <2>2. CASE /\ OwesDown(d) /\ f = call[d].fsm /\ g = call[d].gen
             /\ d = c => Head(call[c].todo) # "down"
    <3>1. g < fsm'[f].gen
      BY <1>4, <1>u6, <2>2, Zenon
    <3>2. ~Told("SESSION_DOWN", f, g)
      BY <1>u6, <2>2, Zenon
    <3>3. ASSUME f = call[c].fsm, g = call[c].gen, OwesDown(c), Head(call[c].todo) = "down" PROVE FALSE
      BY <1>u7, <2>2, <3>3, Zenon
    <3>4. ~Told("SESSION_DOWN", f, g)'
      BY <1>0, <3>2, <3>3, NowTold, Zenon
    <3>. QED
      BY <3>1, <3>4, Zenon
  <2>3. CASE g = fsm[f].gen /\ fsm'[f].gen = g + 1
    <3>1. g < fsm'[f].gen
      BY <1>5, <2>3, Zenon
    <3>2. ~Told("SESSION_DOWN", f, g)
      BY <1>4, <1>u5, <2>3, Zenon
    <3>4. fsm' # fsm
      <4>1. g + 1 # g
        OBVIOUS
      <4>. QED
        BY <2>3, <4>1, Zenon
    <3>3. ~Told("SESSION_DOWN", f, g)'
      BY <1>0, <3>2, <3>4, NowTold, Zenon
    <3>. QED
      BY <3>1, <3>3, Zenon
  <2>. QED
    BY <1>f, <1>g, <2>2, <2>3, Zenon
<1>h. ASSUME NEW d \in Calls, NEW e \in Calls, OwesDown(d)', OwesDown(e)',
             call'[d].fsm = call'[e].fsm, call'[d].gen = call'[e].gen
      PROVE  d = e
  <2>1. PICK f \in Fsms, g \in Nat : f = call'[d].fsm /\ g = call'[d].gen /\ f = call'[e].fsm /\ g = call'[e].gen
    BY <1>0, <1>h, Zenon
  <2>2. /\ \/ OwesDown(d) /\ f = call[d].fsm /\ g = call[d].gen
           \/ d = c /\ g = fsm[f].gen
        /\ \/ OwesDown(e) /\ f = call[e].fsm /\ g = call[e].gen
           \/ e = c /\ g = fsm[f].gen
    BY <1>f, <1>h, <2>1, Zenon
  <2>3. \A x \in Calls : OwesDown(x) /\ f = call[x].fsm /\ g = call[x].gen => g # fsm[f].gen
    BY <1>4, <1>u6, Zenon
  <2>. QED
    BY <1>u7, <2>2, <2>3, Zenon
<1>i. \A d \in Calls : \A i, j \in 1..Len(call'[d].todo) :
          call'[d].todo[i] = "down" /\ call'[d].todo[j] = "down" => i = j
  BY <1>u8, OneDown, Zenon
<1>j. UpBeforeDown'
  <2>1. PICK f \in Fsms, g \in Nat : f = call[c].fsm /\ g = call[c].gen
    BY <1>0, Zenon
  <2>2. CASE published' = published
    BY <1>u9, <2>2, OrderStays, Zenon
  <2>3. CASE call[c].pc = "up" /\ published' = Append(published, <<"SESSION_UP", f, g>>)
    <3>1. g = fsm[f].gen /\ ~Told("SESSION_UP", f, g)
      BY <1>2, <1>u1, <1>u3, <2>1, <2>3, Zenon DEF Current
    <3>2. ~Told("SESSION_DOWN", f, g)
      BY <1>4, <1>u5, <3>1, Zenon
    <3>. QED
      BY <1>0, <1>u9, <2>3, <3>1, <3>2, OrderKept, Zenon
  <2>4. CASE OwesDown(c) /\ published' = Append(published, <<"SESSION_DOWN", f, g>>)
    <3>1. ~Told("SESSION_DOWN", f, g) /\ "SESSION_DOWN" # "SESSION_UP"
      BY <1>u6, <2>1, <2>4, Zenon
    <3>. QED
      BY <1>0, <1>u9, <2>4, <3>1, OrderKept, Zenon
  <2>. QED
    BY <2>1, <2>2, <2>3, <2>4, PublishStep, Zenon
<1>k. /\ \A d \in Calls, f \in Fsms, g \in Nat :
            call'[d].pc \in Rising /\ call'[d].fsm = f /\ call'[d].gen = g => g <= fsm'[f].gen /\ ~Told("SESSION_UP", f, g)'
      /\ \A d, e \in Calls : (call'[d].pc \in Rising /\ call'[e].pc \in Rising
                              /\ call'[d].fsm = call'[e].fsm /\ call'[d].gen = call'[e].gen) => d = e
  BY <1>a, <1>b, Zenon
<1>l. /\ \A d \in Calls : call'[d].pc = "up" => Current(fsm'[call'[d].fsm], "ESTABLISHED", call'[d].gen)
      /\ \A f \in Fsms, g \in Nat : Told("SESSION_UP", f, g)' => g <= fsm'[f].gen
      /\ \A f \in Fsms, g \in Nat : Told("SESSION_DOWN", f, g)' => g < fsm'[f].gen
  BY <1>c, <1>d, <1>e, Zenon
<1>m. /\ \A d \in Calls, f \in Fsms, g \in Nat :
            OwesDown(d)' /\ call'[d].fsm = f /\ call'[d].gen = g => g < fsm'[f].gen /\ ~Told("SESSION_DOWN", f, g)'
      /\ \A d, e \in Calls : (OwesDown(d)' /\ OwesDown(e)'
                              /\ call'[d].fsm = call'[e].fsm /\ call'[d].gen = call'[e].gen) => d = e
  BY <1>g, <1>h, Zenon
<1>. QED
  BY <1>k, <1>l, <1>m, <1>i, <1>j, Zenon DEF UpInv

\* Each session is announced to the event bus at most once, ended at most once, and
\* never announced after its end, for any number of FSMs and peers and any depth of
\* nested calls: fsm_advertise_existing_rib compares the session before every send and
\* before SESSION_UP, and SESSION_DOWN is owed only by the call that ended the session.
THEOREM UpComesFirst ==
    ASSUME ~Threads
    PROVE  Spec => []UpBeforeDown
<1>1. Init => UpInv
  <2>. SUFFICES ASSUME Init PROVE UpInv
    BY Zenon
  <2>1. published = <<>> /\ \A d \in Calls : call[d].pc = "idle" /\ call[d].todo = <<>>
    BY Constants, Zenon DEF Init
  <2>2. 1..Len(published) = {} /\ \A d \in Calls : 1..Len(call[d].todo) = {}
    BY <2>1
  <2>3. UpBeforeDown /\ (\A k, f, g : ~Told(k, f, g)) /\ \A d \in Calls : ~OwesDown(d)
    BY <2>2, Zenon DEF UpBeforeDown, Told, OwesDown, Owes
  <2>4. \A d \in Calls : call[d].pc \notin Rising /\ call[d].pc # "up"
    BY <2>1, Zenon DEF Rising
  <2>. QED
    BY <2>2, <2>3, <2>4, Zenon DEF UpInv
<1>2. ASSUME AllInv, AllInv', UpInv, [\E c \in Calls : StepBy(c)]_vars PROVE UpInv'
  <2>1. CASE \E c \in Calls : StepBy(c)
    BY <1>2, <2>1, UpKept, Zenon
  <2>2. CASE UNCHANGED vars
    <3>1. fsm' = fsm /\ call' = call /\ published' = published
      BY <2>2, Zenon DEF vars
    <3>2. UpBeforeDown'
      BY <1>2, <3>1, OrderStays, Zenon DEF UpInv
    <3>3. /\ \A k, f, g : Told(k, f, g)' <=> Told(k, f, g)
          /\ \A d \in Calls : OwesDown(d)' <=> OwesDown(d)
      BY <3>1, Zenon DEF Told, OwesDown, Owes
    <3>. QED
      BY <1>2, <3>1, <3>2, <3>3, Zenon DEF UpInv
  <2>. QED
    BY <1>2, <2>1, <2>2, Zenon
<1>3. UpInv => UpBeforeDown
  BY Zenon DEF UpInv
<1>4. Spec => Init
  BY Zenon DEF Spec
<1>. QED
  BY <1>1, <1>2, <1>3, <1>4, FramesHold, PTL

-----------------------------------------------------------------------------
(* Collisions, when one call is made at a time and none from a callback.   *)
(* While a check is under way, an FSM that was asked and still negotiates  *)
(* with the peer has objected.                                             *)

NegInv ==
    /\ \A f, o \in Fsms : f # o /\ fsm[f].st = "OPEN_CONFIRM" /\ fsm[o].st = "OPEN_CONFIRM"
                             => fsm[f].peer # fsm[o].peer
    /\ \A c \in Calls, o \in Fsms :
            (/\ call[c].pc = "collide" /\ o # call[c].fsm /\ o \notin call[c].ask
             /\ fsm[o].st = "OPEN_CONFIRM" /\ fsm[o].peer = call[c].peer)
            => call[c].handled /\ LocalId > call[c].peer

\* An FSM that negotiates after a step did so before, with the same peer, or its
\* OPEN was accepted after every other FSM was asked.
LEMMA NewNegotiation ==
    ASSUME CollisionDetection, AllInv, NEW c \in Calls, StepBy(c)
    PROVE  \E f \in Fsms :
             /\ \A o \in Fsms : o # f => fsm'[o] = fsm[o]
             /\ fsm'[f].st = "OPEN_CONFIRM" =>
                  \/ fsm[f].st = "OPEN_CONFIRM" /\ fsm'[f].peer = fsm[f].peer
                  \/ Unopposed(c, f, fsm'[f]) /\ call'[c].pc # "collide"
<1>0. TypeInv /\ IInv
  BY Zenon DEF AllInv
<1>1. PICK f \in Fsms : Kind(c, f)
  BY Zenon DEF StepBy
<1>2. PICK s \in Session, fr \in Frame :
          /\ \A x \in Fsms : fsm'[x] = IF x = f THEN s ELSE fsm[x]
          /\ \A d \in Calls : call'[d] = IF d = c THEN fr ELSE call[d]
          /\ \/ NewGenerationStep(c, f, s, fr) \/ QuietStep(c, f, s, fr)
             \/ AcceptStep(c, f, s, fr) \/ AnswerStep(c, f, s, fr) \/ DeferStep(c, f, s, fr)
  BY <1>0, <1>1, KindDoes, Zenon
<1>3. fsm'[f] = s /\ call'[c] = fr /\ \A o \in Fsms : o # f => fsm'[o] = fsm[o]
  BY <1>2, Zenon
<1>4. CASE AcceptStep(c, f, s, fr)
  <2>1. Unopposed(c, f, s) /\ fr.pc # "collide"
    BY <1>4, Zenon DEF AcceptStep
  <2>. QED
    BY <1>3, <2>1, Zenon
<1>5. CASE AnswerStep(c, f, s, fr)
  <2>1. fsm[f].st = "OPEN_CONFIRM" /\ s.peer = fsm[f].peer
    BY <1>0, <1>5, Zenon DEF AnswerStep, IInv, AnswerOwns, Owns
  <2>. QED
    BY <1>3, <2>1, Zenon
<1>6. CASE NewGenerationStep(c, f, s, fr) \/ QuietStep(c, f, s, fr) \/ DeferStep(c, f, s, fr)
  <2>1. s.st = "OPEN_CONFIRM" => fsm[f].st = "OPEN_CONFIRM" /\ s.peer = fsm[f].peer
    BY <1>6, Zenon DEF NewGenerationStep, QuietStep, DeferStep
  <2>. QED
    BY <1>3, <2>1, Zenon
<1>. QED
  BY <1>2, <1>4, <1>5, <1>6, Zenon

\* The frame of a collision check after a step.
LEMMA CheckStep ==
    ASSUME AllInv, NEW c \in Calls, StepBy(c), call'[c].pc = "collide"
    PROVE  call'[c].ask = Fsms \ {call'[c].fsm} \/ \E o \in Fsms : Asked(c, o, call'[c])
<1>1. OtherStep(c)
  <2>1. Idle.pc # "collide"
    BY Constants, Zenon
  <2>. QED
    BY <2>1, Zenon DEF StepBy, TaskStep
<1>. QED
  BY <1>1, Zenon DEF OtherStep, Form

\* Two FSMs of one process never negotiate with the same peer at once, whatever the
\* number of FSMs and peers: the FSM that gets the second OPEN asks every other one
\* (fsm_collision_event_cb), and one of the two gives way by the identifiers
\* (fsm_collision_reject_new_locked).  Calls do not overlap here; how the check fails
\* when they do is NoStalePromotion.
THEOREM CollisionsResolved ==
    ASSUME CollisionDetection, \A c, d \in Calls : c = d
    PROVE  Spec => []OneNegotiationPerPeer
<1>1. Init => NegInv
  <2>. SUFFICES ASSUME Init PROVE NegInv
    BY Zenon
  <2>1. \A c \in Calls : call[c].pc = "idle"
    BY Constants, Zenon DEF Init
  <2>2. \A f \in Fsms : fsm[f].st = "IDLE"
    BY InitIdle, Zenon
  <2>. QED
    BY <2>1, <2>2, Zenon DEF NegInv
<1>2. ASSUME AllInv, NegInv, [\E c \in Calls : StepBy(c)]_vars PROVE NegInv'
  <2>1. CASE UNCHANGED vars
    <3>1. fsm' = fsm /\ call' = call
      BY <2>1, Zenon DEF vars
    <3>. QED
      BY <1>2, <3>1, Zenon DEF NegInv
  <2>2. ASSUME NEW c \in Calls, StepBy(c) PROVE NegInv'
    <3>1. PICK f \in Fsms :
             /\ \A o \in Fsms : o # f => fsm'[o] = fsm[o]
             /\ fsm'[f].st = "OPEN_CONFIRM" =>
                  \/ fsm[f].st = "OPEN_CONFIRM" /\ fsm'[f].peer = fsm[f].peer
                  \/ Unopposed(c, f, fsm'[f]) /\ call'[c].pc # "collide"
      BY <1>2, <2>2, NewNegotiation, Zenon
    <3>2. ASSUME NEW o \in Fsms, o # f, fsm'[f].st = "OPEN_CONFIRM", fsm'[o].st = "OPEN_CONFIRM"
          PROVE  fsm'[f].peer # fsm'[o].peer
      <4>1. fsm'[o] = fsm[o]
        BY <3>1, <3>2, Zenon
      <4>2. CASE fsm[f].st = "OPEN_CONFIRM" /\ fsm'[f].peer = fsm[f].peer
        BY <1>2, <3>2, <4>1, <4>2, Zenon DEF NegInv
      <4>3. CASE Unopposed(c, f, fsm'[f])
        BY <1>2, <3>2, <4>1, <4>3, ZenonT(60) DEF NegInv, Unopposed
      <4>. QED
        BY <3>1, <3>2, <4>2, <4>3, Zenon
    <3>3. ASSUME NEW x \in Fsms, NEW o \in Fsms, x # o, fsm'[x].st = "OPEN_CONFIRM", fsm'[o].st = "OPEN_CONFIRM"
          PROVE  fsm'[x].peer # fsm'[o].peer
      <4>1. CASE x = f
        BY <3>2, <3>3, <4>1, Zenon
      <4>2. CASE o = f
        BY <3>2, <3>3, <4>2, Zenon
      <4>3. CASE x # f /\ o # f
        <5>1. fsm'[x] = fsm[x] /\ fsm'[o] = fsm[o]
          BY <3>1, <4>3, Zenon
        <5>. QED
          BY <1>2, <3>3, <5>1, Zenon DEF NegInv
      <4>. QED
        BY <4>1, <4>2, <4>3, Zenon
    <3>4. ASSUME NEW o \in Fsms, call'[c].pc = "collide", o # call'[c].fsm, o \notin call'[c].ask,
                 fsm'[o].st = "OPEN_CONFIRM", fsm'[o].peer = call'[c].peer
          PROVE  call'[c].handled /\ LocalId > call'[c].peer
      <4>1. PICK x \in Fsms : Asked(c, x, call'[c])
        BY <1>2, <2>2, <3>4, CheckStep, Zenon
      <4>2. CASE o = x
        BY <3>4, <4>1, <4>2, Zenon DEF Asked
      <4>3. CASE o # x
        <5>1. fsm[o].st = "OPEN_CONFIRM" /\ fsm[o].peer = fsm'[o].peer
          BY <3>1, <3>4, Zenon
        <5>2. /\ call[c].pc = "collide" /\ o # call[c].fsm /\ o \notin call[c].ask
              /\ call'[c].peer = call[c].peer /\ (call[c].handled => call'[c].handled)
          BY <3>4, <4>1, <4>3, Zenon DEF Asked
        <5>. QED
          BY <1>2, <3>4, <5>1, <5>2, Zenon DEF NegInv
      <4>. QED
        BY <4>2, <4>3, Zenon
    <3>5. \A d \in Calls : d = c
      BY Zenon
    <3>. QED
      BY <3>3, <3>4, <3>5, Zenon DEF NegInv
  <2>. QED
    BY <1>2, <2>1, <2>2, Zenon
<1>3. NegInv => OneNegotiationPerPeer
  BY Zenon DEF NegInv, OneNegotiationPerPeer
<1>4. Spec => Init
  BY Zenon DEF Spec
<1>. QED
  BY <1>1, <1>2, <1>3, <1>4, FramesHold, PTL
=============================================================================
