--------------------------- MODULE EventBusProofs ---------------------------
(***************************************************************************)
(* For every number of threads, FSMs, event types and subscriptions, any   *)
(* nesting and any bound on calls: who holds a subscription id, the FSM or *)
(* one call on its behalf, never both; and the ids under which FSMs        *)
(* publish, so that none is handed its own event.  EventBusRefs goes on to *)
(* the types, the references and the theorems.                             *)
(***************************************************************************)
EXTENDS EventBus, TLAPS

\* The type of an event, or of a call that publishes none.
Kinds == Entries(Types) \cup {"none"}
Subs == [id : Nat, type : Kinds, ctx : Contexts]
Impls == [handle : BOOLEAN, refs : Int, destroying : BOOLEAN, freed : BOOLEAN,
          attached : BOOLEAN, ids : Seq(Nat)]
Pcs == {"publish", "deliver", "callback", "detach", "drop", "subscribe", "attach", "destroy", "leave"}
Calls == [pc : Pcs, fsm : Contexts, type : Kinds, from : Nat, todo : SUBSET Subs,
          ids : Seq(Nat), errs : Seq({"ok", "failed", "skipped"}),
          then : {"leave", "subscribe", "attach"}]

\* The types of the variables.
TypeOK ==
  /\ bus \in BOOLEAN /\ next_id \in Nat
  /\ subs \subseteq Subs /\ IsFiniteSet(subs)
  /\ impl \in [Fsms -> Impls]
  /\ stack \in [Threads -> Seq(Calls)]
  /\ \A t \in Threads : Depth(t) <= MaxDepth
  /\ \A p \in Frames : IsFiniteSet(FrameOf(p).todo)

\* A call of libbgp_fsm_set_event_bus that has not attached the FSM yet.
Setter(fr) == fr.pc \in {"detach", "subscribe", "attach"} \/ (fr.pc = "drop" /\ fr.then # "leave")

\* The ids are those of the first event types, in their order, on the bus.
Aligned(f, ids) ==
  bus => \A i \in 1 .. Len(ids) : Subscription(ids[i], Types[i], f) \in subs

\* The control of one call: which of its variables mean something where.
CallOK(fr) ==
  /\ fr.pc \in {"detach", "drop", "subscribe", "attach", "destroy"} => fr.fsm \in Fsms
  /\ fr.ids # <<>> => fr.pc \in {"drop", "subscribe", "attach"}
  /\ fr.pc = "drop" => fr.ids # <<>>
  /\ fr.todo # {} => fr.pc \in {"deliver", "callback"}
  /\ fr.pc = "detach" => fr.then # "leave"
  /\ fr.pc = "detach" \/ (fr.pc = "drop" /\ fr.then = "subscribe") => fr.errs = <<>>
  /\ fr.pc = "subscribe" => Len(fr.errs) < Len(Types)

\* What a call of an FSM knows of it: it has taken over what the FSM had recorded.
OnBehalf(fr) ==
  /\ fr.pc = "destroy" => ~impl[fr.fsm].handle
  /\ fr.pc = "drop" /\ fr.then = "leave" => impl[fr.fsm].destroying
  /\ Setter(fr) /\ fr.pc # "detach" => impl[fr.fsm].ids = <<>>

\* Subscriptions made so far: those of the first types unless one failed, and all of
\* them or none when the FSM is to be attached.
Progress(fr) ==
  /\ fr.pc = "subscribe" =>
       IF \A i \in 1 .. Len(fr.errs) : fr.errs[i] = "ok"
         THEN Len(fr.ids) = Len(fr.errs) /\ Aligned(fr.fsm, fr.ids)
         ELSE "failed" \in Entries(fr.errs)
  /\ fr.pc = "attach" => fr.ids = <<>> \/ (Len(fr.ids) = Len(Types) /\ Aligned(fr.fsm, fr.ids))

\* Ids are given out once.
IdsUsed ==
  /\ \A sub \in subs : sub.id <= next_id
  /\ \A sub, other \in subs : sub.id = other.id => sub = other
  /\ \A f \in Fsms : \A id \in Entries(impl[f].ids) : id <= next_id
  /\ \A p \in Frames : /\ FrameOf(p).from <= next_id
                       /\ \A id \in Entries(FrameOf(p).ids) : id <= next_id

\* An id that an FSM has recorded, or a call for it has in hand, is of a
\* subscription of that FSM.
OwnIds ==
  \A sub \in subs :
    /\ \A f \in Fsms : sub.id \in Entries(impl[f].ids) => sub.ctx = f
    /\ \A p \in Frames : sub.id \in Entries(FrameOf(p).ids) => sub.ctx = FrameOf(p).fsm

\* fsm.h asks the application for one set_event_bus at a time; and two calls never
\* have the same id in hand.
OneHand ==
  \A p, q \in Frames : p # q /\ FrameOf(p).fsm = FrameOf(q).fsm =>
    /\ ~(Setter(FrameOf(p)) /\ Setter(FrameOf(q)))
    /\ \A id \in Entries(FrameOf(p).ids) : id \notin Entries(FrameOf(q).ids)

\* A publication under way has an id that was recorded for its type, and that will
\* not be recorded again.
HadFrom(fr) ==
  fr.from # 0 /\ fr.fsm \in Fsms =>
    /\ bus => \A i \in 1 .. Len(impl[fr.fsm].ids) : impl[fr.fsm].ids[i] = fr.from => Types[i] = fr.type
    /\ \A q \in Frames : FrameOf(q).fsm = fr.fsm /\ FrameOf(q).pc \in {"subscribe", "attach"} =>
         fr.from \notin Entries(FrameOf(q).ids)

\* NoEcho, of one call.
Silent(fr) ==
  fr.from # 0 /\ fr.fsm \in Fsms /\ fr.from \in Entries(impl[fr.fsm].ids) => Of(fr.fsm, fr.todo) = {}

\* An FSM that is being destroyed is detached, and has no handle.
Destroying == \A f \in Fsms : impl[f].destroying => ~impl[f].handle /\ impl[f].ids = <<>>

Controlled == \A p \in Frames : CallOK(FrameOf(p)) /\ OnBehalf(FrameOf(p)) /\ Progress(FrameOf(p))

HandInv == /\ Controlled /\ Destroying /\ IdsUsed /\ OwnIds /\ OneHand
           /\ NoneLeftBehind /\ AllOrNone

EchoInv == /\ \A p \in Frames : HadFrom(FrameOf(p)) /\ Silent(FrameOf(p))
           /\ ~bus => subs = {}

-----------------------------------------------------------------------------
(* The stacks: a step changes the call in one place. *)

Stacked == /\ stack \in [Threads -> Seq(Calls)]
           /\ \A t \in Threads : Depth(t) <= MaxDepth

\* The call in place p is fr now, and the others are what they were.
Moves(p, fr) ==
  /\ p \in Frames /\ fr \in Calls
  /\ FrameOf(p)' = fr
  /\ \A q \in Frames : q # p => FrameOf(q)' = FrameOf(q)
  /\ Stacked'

\* Where no call is, there is nothing to do.
LEMMA NewFrameOK ==
  /\ NewFrame \in Calls /\ NewFrame.pc = "leave" /\ NewFrame.fsm = App
  /\ NewFrame.from = 0 /\ NewFrame.todo = {} /\ NewFrame.ids = <<>>
  /\ NewFrame.errs = <<>> /\ NewFrame.then = "leave" /\ NewFrame.type = "none"
<1>1. /\ NewFrame.pc = "leave" /\ NewFrame.fsm = App
      /\ NewFrame.from = 0 /\ NewFrame.todo = {} /\ NewFrame.ids = <<>>
      /\ NewFrame.errs = <<>> /\ NewFrame.then = "leave" /\ NewFrame.type = "none"
  BY Zenon DEF NewFrame
<1>2. /\ "leave" \in Pcs /\ App \in Contexts /\ {} \in SUBSET Subs
      /\ "leave" \in {"leave", "subscribe", "attach"}
  BY Zenon DEF Pcs, Contexts
<1>3. <<>> \in Seq(Nat) /\ <<>> \in Seq({"ok", "failed", "skipped"}) /\ 0 \in Nat
  OBVIOUS
<1>4. "none" \in Kinds
  BY Zenon DEF Kinds
<1>5. NewFrame \in Calls
  BY <1>2, <1>3, <1>4, Zenon DEF NewFrame, Calls
<1> QED BY <1>1, <1>5, Zenon

\* Every place has a call.
LEMMA FramesAre ==
  ASSUME TypeOK, NEW p \in Frames
  PROVE  FrameOf(p) \in Calls
<1>1. /\ p[1] \in Threads /\ p[2] \in 1 .. MaxDepth /\ MaxDepth \in Nat
      /\ stack[p[1]] \in Seq(Calls)
  BY BusAssumption DEF Frames, TypeOK
<1>2. CASE p[2] <= Depth(p[1])
  BY <1>1, <1>2 DEF FrameOf, Depth
<1>3. CASE ~(p[2] <= Depth(p[1]))
  BY <1>3, NewFrameOK, Zenon DEF FrameOf
<1> QED BY <1>2, <1>3, Zenon

\* A call begun is in a place where none was.
LEMMA CallMoves ==
  ASSUME TypeOK, NEW t \in Threads, NEW fr \in Calls, Call(t, fr)
  PROVE  \E p \in Frames : FrameOf(p) = NewFrame /\ Moves(p, fr)
<1>1. stack[t] \in Seq(Calls) /\ Depth(t) \in Nat /\ MaxDepth \in Nat /\ Depth(t) < MaxDepth
  BY BusAssumption DEF TypeOK, Depth, Call, CanCall
<1>2. PICK p \in Frames : p = <<t, Depth(t) + 1>> /\ p[1] = t /\ p[2] = Depth(t) + 1
  <2>1. <<t, Depth(t) + 1>> \in Frames
    BY <1>1 DEF Frames
  <2> QED BY <2>1
<1>3. stack' = [stack EXCEPT ![t] = Append(stack[t], fr)]
  BY Zenon DEF Call
<1>4. /\ stack' \in [Threads -> Seq(Calls)]
      /\ \A u \in Threads : Depth(u)' = IF u = t THEN Depth(u) + 1 ELSE Depth(u)
      /\ \A u \in Threads : \A i \in 1 .. Depth(u) : stack'[u][i] = stack[u][i]
      /\ stack'[t][Depth(t) + 1] = fr
  <2>1. /\ Append(stack[t], fr) \in Seq(Calls)
        /\ Len(Append(stack[t], fr)) = Len(stack[t]) + 1
        /\ \A i \in 1 .. Len(stack[t]) : Append(stack[t], fr)[i] = stack[t][i]
        /\ Append(stack[t], fr)[Len(stack[t]) + 1] = fr
    BY <1>1
  <2> QED BY <1>3, <2>1, Zenon DEF TypeOK, Depth
<1>5. Stacked'
  <2>1. \A u \in Threads : Depth(u)' <= MaxDepth
    <3>1. \A u \in Threads : Depth(u) \in Nat /\ Depth(u) <= MaxDepth
      BY DEF TypeOK, Depth
    <3> QED BY <1>1, <1>4, <3>1
  <2> QED BY <1>4, <2>1, Zenon DEF Stacked
<1>6. FrameOf(p) = NewFrame
  BY <1>1, <1>2 DEF FrameOf
<1>7. FrameOf(p)' = fr
  <2>1. p[2] <= Depth(p[1])'
    BY <1>1, <1>2, <1>4
  <2> QED BY <1>2, <1>4, <2>1, Zenon DEF FrameOf
<1>8. ASSUME NEW q \in Frames, q # p
      PROVE  FrameOf(q)' = FrameOf(q)
  <2>1. q[1] \in Threads /\ q[2] \in Nat \ {0} /\ q = <<q[1], q[2]>>
    BY <1>1 DEF Frames
  <2>2. q[1] # t \/ q[2] # Depth(t) + 1
    BY <1>2, <1>8, <2>1, Zenon
  <2>3. Depth(q[1]) \in Nat /\ Depth(q[1])' = IF q[1] = t THEN Depth(q[1]) + 1 ELSE Depth(q[1])
    BY <1>4, <2>1 DEF TypeOK, Depth
  <2>4. q[2] <= Depth(q[1])' <=> q[2] <= Depth(q[1])
    BY <2>1, <2>2, <2>3
  <2>5. CASE q[2] <= Depth(q[1])
    <3>1. q[2] \in 1 .. Depth(q[1])
      BY <2>1, <2>3, <2>5
    <3> QED BY <1>4, <2>1, <2>4, <2>5, <3>1, Zenon DEF FrameOf
  <2>6. CASE ~(q[2] <= Depth(q[1]))
    BY <2>4, <2>6, Zenon DEF FrameOf, NewFrame
  <2> QED BY <2>5, <2>6, Zenon
<1> QED BY <1>2, <1>5, <1>6, <1>7, <1>8, Zenon DEF Moves

\* A step inside a call changes the innermost one of the thread.
LEMMA BecomeMoves ==
  ASSUME TypeOK, NEW t \in Threads, NEW fr \in Calls, Depth(t) > 0, Become(t, fr)
  PROVE  \E p \in Frames : FrameOf(p) = Top(t) /\ Moves(p, fr)
<1>1. stack[t] \in Seq(Calls) /\ Depth(t) \in Nat /\ MaxDepth \in Nat /\ Depth(t) <= MaxDepth
  BY BusAssumption DEF TypeOK, Depth
<1>2. PICK p \in Frames : p = <<t, Depth(t)>> /\ p[1] = t /\ p[2] = Depth(t)
  <2>1. <<t, Depth(t)>> \in Frames
    BY <1>1 DEF Frames
  <2> QED BY <2>1
<1>3. stack' = [stack EXCEPT ![t] = [stack[t] EXCEPT ![Len(stack[t])] = fr]]
  BY Zenon DEF Become, Depth
<1>4. /\ stack' \in [Threads -> Seq(Calls)]
      /\ \A u \in Threads : Depth(u)' = Depth(u)
      /\ \A u \in Threads : \A i \in 1 .. Depth(u) :
           stack'[u][i] = IF u = t /\ i = Depth(t) THEN fr ELSE stack[u][i]
  <2>1. [stack[t] EXCEPT ![Len(stack[t])] = fr] \in Seq(Calls)
    BY <1>1 DEF Depth
  <2> QED BY <1>1, <1>3, <2>1 DEF TypeOK, Depth
<1>5. Stacked'
  BY <1>4, Zenon DEF Stacked, TypeOK
<1>6. FrameOf(p) = Top(t)
  BY <1>1, <1>2 DEF FrameOf, Top
<1>7. FrameOf(p)' = fr
  <2>1. p[2] <= Depth(p[1])' /\ p[2] \in 1 .. Depth(t)
    BY <1>1, <1>2, <1>4
  <2> QED BY <1>2, <1>4, <2>1, Zenon DEF FrameOf
<1>8. ASSUME NEW q \in Frames, q # p
      PROVE  FrameOf(q)' = FrameOf(q)
  <2>1. q[1] \in Threads /\ q[2] \in Nat \ {0} /\ q = <<q[1], q[2]>>
    BY <1>1 DEF Frames
  <2>2. q[1] # t \/ q[2] # Depth(t)
    BY <1>2, <1>8, <2>1, Zenon
  <2>3. Depth(q[1]) \in Nat /\ Depth(q[1])' = Depth(q[1])
    BY <1>4, <2>1 DEF TypeOK, Depth
  <2>5. CASE q[2] <= Depth(q[1])
    <3>1. q[2] \in 1 .. Depth(q[1])
      BY <2>1, <2>3, <2>5
    <3> QED BY <1>4, <2>1, <2>2, <2>3, <2>5, <3>1, Zenon DEF FrameOf
  <2>6. CASE ~(q[2] <= Depth(q[1]))
    BY <2>3, <2>6, Zenon DEF FrameOf, NewFrame
  <2> QED BY <2>5, <2>6, Zenon
<1> QED BY <1>2, <1>5, <1>6, <1>7, <1>8, Zenon DEF Moves

\* A call that returns leaves its place empty.
LEMMA ReturnMoves ==
  ASSUME TypeOK, NEW t \in Threads, Depth(t) > 0, Return(t)
  PROVE  \E p \in Frames : FrameOf(p) = Top(t) /\ Moves(p, NewFrame)
<1>1. stack[t] \in Seq(Calls) /\ Depth(t) \in Nat /\ MaxDepth \in Nat /\ Depth(t) <= MaxDepth
  BY BusAssumption DEF TypeOK, Depth
<1>2. PICK p \in Frames : p = <<t, Depth(t)>> /\ p[1] = t /\ p[2] = Depth(t)
  <2>1. <<t, Depth(t)>> \in Frames
    BY <1>1 DEF Frames
  <2> QED BY <2>1
<1>3. stack' = [stack EXCEPT ![t] = SubSeq(stack[t], 1, Len(stack[t]) - 1)]
  BY Zenon DEF Return
<1>4. /\ stack' \in [Threads -> Seq(Calls)]
      /\ \A u \in Threads : Depth(u)' = IF u = t THEN Depth(u) - 1 ELSE Depth(u)
      /\ \A u \in Threads : \A i \in 1 .. Depth(u)' : stack'[u][i] = stack[u][i]
  <2>1. /\ SubSeq(stack[t], 1, Len(stack[t]) - 1) \in Seq(Calls)
        /\ Len(SubSeq(stack[t], 1, Len(stack[t]) - 1)) = Len(stack[t]) - 1
        /\ \A i \in 1 .. Len(stack[t]) - 1 : SubSeq(stack[t], 1, Len(stack[t]) - 1)[i] = stack[t][i]
    BY <1>1 DEF Depth
  <2> QED BY <1>3, <2>1, Zenon DEF TypeOK, Depth
<1>5. Stacked'
  <2>1. \A u \in Threads : Depth(u)' <= MaxDepth
    <3>1. \A u \in Threads : Depth(u) \in Nat /\ Depth(u) <= MaxDepth
      BY DEF TypeOK, Depth
    <3> QED BY <1>1, <1>4, <3>1
  <2> QED BY <1>4, <2>1, Zenon DEF Stacked
<1>6. FrameOf(p) = Top(t)
  BY <1>1, <1>2 DEF FrameOf, Top
<1>7. FrameOf(p)' = NewFrame
  <2>1. ~(p[2] <= Depth(p[1])')
    BY <1>1, <1>2, <1>4
  <2> QED BY <2>1, Zenon DEF FrameOf, NewFrame
<1>8. ASSUME NEW q \in Frames, q # p
      PROVE  FrameOf(q)' = FrameOf(q)
  <2>1. q[1] \in Threads /\ q[2] \in Nat \ {0} /\ q = <<q[1], q[2]>>
    BY <1>1 DEF Frames
  <2>2. q[1] # t \/ q[2] # Depth(t)
    BY <1>2, <1>8, <2>1, Zenon
  <2>3. Depth(q[1]) \in Nat /\ Depth(q[1])' = IF q[1] = t THEN Depth(q[1]) - 1 ELSE Depth(q[1])
    BY <1>4, <2>1 DEF TypeOK, Depth
  <2>4. q[2] <= Depth(q[1])' <=> q[2] <= Depth(q[1])
    BY <2>1, <2>2, <2>3
  <2>5. CASE q[2] <= Depth(q[1])
    <3>1. q[2] \in 1 .. Depth(q[1])'
      BY <2>1, <2>3, <2>4, <2>5
    <3> QED BY <1>4, <2>1, <2>4, <2>5, <3>1, Zenon DEF FrameOf
  <2>6. CASE ~(q[2] <= Depth(q[1]))
    BY <2>4, <2>6, Zenon DEF FrameOf, NewFrame
  <2> QED BY <2>5, <2>6, Zenon
<1> QED BY <1>2, <1>5, <1>6, <1>7, <1>8, NewFrameOK, Zenon DEF Moves

-----------------------------------------------------------------------------
(* What each step does, field by field. *)

\* The fields of a call.
Is(fr, pc, f, type, from, todo, ids, errs, then) ==
  /\ fr \in Calls
  /\ fr.pc = pc /\ fr.fsm = f /\ fr.type = type /\ fr.from = from
  /\ fr.todo = todo /\ fr.ids = ids /\ fr.errs = errs /\ fr.then = then

\* The FSMs after f has got n references more, or has given some back.
Counts(f, n) ==
  /\ impl' \in [Fsms -> Impls]
  /\ \A g \in Fsms :
       /\ impl'[g].ids = impl[g].ids /\ impl'[g].handle = impl[g].handle
       /\ impl'[g].destroying = impl[g].destroying
       /\ g # f => impl'[g].refs = impl[g].refs /\ impl'[g].freed = impl[g].freed
       /\ g = f => /\ impl'[g].refs = impl[g].refs + n
                   /\ n > 0 => impl'[g].freed = impl[g].freed
                   /\ n <= 0 => impl'[g].freed = (impl[g].freed \/ (impl[g].destroying /\ impl[g].refs = 0 - n))

\* A call is the record of its fields.
LEMMA CallFields ==
  ASSUME NEW fr \in Calls
  PROVE  /\ fr = [pc |-> fr.pc, fsm |-> fr.fsm, type |-> fr.type, from |-> fr.from, todo |-> fr.todo,
                  ids |-> fr.ids, errs |-> fr.errs, then |-> fr.then]
         /\ fr.pc \in Pcs /\ fr.fsm \in Contexts /\ fr.type \in Kinds /\ fr.from \in Nat
         /\ fr.todo \in SUBSET Subs /\ fr.ids \in Seq(Nat)
         /\ fr.errs \in Seq({"ok", "failed", "skipped"}) /\ fr.then \in {"leave", "subscribe", "attach"}
BY Zenon DEF Calls

\* A call that goes to pc with todo, and its other fields.
LEMMA CallTodo ==
  ASSUME NEW fr \in Calls, NEW pc \in Pcs, NEW todo \in SUBSET Subs
  PROVE  /\ Is([fr EXCEPT !.pc = pc], pc, fr.fsm, fr.type, fr.from, fr.todo, fr.ids, fr.errs, fr.then)
         /\ Is([fr EXCEPT !.pc = pc, !.todo = todo], pc, fr.fsm, fr.type, fr.from, todo, fr.ids, fr.errs, fr.then)
         /\ Is([fr EXCEPT !.todo = todo, !.pc = pc], pc, fr.fsm, fr.type, fr.from, todo, fr.ids, fr.errs, fr.then)
BY Zenon DEF Is, Calls

\* fsm_impl_acquire
LEMMA HeldCounts ==
  ASSUME TypeOK, NEW f \in Fsms, impl' = Held(f)
  PROVE  Counts(f, 1)
<1>1. impl \in [Fsms -> Impls] /\ impl[f] \in Impls /\ impl[f].refs \in Int
  BY DEF TypeOK, Impls
<1>2. impl' = [impl EXCEPT ![f] = [impl[f] EXCEPT !.refs = impl[f].refs + 1]]
  BY Zenon DEF Held
<1>3. impl[f].refs + 1 \in Int /\ 1 > 0 /\ ~(1 <= 0)
  BY <1>1
<1>4. [impl[f] EXCEPT !.refs = impl[f].refs + 1] \in Impls
  BY <1>1, <1>3, Zenon DEF Impls
<1>5. impl' \in [Fsms -> Impls]
  BY <1>1, <1>2, <1>4, Zenon
<1>6. ASSUME NEW g \in Fsms, g # f
      PROVE  impl'[g] = impl[g]
  BY <1>1, <1>2, <1>6, Zenon
<1>7. /\ impl'[f].ids = impl[f].ids /\ impl'[f].handle = impl[f].handle
      /\ impl'[f].destroying = impl[f].destroying /\ impl'[f].refs = impl[f].refs + 1
      /\ impl'[f].freed = impl[f].freed
  BY <1>1, <1>2, Zenon DEF Impls
<1> QED BY <1>3, <1>5, <1>6, <1>7, Zenon DEF Counts

\* fsm_impl_release_free
LEMMA ReleasedCounts ==
  ASSUME TypeOK, NEW f \in Fsms, NEW n \in Nat, n > 0
  PROVE  LET new == Released(f, n) IN
         /\ new \in [Fsms -> Impls]
         /\ \A g \in Fsms : g # f => new[g] = impl[g]
         /\ new[f].ids = impl[f].ids /\ new[f].handle = impl[f].handle
         /\ new[f].destroying = impl[f].destroying
         /\ new[f].refs = impl[f].refs + (0 - n)
         /\ new[f].freed = (impl[f].freed \/ (impl[f].destroying /\ impl[f].refs = 0 - (0 - n)))
<1> DEFINE fr == impl[f].freed \/ (impl[f].destroying /\ impl[f].refs = n)
           r == impl[f].refs - n
           new == Released(f, n)
<1>1. impl \in [Fsms -> Impls] /\ impl[f] \in Impls /\ impl[f].refs \in Int
  BY DEF TypeOK, Impls
<1>2. new = [impl EXCEPT ![f] = [impl[f] EXCEPT !.refs = r, !.freed = fr]]
  <2>1. new = [[impl EXCEPT ![f].refs = r] EXCEPT ![f].freed = @ \/ (impl[f].destroying /\ impl[f].refs = n)]
    BY Zenon DEF Released
  <2> HIDE DEF new
  <2>2. [impl EXCEPT ![f].refs = r][f].freed = impl[f].freed
    BY <1>1, Zenon DEF Impls
  <2> QED BY <1>1, <2>1, <2>2, Zenon DEF Impls
<1>3. r \in Int /\ r = impl[f].refs + (0 - n) /\ 0 - (0 - n) = n
  BY <1>1
<1>4. fr \in BOOLEAN
  BY <1>1, Zenon DEF Impls
<1> HIDE DEF r, new
<1>5. [impl[f] EXCEPT !.refs = r, !.freed = fr] \in Impls
  BY <1>1, <1>3, <1>4, Zenon DEF Impls
<1>6. new \in [Fsms -> Impls]
  BY <1>1, <1>2, <1>5, Zenon
<1>7. \A g \in Fsms : g # f => new[g] = impl[g]
  BY <1>1, <1>2, Zenon
<1>8. /\ new[f].ids = impl[f].ids /\ new[f].handle = impl[f].handle
      /\ new[f].destroying = impl[f].destroying /\ new[f].refs = r
      /\ new[f].freed = fr
  BY <1>1, <1>2, Zenon DEF Impls
<1> QED BY <1>3, <1>6, <1>7, <1>8, Zenon DEF new

\* The release function of a subscription or of a call.
LEMMA ReleasedCtxCounts ==
  ASSUME TypeOK, NEW c \in Contexts, impl' = ReleasedCtx(c)
  PROVE  Counts(c, 0 - 1)
<1>1. ~(0 - 1 > 0) /\ 0 - 1 <= 0 /\ 1 \in Nat /\ 1 > 0 /\ App \notin Fsms
  BY BusAssumption
<1>2. CASE c = App
  BY <1>1, <1>2, Zenon DEF ReleasedCtx, Counts, TypeOK
<1>3. CASE c # App
  <2>1. c \in Fsms /\ impl' = Released(c, 1)
    BY <1>3, Zenon DEF Contexts, ReleasedCtx
  <2> DEFINE m == 0 - 1
             new == Released(c, 1)
  <2>2. /\ new \in [Fsms -> Impls]
        /\ \A g \in Fsms : g # c => new[g] = impl[g]
        /\ new[c].ids = impl[c].ids /\ new[c].handle = impl[c].handle
        /\ new[c].destroying = impl[c].destroying
        /\ new[c].refs = impl[c].refs + m
        /\ new[c].freed = (impl[c].freed \/ (impl[c].destroying /\ impl[c].refs = 0 - m))
    BY <1>1, <2>1, ReleasedCounts, Zenon
  <2> HIDE DEF new
  <2>1a. impl' = new
    BY <2>1, Zenon DEF new
  <2>3. ~(m > 0)
    BY <1>1, Zenon
  <2> HIDE DEF m
  <2>4. Counts(c, m)
    BY <2>1a, <2>2, <2>3, Zenon DEF Counts
  <2> QED BY <2>4, Zenon DEF m
<1> QED BY <1>2, <1>3, Zenon

\* Nothing is counted.
LEMMA UncountedCounts ==
  ASSUME TypeOK, impl' = impl
  PROVE  Counts(App, 0)
BY BusAssumption, Zenon DEF TypeOK, Counts

\* A call at pc is one of the thread's.
LEMMA TopIs ==
  ASSUME TypeOK, NEW t \in Threads, NEW pc, At(t, pc)
  PROVE  Depth(t) > 0 /\ Top(t) \in Calls /\ Top(t).pc = pc
BY DEF TypeOK, At, Top, Depth

\* The names of the places in the code.
LEMMA PcsAre ==
  /\ "publish" \in Pcs /\ "deliver" \in Pcs /\ "callback" \in Pcs /\ "detach" \in Pcs /\ "drop" \in Pcs
  /\ "subscribe" \in Pcs /\ "attach" \in Pcs /\ "destroy" \in Pcs /\ "leave" \in Pcs
BY Zenon DEF Pcs

\* libbgp_event_bus_publish is called.
LEMMA BeginPublishDoes ==
  ASSUME TypeOK, NEW t \in Threads, NEW type \in Entries(Types), BeginPublish(t, type)
  PROVE  /\ UNCHANGED <<bus, subs, next_id>> /\ Counts(App, 0)
         /\ \E p \in Frames, b \in Calls :
              /\ FrameOf(p) = NewFrame /\ Moves(p, b)
              /\ Is(b, "publish", App, type, 0, {}, <<>>, <<>>, "leave")
<1>1. Call(t, [NewFrame EXCEPT !.pc = "publish", !.type = type]) /\ UNCHANGED <<bus, subs, next_id, impl>>
  BY Zenon DEF BeginPublish
<1>2. PICK b : b = [NewFrame EXCEPT !.pc = "publish", !.type = type]
  BY Zenon
<1>3. Is(b, "publish", App, type, 0, {}, <<>>, <<>>, "leave") /\ b \in Calls
  <2>1. type \in Kinds
    BY Zenon DEF Kinds
  <2> QED BY <1>2, <2>1, NewFrameOK, PcsAre, Zenon DEF Is, Calls
<1>4. Call(t, b)
  BY <1>1, <1>2, Zenon
<1>5. PICK p \in Frames : FrameOf(p) = NewFrame /\ Moves(p, b)
  BY <1>3, <1>4, CallMoves, Zenon
<1> QED BY <1>1, <1>3, <1>5, UncountedCounts, Zenon

\* An FSM is about to publish.
LEMMA BeginFsmPublishDoes ==
  ASSUME TypeOK, AllOrNone, NEW t \in Threads, NEW f \in Fsms, NEW i \in 1 .. Len(Types), BeginFsmPublish(t, f, i)
  PROVE  /\ UNCHANGED <<bus, subs, next_id>> /\ Counts(f, 1) /\ impl[f].handle
         /\ \E p \in Frames, b \in Calls, from \in Nat :
              /\ FrameOf(p) = NewFrame /\ Moves(p, b)
              /\ from = (IF impl[f].ids = <<>> THEN 0 ELSE impl[f].ids[i])
              /\ Is(b, "publish", f, Types[i], from, {}, <<>>, <<>>, "leave")
<1> DEFINE id == IF impl[f].ids = <<>> THEN 0 ELSE impl[f].ids[i]
<1>1. /\ Call(t, [NewFrame EXCEPT !.pc = "publish", !.fsm = f, !.type = Types[i], !.from = id])
      /\ UNCHANGED <<bus, subs, next_id>> /\ impl' = Held(f) /\ impl[f].handle
  BY Zenon DEF BeginFsmPublish, CallFsm
<1>2. id \in Nat
  <2>1. impl[f].ids \in Seq(Nat) /\ (impl[f].ids = <<>> \/ Len(impl[f].ids) = Len(Types))
    BY DEF TypeOK, Impls, AllOrNone
  <2> QED BY <2>1
<1>3. PICK from \in Nat : from = id
  BY <1>2, Zenon
<1>4. PICK b : b = [NewFrame EXCEPT !.pc = "publish", !.fsm = f, !.type = Types[i], !.from = from]
  BY Zenon
<1>5. Is(b, "publish", f, Types[i], from, {}, <<>>, <<>>, "leave") /\ b \in Calls
  <2>1. Types[i] \in Kinds /\ f \in Contexts
    BY Zenon DEF Kinds, Entries, Contexts
  <2> QED BY <1>4, <2>1, NewFrameOK, PcsAre, Zenon DEF Is, Calls
<1>6. Call(t, b)
  BY <1>1, <1>3, <1>4, Zenon
<1>7. PICK p \in Frames : FrameOf(p) = NewFrame /\ Moves(p, b)
  BY <1>5, <1>6, CallMoves, Zenon
<1> QED BY <1>1, <1>3, <1>5, <1>7, HeldCounts, Zenon

\* libbgp_fsm_set_event_bus is called.
LEMMA BeginSetBusDoes ==
  ASSUME TypeOK, NEW t \in Threads, NEW f \in Fsms, NEW on \in BOOLEAN, BeginSetBus(t, f, on)
  PROVE  /\ UNCHANGED <<bus, subs, next_id>> /\ Counts(f, 1) /\ impl[f].handle /\ ~Setting(f)
         /\ \E p \in Frames, b \in Calls, then \in {"subscribe", "attach"} :
              /\ FrameOf(p) = NewFrame /\ Moves(p, b)
              /\ Is(b, "detach", f, "none", 0, {}, <<>>, <<>>, then)
<1>1. PICK then \in {"subscribe", "attach"} : then = IF on THEN "subscribe" ELSE "attach"
  BY Zenon
<1>2. PICK b : b = [NewFrame EXCEPT !.pc = "detach", !.fsm = f, !.then = then]
  BY Zenon
<1>3. /\ Call(t, b) /\ ~Setting(f)
      /\ UNCHANGED <<bus, subs, next_id>> /\ impl' = Held(f) /\ impl[f].handle
  BY <1>1, <1>2, Zenon DEF BeginSetBus, CallFsm
<1>4. Is(b, "detach", f, "none", 0, {}, <<>>, <<>>, then) /\ b \in Calls
  <2>1. f \in Contexts /\ "none" \in Kinds /\ 0 \in Nat
    BY DEF Kinds, Contexts
  <2> QED BY <1>2, <2>1, NewFrameOK, PcsAre, Zenon DEF Is, Calls
<1>5. PICK p \in Frames : FrameOf(p) = NewFrame /\ Moves(p, b)
  BY <1>3, <1>4, CallMoves, Zenon
<1> QED BY <1>3, <1>4, <1>5, HeldCounts, Zenon

\* libbgp_fsm_destroy is called, and takes the handle over.
LEMMA BeginDestroyDoes ==
  ASSUME TypeOK, NEW t \in Threads, NEW f \in Fsms, BeginDestroy(t, f)
  PROVE  /\ UNCHANGED <<bus, subs, next_id>> /\ impl[f].handle
         /\ impl' \in [Fsms -> Impls] /\ \A g \in Fsms : g # f => impl'[g] = impl[g]
         /\ impl'[f].handle = FALSE /\ impl'[f].refs = impl[f].refs /\ impl'[f].freed = impl[f].freed
         /\ impl'[f].ids = impl[f].ids /\ impl'[f].destroying = impl[f].destroying
         /\ \E p \in Frames, b \in Calls :
              /\ FrameOf(p) = NewFrame /\ Moves(p, b)
              /\ Is(b, "destroy", f, "none", 0, {}, <<>>, <<>>, "leave")
<1>1. PICK b : b = [NewFrame EXCEPT !.pc = "destroy", !.fsm = f]
  BY Zenon
<1>2. /\ Call(t, b) /\ UNCHANGED <<bus, subs, next_id>> /\ impl[f].handle
      /\ impl' = [impl EXCEPT ![f] = [impl[f] EXCEPT !.handle = FALSE]]
  BY <1>1, Zenon DEF BeginDestroy
<1>3. Is(b, "destroy", f, "none", 0, {}, <<>>, <<>>, "leave") /\ b \in Calls
  <2>1. f \in Contexts /\ "none" \in Kinds /\ 0 \in Nat
    BY DEF Kinds, Contexts
  <2> QED BY <1>1, <2>1, NewFrameOK, PcsAre, Zenon DEF Is, Calls
<1>4. PICK p \in Frames : FrameOf(p) = NewFrame /\ Moves(p, b)
  BY <1>2, <1>3, CallMoves, Zenon
<1>5. impl \in [Fsms -> Impls] /\ impl[f] \in Impls
  BY Zenon DEF TypeOK
<1>6. [impl[f] EXCEPT !.handle = FALSE] \in Impls
  BY <1>5, Zenon DEF Impls
<1>7. /\ impl' \in [Fsms -> Impls] /\ \A g \in Fsms : g # f => impl'[g] = impl[g]
      /\ impl'[f] = [impl[f] EXCEPT !.handle = FALSE]
  BY <1>2, <1>5, <1>6, Zenon
<1>8. /\ impl'[f].handle = FALSE /\ impl'[f].refs = impl[f].refs /\ impl'[f].freed = impl[f].freed
      /\ impl'[f].ids = impl[f].ids /\ impl'[f].destroying = impl[f].destroying
  BY <1>5, <1>7, Zenon DEF Impls
<1> QED BY <1>2, <1>3, <1>4, <1>7, <1>8, Zenon

\* A call returns.
LEMMA LeaveDoes ==
  ASSUME TypeOK, NEW t \in Threads, Leave(t)
  PROVE  /\ UNCHANGED <<bus, subs, next_id>>
         /\ \E p \in Frames : /\ FrameOf(p).pc = "leave" /\ Moves(p, NewFrame)
                              /\ Counts(FrameOf(p).fsm, 0 - 1)
<1>1. /\ At(t, "leave") /\ Return(t) /\ impl' = ReleasedCtx(Top(t).fsm)
      /\ UNCHANGED <<bus, subs, next_id>>
  BY Zenon DEF Leave
<1>2. Depth(t) > 0 /\ Top(t) \in Calls /\ Top(t).pc = "leave"
  BY <1>1, TopIs, Zenon
<1>3. PICK p \in Frames : FrameOf(p) = Top(t) /\ Moves(p, NewFrame)
  BY <1>1, <1>2, ReturnMoves, Zenon
<1>4. Counts(Top(t).fsm, 0 - 1)
  BY <1>1, <1>2, CallFields, ReleasedCtxCounts, Zenon
<1> QED BY <1>1, <1>2, <1>3, <1>4, Zenon

\* The subscriptions are copied, and each gets a reference.
LEMMA PublishDoes ==
  ASSUME TypeOK, NEW t \in Threads, Publish(t)
  PROVE  /\ UNCHANGED <<bus, subs, next_id>>
         /\ \E p \in Frames, b \in Calls, todo \in SUBSET subs, pc \in {"leave", "deliver"} :
              LET a == FrameOf(p) IN
              /\ a.pc = "publish" /\ Moves(p, b) /\ todo = Snapshot(a.type, a.from)
              /\ pc = IF todo = {} THEN "leave" ELSE "deliver"
              /\ Is(b, pc, a.fsm, a.type, a.from, todo, a.ids, a.errs, a.then)
              /\ impl' = [f \in Fsms |-> [impl[f] EXCEPT !.refs = impl[f].refs + Cardinality(Of(f, todo))]]
<1>1. PICK todo \in SUBSET subs : todo = Snapshot(Top(t).type, Top(t).from)
  BY Zenon DEF Snapshot, Matching
<1>2. PICK pc \in {"leave", "deliver"} : pc = IF todo = {} THEN "leave" ELSE "deliver"
  BY Zenon
<1>3. PICK b : b = [Top(t) EXCEPT !.pc = pc, !.todo = todo]
  BY Zenon
<1>4. /\ At(t, "publish") /\ Become(t, b) /\ UNCHANGED <<bus, subs, next_id>>
      /\ impl' = [f \in Fsms |-> [impl[f] EXCEPT !.refs = impl[f].refs + Cardinality(Of(f, todo))]]
  BY <1>1, <1>2, <1>3, Zenon DEF Publish
<1>5. Depth(t) > 0 /\ Top(t) \in Calls /\ Top(t).pc = "publish"
  BY <1>4, TopIs, Zenon
<1>6. pc \in Pcs /\ todo \in SUBSET Subs
  BY <1>2, PcsAre, Zenon DEF TypeOK
<1>7. Is(b, pc, Top(t).fsm, Top(t).type, Top(t).from, todo, Top(t).ids, Top(t).errs, Top(t).then) /\ b \in Calls
  <2>1. Is(b, pc, Top(t).fsm, Top(t).type, Top(t).from, todo, Top(t).ids, Top(t).errs, Top(t).then)
    BY <1>3, <1>5, <1>6, CallTodo, Zenon
  <2> QED BY <2>1, Zenon DEF Is
<1>8. PICK p \in Frames : FrameOf(p) = Top(t) /\ Moves(p, b)
  BY <1>4, <1>5, <1>7, BecomeMoves, Zenon
<1> QED BY <1>1, <1>2, <1>4, <1>5, <1>7, <1>8, Zenon

\* A publication goes on without having copied anything: no memory, or the next of
\* the snapshot is called.
LEMMA PassOnDoes ==
  ASSUME TypeOK, NEW t \in Threads, PublishNoMemory(t) \/ Deliver(t)
  PROVE  /\ UNCHANGED <<bus, subs, next_id>> /\ Counts(App, 0)
         /\ \E p \in Frames, b \in Calls, pc \in {"leave", "callback"} :
              LET a == FrameOf(p) IN
              /\ (a.pc = "publish" /\ pc = "leave") \/ (a.pc = "deliver" /\ pc = "callback")
              /\ Moves(p, b)
              /\ Is(b, pc, a.fsm, a.type, a.from, a.todo, a.ids, a.errs, a.then)
<1>1. PICK old \in Pcs, pc \in {"leave", "callback"} :
        /\ (old = "publish" /\ pc = "leave") \/ (old = "deliver" /\ pc = "callback")
        /\ At(t, old) /\ Become(t, [Top(t) EXCEPT !.pc = pc]) /\ UNCHANGED <<bus, subs, next_id, impl>>
  BY PcsAre, Zenon DEF PublishNoMemory, Deliver
<1>2. PICK b : b = [Top(t) EXCEPT !.pc = pc]
  BY Zenon
<1>3. Depth(t) > 0 /\ Top(t) \in Calls /\ Top(t).pc = old /\ pc \in Pcs
  BY <1>1, TopIs, PcsAre, Zenon
<1>4. Is(b, pc, Top(t).fsm, Top(t).type, Top(t).from, Top(t).todo, Top(t).ids, Top(t).errs, Top(t).then) /\ b \in Calls
  <2>1. Is(b, pc, Top(t).fsm, Top(t).type, Top(t).from, Top(t).todo, Top(t).ids, Top(t).errs, Top(t).then)
    BY <1>2, <1>3, CallTodo, CallFields, Zenon
  <2> QED BY <2>1, Zenon DEF Is
<1>5. PICK p \in Frames : FrameOf(p) = Top(t) /\ Moves(p, b)
  BY <1>1, <1>2, <1>3, <1>4, BecomeMoves, Zenon
<1> QED BY <1>1, <1>3, <1>4, <1>5, UncountedCounts, Zenon

\* A subscriber has been called and is released.
LEMMA CallbackReturnsDoes ==
  ASSUME TypeOK, NEW t \in Threads, CallbackReturns(t)
  PROVE  /\ UNCHANGED <<bus, subs, next_id>>
         /\ \E p \in Frames, b \in Calls, sub \in Subs, pc \in {"leave", "deliver"} :
              LET a == FrameOf(p) IN
              /\ a.pc = "callback" /\ Moves(p, b) /\ sub \in a.todo /\ Counts(sub.ctx, 0 - 1)
              /\ pc = IF a.todo \ {sub} = {} THEN "leave" ELSE "deliver"
              /\ Is(b, pc, a.fsm, a.type, a.from, a.todo \ {sub}, a.ids, a.errs, a.then)
<1>1. /\ At(t, "callback") /\ UNCHANGED <<bus, subs, next_id>>
      /\ \E sub \in First(Top(t).todo) :
           /\ impl' = ReleasedCtx(sub.ctx)
           /\ Become(t, [Top(t) EXCEPT !.todo = Top(t).todo \ {sub},
                                       !.pc = IF Top(t).todo \ {sub} = {} THEN "leave" ELSE "deliver"])
  BY Zenon DEF CallbackReturns
<1>2. Depth(t) > 0 /\ Top(t) \in Calls /\ Top(t).pc = "callback"
  BY <1>1, TopIs, Zenon
<1>3. PICK sub \in Top(t).todo :
           /\ impl' = ReleasedCtx(sub.ctx)
           /\ Become(t, [Top(t) EXCEPT !.todo = Top(t).todo \ {sub},
                                       !.pc = IF Top(t).todo \ {sub} = {} THEN "leave" ELSE "deliver"])
  BY <1>1, Zenon DEF First
<1>4. PICK pc \in {"leave", "deliver"} : pc = IF Top(t).todo \ {sub} = {} THEN "leave" ELSE "deliver"
  BY Zenon
<1>5. PICK b : b = [Top(t) EXCEPT !.todo = Top(t).todo \ {sub}, !.pc = pc]
  BY Zenon
<1>6. pc \in Pcs /\ Top(t).todo \ {sub} \in SUBSET Subs /\ sub \in Subs
  BY <1>2, CallFields, PcsAre, Zenon
<1>7. Is(b, pc, Top(t).fsm, Top(t).type, Top(t).from, Top(t).todo \ {sub}, Top(t).ids, Top(t).errs, Top(t).then) /\ b \in Calls
  <2>1. Is(b, pc, Top(t).fsm, Top(t).type, Top(t).from, Top(t).todo \ {sub}, Top(t).ids, Top(t).errs, Top(t).then)
    BY <1>2, <1>5, <1>6, CallTodo, Zenon
  <2> QED BY <2>1, Zenon DEF Is
<1>8. PICK p \in Frames : FrameOf(p) = Top(t) /\ Moves(p, b)
  BY <1>2, <1>3, <1>4, <1>5, <1>7, BecomeMoves, Zenon
<1>9. Counts(sub.ctx, 0 - 1)
  BY <1>3, <1>6, ReleasedCtxCounts, Zenon DEF Subs
<1> QED BY <1>1, <1>2, <1>4, <1>6, <1>7, <1>8, <1>9, Zenon

\* libbgp_event_bus_unsubscribe removes the subscription, if it is there.
Removes(id) ==
  \/ \E sub \in subs : sub.id = id /\ subs' = subs \ {sub} /\ Counts(sub.ctx, 0 - 1)
  \/ (\A sub \in subs : sub.id # id) /\ subs' = subs /\ Counts(App, 0)

\* The steps of libbgp_event_bus_unsubscribe.
LEMMA UnsubscribedRemoves ==
  ASSUME TypeOK, NEW id, Unsubscribed(id)
  PROVE  Removes(id)
<1>1. ASSUME NEW sub \in subs, impl' = ReleasedCtx(sub.ctx)
      PROVE  Counts(sub.ctx, 0 - 1)
  BY <1>1, ReleasedCtxCounts, Zenon DEF TypeOK, Subs
<1> QED BY <1>1, UncountedCounts, Zenon DEF Unsubscribed, Removes

\* f gives up its subscriptions, and is being destroyed or not.
Gives(f, destroying) ==
  /\ impl' \in [Fsms -> Impls] /\ \A g \in Fsms : g # f => impl'[g] = impl[g]
  /\ impl'[f].ids = <<>> /\ impl'[f].handle = impl[f].handle /\ impl'[f].refs = impl[f].refs
  /\ impl'[f].freed = impl[f].freed /\ impl'[f].destroying = destroying

\* The call a at pc goes on to drop ids, and then to then.
Drops(a, b, ids, then) ==
  LET pc == IF ids = <<>> THEN then ELSE "drop"
  IN  Is(b, pc, a.fsm, a.type, a.from, a.todo, ids, a.errs, then)

\* fsm_unsubscribe_route_events is begun or goes on.
LEMMA DroppingDrops ==
  ASSUME NEW a \in Calls, NEW ids \in Seq(Nat), NEW then \in {"leave", "subscribe", "attach"}
  PROVE  Drops(a, Dropping(a, ids, then), ids, then) /\ Dropping(a, ids, then) \in Calls
<1>1. PICK pc \in Pcs : pc = IF ids = <<>> THEN then ELSE "drop"
  BY PcsAre, Zenon
<1>2. Dropping(a, ids, then) = [a EXCEPT !.pc = pc, !.ids = ids, !.then = then]
  BY <1>1, Zenon DEF Dropping
<1>3. Is(Dropping(a, ids, then), pc, a.fsm, a.type, a.from, a.todo, ids, a.errs, then)
  BY <1>2, Zenon DEF Is, Calls
<1>4. Dropping(a, ids, then) \in Calls
  BY <1>3, Zenon DEF Is
<1> QED BY <1>1, <1>3, <1>4, Zenon DEF Drops

\* The innermost call of a thread has a place.
LEMMA TopPlace ==
  ASSUME TypeOK, NEW t \in Threads, Depth(t) > 0
  PROVE  \E p \in Frames : FrameOf(p) = Top(t)
<1>1. Depth(t) \in Nat /\ MaxDepth \in Nat /\ Depth(t) <= MaxDepth
  BY BusAssumption DEF TypeOK, Depth
<1>2. <<t, Depth(t)>> \in Frames
  BY <1>1 DEF Frames
<1>3. FrameOf(<<t, Depth(t)>>) = Top(t)
  BY <1>1 DEF FrameOf, Top
<1> QED BY <1>2, <1>3, Zenon

\* The fields of an FSM that is detached, to be attached anew or destroyed.
LEMMA ClearedGives ==
  ASSUME TypeOK, NEW f \in Fsms
  PROVE  /\ impl' = [impl EXCEPT ![f].attached = FALSE, ![f].ids = <<>>] => Gives(f, impl[f].destroying)
         /\ impl' = [impl EXCEPT ![f].attached = FALSE, ![f].ids = <<>>, ![f].destroying = TRUE] => Gives(f, TRUE)
<1>1. impl \in [Fsms -> Impls] /\ impl[f] \in Impls /\ <<>> \in Seq(Nat)
  BY DEF TypeOK
<1>2. ASSUME NEW d \in BOOLEAN,
             impl' = [impl EXCEPT ![f] = [impl[f] EXCEPT !.attached = FALSE, !.ids = <<>>, !.destroying = d]]
      PROVE  Gives(f, d)
  <2>1. PICK new : new = [impl[f] EXCEPT !.attached = FALSE, !.ids = <<>>, !.destroying = d]
    BY Zenon
  <2>2. /\ new \in Impls /\ new.ids = <<>> /\ new.handle = impl[f].handle /\ new.refs = impl[f].refs
        /\ new.freed = impl[f].freed /\ new.destroying = d
    BY <1>1, <2>1, Zenon DEF Impls
  <2>3. impl' = [impl EXCEPT ![f] = new]
    BY <1>2, <2>1, Zenon
  <2>4. impl' \in [Fsms -> Impls] /\ impl'[f] = new /\ \A g \in Fsms : g # f => impl'[g] = impl[g]
    BY <1>1, <2>2, <2>3, Zenon
  <2> QED BY <2>2, <2>4, Zenon DEF Gives
<1>3. ASSUME impl' = [impl EXCEPT ![f].attached = FALSE, ![f].ids = <<>>]
      PROVE  Gives(f, impl[f].destroying)
  <2>1. impl' = [impl EXCEPT ![f] = [impl[f] EXCEPT !.attached = FALSE, !.ids = <<>>]]
    BY <1>1, <1>3, Zenon
  <2>2. PICK d \in BOOLEAN : d = impl[f].destroying
    BY <1>1, Zenon DEF Impls
  <2>3. [impl[f] EXCEPT !.attached = FALSE, !.ids = <<>>]
        = [impl[f] EXCEPT !.attached = FALSE, !.ids = <<>>, !.destroying = d]
    BY <1>1, <2>2, Zenon DEF Impls
  <2> QED BY <1>2, <2>1, <2>2, <2>3, Zenon
<1>4. ASSUME impl' = [impl EXCEPT ![f].attached = FALSE, ![f].ids = <<>>, ![f].destroying = TRUE]
      PROVE  Gives(f, TRUE)
  <2>1. impl' = [impl EXCEPT ![f] = [impl[f] EXCEPT !.attached = FALSE, !.ids = <<>>, !.destroying = TRUE]]
    BY <1>1, <1>4, Zenon
  <2> QED BY <1>2, <2>1, Zenon
<1> QED BY <1>3, <1>4, Zenon

\* The first lock section of libbgp_fsm_set_event_bus.
LEMMA DetachDoes ==
  ASSUME TypeOK, Controlled, NEW t \in Threads, Detach(t)
  PROVE  /\ UNCHANGED <<bus, subs, next_id>>
         /\ \E p \in Frames, b \in Calls : LET a == FrameOf(p) IN
              /\ a.pc = "detach" /\ a.fsm \in Fsms /\ Moves(p, b)
              /\ Drops(a, b, impl[a.fsm].ids, a.then) /\ Gives(a.fsm, impl[a.fsm].destroying)
<1>1. /\ At(t, "detach") /\ UNCHANGED <<bus, subs, next_id>>
      /\ Become(t, Dropping(Top(t), impl[Top(t).fsm].ids, Top(t).then))
      /\ impl' = [impl EXCEPT ![Top(t).fsm].attached = FALSE, ![Top(t).fsm].ids = <<>>]
  BY Zenon DEF Detach
<1>2. Depth(t) > 0 /\ Top(t) \in Calls /\ Top(t).pc = "detach"
  BY <1>1, TopIs, Zenon
<1>3. PICK b : b = Dropping(Top(t), impl[Top(t).fsm].ids, Top(t).then)
  BY Zenon
<1>4. Top(t).fsm \in Fsms
  <2>1. PICK p \in Frames : FrameOf(p) = Top(t)
    BY <1>2, TopPlace, Zenon
  <2> QED BY <1>2, <2>1, Zenon DEF Controlled, CallOK
<1>5. impl[Top(t).fsm] \in Impls /\ impl[Top(t).fsm].ids \in Seq(Nat)
  BY <1>4, Zenon DEF TypeOK, Impls
<1>6. Drops(Top(t), b, impl[Top(t).fsm].ids, Top(t).then) /\ b \in Calls
  BY <1>2, <1>3, <1>5, DroppingDrops, CallFields, ZenonT(60)
<1>7. PICK p \in Frames : FrameOf(p) = Top(t) /\ Moves(p, b)
  BY <1>1, <1>2, <1>3, <1>6, BecomeMoves, Zenon
<1>8. Gives(Top(t).fsm, impl[Top(t).fsm].destroying)
  BY <1>1, <1>4, <1>5, ClearedGives, Zenon
<1> QED BY <1>1, <1>2, <1>4, <1>6, <1>7, <1>8, Zenon

\* The lock section of libbgp_fsm_destroy.
LEMMA DestroyDoes ==
  ASSUME TypeOK, Controlled, NEW t \in Threads, Destroy(t)
  PROVE  /\ UNCHANGED <<bus, subs, next_id>>
         /\ \E p \in Frames, b \in Calls : LET a == FrameOf(p) IN
              /\ a.pc = "destroy" /\ a.fsm \in Fsms /\ Moves(p, b)
              /\ Drops(a, b, impl[a.fsm].ids, "leave") /\ Gives(a.fsm, TRUE)
<1>1. /\ At(t, "destroy") /\ UNCHANGED <<bus, subs, next_id>>
      /\ Become(t, Dropping(Top(t), impl[Top(t).fsm].ids, "leave"))
      /\ impl' = [impl EXCEPT ![Top(t).fsm].attached = FALSE, ![Top(t).fsm].ids = <<>>,
                              ![Top(t).fsm].destroying = TRUE]
  BY Zenon DEF Destroy
<1>2. Depth(t) > 0 /\ Top(t) \in Calls /\ Top(t).pc = "destroy"
  BY <1>1, TopIs, Zenon
<1>3. PICK b : b = Dropping(Top(t), impl[Top(t).fsm].ids, "leave")
  BY Zenon
<1>4. Top(t).fsm \in Fsms
  <2>1. PICK p \in Frames : FrameOf(p) = Top(t)
    BY <1>2, TopPlace, Zenon
  <2> QED BY <1>2, <2>1, Zenon DEF Controlled, CallOK
<1>5. impl[Top(t).fsm] \in Impls /\ impl[Top(t).fsm].ids \in Seq(Nat)
  BY <1>4, Zenon DEF TypeOK, Impls
<1>6. Drops(Top(t), b, impl[Top(t).fsm].ids, "leave") /\ b \in Calls
  BY <1>2, <1>3, <1>5, DroppingDrops, Zenon
<1>7. PICK p \in Frames : FrameOf(p) = Top(t) /\ Moves(p, b)
  BY <1>1, <1>2, <1>3, <1>6, BecomeMoves, Zenon
<1>8. Gives(Top(t).fsm, TRUE)
  BY <1>1, <1>4, <1>5, ClearedGives, Zenon
<1> QED BY <1>1, <1>2, <1>4, <1>6, <1>7, <1>8, Zenon

\* fsm_unsubscribe_route_events unsubscribes one id.
LEMMA DropDoes ==
  ASSUME TypeOK, Controlled, NEW t \in Threads, Drop(t)
  PROVE  /\ UNCHANGED <<bus, next_id>>
         /\ \E p \in Frames, b \in Calls : LET a == FrameOf(p) IN
              /\ a.pc = "drop" /\ a.fsm \in Fsms /\ a.ids # <<>> /\ Moves(p, b)
              /\ Drops(a, b, Tail(a.ids), a.then) /\ Removes(Head(a.ids))
<1>1. /\ At(t, "drop") /\ UNCHANGED <<bus, next_id>>
      /\ Become(t, Dropping(Top(t), Tail(Top(t).ids), Top(t).then)) /\ Unsubscribed(Head(Top(t).ids))
  BY Zenon DEF Drop
<1>2. Depth(t) > 0 /\ Top(t) \in Calls /\ Top(t).pc = "drop"
  BY <1>1, TopIs, Zenon
<1>3. PICK b : b = Dropping(Top(t), Tail(Top(t).ids), Top(t).then)
  BY Zenon
<1>4. Top(t).fsm \in Fsms /\ Top(t).ids # <<>>
  <2>1. PICK p \in Frames : FrameOf(p) = Top(t)
    BY <1>2, TopPlace, Zenon
  <2> QED BY <1>2, <2>1, Zenon DEF Controlled, CallOK
<1>5. Tail(Top(t).ids) \in Seq(Nat)
  <2>1. Top(t).ids \in Seq(Nat)
    BY <1>2, CallFields, Zenon
  <2> QED BY <1>4, <2>1
<1>6. Drops(Top(t), b, Tail(Top(t).ids), Top(t).then) /\ b \in Calls
  BY <1>2, <1>3, <1>5, DroppingDrops, CallFields, ZenonT(60)
<1>7. PICK p \in Frames : FrameOf(p) = Top(t) /\ Moves(p, b)
  BY <1>1, <1>2, <1>3, <1>6, BecomeMoves, Zenon
<1> QED BY <1>1, <1>2, <1>4, <1>6, <1>7, UnsubscribedRemoves, Zenon

\* The call a has the subscriptions ids and the results errs, and goes on.
Subscribes(a, b, ids, errs) ==
  \/ /\ Len(errs) < Len(Types)
     /\ Is(b, "subscribe", a.fsm, a.type, a.from, a.todo, ids, errs, a.then)
  \/ /\ ~(Len(errs) < Len(Types)) /\ "failed" \in Entries(errs)
     /\ Is(b, IF ids = <<>> THEN "attach" ELSE "drop", a.fsm, a.type, a.from, a.todo, ids, errs, "attach")
  \/ /\ ~(Len(errs) < Len(Types)) /\ "failed" \notin Entries(errs)
     /\ Is(b, "attach", a.fsm, a.type, a.from, a.todo, ids, errs, a.then)

\* What libbgp_fsm_set_event_bus does after a subscription.
LEMMA SubscribingSubscribes ==
  ASSUME NEW a \in Calls, a.pc = "subscribe", NEW ids \in Seq(Nat),
         NEW errs \in Seq({"ok", "failed", "skipped"}), NEW b, b = Subscribing(a, ids, errs)
  PROVE  Subscribes(a, b, ids, errs) /\ b \in Calls
<1>1. PICK now : now = [a EXCEPT !.ids = ids, !.errs = errs]
  BY Zenon
<1>2. Is(now, "subscribe", a.fsm, a.type, a.from, a.todo, ids, errs, a.then) /\ now \in Calls
  BY <1>1, Zenon DEF Is, Calls
<1>3. CASE Len(errs) < Len(Types)
  <2>1. b = now
    BY <1>1, <1>3, Zenon DEF Subscribing
  <2> QED BY <1>2, <1>3, <2>1, Zenon DEF Subscribes
<1>4. CASE ~(Len(errs) < Len(Types)) /\ "failed" \in Entries(errs)
  <2>1. b = Dropping(now, ids, "attach")
    BY <1>1, <1>4, Zenon DEF Subscribing
  <2>2. Drops(now, b, ids, "attach") /\ b \in Calls
    BY <1>2, <2>1, DroppingDrops, Zenon
  <2>3. Is(b, IF ids = <<>> THEN "attach" ELSE "drop", a.fsm, a.type, a.from, a.todo, ids, errs, "attach")
    BY <1>2, <2>2, Zenon DEF Drops, Is
  <2> QED BY <1>4, <2>2, <2>3, Zenon DEF Subscribes
<1>5. CASE ~(Len(errs) < Len(Types)) /\ "failed" \notin Entries(errs)
  <2>1. b = [now EXCEPT !.pc = "attach"]
    BY <1>1, <1>5, Zenon DEF Subscribing
  <2>2. Is(b, "attach", a.fsm, a.type, a.from, a.todo, ids, errs, a.then) /\ b \in Calls
    BY <1>2, <2>1, PcsAre, Zenon DEF Is, Calls
  <2> QED BY <1>5, <2>2, Zenon DEF Subscribes
<1> QED BY <1>3, <1>4, <1>5, Zenon

\* A subscription of libbgp_fsm_set_event_bus succeeds.
LEMMA SubscribeDoes ==
  ASSUME TypeOK, Controlled, NEW t \in Threads, Subscribe(t)
  PROVE  /\ bus' = bus /\ next_id' = next_id + 1
         /\ \E p \in Frames, b \in Calls : LET a == FrameOf(p) IN
              /\ a.pc = "subscribe" /\ a.fsm \in Fsms /\ Moves(p, b)
              /\ Subscribes(a, b, Append(a.ids, next_id + 1), Append(a.errs, "ok"))
              /\ subs' = subs \cup {Subscription(next_id + 1, Types[Len(a.errs) + 1], a.fsm)}
              /\ ~impl[a.fsm].destroying /\ Counts(a.fsm, 1)
<1>1. PICK a : a = Top(t)
  BY Zenon
<1>2. PICK ids, errs : ids = Append(a.ids, next_id + 1) /\ errs = Append(a.errs, "ok")
  BY Zenon
<1>3. PICK b : b = Subscribing(a, ids, errs)
  BY Zenon
<1>4. /\ At(t, "subscribe") /\ Become(t, b) /\ bus' = bus /\ next_id' = next_id + 1
      /\ subs' = subs \cup {Subscription(next_id + 1, Types[Len(a.errs) + 1], a.fsm)}
      /\ impl' = (IF a.fsm = App THEN impl ELSE Held(a.fsm)) /\ CanSubscribe(a.fsm)
  BY <1>1, <1>2, <1>3, Zenon DEF Subscribe, Subscribed
<1>5. Depth(t) > 0 /\ a \in Calls /\ a.pc = "subscribe"
  BY <1>1, <1>4, TopIs, Zenon
<1>6. a.fsm \in Fsms /\ a.fsm # App
  <2>1. PICK p \in Frames : FrameOf(p) = a
    BY <1>1, <1>5, TopPlace, Zenon
  <2> QED BY <1>5, <2>1, BusAssumption, Zenon DEF Controlled, CallOK
<1>7. ids \in Seq(Nat) /\ errs \in Seq({"ok", "failed", "skipped"})
  <2>1. a.ids \in Seq(Nat) /\ a.errs \in Seq({"ok", "failed", "skipped"}) /\ next_id \in Nat
    BY <1>5, CallFields, Zenon DEF TypeOK
  <2> QED BY <1>2, <2>1
<1>8. Subscribes(a, b, ids, errs) /\ b \in Calls
  BY <1>3, <1>5, <1>7, SubscribingSubscribes, Zenon
<1>9. PICK p \in Frames : FrameOf(p) = a /\ Moves(p, b)
  BY <1>1, <1>4, <1>5, <1>8, BecomeMoves, Zenon
<1>10. ~impl[a.fsm].destroying /\ Counts(a.fsm, 1)
  BY <1>4, <1>6, HeldCounts, Zenon DEF CanSubscribe, Retains
<1> QED BY <1>2, <1>4, <1>5, <1>6, <1>8, <1>9, <1>10, Zenon

\* A subscription of libbgp_fsm_set_event_bus fails, or is not tried after that.
LEMMA SubscribeNotDoes ==
  ASSUME TypeOK, Controlled, NEW t \in Threads, SubscribeFails(t) \/ SubscribeSkipped(t)
  PROVE  /\ UNCHANGED <<bus, subs, next_id>> /\ Counts(App, 0)
         /\ \E p \in Frames, b \in Calls, e \in {"failed", "skipped"} : LET a == FrameOf(p) IN
              /\ a.pc = "subscribe" /\ a.fsm \in Fsms /\ Moves(p, b)
              /\ Subscribes(a, b, a.ids, Append(a.errs, e))
              /\ e = "skipped" => a.errs # <<>> /\ a.errs[Len(a.errs)] = "failed"
<1>1. PICK a : a = Top(t)
  BY Zenon
<1>2. PICK e \in {"failed", "skipped"} :
        /\ At(t, "subscribe") /\ Become(t, Subscribing(a, a.ids, Append(a.errs, e)))
        /\ UNCHANGED <<bus, subs, next_id, impl>>
        /\ e = "skipped" => Skipped(a)
  BY <1>1, Zenon DEF SubscribeFails, SubscribeSkipped
<1>3. PICK errs : errs = Append(a.errs, e)
  BY Zenon
<1>4. PICK b : b = Subscribing(a, a.ids, errs)
  BY Zenon
<1>5. Depth(t) > 0 /\ a \in Calls /\ a.pc = "subscribe"
  BY <1>1, <1>2, TopIs, Zenon
<1>6. a.fsm \in Fsms
  <2>1. PICK p \in Frames : FrameOf(p) = a
    BY <1>1, <1>5, TopPlace, Zenon
  <2> QED BY <1>5, <2>1, Zenon DEF Controlled, CallOK
<1>7. a.ids \in Seq(Nat) /\ errs \in Seq({"ok", "failed", "skipped"})
  <2>1. a.ids \in Seq(Nat) /\ a.errs \in Seq({"ok", "failed", "skipped"})
    BY <1>5, CallFields, Zenon
  <2> QED BY <1>3, <2>1
<1>8. Subscribes(a, b, a.ids, errs) /\ b \in Calls
  BY <1>4, <1>5, <1>7, SubscribingSubscribes, Zenon
<1>9. PICK p \in Frames : FrameOf(p) = a /\ Moves(p, b)
  BY <1>1, <1>2, <1>3, <1>4, <1>5, <1>8, BecomeMoves, Zenon
<1>10. e = "skipped" => a.errs # <<>> /\ a.errs[Len(a.errs)] = "failed"
  BY <1>2, Zenon DEF Skipped
<1> QED BY <1>2, <1>3, <1>5, <1>6, <1>8, <1>9, <1>10, UncountedCounts, Zenon

\* f has recorded ids.
Records(f, ids) ==
  /\ impl' \in [Fsms -> Impls] /\ \A g \in Fsms : g # f => impl'[g] = impl[g]
  /\ impl'[f].ids = ids /\ impl'[f].handle = impl[f].handle /\ impl'[f].refs = impl[f].refs
  /\ impl'[f].freed = impl[f].freed /\ impl'[f].destroying = impl[f].destroying

\* The last lock section of libbgp_fsm_set_event_bus.
LEMMA AttachDoes ==
  ASSUME TypeOK, Controlled, NEW t \in Threads, Attach(t)
  PROVE  /\ UNCHANGED <<bus, subs, next_id>>
         /\ \E p \in Frames, b \in Calls : LET a == FrameOf(p) IN
              /\ a.pc = "attach" /\ a.fsm \in Fsms /\ Moves(p, b)
              /\ \/ impl[a.fsm].destroying /\ Drops(a, b, a.ids, "leave") /\ Counts(App, 0)
                 \/ /\ ~impl[a.fsm].destroying /\ Records(a.fsm, a.ids)
                    /\ Is(b, "leave", a.fsm, a.type, a.from, a.todo, <<>>, a.errs, a.then)
<1>1. PICK a : a = Top(t)
  BY Zenon
<1>2. At(t, "attach") /\ UNCHANGED <<bus, subs, next_id>>
  BY Zenon DEF Attach
<1>3. Depth(t) > 0 /\ a \in Calls /\ a.pc = "attach"
  BY <1>1, <1>2, TopIs, Zenon
<1>4. a.fsm \in Fsms
  <2>1. PICK p \in Frames : FrameOf(p) = a
    BY <1>1, <1>3, TopPlace, Zenon
  <2> QED BY <1>3, <2>1, Zenon DEF Controlled, CallOK
<1>5. a.ids \in Seq(Nat) /\ <<>> \in Seq(Nat)
  <2>1. a.ids \in Seq(Nat)
    BY <1>3, CallFields, Zenon
  <2> QED BY <2>1
<1>6. CASE impl[a.fsm].destroying
  <2>1. Become(t, Dropping(a, a.ids, "leave")) /\ impl' = impl
    BY <1>1, <1>6, Zenon DEF Attach
  <2>2. PICK b : b = Dropping(a, a.ids, "leave")
    BY Zenon
  <2>3. Drops(a, b, a.ids, "leave") /\ b \in Calls
    BY <1>3, <1>5, <2>2, DroppingDrops, Zenon
  <2>4. PICK p \in Frames : FrameOf(p) = a /\ Moves(p, b)
    BY <1>1, <1>3, <2>1, <2>2, <2>3, BecomeMoves, Zenon
  <2> QED BY <1>2, <1>3, <1>4, <1>6, <2>1, <2>3, <2>4, UncountedCounts, Zenon
<1>7. CASE ~impl[a.fsm].destroying
  <2>1. /\ Become(t, [a EXCEPT !.pc = "leave", !.ids = <<>>])
        /\ impl' = [impl EXCEPT ![a.fsm].attached = (a.errs # <<>>), ![a.fsm].ids = a.ids]
    BY <1>1, <1>7, Zenon DEF Attach
  <2>2. PICK b : b = [a EXCEPT !.pc = "leave", !.ids = <<>>]
    BY Zenon
  <2>3. Is(b, "leave", a.fsm, a.type, a.from, a.todo, <<>>, a.errs, a.then) /\ b \in Calls
    BY <1>3, <1>5, <2>2, PcsAre, Zenon DEF Is, Calls
  <2>4. PICK p \in Frames : FrameOf(p) = a /\ Moves(p, b)
    BY <1>1, <1>3, <2>1, <2>2, <2>3, BecomeMoves, Zenon
  <2>5. Records(a.fsm, a.ids)
    <3>1. PICK new : new = [impl[a.fsm] EXCEPT !.attached = (a.errs # <<>>), !.ids = a.ids]
      BY Zenon
    <3>2. impl \in [Fsms -> Impls] /\ impl[a.fsm] \in Impls
      BY <1>4, Zenon DEF TypeOK
    <3>3. /\ new \in Impls /\ new.ids = a.ids /\ new.handle = impl[a.fsm].handle /\ new.refs = impl[a.fsm].refs
          /\ new.freed = impl[a.fsm].freed /\ new.destroying = impl[a.fsm].destroying
      BY <1>5, <3>1, <3>2, Zenon DEF Impls
    <3>4. impl' = [impl EXCEPT ![a.fsm] = new]
      BY <1>4, <2>1, <3>1, <3>2, Zenon
    <3>5. impl' \in [Fsms -> Impls] /\ impl'[a.fsm] = new /\ \A g \in Fsms : g # a.fsm => impl'[g] = impl[g]
      BY <1>4, <3>2, <3>3, <3>4, Zenon
    <3> QED BY <3>3, <3>5, Zenon DEF Records
  <2> QED BY <1>2, <1>3, <1>4, <1>7, <2>3, <2>4, <2>5, Zenon
<1> QED BY <1>6, <1>7, Zenon

-----------------------------------------------------------------------------
(* Types. *)

\* The types after a step of a call.
LEMMA MovesTypes ==
  ASSUME TypeOK, NEW p \in Frames, NEW b \in Calls, Moves(p, b), IsFiniteSet(b.todo),
         bus' = bus, next_id' \in Nat, subs' \subseteq Subs, IsFiniteSet(subs'), impl' \in [Fsms -> Impls]
  PROVE  TypeOK'
<1>1. \A q \in Frames : IsFiniteSet(FrameOf(q)'.todo)
  BY Zenon DEF Moves, TypeOK
<1> QED BY <1>1, Zenon DEF Moves, Stacked, TypeOK

\* The types after a step that leaves the stacks alone.
LEMMA StillTypes ==
  ASSUME TypeOK, stack' = stack, bus' \in BOOLEAN, next_id' \in Nat, subs' \subseteq Subs,
         IsFiniteSet(subs'), impl' \in [Fsms -> Impls]
  PROVE  TypeOK' /\ \A q \in Frames : FrameOf(q)' = FrameOf(q)
<1>1. \A q \in Frames : FrameOf(q)' = FrameOf(q)
  BY Zenon DEF FrameOf, Depth, NewFrame
<1>2. \A t \in Threads : Depth(t)' = Depth(t)
  BY Zenon DEF Depth
<1> QED BY <1>1, <1>2, Zenon DEF TypeOK

\* The fields of a subscription.
LEMMA SubscriptionIs ==
  ASSUME NEW id \in Nat, NEW type \in Kinds, NEW c \in Contexts
  PROVE  LET sub == Subscription(id, type, c) IN
         sub \in Subs /\ sub.id = id /\ sub.type = type /\ sub.ctx = c
BY Zenon DEF Subscription, Subs

-----------------------------------------------------------------------------
(* The entries of a sequence of ids. *)

\* No ids.
LEMMA EntriesNone == \A id : id \notin Entries(<<>>)
BY DEF Entries

\* The first id and the others.
LEMMA EntriesHead ==
  ASSUME NEW S, NEW s \in Seq(S), s # <<>>
  PROVE  /\ Head(s) \in Entries(s) /\ Tail(s) \in Seq(S)
         /\ \A e : e \in Entries(s) <=> e = Head(s) \/ e \in Entries(Tail(s))
<1>1. /\ Len(s) \in Nat /\ Len(s) > 0 /\ Head(s) = s[1] /\ Tail(s) \in Seq(S)
      /\ Len(Tail(s)) = Len(s) - 1 /\ \A i \in 1 .. Len(s) - 1 : Tail(s)[i] = s[i + 1]
  OBVIOUS
<1>2. ASSUME NEW i \in 1 .. Len(s)
      PROVE  s[i] = Head(s) \/ \E j \in 1 .. Len(Tail(s)) : s[i] = Tail(s)[j]
  <2>1. CASE i = 1
    BY <1>1, <2>1
  <2>2. CASE i # 1
    <3>1. i - 1 \in 1 .. Len(Tail(s)) /\ Tail(s)[i - 1] = s[i]
      BY <1>1, <2>2
    <3> QED BY <3>1, Zenon
  <2> QED BY <2>1, <2>2
<1>3. ASSUME NEW j \in 1 .. Len(Tail(s))
      PROVE  \E i \in 1 .. Len(s) : s[i] = Tail(s)[j]
  <2>1. j + 1 \in 1 .. Len(s) /\ s[j + 1] = Tail(s)[j]
    BY <1>1
  <2> QED BY <2>1, Zenon
<1>4. 1 \in 1 .. Len(s)
  BY <1>1
<1>5. Head(s) \in Entries(s)
  BY <1>1, <1>4, Zenon DEF Entries
<1>6. ASSUME NEW e \in Entries(s) PROVE e = Head(s) \/ e \in Entries(Tail(s))
  BY <1>2, Zenon DEF Entries
<1>7. ASSUME NEW e \in Entries(Tail(s)) PROVE e \in Entries(s)
  BY <1>3, Zenon DEF Entries
<1> QED BY <1>1, <1>5, <1>6, <1>7, Zenon

\* One id more.
LEMMA EntriesAppend ==
  ASSUME NEW S, NEW s \in Seq(S), NEW x \in S
  PROVE  /\ Append(s, x) \in Seq(S) /\ Append(s, x) # <<>>
         /\ \A e : e \in Entries(Append(s, x)) <=> e = x \/ e \in Entries(s)
<1>1. /\ Len(s) \in Nat /\ Append(s, x) \in Seq(S) /\ Len(Append(s, x)) = Len(s) + 1
      /\ Append(s, x)[Len(s) + 1] = x /\ \A i \in 1 .. Len(s) : Append(s, x)[i] = s[i]
  OBVIOUS
<1>2. /\ \A i \in 1 .. Len(s) + 1 : i \in 1 .. Len(s) \/ i = Len(s) + 1
      /\ \A i \in 1 .. Len(s) : i \in 1 .. Len(s) + 1
      /\ Len(s) + 1 \in 1 .. Len(s) + 1
  BY <1>1
<1>3. Append(s, x) # <<>>
  <2>1. Len(Append(s, x)) # 0 /\ Len(<<>>) = 0
    BY <1>1
  <2> QED BY <2>1, Zenon
<1> QED BY <1>1, <1>2, <1>3, Zenon DEF Entries

-----------------------------------------------------------------------------
(* Who has the ids. *)

\* A call that has ids in hand has them for an FSM that has recorded none.
LEMMA InHandOnly ==
  ASSUME Controlled, Destroying, NEW p \in Frames, FrameOf(p).ids # <<>>
  PROVE  FrameOf(p).fsm \in Fsms /\ impl[FrameOf(p).fsm].ids = <<>>
<1>1. /\ FrameOf(p).pc \in {"drop", "subscribe", "attach"} /\ FrameOf(p).fsm \in Fsms
      /\ FrameOf(p).pc = "drop" /\ FrameOf(p).then = "leave" => impl[FrameOf(p).fsm].destroying
  BY Zenon DEF Controlled, CallOK, OnBehalf
<1>2. Setter(FrameOf(p)) /\ FrameOf(p).pc # "detach" => impl[FrameOf(p).fsm].ids = <<>>
  BY Zenon DEF Controlled, OnBehalf
<1> QED BY <1>1, <1>2, Zenon DEF Destroying, Setter

\* The FSMs have what they had recorded, and no more handles.
Kept == \A f \in Fsms : /\ impl'[f].ids = impl[f].ids /\ impl'[f].destroying = impl[f].destroying
                        /\ impl'[f].handle => impl[f].handle

\* A step that moves no ids: the call in p goes on with those it has.
LEMMA Relabelled ==
  ASSUME TypeOK, HandInv, NEW p \in Frames, NEW b \in Calls, Moves(p, b),
         UNCHANGED <<bus, subs, next_id>>, Kept,
         b.ids = FrameOf(p).ids, b.ids # <<>> => b.fsm = FrameOf(p).fsm,
         CallOK(b), OnBehalf(b)', Progress(b)', b.from <= next_id,
         \A q \in Frames : q # p /\ Setter(b) /\ Setter(FrameOf(q)) => FrameOf(q).fsm # b.fsm
  PROVE  HandInv'
<1>1. FrameOf(p)' = b /\ \A q \in Frames : q # p => FrameOf(q)' = FrameOf(q)
  BY Zenon DEF Moves
<1>2. Controlled'
  <2>1. ASSUME NEW q \in Frames, q # p
        PROVE  CallOK(FrameOf(q))' /\ OnBehalf(FrameOf(q))' /\ Progress(FrameOf(q))'
    <3>1. FrameOf(q)' = FrameOf(q) /\ CallOK(FrameOf(q)) /\ OnBehalf(FrameOf(q)) /\ Progress(FrameOf(q))
      BY <1>1, <2>1, Zenon DEF HandInv, Controlled
    <3>4. CallOK(FrameOf(q))'
      BY <3>1, Zenon DEF CallOK
    <3>2. OnBehalf(FrameOf(q))'
      BY <3>1, Zenon DEF OnBehalf, Setter, CallOK, Kept
    <3>3. Progress(FrameOf(q))'
      BY <3>1, Zenon DEF Progress, Aligned
    <3> QED BY <3>2, <3>3, <3>4, Zenon
  <2>2. CallOK(FrameOf(p))'
    BY <1>1, Zenon DEF CallOK
  <2>3. OnBehalf(FrameOf(p))'
    BY <1>1, Zenon DEF OnBehalf, Setter
  <2>4. Progress(FrameOf(p))'
    BY <1>1, Zenon DEF Progress, Aligned
  <2> QED BY <2>1, <2>2, <2>3, <2>4, Zenon DEF Controlled
<1>3. Destroying'
  BY Zenon DEF HandInv, Destroying, Kept
<1>4. IdsUsed'
  <2>1. \A q \in Frames : /\ FrameOf(q)'.from <= next_id
                          /\ \A id \in Entries(FrameOf(q)'.ids) : id <= next_id
    BY <1>1, Zenon DEF HandInv, IdsUsed
  <2> QED BY <2>1, Zenon DEF HandInv, IdsUsed, Kept
<1>5. \A q \in Frames : Entries(FrameOf(q)'.ids) = Entries(FrameOf(q).ids)
  BY <1>1, Zenon
<1>6. \A q \in Frames : \A id \in Entries(FrameOf(q).ids) : FrameOf(q)'.fsm = FrameOf(q).fsm
  <2>1. ASSUME NEW id \in Entries(FrameOf(p).ids) PROVE b.fsm = FrameOf(p).fsm
    BY EntriesNone, Zenon
  <2> QED BY <1>1, <2>1, Zenon
<1>7. OwnIds'
  BY <1>5, <1>6, Zenon DEF HandInv, OwnIds, Kept
<1>8. OneHand'
  <2>1. ASSUME NEW q \in Frames, NEW r \in Frames, q # r, FrameOf(q)'.fsm = FrameOf(r)'.fsm
        PROVE  /\ ~(Setter(FrameOf(q)') /\ Setter(FrameOf(r)'))
               /\ \A id \in Entries(FrameOf(q)'.ids) : id \notin Entries(FrameOf(r)'.ids)
    <3>1. \A id \in Entries(FrameOf(q)'.ids) : id \notin Entries(FrameOf(r)'.ids)
      BY <1>5, <1>6, <2>1, Zenon DEF HandInv, OneHand
    <3>2. ~(Setter(FrameOf(q)') /\ Setter(FrameOf(r)'))
      BY <1>1, <2>1, Zenon DEF HandInv, OneHand
    <3> QED BY <3>1, <3>2, Zenon
  <2> QED BY <2>1, Zenon DEF OneHand, Setter
<1>9. NoneLeftBehind'
  <2>1. ASSUME NEW sub \in subs, sub.ctx \in Fsms
        PROVE  \/ sub.id \in Entries(impl'[sub.ctx].ids)
               \/ \E q \in Frames : FrameOf(q)'.fsm = sub.ctx /\ sub.id \in Entries(FrameOf(q)'.ids)
    <3>1. CASE sub.id \in Entries(impl[sub.ctx].ids)
      BY <2>1, <3>1, Zenon DEF Kept
    <3>2. CASE \E q \in Frames : FrameOf(q).fsm = sub.ctx /\ sub.id \in Entries(FrameOf(q).ids)
      BY <1>5, <1>6, <3>2, Zenon
    <3> QED BY <2>1, <3>1, <3>2, Zenon DEF HandInv, NoneLeftBehind, InCalls
  <2> QED BY <2>1, Zenon DEF NoneLeftBehind, InCalls
<1>10. AllOrNone'
  BY Zenon DEF HandInv, AllOrNone, Kept
<1> QED BY <1>2, <1>3, <1>4, <1>7, <1>8, <1>9, <1>10, Zenon DEF HandInv

\* References come and go without that.
LEMMA CountsKept ==
  ASSUME NEW c, NEW n, Counts(c, n)
  PROVE  Kept
BY Zenon DEF Counts, Kept

\* A step of a call that only publishes, or comes or goes.
LEMMA Quiet ==
  ASSUME TypeOK, HandInv, NEW p \in Frames, NEW b \in Calls, Moves(p, b),
         UNCHANGED <<bus, subs, next_id>>, Kept, b.ids = FrameOf(p).ids,
         FrameOf(p).pc \in {"publish", "deliver", "callback", "leave"},
         b.pc \in {"publish", "deliver", "callback", "leave"},
         b.todo # {} => b.pc \in {"deliver", "callback"}, b.from <= next_id
  PROVE  HandInv'
<1>1. FrameOf(p).ids = <<>>
  BY Zenon DEF HandInv, Controlled, CallOK
<1>2. CallOK(b)
  BY <1>1, Zenon DEF CallOK
<1>3. ~Setter(b) /\ OnBehalf(b)' /\ Progress(b)'
  BY Zenon DEF Setter, OnBehalf, Progress
<1> QED BY <1>1, <1>2, <1>3, Relabelled, Zenon

\* The steps of publications, and the ends of calls.
LEMMA PublicationKeeps ==
  ASSUME TypeOK, HandInv, NEW t \in Threads,
         \/ \E type \in Entries(Types) : BeginPublish(t, type)
         \/ \E f \in Fsms, i \in 1 .. Len(Types) : BeginFsmPublish(t, f, i)
         \/ Publish(t) \/ PublishNoMemory(t) \/ Deliver(t) \/ CallbackReturns(t) \/ Leave(t)
  PROVE  HandInv'
<1>0. /\ next_id \in Nat /\ 0 <= next_id /\ \A p \in Frames : FrameOf(p).from <= next_id
      /\ NewFrame.pc = "leave" /\ NewFrame.ids = <<>> /\ NewFrame.from = 0 /\ NewFrame.todo = {}
      /\ NewFrame \in Calls
  <2>1. 0 <= next_id
    BY DEF TypeOK
  <2> QED BY <2>1, NewFrameOK, Zenon DEF TypeOK, HandInv, IdsUsed
<1>1. ASSUME NEW type \in Entries(Types), BeginPublish(t, type) PROVE HandInv'
  <2>1. PICK p \in Frames, b \in Calls :
          /\ FrameOf(p) = NewFrame /\ Moves(p, b) /\ UNCHANGED <<bus, subs, next_id>> /\ Counts(App, 0)
          /\ Is(b, "publish", App, type, 0, {}, <<>>, <<>>, "leave")
    BY <1>1, BeginPublishDoes, Zenon
  <2>2. b.pc = "publish" /\ b.ids = <<>> /\ b.todo = {} /\ b.from = 0 /\ Kept
    BY <2>1, CountsKept, Zenon DEF Is
  <2> QED BY <1>0, <2>1, <2>2, Quiet, Zenon
<1>2. ASSUME NEW f \in Fsms, NEW i \in 1 .. Len(Types), BeginFsmPublish(t, f, i) PROVE HandInv'
  <2>1. PICK p \in Frames, b \in Calls, from \in Nat :
          /\ FrameOf(p) = NewFrame /\ Moves(p, b) /\ UNCHANGED <<bus, subs, next_id>> /\ Counts(f, 1)
          /\ from = (IF impl[f].ids = <<>> THEN 0 ELSE impl[f].ids[i])
          /\ Is(b, "publish", f, Types[i], from, {}, <<>>, <<>>, "leave")
    BY <1>2, BeginFsmPublishDoes, Zenon DEF HandInv
  <2>2. b.pc = "publish" /\ b.ids = <<>> /\ b.todo = {} /\ b.from = from /\ Kept
    BY <2>1, CountsKept, Zenon DEF Is
  <2>3. from <= next_id
    <3>1. CASE impl[f].ids = <<>>
      BY <1>0, <2>1, <3>1, Zenon
    <3>2. CASE impl[f].ids # <<>>
      <4>1. impl[f].ids \in Seq(Nat) /\ Len(impl[f].ids) \in {0, Len(Types)}
        BY Zenon DEF TypeOK, Impls, HandInv, AllOrNone
      <4>2. i \in 1 .. Len(impl[f].ids)
        BY <3>2, <4>1
      <4> QED BY <2>1, <3>2, <4>2, Zenon DEF HandInv, IdsUsed, Entries
    <3> QED BY <3>1, <3>2, Zenon
  <2> QED BY <1>0, <2>1, <2>2, <2>3, Quiet, Zenon
<1>3. CASE Publish(t)
  <2>1. PICK p \in Frames, b \in Calls, todo \in SUBSET subs, pc \in {"leave", "deliver"} :
          LET a == FrameOf(p) IN
          /\ a.pc = "publish" /\ Moves(p, b) /\ todo = Snapshot(a.type, a.from)
          /\ pc = IF todo = {} THEN "leave" ELSE "deliver"
          /\ Is(b, pc, a.fsm, a.type, a.from, todo, a.ids, a.errs, a.then)
          /\ impl' = [f \in Fsms |-> [impl[f] EXCEPT !.refs = impl[f].refs + Cardinality(Of(f, todo))]]
    BY <1>3, PublishDoes, Zenon
  <2>2. /\ b.pc = pc /\ b.ids = FrameOf(p).ids /\ b.todo = todo /\ b.from = FrameOf(p).from
        /\ UNCHANGED <<bus, subs, next_id>>
    BY <1>3, <2>1, PublishDoes, Zenon DEF Is
  <2>3. Kept
    <3>1. \A f \in Fsms : impl[f] \in Impls
      BY Zenon DEF TypeOK
    <3> QED BY <2>1, <3>1, Zenon DEF Impls, Kept
  <2> QED BY <1>0, <2>1, <2>2, <2>3, Quiet, Zenon
<1>4. CASE PublishNoMemory(t) \/ Deliver(t)
  <2>1. PICK p \in Frames, b \in Calls, pc \in {"leave", "callback"} :
          LET a == FrameOf(p) IN
          /\ (a.pc = "publish" /\ pc = "leave") \/ (a.pc = "deliver" /\ pc = "callback")
          /\ Moves(p, b) /\ UNCHANGED <<bus, subs, next_id>> /\ Counts(App, 0)
          /\ Is(b, pc, a.fsm, a.type, a.from, a.todo, a.ids, a.errs, a.then)
    BY <1>4, PassOnDoes, Zenon
  <2>2. b.pc = pc /\ b.ids = FrameOf(p).ids /\ b.todo = FrameOf(p).todo /\ b.from = FrameOf(p).from /\ Kept
    BY <2>1, CountsKept, Zenon DEF Is
  <2>3. FrameOf(p).pc = "publish" => FrameOf(p).todo = {}
    BY Zenon DEF HandInv, Controlled, CallOK
  <2> QED BY <1>0, <2>1, <2>2, <2>3, Quiet, Zenon
<1>5. CASE CallbackReturns(t)
  <2>1. PICK p \in Frames, b \in Calls, sub \in Subs, pc \in {"leave", "deliver"} :
          LET a == FrameOf(p) IN
          /\ a.pc = "callback" /\ Moves(p, b) /\ UNCHANGED <<bus, subs, next_id>> /\ Counts(sub.ctx, 0 - 1)
          /\ pc = IF a.todo \ {sub} = {} THEN "leave" ELSE "deliver"
          /\ Is(b, pc, a.fsm, a.type, a.from, a.todo \ {sub}, a.ids, a.errs, a.then)
    BY <1>5, CallbackReturnsDoes, Zenon
  <2>2. b.pc = pc /\ b.ids = FrameOf(p).ids /\ b.todo = FrameOf(p).todo \ {sub} /\ b.from = FrameOf(p).from /\ Kept
    BY <2>1, CountsKept, Zenon DEF Is
  <2> QED BY <1>0, <2>1, <2>2, Quiet, Zenon
<1>6. CASE Leave(t)
  <2>1. PICK p \in Frames : /\ FrameOf(p).pc = "leave" /\ Moves(p, NewFrame) /\ Counts(FrameOf(p).fsm, 0 - 1)
                            /\ UNCHANGED <<bus, subs, next_id>>
    BY <1>6, LeaveDoes, Zenon
  <2>2. Kept /\ FrameOf(p).ids = <<>>
    BY <2>1, CountsKept, Zenon DEF HandInv, Controlled, CallOK
  <2> QED BY <1>0, <2>1, <2>2, Quiet, Zenon
<1> QED BY <1>1, <1>2, <1>3, <1>4, <1>5, <1>6, Zenon

\* The beginnings of libbgp_fsm_set_event_bus, one call at a time, and of
\* libbgp_fsm_destroy.
LEMMA BeginKeeps ==
  ASSUME TypeOK, HandInv, NEW t \in Threads, NEW f \in Fsms,
         (\E on \in BOOLEAN : BeginSetBus(t, f, on)) \/ BeginDestroy(t, f)
  PROVE  HandInv'
<1>0. 0 <= next_id /\ NewFrame.ids = <<>> /\ NewFrame.pc = "leave"
  <2>1. 0 <= next_id
    BY DEF TypeOK
  <2> QED BY <2>1, NewFrameOK, Zenon
<1>1. ASSUME NEW on \in BOOLEAN, BeginSetBus(t, f, on) PROVE HandInv'
  <2>1. PICK p \in Frames, b \in Calls, then \in {"subscribe", "attach"} :
          /\ FrameOf(p) = NewFrame /\ Moves(p, b)
          /\ Is(b, "detach", f, "none", 0, {}, <<>>, <<>>, then)
    BY <1>1, BeginSetBusDoes, Zenon
  <2>2. UNCHANGED <<bus, subs, next_id>> /\ Counts(f, 1) /\ ~Setting(f)
    BY <1>1, BeginSetBusDoes, Zenon
  <2>3. /\ b.pc = "detach" /\ b.fsm = f /\ b.ids = <<>> /\ b.todo = {} /\ b.errs = <<>> /\ b.from = 0
        /\ b.then # "leave" /\ Kept
    BY <2>1, <2>2, CountsKept, Zenon DEF Is
  <2>4. CallOK(b) /\ OnBehalf(b)' /\ Progress(b)'
    BY <2>3, Zenon DEF CallOK, OnBehalf, Progress
  <2>5. ASSUME NEW q \in Frames, Setter(FrameOf(q)) PROVE FrameOf(q).fsm # f
    <3>1. q[1] \in Threads /\ q[2] \in 1 .. MaxDepth /\ MaxDepth \in Nat /\ stack[q[1]] \in Seq(Calls)
      BY BusAssumption DEF Frames, TypeOK
    <3>2. FrameOf(q) # NewFrame
      BY <1>0, <2>5, Zenon DEF Setter
    <3>3. q[2] \in 1 .. Depth(q[1]) /\ FrameOf(q) = stack[q[1]][q[2]]
      BY <3>1, <3>2 DEF FrameOf, Depth
    <3>4. FrameOf(q).pc \in {"detach", "drop", "subscribe", "attach"}
      BY <2>5, Zenon DEF Setter
    <3> QED BY <2>2, <3>1, <3>3, <3>4, Zenon DEF Setting
  <2> QED BY <1>0, <2>1, <2>2, <2>3, <2>4, <2>5, Relabelled, Zenon
<1>2. CASE BeginDestroy(t, f)
  <2>1. PICK p \in Frames, b \in Calls :
          /\ FrameOf(p) = NewFrame /\ Moves(p, b)
          /\ Is(b, "destroy", f, "none", 0, {}, <<>>, <<>>, "leave")
    BY <1>2, BeginDestroyDoes, Zenon
  <2>2. UNCHANGED <<bus, subs, next_id>> /\ Kept /\ ~impl'[f].handle
    BY <1>2, BeginDestroyDoes, Zenon DEF Kept
  <2>3. b.pc = "destroy" /\ b.fsm = f /\ b.ids = <<>> /\ b.todo = {} /\ b.from = 0
    BY <2>1, Zenon DEF Is
  <2>4. CallOK(b) /\ OnBehalf(b)' /\ Progress(b)' /\ ~Setter(b)
    BY <2>2, <2>3, Zenon DEF CallOK, OnBehalf, Progress, Setter
  <2> QED BY <1>0, <2>1, <2>2, <2>3, <2>4, Relabelled, Zenon
<1> QED BY <1>1, <1>2, Zenon

\* A subscription that fails or is skipped: the call goes on with the ids it has.
LEMMA SubscribeNotKeeps ==
  ASSUME TypeOK, HandInv, NEW t \in Threads, SubscribeFails(t) \/ SubscribeSkipped(t)
  PROVE  HandInv'
<1>1. PICK p \in Frames, b \in Calls, e \in {"failed", "skipped"} : LET a == FrameOf(p) IN
        /\ a.pc = "subscribe" /\ a.fsm \in Fsms /\ Moves(p, b)
        /\ Subscribes(a, b, a.ids, Append(a.errs, e))
        /\ e = "skipped" => a.errs # <<>> /\ a.errs[Len(a.errs)] = "failed"
  BY SubscribeNotDoes, Zenon DEF HandInv
<1>2. UNCHANGED <<bus, subs, next_id>> /\ Kept
  BY SubscribeNotDoes, CountsKept, Zenon DEF HandInv
<1>3. PICK a, errs : a \in Calls /\ a = FrameOf(p) /\ errs = Append(a.errs, e)
  BY FramesAre, Zenon
<1>4. a.errs \in Seq({"ok", "failed", "skipped"}) /\ Subscribes(a, b, a.ids, errs)
  BY <1>1, <1>3, CallFields, Zenon
<1>5. "failed" \in Entries(errs) /\ ~(\A i \in 1 .. Len(errs) : errs[i] = "ok")
  <2>1. \E i \in 1 .. Len(errs) : errs[i] = "failed"
    <3>1. /\ Len(errs) = Len(a.errs) + 1 /\ errs[Len(errs)] = e /\ Len(errs) \in 1 .. Len(errs)
          /\ Len(a.errs) \in Nat
      BY <1>3, <1>4
    <3>2. CASE e = "skipped"
      <4>1. Len(a.errs) \in 1 .. Len(errs) /\ errs[Len(a.errs)] = "failed"
        BY <1>1, <1>3, <1>4, <3>1, <3>2
      <4> QED BY <4>1, Zenon
    <3> QED BY <3>1, <3>2, Zenon
  <2> QED BY <2>1, Zenon DEF Entries
<1>6. /\ a.pc = "subscribe" /\ a.fsm \in Fsms /\ Setter(a) /\ impl[a.fsm].ids = <<>> /\ a.from <= next_id
      /\ a.todo = {}
  BY <1>1, <1>3, Zenon DEF HandInv, Controlled, CallOK, OnBehalf, IdsUsed, Setter
<1>7. \A q \in Frames : q # p /\ Setter(FrameOf(q)) => FrameOf(q).fsm # a.fsm
  BY <1>3, <1>6, Zenon DEF HandInv, OneHand
<1>8. /\ b.fsm = a.fsm /\ b.ids = a.ids /\ b.from = a.from /\ b.todo = {} /\ b.errs = errs
      /\ \/ b.pc = "subscribe" /\ Len(errs) < Len(Types)
         \/ b.pc = "attach" /\ a.ids = <<>>
         \/ b.pc = "drop" /\ a.ids # <<>> /\ b.then = "attach"
  <2>1. CASE Len(errs) < Len(Types)
    BY <1>4, <1>6, <2>1, Zenon DEF Subscribes, Is
  <2>2. CASE ~(Len(errs) < Len(Types))
    <3>1. Is(b, IF a.ids = <<>> THEN "attach" ELSE "drop", a.fsm, a.type, a.from, a.todo, a.ids, errs, "attach")
      BY <1>4, <1>5, <2>2, Zenon DEF Subscribes
    <3> QED BY <1>6, <3>1, Zenon DEF Is
  <2> QED BY <2>1, <2>2, Zenon
<1>9. CallOK(b)
  BY <1>6, <1>8, Zenon DEF CallOK
<1>10. OnBehalf(b)'
  BY <1>2, <1>6, <1>8, Zenon DEF OnBehalf, Kept
<1>11. Progress(b)'
  BY <1>5, <1>8, Zenon DEF Progress
<1>12. /\ Moves(p, b) /\ b.ids = FrameOf(p).ids /\ b.fsm = FrameOf(p).fsm /\ b.from <= next_id
       /\ \A q \in Frames : q # p /\ Setter(FrameOf(q)) => FrameOf(q).fsm # b.fsm
  BY <1>1, <1>3, <1>6, <1>7, <1>8, Zenon
<1> QED BY <1>2, <1>9, <1>10, <1>11, <1>12, Relabelled, Zenon

\* libbgp_fsm_set_event_bus or libbgp_fsm_destroy, in p, takes over the ids that its
\* FSM has recorded.
LEMMA Taken ==
  ASSUME TypeOK, HandInv, NEW p \in Frames, NEW b \in Calls, Moves(p, b),
         UNCHANGED <<bus, subs, next_id>>, NEW f \in Fsms, NEW destroying \in BOOLEAN, Gives(f, destroying),
         impl[f].destroying => destroying, destroying => ~impl[f].handle,
         FrameOf(p).ids = <<>>, FrameOf(p).fsm = f, b.fsm = f, b.ids = impl[f].ids,
         CallOK(b), OnBehalf(b)', Progress(b)', b.from <= next_id, Setter(b) => Setter(FrameOf(p))
  PROVE  HandInv'
<1>1. FrameOf(p)' = b /\ \A q \in Frames : q # p => FrameOf(q)' = FrameOf(q)
  BY Zenon DEF Moves
<1>2. /\ \A g \in Fsms : g # f => impl'[g] = impl[g]
      /\ impl'[f].ids = <<>> /\ impl'[f].handle = impl[f].handle /\ impl'[f].destroying = destroying
      /\ \A id : id \notin Entries(impl'[f].ids)
  BY EntriesNone, Zenon DEF Gives
<1>3. Controlled'
  <2>1. ASSUME NEW q \in Frames, q # p
        PROVE  CallOK(FrameOf(q))' /\ OnBehalf(FrameOf(q))' /\ Progress(FrameOf(q))'
    <3>1. FrameOf(q)' = FrameOf(q) /\ CallOK(FrameOf(q)) /\ OnBehalf(FrameOf(q)) /\ Progress(FrameOf(q))
      BY <1>1, <2>1, Zenon DEF HandInv, Controlled
    <3>2. CallOK(FrameOf(q))'
      BY <3>1, Zenon DEF CallOK
    <3>3. OnBehalf(FrameOf(q))'
      <4>1. CASE FrameOf(q).fsm = f
        BY <1>2, <3>1, <4>1, Zenon DEF OnBehalf, Setter
      <4>2. CASE FrameOf(q).fsm # f
        BY <1>2, <3>1, <4>2, Zenon DEF OnBehalf, Setter, CallOK
      <4> QED BY <4>1, <4>2, Zenon
    <3>4. Progress(FrameOf(q))'
      BY <3>1, Zenon DEF Progress, Aligned
    <3> QED BY <3>2, <3>3, <3>4, Zenon
  <2>2. CallOK(FrameOf(p))'
    BY <1>1, Zenon DEF CallOK
  <2>3. OnBehalf(FrameOf(p))'
    BY <1>1, Zenon DEF OnBehalf, Setter
  <2>4. Progress(FrameOf(p))'
    BY <1>1, Zenon DEF Progress, Aligned
  <2> QED BY <2>1, <2>2, <2>3, <2>4, Zenon DEF Controlled
<1>4. Destroying'
  BY <1>2, Zenon DEF HandInv, Destroying
<1>5. IdsUsed'
  <2>1. \A q \in Frames : /\ FrameOf(q)'.from <= next_id
                          /\ \A id \in Entries(FrameOf(q)'.ids) : id <= next_id
    BY <1>1, Zenon DEF HandInv, IdsUsed
  <2>2. \A g \in Fsms : \A id \in Entries(impl'[g].ids) : id <= next_id
    BY <1>2, Zenon DEF HandInv, IdsUsed
  <2> QED BY <2>1, <2>2, Zenon DEF HandInv, IdsUsed
<1>6. OwnIds'
  <2>1. ASSUME NEW sub \in subs, NEW q \in Frames, sub.id \in Entries(FrameOf(q)'.ids)
        PROVE  sub.ctx = FrameOf(q)'.fsm
    BY <1>1, <2>1, Zenon DEF HandInv, OwnIds
  <2>2. ASSUME NEW sub \in subs, NEW g \in Fsms, sub.id \in Entries(impl'[g].ids)
        PROVE  sub.ctx = g
    BY <1>2, <2>2, Zenon DEF HandInv, OwnIds
  <2> QED BY <2>1, <2>2, Zenon DEF OwnIds
<1>7. OneHand'
  <2>1. ASSUME NEW q \in Frames, q # p, FrameOf(q).fsm = f
        PROVE  \A id \in Entries(FrameOf(q).ids) : id \notin Entries(b.ids)
    <3>1. CASE FrameOf(q).ids = <<>>
      BY <3>1, EntriesNone, Zenon
    <3>2. CASE FrameOf(q).ids # <<>>
      <4>1. impl[f].ids = <<>>
        BY <2>1, <3>2, InHandOnly, Zenon DEF HandInv
      <4> QED BY <4>1, EntriesNone, Zenon
    <3> QED BY <3>1, <3>2, Zenon
  <2>2. ASSUME NEW q \in Frames, NEW r \in Frames, q # r, FrameOf(q)'.fsm = FrameOf(r)'.fsm
        PROVE  /\ ~(Setter(FrameOf(q)') /\ Setter(FrameOf(r)'))
               /\ \A id \in Entries(FrameOf(q)'.ids) : id \notin Entries(FrameOf(r)'.ids)
    <3>1. \A id \in Entries(FrameOf(q)'.ids) : id \notin Entries(FrameOf(r)'.ids)
      <4>1. CASE q = p
        BY <1>1, <2>1, <2>2, <4>1, Zenon
      <4>2. CASE r = p
        BY <1>1, <2>1, <2>2, <4>2, Zenon
      <4>3. CASE q # p /\ r # p
        BY <1>1, <2>2, <4>3, Zenon DEF HandInv, OneHand
      <4> QED BY <4>1, <4>2, <4>3, Zenon
    <3>2. ~(Setter(FrameOf(q)') /\ Setter(FrameOf(r)'))
      BY <1>1, <2>2, Zenon DEF HandInv, OneHand
    <3> QED BY <3>1, <3>2, Zenon
  <2> QED BY <2>2, Zenon DEF OneHand, Setter
<1>8. NoneLeftBehind'
  <2>1. ASSUME NEW sub \in subs, sub.ctx \in Fsms
        PROVE  \/ sub.id \in Entries(impl'[sub.ctx].ids)
               \/ \E q \in Frames : FrameOf(q)'.fsm = sub.ctx /\ sub.id \in Entries(FrameOf(q)'.ids)
    <3>1. CASE sub.id \in Entries(impl[sub.ctx].ids)
      BY <1>1, <1>2, <2>1, <3>1, Zenon
    <3>2. CASE \E q \in Frames : FrameOf(q).fsm = sub.ctx /\ sub.id \in Entries(FrameOf(q).ids)
      BY <1>1, <3>2, EntriesNone, Zenon
    <3> QED BY <2>1, <3>1, <3>2, Zenon DEF HandInv, NoneLeftBehind, InCalls
  <2> QED BY <2>1, Zenon DEF NoneLeftBehind, InCalls
<1>9. AllOrNone'
  <2>1. Len(<<>>) = 0 /\ 1 .. 0 = {}
    OBVIOUS
  <2>2. /\ Len(impl'[f].ids) \in {0, Len(Types)}
        /\ bus => \A i \in 1 .. Len(impl'[f].ids) : Subscription(impl'[f].ids[i], Types[i], f) \in subs
    BY <1>2, <2>1, Zenon
  <2> QED BY <1>2, <2>2, Zenon DEF HandInv, AllOrNone
<1> QED BY <1>3, <1>4, <1>5, <1>6, <1>7, <1>8, <1>9, Zenon DEF HandInv

\* The first lock section of libbgp_fsm_set_event_bus.
LEMMA DetachKeeps ==
  ASSUME TypeOK, HandInv, NEW t \in Threads, Detach(t)
  PROVE  HandInv'
<1>1. PICK p \in Frames, b \in Calls : LET a == FrameOf(p) IN
        /\ a.pc = "detach" /\ a.fsm \in Fsms /\ Moves(p, b)
        /\ Drops(a, b, impl[a.fsm].ids, a.then) /\ Gives(a.fsm, impl[a.fsm].destroying)
  BY DetachDoes, Zenon DEF HandInv
<1>2. UNCHANGED <<bus, subs, next_id>>
  BY DetachDoes, Zenon DEF HandInv
<1>3. PICK a, f, destroying, ids :
        /\ a \in Calls /\ f \in Fsms /\ destroying \in BOOLEAN
        /\ a = FrameOf(p) /\ f = a.fsm /\ destroying = impl[f].destroying /\ ids = impl[f].ids
  BY <1>1, FramesAre, Zenon DEF TypeOK, Impls
<1>4. /\ a.pc = "detach" /\ Moves(p, b) /\ Gives(f, destroying)
      /\ Is(b, IF ids = <<>> THEN a.then ELSE "drop", a.fsm, a.type, a.from, a.todo, ids, a.errs, a.then)
  BY <1>1, <1>3, Zenon DEF Drops
<1>5. /\ a.ids = <<>> /\ a.todo = {} /\ a.then \in {"subscribe", "attach"} /\ a.errs = <<>> /\ Setter(a)
      /\ a.from <= next_id
      /\ destroying => ~impl[f].handle
  <2>1. a.then \in {"leave", "subscribe", "attach"}
    BY <1>3, Zenon DEF Calls
  <2> QED BY <1>3, <1>4, <2>1, Zenon DEF HandInv, Controlled, CallOK, IdsUsed, Setter, Destroying
<1>6. /\ b.fsm = f /\ b.ids = ids /\ b.todo = {} /\ b.from <= next_id /\ b.errs = <<>> /\ b.then = a.then
      /\ \/ ids = <<>> /\ b.pc = a.then
         \/ ids # <<>> /\ b.pc = "drop"
  BY <1>3, <1>4, <1>5, Zenon DEF Is
<1>7. Len(<<>>) = 0 /\ 0 < Len(Types) /\ 1 .. 0 = {}
  BY BusAssumption
<1>8. CallOK(b)
  BY <1>3, <1>5, <1>6, <1>7, Zenon DEF CallOK
<1>9. OnBehalf(b)'
  BY <1>4, <1>5, <1>6, Zenon DEF OnBehalf, Gives
<1>10. Progress(b)'
  BY <1>5, <1>6, <1>7, Zenon DEF Progress, Aligned
<1>11. /\ FrameOf(p).ids = <<>> /\ FrameOf(p).fsm = f /\ b.ids = impl[f].ids /\ Setter(FrameOf(p))
       /\ impl[f].destroying => destroying
  BY <1>3, <1>5, <1>6, Zenon
<1> QED BY <1>3, <1>2, <1>4, <1>5, <1>6, <1>8, <1>9, <1>10, <1>11, Taken, Zenon

\* The lock section of libbgp_fsm_destroy.
LEMMA DestroyKeeps ==
  ASSUME TypeOK, HandInv, NEW t \in Threads, Destroy(t)
  PROVE  HandInv'
<1>1. PICK p \in Frames, b \in Calls : LET a == FrameOf(p) IN
        /\ a.pc = "destroy" /\ a.fsm \in Fsms /\ Moves(p, b)
        /\ Drops(a, b, impl[a.fsm].ids, "leave") /\ Gives(a.fsm, TRUE)
  BY DestroyDoes, Zenon DEF HandInv
<1>2. UNCHANGED <<bus, subs, next_id>>
  BY DestroyDoes, Zenon DEF HandInv
<1>3. PICK a, f, ids :
        /\ a \in Calls /\ f \in Fsms
        /\ a = FrameOf(p) /\ f = a.fsm /\ ids = impl[f].ids
  BY <1>1, FramesAre, Zenon
<1>4. /\ a.pc = "destroy" /\ Moves(p, b) /\ Gives(f, TRUE)
      /\ Is(b, IF ids = <<>> THEN "leave" ELSE "drop", a.fsm, a.type, a.from, a.todo, ids, a.errs, "leave")
  BY <1>1, <1>3, Zenon DEF Drops
<1>5. a.ids = <<>> /\ a.todo = {} /\ a.from <= next_id /\ ~impl[f].handle
  BY <1>3, <1>4, Zenon DEF HandInv, Controlled, CallOK, OnBehalf, IdsUsed
<1>6. /\ b.fsm = f /\ b.ids = ids /\ b.todo = {} /\ b.from <= next_id /\ b.then = "leave"
      /\ \/ ids = <<>> /\ b.pc = "leave"
         \/ ids # <<>> /\ b.pc = "drop"
  BY <1>3, <1>4, <1>5, Zenon DEF Is
<1>7. CallOK(b) /\ ~Setter(b)
  BY <1>3, <1>6, Zenon DEF CallOK, Setter
<1>8. OnBehalf(b)'
  BY <1>4, <1>6, <1>7, Zenon DEF OnBehalf, Gives
<1>9. Progress(b)'
  BY <1>6, Zenon DEF Progress
<1>10. FrameOf(p).ids = <<>> /\ FrameOf(p).fsm = f /\ b.ids = impl[f].ids
  BY <1>3, <1>5, <1>6, Zenon
<1> QED BY <1>3, <1>2, <1>4, <1>5, <1>6, <1>7, <1>8, <1>9, <1>10, Taken, Zenon

\* libbgp_fsm_set_event_bus, in p, records the ids it has in hand.
LEMMA Recorded ==
  ASSUME TypeOK, HandInv, NEW p \in Frames, NEW b \in Calls, Moves(p, b),
         UNCHANGED <<bus, subs, next_id>>, NEW f \in Fsms, NEW ids \in Seq(Nat), Records(f, ids),
         FrameOf(p).ids = ids, FrameOf(p).fsm = f, FrameOf(p).pc = "attach", ~impl[f].destroying,
         b.fsm = f, b.ids = <<>>, b.todo = {}, b.pc = "leave", b.from <= next_id
  PROVE  HandInv'
<1>1. FrameOf(p)' = b /\ \A q \in Frames : q # p => FrameOf(q)' = FrameOf(q)
  BY Zenon DEF Moves
<1>2. /\ \A g \in Fsms : g # f => impl'[g] = impl[g]
      /\ impl'[f].ids = ids /\ impl'[f].handle = impl[f].handle /\ ~impl'[f].destroying
      /\ \A id : id \notin Entries(b.ids)
  BY EntriesNone, Zenon DEF Records
<1>3. /\ Setter(FrameOf(p)) /\ impl[f].ids = <<>> /\ Progress(FrameOf(p)) /\ ~Setter(b)
      /\ \A q \in Frames : q # p /\ FrameOf(q).fsm = f => ~Setter(FrameOf(q))
  <2>1. Setter(FrameOf(p)) /\ ~Setter(b)
    BY Zenon DEF Setter
  <2> QED BY <2>1, Zenon DEF HandInv, Controlled, OnBehalf, OneHand
<1>4. Controlled'
  <2>1. ASSUME NEW q \in Frames, q # p
        PROVE  CallOK(FrameOf(q))' /\ OnBehalf(FrameOf(q))' /\ Progress(FrameOf(q))'
    <3>1. FrameOf(q)' = FrameOf(q) /\ CallOK(FrameOf(q)) /\ OnBehalf(FrameOf(q)) /\ Progress(FrameOf(q))
      BY <1>1, <2>1, Zenon DEF HandInv, Controlled
    <3>2. CallOK(FrameOf(q))'
      BY <3>1, Zenon DEF CallOK
    <3>3. OnBehalf(FrameOf(q))'
      <4>1. CASE FrameOf(q).fsm = f
        <5>1. ~Setter(FrameOf(q)) /\ ~(FrameOf(q).pc = "drop" /\ FrameOf(q).then = "leave")
          BY <1>3, <2>1, <3>1, <4>1, Zenon DEF OnBehalf
        <5> QED BY <1>2, <3>1, <4>1, <5>1, Zenon DEF OnBehalf, Setter
      <4>2. CASE FrameOf(q).fsm # f
        BY <1>2, <3>1, <4>2, Zenon DEF OnBehalf, Setter, CallOK
      <4> QED BY <4>1, <4>2, Zenon
    <3>4. Progress(FrameOf(q))'
      BY <3>1, Zenon DEF Progress, Aligned
    <3> QED BY <3>2, <3>3, <3>4, Zenon
  <2>2. CallOK(FrameOf(p))'
    BY <1>1, Zenon DEF CallOK
  <2>3. OnBehalf(FrameOf(p))' /\ Progress(FrameOf(p))'
    BY <1>1, Zenon DEF OnBehalf, Setter, Progress
  <2> QED BY <2>1, <2>2, <2>3, Zenon DEF Controlled
<1>5. Destroying'
  BY <1>2, Zenon DEF HandInv, Destroying
<1>6. IdsUsed'
  <2>1. \A q \in Frames : /\ FrameOf(q)'.from <= next_id
                          /\ \A id \in Entries(FrameOf(q)'.ids) : id <= next_id
    BY <1>1, <1>2, Zenon DEF HandInv, IdsUsed
  <2>2. \A g \in Fsms : \A id \in Entries(impl'[g].ids) : id <= next_id
    BY <1>2, Zenon DEF HandInv, IdsUsed
  <2> QED BY <2>1, <2>2, Zenon DEF HandInv, IdsUsed
<1>7. OwnIds'
  <2>1. ASSUME NEW sub \in subs, NEW q \in Frames, sub.id \in Entries(FrameOf(q)'.ids)
        PROVE  sub.ctx = FrameOf(q)'.fsm
    BY <1>1, <1>2, <2>1, Zenon DEF HandInv, OwnIds
  <2>2. ASSUME NEW sub \in subs, NEW g \in Fsms, sub.id \in Entries(impl'[g].ids)
        PROVE  sub.ctx = g
    BY <1>2, <2>2, Zenon DEF HandInv, OwnIds
  <2> QED BY <2>1, <2>2, Zenon DEF OwnIds
<1>8. OneHand'
  <2>1. ASSUME NEW q \in Frames, NEW r \in Frames, q # r, FrameOf(q)'.fsm = FrameOf(r)'.fsm
        PROVE  /\ ~(Setter(FrameOf(q)') /\ Setter(FrameOf(r)'))
               /\ \A id \in Entries(FrameOf(q)'.ids) : id \notin Entries(FrameOf(r)'.ids)
    BY <1>1, <1>2, <1>3, <2>1, Zenon DEF HandInv, OneHand
  <2> QED BY <2>1, Zenon DEF OneHand, Setter
<1>9. NoneLeftBehind'
  <2>1. ASSUME NEW sub \in subs, sub.ctx \in Fsms
        PROVE  \/ sub.id \in Entries(impl'[sub.ctx].ids)
               \/ \E q \in Frames : FrameOf(q)'.fsm = sub.ctx /\ sub.id \in Entries(FrameOf(q)'.ids)
    <3>1. CASE sub.id \in Entries(impl[sub.ctx].ids)
      BY <1>2, <1>3, <2>1, <3>1, EntriesNone, Zenon
    <3>2. CASE \E q \in Frames : FrameOf(q).fsm = sub.ctx /\ sub.id \in Entries(FrameOf(q).ids)
      BY <1>1, <1>2, <3>2, Zenon
    <3> QED BY <2>1, <3>1, <3>2, Zenon DEF HandInv, NoneLeftBehind, InCalls
  <2> QED BY <2>1, Zenon DEF NoneLeftBehind, InCalls
<1>10. AllOrNone'
  <2>1. Len(<<>>) = 0 /\ 1 .. 0 = {}
    OBVIOUS
  <2>2. /\ Len(impl'[f].ids) \in {0, Len(Types)}
        /\ bus => \A i \in 1 .. Len(impl'[f].ids) : Subscription(impl'[f].ids[i], Types[i], f) \in subs
    <3>1. ids = <<>> \/ (Len(ids) = Len(Types) /\ Aligned(f, ids))
      BY <1>3, Zenon DEF Progress
    <3> QED BY <1>2, <2>1, <3>1, Zenon DEF Aligned
  <2> QED BY <1>2, <2>2, Zenon DEF HandInv, AllOrNone
<1> QED BY <1>4, <1>5, <1>6, <1>7, <1>8, <1>9, <1>10, Zenon DEF HandInv

\* The last lock section of libbgp_fsm_set_event_bus.
LEMMA AttachKeeps ==
  ASSUME TypeOK, HandInv, NEW t \in Threads, Attach(t)
  PROVE  HandInv'
<1>1. PICK p \in Frames, b \in Calls : LET a == FrameOf(p) IN
        /\ a.pc = "attach" /\ a.fsm \in Fsms /\ Moves(p, b)
        /\ \/ impl[a.fsm].destroying /\ Drops(a, b, a.ids, "leave") /\ Counts(App, 0)
           \/ /\ ~impl[a.fsm].destroying /\ Records(a.fsm, a.ids)
              /\ Is(b, "leave", a.fsm, a.type, a.from, a.todo, <<>>, a.errs, a.then)
  BY AttachDoes, Zenon DEF HandInv
<1>2. UNCHANGED <<bus, subs, next_id>>
  BY AttachDoes, Zenon DEF HandInv
<1>3. PICK a \in Calls, f \in Fsms, ids \in Seq(Nat) : a = FrameOf(p) /\ f = a.fsm /\ ids = a.ids
  BY <1>1, FramesAre, CallFields, Zenon
<1>4. a.todo = {} /\ a.from <= next_id /\ a.pc = "attach"
  BY <1>1, <1>3, Zenon DEF HandInv, Controlled, CallOK, IdsUsed
<1>5. CASE impl[f].destroying
  <2>1. /\ Is(b, IF ids = <<>> THEN "leave" ELSE "drop", a.fsm, a.type, a.from, a.todo, ids, a.errs, "leave")
        /\ Kept
    BY <1>1, <1>3, <1>5, CountsKept, Zenon DEF Drops
  <2>2. /\ b.fsm = f /\ b.ids = ids /\ b.todo = {} /\ b.from <= next_id /\ b.then = "leave"
        /\ \/ ids = <<>> /\ b.pc = "leave"
           \/ ids # <<>> /\ b.pc = "drop"
    BY <1>3, <1>4, <2>1, Zenon DEF Is
  <2>3. CallOK(b) /\ ~Setter(b) /\ Progress(b)'
    BY <2>2, Zenon DEF CallOK, Setter, Progress
  <2>4. OnBehalf(b)'
    BY <1>5, <2>1, <2>2, <2>3, Zenon DEF OnBehalf, Kept
  <2>5. Moves(p, b) /\ b.ids = FrameOf(p).ids /\ b.fsm = FrameOf(p).fsm
    BY <1>1, <1>3, <2>2, Zenon
  <2> QED BY <1>2, <2>1, <2>2, <2>3, <2>4, <2>5, Relabelled, Zenon
<1>6. CASE ~impl[f].destroying
  <2>1. Records(f, ids) /\ Is(b, "leave", a.fsm, a.type, a.from, a.todo, <<>>, a.errs, a.then) /\ Moves(p, b)
    BY <1>1, <1>3, <1>6, Zenon
  <2>2. b.fsm = f /\ b.ids = <<>> /\ b.todo = {} /\ b.pc = "leave" /\ b.from <= next_id
    BY <1>3, <1>4, <2>1, Zenon DEF Is
  <2>3. FrameOf(p).ids = ids /\ FrameOf(p).fsm = f /\ FrameOf(p).pc = "attach"
    BY <1>3, <1>4, Zenon
  <2> QED BY <1>2, <1>6, <2>1, <2>2, <2>3, Recorded, Zenon
<1> QED BY <1>5, <1>6, Zenon

\* The bus without the subscription id, if it is there.
Without(id) ==
  /\ subs' \subseteq subs /\ \A sub \in subs' : sub.id # id
  /\ \A sub \in subs : sub.id # id => sub \in subs'

\* Unsubscribing takes away what has the id and nothing else.
LEMMA RemovesWithout ==
  ASSUME IdsUsed, NEW id, Removes(id)
  PROVE  Without(id) /\ Kept
<1>1. Without(id)
  BY Zenon DEF Removes, Without, IdsUsed
<1>2. Kept
  BY CountsKept, Zenon DEF Removes
<1> QED BY <1>1, <1>2, Zenon

\* Subscriptions of another id, or of another FSM, stay.
LEMMA AlignedStays ==
  ASSUME NEW id, Without(id), NEW f, NEW ids, Aligned(f, ids), bus' = bus,
         \A sub \in subs : sub.id = id /\ sub.ctx = f => id \notin Entries(ids)
  PROVE  Aligned(f, ids)'
<1>1. SUFFICES ASSUME bus', NEW i \in 1 .. Len(ids) PROVE Subscription(ids[i], Types[i], f) \in subs'
  BY Zenon DEF Aligned
<1>2. PICK sub \in subs : sub = Subscription(ids[i], Types[i], f)
  BY <1>1, Zenon DEF Aligned
<1>3. sub.id = ids[i] /\ sub.ctx = f /\ ids[i] \in Entries(ids)
  BY <1>2, Zenon DEF Subscription, Entries
<1> QED BY <1>2, <1>3, Zenon DEF Without

\* A step that takes the subscription id off the bus: the call in p has the ids it
\* had, without this one or with it, and nobody else has it.
LEMMA Fewer ==
  ASSUME TypeOK, HandInv, NEW p \in Frames, NEW b \in Calls, Moves(p, b),
         UNCHANGED <<bus, next_id>>, Kept, NEW id, Without(id), b.fsm = FrameOf(p).fsm,
         \A e \in Entries(b.ids) : e \in Entries(FrameOf(p).ids),
         \A e \in Entries(FrameOf(p).ids) : e = id \/ e \in Entries(b.ids),
         CallOK(b), OnBehalf(b)', Progress(b)', b.from <= next_id, Setter(b) => Setter(FrameOf(p)),
         \A sub \in subs : sub.id = id => \A f \in Fsms : sub.ctx = f => id \notin Entries(impl[f].ids),
         \A sub \in subs : sub.id = id =>
           \A q \in Frames : q # p /\ sub.ctx = FrameOf(q).fsm => id \notin Entries(FrameOf(q).ids)
  PROVE  HandInv'
<1>1. FrameOf(p)' = b /\ \A q \in Frames : q # p => FrameOf(q)' = FrameOf(q)
  BY Zenon DEF Moves
<1>2. \A q \in Frames : FrameOf(q)'.fsm = FrameOf(q).fsm /\ (Setter(FrameOf(q)') => Setter(FrameOf(q)))
  BY <1>1, Zenon
<1>3. \A q \in Frames : \A e \in Entries(FrameOf(q)'.ids) : e \in Entries(FrameOf(q).ids)
  BY <1>1, Zenon
<1>4. \A q \in Frames : \A e \in Entries(FrameOf(q).ids) : e = id \/ e \in Entries(FrameOf(q)'.ids)
  BY <1>1, Zenon
<1>5. Controlled'
  <2>1. ASSUME NEW q \in Frames, q # p
        PROVE  CallOK(FrameOf(q))' /\ OnBehalf(FrameOf(q))' /\ Progress(FrameOf(q))'
    <3>1. FrameOf(q)' = FrameOf(q) /\ CallOK(FrameOf(q)) /\ OnBehalf(FrameOf(q)) /\ Progress(FrameOf(q))
      BY <1>1, <2>1, Zenon DEF HandInv, Controlled
    <3>2. CallOK(FrameOf(q))'
      BY <3>1, Zenon DEF CallOK
    <3>3. OnBehalf(FrameOf(q))'
      BY <3>1, Zenon DEF OnBehalf, Setter, CallOK, Kept
    <3>4. PICK a : a = FrameOf(q)
      BY Zenon
    <3>5. ASSUME Aligned(a.fsm, a.ids) PROVE Aligned(a.fsm, a.ids)'
      <4>1. bus' = bus /\ \A sub \in subs : sub.id = id /\ sub.ctx = a.fsm => id \notin Entries(a.ids)
        BY <2>1, <3>4, Zenon
      <4> QED BY <3>5, <4>1, AlignedStays, Zenon
    <3>6. Progress(a)'
      BY <3>1, <3>4, <3>5, Zenon DEF Progress
    <3>7. Progress(FrameOf(q))'
      BY <3>1, <3>4, <3>6, Zenon DEF Progress, Aligned
    <3> QED BY <3>2, <3>3, <3>7, Zenon
  <2>2. CallOK(FrameOf(p))'
    BY <1>1, Zenon DEF CallOK
  <2>3. OnBehalf(FrameOf(p))'
    BY <1>1, Zenon DEF OnBehalf, Setter
  <2>4. Progress(FrameOf(p))'
    BY <1>1, Zenon DEF Progress, Aligned
  <2> QED BY <2>1, <2>2, <2>3, <2>4, Zenon DEF Controlled
<1>6. Destroying'
  BY Zenon DEF HandInv, Destroying, Kept
<1>7. IdsUsed'
  <2>1. \A q \in Frames : /\ FrameOf(q)'.from <= next_id
                          /\ \A e \in Entries(FrameOf(q)'.ids) : e <= next_id
    BY <1>1, <1>3, Zenon DEF HandInv, IdsUsed
  <2>2. \A f \in Fsms : \A e \in Entries(impl'[f].ids) : e <= next_id
    BY Zenon DEF HandInv, IdsUsed, Kept
  <2> QED BY <2>1, <2>2, Zenon DEF HandInv, IdsUsed, Without
<1>8. OwnIds'
  <2>1. ASSUME NEW sub \in subs', NEW q \in Frames, sub.id \in Entries(FrameOf(q)'.ids)
        PROVE  sub.ctx = FrameOf(q)'.fsm
    BY <1>2, <1>3, <2>1, Zenon DEF HandInv, OwnIds, Without
  <2>2. ASSUME NEW sub \in subs', NEW f \in Fsms, sub.id \in Entries(impl'[f].ids)
        PROVE  sub.ctx = f
    BY <2>2, Zenon DEF HandInv, OwnIds, Without, Kept
  <2> QED BY <2>1, <2>2, Zenon DEF OwnIds
<1>9. OneHand'
  <2>1. ASSUME NEW q \in Frames, NEW r \in Frames, q # r, FrameOf(q)'.fsm = FrameOf(r)'.fsm
        PROVE  /\ ~(Setter(FrameOf(q)') /\ Setter(FrameOf(r)'))
               /\ \A e \in Entries(FrameOf(q)'.ids) : e \notin Entries(FrameOf(r)'.ids)
    BY <1>2, <1>3, <2>1, Zenon DEF HandInv, OneHand
  <2> QED BY <2>1, Zenon DEF OneHand, Setter
<1>10. NoneLeftBehind'
  <2>1. ASSUME NEW sub \in subs', sub.ctx \in Fsms
        PROVE  \/ sub.id \in Entries(impl'[sub.ctx].ids)
               \/ \E q \in Frames : FrameOf(q)'.fsm = sub.ctx /\ sub.id \in Entries(FrameOf(q)'.ids)
    <3>0. sub \in subs /\ sub.id # id
      BY <2>1, Zenon DEF Without
    <3>1. CASE sub.id \in Entries(impl[sub.ctx].ids)
      BY <2>1, <3>1, Zenon DEF Kept
    <3>2. CASE \E q \in Frames : FrameOf(q).fsm = sub.ctx /\ sub.id \in Entries(FrameOf(q).ids)
      BY <1>2, <1>4, <3>0, <3>2, Zenon
    <3> QED BY <2>1, <3>0, <3>1, <3>2, Zenon DEF HandInv, NoneLeftBehind, InCalls
  <2> QED BY <2>1, Zenon DEF NoneLeftBehind, InCalls
<1>11. AllOrNone'
  <2>1. ASSUME NEW f \in Fsms, bus', NEW i \in 1 .. Len(impl'[f].ids)
        PROVE  Subscription(impl'[f].ids[i], Types[i], f) \in subs'
    <3>1. PICK ids : ids = impl[f].ids /\ impl'[f].ids = ids
      BY Zenon DEF Kept
    <3>2. Aligned(f, ids)
      BY <3>1, Zenon DEF HandInv, AllOrNone, Aligned
    <3>3. Aligned(f, ids)'
      <4>1. bus' = bus /\ \A sub \in subs : sub.id = id /\ sub.ctx = f => id \notin Entries(ids)
        BY <3>1, Zenon
      <4> QED BY <3>2, <4>1, AlignedStays, Zenon
    <3> QED BY <2>1, <3>1, <3>3, Zenon DEF Aligned
  <2> QED BY <2>1, Zenon DEF HandInv, AllOrNone, Kept
<1> QED BY <1>5, <1>6, <1>7, <1>8, <1>9, <1>10, <1>11, Zenon DEF HandInv

\* fsm_unsubscribe_route_events unsubscribes the next id.
LEMMA DropKeeps ==
  ASSUME TypeOK, HandInv, NEW t \in Threads, Drop(t)
  PROVE  HandInv'
<1>1. PICK p \in Frames, b \in Calls : LET a == FrameOf(p) IN
        /\ a.pc = "drop" /\ a.fsm \in Fsms /\ a.ids # <<>> /\ Moves(p, b)
        /\ Drops(a, b, Tail(a.ids), a.then) /\ Removes(Head(a.ids))
  BY DropDoes, Zenon DEF HandInv
<1>2. UNCHANGED <<bus, next_id>>
  BY DropDoes, Zenon DEF HandInv
<1>3. PICK a, f, id, rest :
        /\ a \in Calls /\ f \in Fsms
        /\ a = FrameOf(p) /\ f = a.fsm /\ id = Head(a.ids) /\ rest = Tail(a.ids)
  BY <1>1, FramesAre, Zenon
<1>4. a.ids \in Seq(Nat) /\ a.ids # <<>> /\ a.then \in {"leave", "subscribe", "attach"}
  BY <1>1, <1>3, CallFields, Zenon DEF Calls
<1>5. id \in Entries(a.ids) /\ \A e : e \in Entries(a.ids) <=> e = id \/ e \in Entries(rest)
  BY <1>3, <1>4, EntriesHead, Zenon
<1>6. Without(id) /\ Kept
  BY <1>1, <1>3, RemovesWithout, Zenon DEF HandInv
<1>7. /\ a.pc = "drop" /\ Moves(p, b) /\ FrameOf(p).fsm = f /\ FrameOf(p).ids = a.ids
      /\ Is(b, IF rest = <<>> THEN a.then ELSE "drop", a.fsm, a.type, a.from, a.todo, rest, a.errs, a.then)
  BY <1>1, <1>3, Zenon DEF Drops
<1>8. CallOK(a) /\ OnBehalf(a) /\ a.from <= next_id
  BY <1>3, Zenon DEF HandInv, Controlled, IdsUsed
<1>9. a.todo = {} /\ (a.then = "subscribe" => a.errs = <<>>)
  BY <1>7, <1>8, Zenon DEF CallOK
<1>10. (a.then = "leave" => impl[f].destroying) /\ (a.then # "leave" => impl[f].ids = <<>>)
  BY <1>3, <1>7, <1>8, Zenon DEF OnBehalf, Setter
<1>11. /\ b.fsm = f /\ b.ids = rest /\ b.todo = {} /\ b.from <= next_id /\ b.errs = a.errs /\ b.then = a.then
       /\ \/ rest = <<>> /\ b.pc = a.then
          \/ rest # <<>> /\ b.pc = "drop"
  BY <1>3, <1>7, <1>8, <1>9, Zenon DEF Is
<1>12. Len(<<>>) = 0 /\ 0 < Len(Types) /\ 1 .. 0 = {}
  BY BusAssumption
<1>13. CallOK(b)
  BY <1>3, <1>4, <1>9, <1>11, <1>12, Zenon DEF CallOK
<1>14. OnBehalf(b)'
  BY <1>3, <1>4, <1>6, <1>10, <1>11, Zenon DEF OnBehalf, Setter, Kept
<1>15. Progress(b)'
  BY <1>4, <1>9, <1>11, <1>12, Zenon DEF Progress, Aligned
<1>16. Setter(b) => Setter(FrameOf(p))
  BY <1>3, <1>4, <1>7, <1>11, Zenon DEF Setter
<1>17. impl[f].ids = <<>>
  BY <1>4, <1>7, InHandOnly, Zenon DEF HandInv
<1>18. \A sub \in subs : sub.id = id => sub.ctx = f
  BY <1>5, <1>7, Zenon DEF HandInv, OwnIds
<1>19. \A g \in Fsms : g = f => id \notin Entries(impl[g].ids)
  BY <1>17, EntriesNone, Zenon
<1>20. \A q \in Frames : q # p /\ FrameOf(q).fsm = f => id \notin Entries(FrameOf(q).ids)
  BY <1>5, <1>7, Zenon DEF HandInv, OneHand
<1>21. /\ \A sub \in subs : sub.id = id => \A g \in Fsms : sub.ctx = g => id \notin Entries(impl[g].ids)
       /\ \A sub \in subs : sub.id = id =>
            \A q \in Frames : q # p /\ sub.ctx = FrameOf(q).fsm => id \notin Entries(FrameOf(q).ids)
  BY <1>18, <1>19, <1>20, Zenon
<1>22. /\ \A e \in Entries(b.ids) : e \in Entries(FrameOf(p).ids)
       /\ \A e \in Entries(FrameOf(p).ids) : e = id \/ e \in Entries(b.ids)
       /\ b.fsm = FrameOf(p).fsm
  BY <1>5, <1>7, <1>11, Zenon
<1>23. Moves(p, b) /\ b.from <= next_id
  BY <1>7, <1>11, Zenon
<1> QED BY <1>2, <1>6, <1>13, <1>14, <1>15, <1>16, <1>21, <1>22, <1>23, Fewer, Zenon

\* Where no call moves, the one in any place stays.
LEMMA Still ==
  ASSUME TypeOK, NEW t \in Threads, stack' = stack
  PROVE  \E p \in Frames : Moves(p, FrameOf(p)) /\ FrameOf(p) \in Calls
<1>1. <<t, 1>> \in Frames
  BY BusAssumption DEF Frames
<1>2. PICK p \in Frames : p = <<t, 1>>
  BY <1>1, Zenon
<1>3. \A q \in Frames : FrameOf(q)' = FrameOf(q)
  BY Zenon DEF FrameOf, Depth, NewFrame
<1>4. Stacked'
  BY Zenon DEF TypeOK, Stacked, Depth
<1> QED BY <1>3, <1>4, FramesAre, Zenon DEF Moves

\* The application unsubscribes a subscription of its own.
LEMMA AppUnsubscribeKeeps ==
  ASSUME TypeOK, HandInv, NEW t \in Threads, NEW id, AppUnsubscribe(t, id)
  PROVE  HandInv'
<1>1. /\ stack' = stack /\ UNCHANGED <<bus, next_id>> /\ Removes(id)
      /\ \E sub \in subs : sub.id = id /\ sub.ctx = App
  BY UnsubscribedRemoves, Zenon DEF AppUnsubscribe
<1>2. Without(id) /\ Kept
  BY <1>1, RemovesWithout, Zenon DEF HandInv
<1>3. PICK p \in Frames, b \in Calls : Moves(p, b) /\ b = FrameOf(p)
  BY <1>1, Still, Zenon
<1>4. \A sub \in subs : sub.id = id => sub.ctx \notin Fsms
  <2>1. App \notin Fsms
    BY BusAssumption, Zenon
  <2> QED BY <1>1, <2>1, Zenon DEF HandInv, IdsUsed
<1>5. ASSUME NEW q \in Frames, NEW sub \in subs, sub.id = id PROVE id \notin Entries(FrameOf(q).ids)
  <2>1. CASE FrameOf(q).ids = <<>>
    BY <2>1, EntriesNone, Zenon
  <2>2. CASE FrameOf(q).ids # <<>>
    <3>1. FrameOf(q).fsm \in Fsms
      BY <2>2, InHandOnly, Zenon DEF HandInv
    <3> QED BY <1>4, <1>5, <3>1, Zenon DEF HandInv, OwnIds
  <2> QED BY <2>1, <2>2, Zenon
<1>6. CallOK(b) /\ OnBehalf(b) /\ Progress(b) /\ b.from <= next_id
  BY <1>3, Zenon DEF HandInv, Controlled, IdsUsed
<1>7. OnBehalf(b)'
  BY <1>2, <1>6, Zenon DEF OnBehalf, Setter, CallOK, Kept
<1>8. Aligned(b.fsm, b.ids) => Aligned(b.fsm, b.ids)'
  <2>1. \A sub \in subs : sub.id = id /\ sub.ctx = b.fsm => id \notin Entries(b.ids)
    BY <1>3, <1>5, Zenon
  <2>2. bus' = bus
    BY <1>1, Zenon
  <2> QED BY <1>2, <2>1, <2>2, AlignedStays, Zenon
<1>9. Progress(b)'
  BY <1>6, <1>8, Zenon DEF Progress
<1>10. \A sub \in subs : sub.id = id => \A f \in Fsms : sub.ctx = f => id \notin Entries(impl[f].ids)
  BY <1>4, Zenon
<1> QED BY <1>1, <1>2, <1>3, <1>5, <1>6, <1>7, <1>9, <1>10, Fewer, ZenonT(60)

\* A step that puts the subscription new on the bus: if it is an FSM's, the call in p
\* has its id besides those it had.
LEMMA More ==
  ASSUME TypeOK, HandInv, NEW p \in Frames, NEW b \in Calls, Moves(p, b),
         bus' = bus, next_id' = next_id + 1, Kept, NEW new, subs' = subs \cup {new}, new.id = next_id + 1,
         b.fsm = FrameOf(p).fsm,
         \A e \in Entries(FrameOf(p).ids) : e \in Entries(b.ids),
         \A e \in Entries(b.ids) : e \in Entries(FrameOf(p).ids) \/ (e = new.id /\ new.ctx = b.fsm),
         new.ctx \in Fsms => new.id \in Entries(b.ids) /\ b.fsm = new.ctx,
         CallOK(b), OnBehalf(b)', Progress(b)', b.from <= next_id, Setter(b) => Setter(FrameOf(p))
  PROVE  HandInv'
<1>1. FrameOf(p)' = b /\ \A q \in Frames : q # p => FrameOf(q)' = FrameOf(q)
  BY Zenon DEF Moves
<1>2. \A q \in Frames : FrameOf(q)'.fsm = FrameOf(q).fsm /\ (Setter(FrameOf(q)') => Setter(FrameOf(q)))
  BY <1>1, Zenon
<1>3. \A q \in Frames : \A e \in Entries(FrameOf(q).ids) : e \in Entries(FrameOf(q)'.ids)
  BY <1>1, Zenon
<1>4. \A q \in Frames : \A e \in Entries(FrameOf(q)'.ids) :
        e \in Entries(FrameOf(q).ids) \/ (q = p /\ e = new.id /\ new.ctx = b.fsm)
  BY <1>1, Zenon
<1>5. next_id' \in Nat /\ new.id = next_id' /\ next_id \in Nat
  BY DEF TypeOK
<1>6. /\ \A sub \in subs : sub.id <= next_id' /\ sub.id # new.id
      /\ \A f \in Fsms : \A e \in Entries(impl[f].ids) : e <= next_id' /\ e # new.id
      /\ \A q \in Frames : /\ FrameOf(q).from <= next_id'
                           /\ \A e \in Entries(FrameOf(q).ids) : e <= next_id' /\ e # new.id
      /\ b.from <= next_id' /\ new.id <= next_id'
  <2>1. ASSUME NEW e \in Nat, e <= next_id PROVE e <= next_id' /\ e # new.id
    BY <1>5, <2>1
  <2>2. /\ \A sub \in subs : sub.id \in Nat
        /\ \A f \in Fsms : \A e \in Entries(impl[f].ids) : e \in Nat
        /\ \A q \in Frames : FrameOf(q).from \in Nat /\ \A e \in Entries(FrameOf(q).ids) : e \in Nat
        /\ b.from \in Nat
    <3>1. ASSUME NEW s \in Seq(Nat) PROVE \A e \in Entries(s) : e \in Nat
      BY DEF Entries
    <3>2. \A sub \in subs : sub.id \in Nat
      BY Zenon DEF TypeOK, Subs
    <3>3. \A f \in Fsms : impl[f].ids \in Seq(Nat)
      BY Zenon DEF TypeOK, Impls
    <3>4. \A q \in Frames : FrameOf(q).from \in Nat /\ FrameOf(q).ids \in Seq(Nat)
      BY FramesAre, Zenon DEF Calls
    <3>5. b.from \in Nat
      BY Zenon DEF Calls
    <3> QED BY <3>1, <3>2, <3>3, <3>4, <3>5, Zenon
  <2>3. new.id <= next_id'
    BY <1>5
  <2>4. \A sub \in subs : sub.id <= next_id' /\ sub.id # new.id
    BY <2>1, <2>2, Zenon DEF HandInv, IdsUsed
  <2>5. \A f \in Fsms : \A e \in Entries(impl[f].ids) : e <= next_id' /\ e # new.id
    BY <2>1, <2>2, Zenon DEF HandInv, IdsUsed
  <2>6. \A q \in Frames : /\ FrameOf(q).from <= next_id'
                          /\ \A e \in Entries(FrameOf(q).ids) : e <= next_id' /\ e # new.id
    BY <2>1, <2>2, Zenon DEF HandInv, IdsUsed
  <2>7. b.from <= next_id'
    BY <2>1, <2>2, Zenon
  <2> QED BY <2>3, <2>4, <2>5, <2>6, <2>7, Zenon
<1>7. Controlled'
  <2>1. ASSUME NEW q \in Frames, q # p
        PROVE  CallOK(FrameOf(q))' /\ OnBehalf(FrameOf(q))' /\ Progress(FrameOf(q))'
    <3>1. FrameOf(q)' = FrameOf(q) /\ CallOK(FrameOf(q)) /\ OnBehalf(FrameOf(q)) /\ Progress(FrameOf(q))
      BY <1>1, <2>1, Zenon DEF HandInv, Controlled
    <3>2. CallOK(FrameOf(q))'
      BY <3>1, Zenon DEF CallOK
    <3>3. OnBehalf(FrameOf(q))'
      BY <3>1, Zenon DEF OnBehalf, Setter, CallOK, Kept
    <3>4. Progress(FrameOf(q))'
      BY <3>1, Zenon DEF Progress, Aligned
    <3> QED BY <3>2, <3>3, <3>4, Zenon
  <2>2. CallOK(FrameOf(p))'
    BY <1>1, Zenon DEF CallOK
  <2>3. OnBehalf(FrameOf(p))'
    BY <1>1, Zenon DEF OnBehalf, Setter
  <2>4. Progress(FrameOf(p))'
    BY <1>1, Zenon DEF Progress, Aligned
  <2> QED BY <2>1, <2>2, <2>3, <2>4, Zenon DEF Controlled
<1>8. Destroying'
  BY Zenon DEF HandInv, Destroying, Kept
<1>9. IdsUsed'
  <2>1. \A q \in Frames : /\ FrameOf(q)'.from <= next_id'
                          /\ \A e \in Entries(FrameOf(q)'.ids) : e <= next_id'
    BY <1>1, <1>4, <1>6, Zenon
  <2>2. \A f \in Fsms : \A e \in Entries(impl'[f].ids) : e <= next_id'
    BY <1>6, Zenon DEF Kept
  <2>3. ASSUME NEW sub \in subs', NEW other \in subs', sub.id = other.id PROVE sub = other
    BY <1>6, <2>3, Zenon DEF HandInv, IdsUsed
  <2>4. \A sub \in subs' : sub.id <= next_id'
    BY <1>6, Zenon
  <2> QED BY <2>1, <2>2, <2>3, <2>4, Zenon DEF IdsUsed
<1>10. OwnIds'
  <2>1. ASSUME NEW sub \in subs', NEW q \in Frames, sub.id \in Entries(FrameOf(q)'.ids)
        PROVE  sub.ctx = FrameOf(q)'.fsm
    <3>1. CASE sub = new
      BY <1>1, <1>4, <1>6, <2>1, <3>1, Zenon
    <3>2. CASE sub \in subs
      <4>1. sub.id \in Entries(FrameOf(q).ids)
        BY <1>4, <1>6, <2>1, <3>2, Zenon
      <4> QED BY <1>2, <3>2, <4>1, Zenon DEF HandInv, OwnIds
    <3> QED BY <3>1, <3>2, Zenon
  <2>2. ASSUME NEW sub \in subs', NEW f \in Fsms, sub.id \in Entries(impl'[f].ids)
        PROVE  sub.ctx = f
    BY <1>6, <2>2, Zenon DEF HandInv, OwnIds, Kept
  <2> QED BY <2>1, <2>2, Zenon DEF OwnIds
<1>11. OneHand'
  <2>1. ASSUME NEW q \in Frames, NEW r \in Frames, q # r, FrameOf(q)'.fsm = FrameOf(r)'.fsm
        PROVE  /\ ~(Setter(FrameOf(q)') /\ Setter(FrameOf(r)'))
               /\ \A e \in Entries(FrameOf(q)'.ids) : e \notin Entries(FrameOf(r)'.ids)
    <3>1. ~(Setter(FrameOf(q)') /\ Setter(FrameOf(r)'))
      BY <1>2, <2>1, Zenon DEF HandInv, OneHand
    <3>2. ASSUME NEW e, e \in Entries(FrameOf(q)'.ids), e \in Entries(FrameOf(r)'.ids) PROVE FALSE
      <4>1. CASE e = new.id
        BY <1>4, <1>6, <2>1, <3>2, <4>1, Zenon
      <4>2. CASE e # new.id
        <5>1. e \in Entries(FrameOf(q).ids) /\ e \in Entries(FrameOf(r).ids) /\ FrameOf(q).fsm = FrameOf(r).fsm
          BY <1>2, <1>4, <2>1, <3>2, <4>2, Zenon
        <5> QED BY <2>1, <5>1, Zenon DEF HandInv, OneHand
      <4> QED BY <4>1, <4>2, Zenon
    <3> QED BY <3>1, <3>2, Zenon
  <2> QED BY <2>1, Zenon DEF OneHand, Setter
<1>12. NoneLeftBehind'
  <2>1. ASSUME NEW sub \in subs', sub.ctx \in Fsms
        PROVE  \/ sub.id \in Entries(impl'[sub.ctx].ids)
               \/ \E q \in Frames : FrameOf(q)'.fsm = sub.ctx /\ sub.id \in Entries(FrameOf(q)'.ids)
    <3>1. CASE sub = new
      BY <1>1, <2>1, <3>1, Zenon
    <3>2. CASE sub \in subs /\ sub.id \in Entries(impl[sub.ctx].ids)
      BY <2>1, <3>2, Zenon DEF Kept
    <3>3. CASE \E q \in Frames : FrameOf(q).fsm = sub.ctx /\ sub.id \in Entries(FrameOf(q).ids)
      BY <1>2, <1>3, <3>3, Zenon
    <3> QED BY <2>1, <3>1, <3>2, <3>3, Zenon DEF HandInv, NoneLeftBehind, InCalls
  <2> QED BY <2>1, Zenon DEF NoneLeftBehind, InCalls
<1>13. AllOrNone'
  BY Zenon DEF HandInv, AllOrNone, Kept
<1> QED BY <1>7, <1>8, <1>9, <1>10, <1>11, <1>12, <1>13, Zenon DEF HandInv

\* A subscription of libbgp_fsm_set_event_bus that succeeds.
LEMMA SubscribeKeeps ==
  ASSUME TypeOK, HandInv, NEW t \in Threads, Subscribe(t)
  PROVE  HandInv'
<1>1. PICK p \in Frames, b \in Calls : LET a == FrameOf(p) IN
        /\ a.pc = "subscribe" /\ a.fsm \in Fsms /\ Moves(p, b)
        /\ Subscribes(a, b, Append(a.ids, next_id + 1), Append(a.errs, "ok"))
        /\ subs' = subs \cup {Subscription(next_id + 1, Types[Len(a.errs) + 1], a.fsm)}
        /\ ~impl[a.fsm].destroying /\ Counts(a.fsm, 1)
  BY SubscribeDoes, Zenon DEF HandInv
<1>2. bus' = bus /\ next_id' = next_id + 1
  BY SubscribeDoes, Zenon DEF HandInv
<1>3. PICK a, f, id, ids, errs, new :
        /\ a \in Calls /\ f \in Fsms
        /\ a = FrameOf(p) /\ f = a.fsm /\ id = next_id + 1
        /\ ids = Append(a.ids, id) /\ errs = Append(a.errs, "ok")
        /\ new = Subscription(id, Types[Len(a.errs) + 1], f)
  BY <1>1, FramesAre, Zenon
<1>4. /\ a.pc = "subscribe" /\ Moves(p, b) /\ Subscribes(a, b, ids, errs) /\ subs' = subs \cup {new}
      /\ FrameOf(p).fsm = f /\ FrameOf(p).ids = a.ids
  BY <1>1, <1>3, Zenon
<1>5. Kept
  BY <1>1, CountsKept, Zenon
<1>6. /\ a.ids \in Seq(Nat) /\ a.errs \in Seq({"ok", "failed", "skipped"}) /\ id \in Nat
      /\ Len(Types) \in Nat
  <2>1. id \in Nat /\ Len(Types) \in Nat
    BY <1>3, BusAssumption DEF TypeOK
  <2> QED BY <1>3, <2>1, CallFields, Zenon
<1>7. new.id = next_id + 1 /\ new.ctx = f
  BY <1>3, Zenon DEF Subscription
<1>8. /\ ids # <<>> /\ \A e : e \in Entries(ids) <=> e = id \/ e \in Entries(a.ids)
      /\ \A e : e \in Entries(errs) <=> e = "ok" \/ e \in Entries(a.errs)
  <2>1. "ok" \in {"ok", "failed", "skipped"}
    BY Zenon
  <2>2. /\ Append(a.ids, id) # <<>>
        /\ \A e : e \in Entries(Append(a.ids, id)) <=> e = id \/ e \in Entries(a.ids)
    BY <1>6, EntriesAppend, Zenon
  <2>3. \A e : e \in Entries(Append(a.errs, "ok")) <=> e = "ok" \/ e \in Entries(a.errs)
    BY <1>6, <2>1, EntriesAppend, Zenon
  <2> QED BY <1>3, <2>2, <2>3, Zenon
<1>9. /\ CallOK(a) /\ OnBehalf(a) /\ Progress(a) /\ a.from <= next_id /\ a.fsm = f
      /\ Len(a.errs) < Len(Types) /\ a.todo = {} /\ Setter(a) /\ impl[f].ids = <<>>
  BY <1>3, <1>4, Zenon DEF HandInv, Controlled, IdsUsed, CallOK, OnBehalf, Setter
<1>10. /\ b.fsm = f /\ b.ids = ids /\ b.todo = {} /\ b.from <= next_id /\ b.errs = errs
       /\ \/ b.pc = "subscribe" /\ Len(errs) < Len(Types)
          \/ b.pc = "drop" /\ b.then = "attach"
          \/ b.pc = "attach" /\ ~(Len(errs) < Len(Types)) /\ "failed" \notin Entries(errs)
  <2>1. CASE Len(errs) < Len(Types)
    BY <1>4, <1>9, <2>1, Zenon DEF Subscribes, Is
  <2>2. CASE ~(Len(errs) < Len(Types)) /\ "failed" \in Entries(errs)
    <3>1. Is(b, IF ids = <<>> THEN "attach" ELSE "drop", a.fsm, a.type, a.from, a.todo, ids, errs, "attach")
      BY <1>4, <2>2, Zenon DEF Subscribes
    <3> QED BY <1>8, <1>9, <3>1, Zenon DEF Is
  <2>3. CASE ~(Len(errs) < Len(Types)) /\ "failed" \notin Entries(errs)
    BY <1>4, <1>9, <2>3, Zenon DEF Subscribes, Is
  <2> QED BY <2>1, <2>2, <2>3, Zenon
<1>11. CallOK(b)
  BY <1>3, <1>8, <1>10, Zenon DEF CallOK
<1>12. OnBehalf(b)'
  BY <1>3, <1>5, <1>9, <1>10, Zenon DEF OnBehalf, Kept
<1>13. Len(errs) = Len(a.errs) + 1 /\ (b.pc = "attach" => Len(errs) = Len(Types))
  <2>1. Len(errs) = Len(a.errs) + 1 /\ Len(a.errs) \in Nat
    BY <1>3, <1>6
  <2>2. ASSUME ~(Len(errs) < Len(Types)) PROVE Len(errs) = Len(Types)
    BY <1>6, <1>9, <2>1, <2>2
  <2> QED BY <1>10, <2>1, <2>2, Zenon
<1>14. ASSUME Len(a.ids) = Len(a.errs), Aligned(f, a.ids)
       PROVE  Len(ids) = Len(errs) /\ Aligned(f, ids)'
  <2>1. /\ Len(ids) = Len(a.ids) + 1 /\ Len(a.ids) \in Nat /\ ids[Len(a.ids) + 1] = id
        /\ \A i \in 1 .. Len(a.ids) : ids[i] = a.ids[i]
    BY <1>3, <1>6
  <2>2. ASSUME NEW i \in 1 .. Len(ids) PROVE i \in 1 .. Len(a.ids) \/ i = Len(a.ids) + 1
    BY <2>1
  <2>3. ASSUME bus', NEW i \in 1 .. Len(ids) PROVE Subscription(ids[i], Types[i], f) \in subs'
    <3>1. CASE i \in 1 .. Len(a.ids)
      BY <1>2, <1>4, <1>14, <2>1, <2>3, <3>1, Zenon DEF Aligned
    <3>2. CASE i = Len(a.ids) + 1
      <4>1. Subscription(ids[i], Types[i], f) = new
        BY <1>3, <1>14, <2>1, <3>2, Zenon
      <4> QED BY <1>4, <4>1, Zenon
    <3> QED BY <2>2, <3>1, <3>2, Zenon
  <2>4. Aligned(f, ids)'
    BY <2>3, Zenon DEF Aligned
  <2>5. Len(ids) = Len(errs)
    BY <1>13, <1>14, <2>1, Zenon
  <2> QED BY <2>4, <2>5, Zenon
<1>15. Progress(b)'
  <2>1. CASE \A i \in 1 .. Len(a.errs) : a.errs[i] = "ok"
    <3>1. Len(ids) = Len(errs) /\ Aligned(f, ids)'
      BY <1>4, <1>9, <1>14, <2>1, Zenon DEF Progress
    <3>2. \A i \in 1 .. Len(errs) : errs[i] = "ok"
      BY <1>3, <1>6, <2>1
    <3> QED BY <1>10, <1>13, <3>1, <3>2, Zenon DEF Progress
  <2>2. CASE ~(\A i \in 1 .. Len(a.errs) : a.errs[i] = "ok")
    <3>1. "failed" \in Entries(errs)
      BY <1>4, <1>8, <1>9, <2>2, Zenon DEF Progress
    <3>2. ~(\A i \in 1 .. Len(errs) : errs[i] = "ok")
      BY <3>1, Zenon DEF Entries
    <3> QED BY <1>10, <3>1, <3>2, Zenon DEF Progress
  <2> QED BY <2>1, <2>2, Zenon
<1>16. /\ b.fsm = FrameOf(p).fsm /\ Setter(FrameOf(p)) /\ b.fsm = new.ctx /\ new.id \in Entries(b.ids)
       /\ \A e \in Entries(FrameOf(p).ids) : e \in Entries(b.ids)
       /\ \A e \in Entries(b.ids) : e \in Entries(FrameOf(p).ids) \/ (e = new.id /\ new.ctx = b.fsm)
  BY <1>3, <1>4, <1>7, <1>8, <1>9, <1>10, Zenon
<1>17. Moves(p, b) /\ subs' = subs \cup {new} /\ b.from <= next_id
  BY <1>4, <1>10, Zenon
<1> QED BY <1>2, <1>5, <1>7, <1>11, <1>12, <1>15, <1>16, <1>17, More, Zenon

\* The application subscribes for itself.
LEMMA AppSubscribeKeeps ==
  ASSUME TypeOK, HandInv, NEW t \in Threads, NEW type, AppSubscribe(t, type)
  PROVE  HandInv'
<1>1. PICK new : new = Subscription(next_id + 1, type, App)
  BY Zenon
<1>2. /\ stack' = stack /\ bus' = bus /\ next_id' = next_id + 1 /\ impl' = impl
      /\ subs' = subs \cup {new}
  BY <1>1, Zenon DEF AppSubscribe, Subscribed
<1>3. new.id = next_id + 1 /\ new.ctx = App /\ App \notin Fsms
  BY <1>1, BusAssumption, Zenon DEF Subscription
<1>4. PICK p \in Frames, b \in Calls : Moves(p, b) /\ b = FrameOf(p)
  BY <1>2, Still, Zenon
<1>5. Kept
  BY <1>2, Zenon DEF Kept
<1>6. CallOK(b) /\ OnBehalf(b) /\ Progress(b) /\ b.from <= next_id
  BY <1>4, Zenon DEF HandInv, Controlled, IdsUsed
<1>7. OnBehalf(b)'
  BY <1>2, <1>6, Zenon DEF OnBehalf
<1>8. Progress(b)'
  BY <1>2, <1>6, Zenon DEF Progress, Aligned
<1> QED BY <1>2, <1>3, <1>4, <1>5, <1>6, <1>7, <1>8, More, Zenon

\* The references that the subscriptions had are gone, and nothing else.
LEMMA DestroyBusKept ==
  ASSUME TypeOK, NEW t \in Threads, DestroyBus(t)
  PROVE  Kept
<1>1. ASSUME NEW f \in Fsms
      PROVE  /\ impl'[f].ids = impl[f].ids /\ impl'[f].destroying = impl[f].destroying
             /\ impl'[f].handle => impl[f].handle
  <2>1. CASE Of(f, subs) = {}
    BY <2>1, Zenon DEF DestroyBus
  <2>2. CASE Of(f, subs) # {}
    <3>1. impl'[f] = Released(f, Cardinality(Of(f, subs)))[f]
      BY <2>2, Zenon DEF DestroyBus
    <3>2. PICK n : n = Cardinality(Of(f, subs)) /\ impl'[f] = Released(f, n)[f]
      BY <3>1, Zenon
    <3>3. impl[f] \in Impls /\ impl \in [Fsms -> Impls]
      BY Zenon DEF TypeOK
    <3>4. Released(f, n)[f] = [impl[f] EXCEPT !.refs = impl[f].refs - n,
                                 !.freed = impl[f].freed \/ (impl[f].destroying /\ impl[f].refs = n)]
      BY <3>3 DEF Released, Impls
    <3> QED BY <3>2, <3>3, <3>4, ZenonT(60) DEF Impls
  <2> QED BY <2>1, <2>2, Zenon
<1> QED BY <1>1, Zenon DEF Kept

\* The bus is destroyed: the FSMs keep the ids, which are of no subscription now.
LEMMA DestroyBusKeeps ==
  ASSUME TypeOK, HandInv, NEW t \in Threads, DestroyBus(t)
  PROVE  HandInv'
<1>1. stack' = stack /\ bus' = FALSE /\ next_id' = next_id /\ subs' = {}
  BY Zenon DEF DestroyBus
<1>2. Kept
  BY DestroyBusKept, Zenon
<1>3. \A q \in Frames : FrameOf(q)' = FrameOf(q)
  BY <1>1, Zenon DEF FrameOf, Depth, NewFrame
<1>4. Controlled'
  <2>1. ASSUME NEW q \in Frames
        PROVE  CallOK(FrameOf(q))' /\ OnBehalf(FrameOf(q))' /\ Progress(FrameOf(q))'
    <3>1. FrameOf(q)' = FrameOf(q) /\ CallOK(FrameOf(q)) /\ OnBehalf(FrameOf(q)) /\ Progress(FrameOf(q))
      BY <1>3, Zenon DEF HandInv, Controlled
    <3>2. CallOK(FrameOf(q))'
      BY <3>1, Zenon DEF CallOK
    <3>3. OnBehalf(FrameOf(q))'
      BY <1>2, <3>1, Zenon DEF OnBehalf, Setter, CallOK, Kept
    <3>4. Progress(FrameOf(q))'
      BY <1>1, <3>1, Zenon DEF Progress, Aligned
    <3> QED BY <3>2, <3>3, <3>4, Zenon
  <2> QED BY <2>1, Zenon DEF Controlled
<1>5. Destroying'
  BY <1>2, Zenon DEF HandInv, Destroying, Kept
<1>6. IdsUsed'
  <2>1. \A f \in Fsms : \A e \in Entries(impl'[f].ids) : e <= next_id
    BY <1>2, Zenon DEF HandInv, IdsUsed, Kept
  <2>2. \A q \in Frames : /\ FrameOf(q)'.from <= next_id
                          /\ \A e \in Entries(FrameOf(q)'.ids) : e <= next_id
    BY <1>3, Zenon DEF HandInv, IdsUsed
  <2> QED BY <1>1, <2>1, <2>2, Zenon DEF IdsUsed
<1>7. OwnIds' /\ NoneLeftBehind'
  BY <1>1, Zenon DEF OwnIds, NoneLeftBehind
<1>8. OneHand'
  BY <1>3, Zenon DEF HandInv, OneHand, Setter
<1>9. AllOrNone'
  BY <1>1, <1>2, Zenon DEF HandInv, AllOrNone, Kept
<1> QED BY <1>4, <1>5, <1>6, <1>7, <1>8, <1>9, Zenon DEF HandInv

\* Every step keeps the ids in hand.
LEMMA StepHand ==
  ASSUME TypeOK, HandInv, Next
  PROVE  HandInv'
<1>1. PICK t \in Threads : Begin(t) \/ Step(t)
  BY Zenon DEF Next
<1>2. CASE Begin(t)
  BY <1>2, PublicationKeeps, AppSubscribeKeeps, AppUnsubscribeKeeps, BeginKeeps, DestroyBusKeeps, Zenon DEF Begin
<1>3. CASE Step(t)
  BY <1>3, PublicationKeeps, DetachKeeps, DropKeeps, SubscribeKeeps, SubscribeNotKeeps, AttachKeeps, DestroyKeeps,
     Zenon DEF Step
<1> QED BY <1>1, <1>2, <1>3, Zenon

-----------------------------------------------------------------------------
(* Nobody hears what they publish. *)

\* What a step may do to the ids that are recorded, and to those in hand of the call
\* in p, which a has left and b entered: an id of a publication under way is not
\* recorded anew.
Fresh(a, b) ==
  /\ bus' => bus
  /\ \A f \in Fsms : \/ impl'[f].ids = impl[f].ids
                     \/ \A q \in Frames : FrameOf(q).fsm = f /\ FrameOf(q).from # 0 =>
                                            FrameOf(q).from \notin Entries(impl'[f].ids)
  /\ b.pc \in {"subscribe", "attach"} => \A e \in Entries(b.ids) :
       \/ \A q \in Frames : e # FrameOf(q).from
       \/ a.pc \in {"subscribe", "attach"} /\ a.fsm = b.fsm /\ e \in Entries(a.ids)

\* The ids of the publications under way stay old.
LEMMA FromStays ==
  ASSUME NEW p \in Frames, NEW b, Moves(p, b), Fresh(FrameOf(p), b), NEW r \in Frames, HadFrom(FrameOf(r)),
         NEW fr, fr.from = FrameOf(r).from, fr.fsm = FrameOf(r).fsm, fr.type = FrameOf(r).type
  PROVE  HadFrom(fr)'
<1> SUFFICES ASSUME fr.from # 0, fr.fsm \in Fsms
             PROVE  /\ bus' => \A i \in 1 .. Len(impl'[fr.fsm].ids) :
                                 impl'[fr.fsm].ids[i] = fr.from => Types[i] = fr.type
                    /\ \A q \in Frames : FrameOf(q)'.fsm = fr.fsm /\ FrameOf(q)'.pc \in {"subscribe", "attach"} =>
                         fr.from \notin Entries(FrameOf(q)'.ids)
  BY Zenon DEF HadFrom
<1>1. FrameOf(p)' = b /\ \A q \in Frames : q # p => FrameOf(q)' = FrameOf(q)
  BY Zenon DEF Moves
<1>2. /\ bus => \A i \in 1 .. Len(impl[fr.fsm].ids) : impl[fr.fsm].ids[i] = fr.from => Types[i] = fr.type
      /\ \A q \in Frames : FrameOf(q).fsm = fr.fsm /\ FrameOf(q).pc \in {"subscribe", "attach"} =>
           fr.from \notin Entries(FrameOf(q).ids)
  BY Zenon DEF HadFrom
<1>3. ASSUME bus', NEW i \in 1 .. Len(impl'[fr.fsm].ids), impl'[fr.fsm].ids[i] = fr.from PROVE Types[i] = fr.type
  <2>1. bus /\ (impl'[fr.fsm].ids = impl[fr.fsm].ids \/ fr.from \notin Entries(impl'[fr.fsm].ids))
    BY <1>3, Zenon DEF Fresh
  <2>2. fr.from \in Entries(impl'[fr.fsm].ids)
    BY <1>3, Zenon DEF Entries
  <2>3. impl'[fr.fsm].ids = impl[fr.fsm].ids
    BY <2>1, <2>2, Zenon
  <2> QED BY <1>2, <1>3, <2>1, <2>3, Zenon
<1>4. ASSUME b.fsm = fr.fsm, b.pc \in {"subscribe", "attach"} PROVE fr.from \notin Entries(b.ids)
  BY <1>2, <1>4, Zenon DEF Fresh
<1>5. ASSUME NEW q \in Frames, FrameOf(q)'.fsm = fr.fsm, FrameOf(q)'.pc \in {"subscribe", "attach"}
      PROVE  fr.from \notin Entries(FrameOf(q)'.ids)
  BY <1>1, <1>2, <1>4, <1>5, Zenon
<1> QED BY <1>3, <1>5, Zenon

\* A publication of an FSM that has an id recorded stays quiet for it.
LEMMA SilentStays ==
  ASSUME NEW a, NEW b, Fresh(a, b), NEW r \in Frames, Silent(FrameOf(r)),
         NEW fr, fr.from = FrameOf(r).from, fr.fsm = FrameOf(r).fsm, fr.todo \subseteq FrameOf(r).todo
  PROVE  Silent(fr)'
<1> SUFFICES ASSUME fr.from # 0, fr.fsm \in Fsms, fr.from \in Entries(impl'[fr.fsm].ids)
             PROVE  Of(fr.fsm, fr.todo) = {}
  BY Zenon DEF Silent, Of
<1>1. impl'[fr.fsm].ids = impl[fr.fsm].ids
  BY Zenon DEF Fresh
<1>2. Of(FrameOf(r).fsm, FrameOf(r).todo) = {}
  BY <1>1, Zenon DEF Silent
<1> QED BY <1>2, Zenon DEF Of

\* A step of which that is known.
LEMMA EchoMoves ==
  ASSUME EchoInv, NEW p \in Frames, NEW b, Moves(p, b), Fresh(FrameOf(p), b),
         ~bus' => subs' = {}, HadFrom(b)', Silent(b)'
  PROVE  EchoInv'
<1>1. FrameOf(p)' = b /\ \A q \in Frames : q # p => FrameOf(q)' = FrameOf(q)
  BY Zenon DEF Moves
<1>2. ASSUME NEW q \in Frames PROVE HadFrom(FrameOf(q))' /\ Silent(FrameOf(q))'
  <2>1. CASE q = p
    <3>1. FrameOf(q)' = b
      BY <1>1, <2>1, Zenon
    <3>2. HadFrom(FrameOf(q))'
      BY <3>1, Zenon DEF HadFrom
    <3>3. Silent(FrameOf(q))'
      BY <3>1, Zenon DEF Silent, Of
    <3> QED BY <3>2, <3>3, Zenon
  <2>2. CASE q # p
    <3>1. PICK fr : fr = FrameOf(q) /\ fr = FrameOf(q)'
      BY <1>1, <2>2, Zenon
    <3>2. HadFrom(fr)' /\ Silent(fr)'
      BY <3>1, FromStays, SilentStays, Zenon DEF EchoInv
    <3>3. HadFrom(FrameOf(q))'
      BY <3>1, <3>2, Zenon DEF HadFrom
    <3>4. Silent(FrameOf(q))'
      BY <3>1, <3>2, Zenon DEF Silent, Of
    <3> QED BY <3>3, <3>4, Zenon
  <2> QED BY <2>1, <2>2, Zenon
<1> QED BY <1>2, Zenon DEF EchoInv

\* A call that goes on with its publication, or has none.
LEMMA EchoGoesOn ==
  ASSUME EchoInv, NEW p \in Frames, NEW b, Moves(p, b), Fresh(FrameOf(p), b), ~bus' => subs' = {},
         \/ b.from = 0
         \/ /\ b.from = FrameOf(p).from /\ b.fsm = FrameOf(p).fsm /\ b.type = FrameOf(p).type
            /\ b.todo \subseteq FrameOf(p).todo
  PROVE  EchoInv'
<1>1. CASE b.from = 0
  <2>1. HadFrom(b)' /\ Silent(b)'
    BY <1>1, Zenon DEF HadFrom, Silent
  <2> QED BY <2>1, EchoMoves, Zenon
<1>2. CASE /\ b.from = FrameOf(p).from /\ b.fsm = FrameOf(p).fsm /\ b.type = FrameOf(p).type
           /\ b.todo \subseteq FrameOf(p).todo
  <2>1. HadFrom(FrameOf(p)) /\ Silent(FrameOf(p))
    BY Zenon DEF EchoInv
  <2>2. HadFrom(b)'
    BY <1>2, <2>1, FromStays, Zenon
  <2>3. Silent(b)'
    BY <1>2, <2>1, SilentStays, Zenon
  <2> QED BY <2>2, <2>3, EchoMoves, Zenon
<1> QED BY <1>1, <1>2, Zenon

\* A call that has no ids in hand, or only drops them, records none.
LEMMA KeptFresh ==
  ASSUME Kept, bus' = bus, NEW a, NEW b,
         \/ b.pc \notin {"subscribe", "attach"} \/ b.ids = <<>>
         \/ b.ids = a.ids /\ a.pc \in {"subscribe", "attach"} /\ a.fsm = b.fsm
  PROVE  Fresh(a, b)
<1>1. \A e : e \notin Entries(<<>>)
  BY EntriesNone, Zenon
<1> QED BY <1>1, Zenon DEF Fresh, Kept

\* The beginnings of calls other than publications of an FSM.
LEMMA BeginEcho ==
  ASSUME TypeOK, EchoInv, NEW t \in Threads,
         \/ \E type \in Entries(Types) : BeginPublish(t, type)
         \/ \E f \in Fsms : (\E on \in BOOLEAN : BeginSetBus(t, f, on)) \/ BeginDestroy(t, f)
  PROVE  EchoInv'
<1>0. ASSUME NEW p \in Frames, NEW b \in Calls, Moves(p, b), UNCHANGED <<bus, subs, next_id>>, Kept, b.from = 0,
             b.pc \notin {"subscribe", "attach"}
      PROVE  EchoInv'
  <2>1. Fresh(FrameOf(p), b) /\ (~bus' => subs' = {})
    BY <1>0, KeptFresh, Zenon DEF EchoInv
  <2> QED BY <1>0, <2>1, EchoGoesOn, Zenon
<1>1. ASSUME NEW type \in Entries(Types), BeginPublish(t, type) PROVE EchoInv'
  <2>1. PICK p \in Frames, b \in Calls : Moves(p, b) /\ Is(b, "publish", App, type, 0, {}, <<>>, <<>>, "leave")
    BY <1>1, BeginPublishDoes, Zenon
  <2>2. UNCHANGED <<bus, subs, next_id>> /\ Kept /\ b.from = 0 /\ b.pc = "publish"
    BY <1>1, <2>1, BeginPublishDoes, CountsKept, Zenon DEF Is
  <2> QED BY <1>0, <2>1, <2>2, Zenon
<1>2. ASSUME NEW f \in Fsms, NEW on \in BOOLEAN, BeginSetBus(t, f, on) PROVE EchoInv'
  <2>1. PICK p \in Frames, b \in Calls, then \in {"subscribe", "attach"} :
          Moves(p, b) /\ Is(b, "detach", f, "none", 0, {}, <<>>, <<>>, then)
    BY <1>2, BeginSetBusDoes, Zenon
  <2>2. UNCHANGED <<bus, subs, next_id>> /\ Kept
    BY <1>2, BeginSetBusDoes, CountsKept, Zenon
  <2>3. b.from = 0 /\ b.pc = "detach"
    BY <2>1, Zenon DEF Is
  <2> QED BY <1>0, <2>1, <2>2, <2>3, Zenon
<1>3. ASSUME NEW f \in Fsms, BeginDestroy(t, f) PROVE EchoInv'
  <2>1. PICK p \in Frames, b \in Calls : Moves(p, b) /\ Is(b, "destroy", f, "none", 0, {}, <<>>, <<>>, "leave")
    BY <1>3, BeginDestroyDoes, Zenon
  <2>2. UNCHANGED <<bus, subs, next_id>> /\ Kept
    BY <1>3, BeginDestroyDoes, Zenon DEF Kept
  <2>3. b.from = 0 /\ b.pc = "destroy"
    BY <2>1, Zenon DEF Is
  <2> QED BY <1>0, <2>1, <2>2, <2>3, Zenon
<1> QED BY <1>1, <1>2, <1>3, Zenon

\* What the call into an FSM reads: the id recorded for the type of the event.
LEMMA FsmPublishEcho ==
  ASSUME TypeOK, HandInv, EchoInv, NEW t \in Threads, NEW f \in Fsms, NEW i \in 1 .. Len(Types),
         BeginFsmPublish(t, f, i)
  PROVE  EchoInv'
<1>1. PICK p \in Frames, b \in Calls, from \in Nat :
        /\ FrameOf(p) = NewFrame /\ Moves(p, b)
        /\ from = (IF impl[f].ids = <<>> THEN 0 ELSE impl[f].ids[i])
        /\ Is(b, "publish", f, Types[i], from, {}, <<>>, <<>>, "leave")
  BY BeginFsmPublishDoes, Zenon DEF HandInv
<1>2. UNCHANGED <<bus, subs, next_id>> /\ Kept
  BY BeginFsmPublishDoes, CountsKept, Zenon DEF HandInv
<1>3. b.pc = "publish" /\ b.fsm = f /\ b.type = Types[i] /\ b.from = from /\ b.todo = {} /\ b.ids = <<>>
  BY <1>1, Zenon DEF Is
<1>4. Fresh(FrameOf(p), b) /\ (~bus' => subs' = {})
  BY <1>2, <1>3, KeptFresh, Zenon DEF EchoInv
<1>5. Silent(b)'
  BY <1>3, Zenon DEF Silent, Of
<1>6. HadFrom(b)'
  <2>1. SUFFICES ASSUME from # 0
                 PROVE  /\ bus => \A j \in 1 .. Len(impl[f].ids) : impl[f].ids[j] = from => Types[j] = Types[i]
                        /\ \A q \in Frames : FrameOf(q)'.fsm = f /\ FrameOf(q)'.pc \in {"subscribe", "attach"} =>
                             from \notin Entries(FrameOf(q)'.ids)
    BY <1>2, <1>3, Zenon DEF HadFrom, Kept
  <2>2. impl[f].ids # <<>> /\ from = impl[f].ids[i] /\ i \in 1 .. Len(impl[f].ids)
    <3>1. impl[f].ids # <<>> /\ from = impl[f].ids[i]
      BY <1>1, <2>1, Zenon
    <3>2. impl[f].ids \in Seq(Nat) /\ Len(impl[f].ids) \in {0, Len(Types)}
      BY Zenon DEF TypeOK, Impls, HandInv, AllOrNone
    <3>3. i \in 1 .. Len(impl[f].ids)
      BY <3>1, <3>2
    <3> QED BY <3>1, <3>3, Zenon
  <2>3. ASSUME bus, NEW j \in 1 .. Len(impl[f].ids), impl[f].ids[j] = from PROVE Types[j] = Types[i]
    <3>1. Subscription(from, Types[i], f) \in subs /\ Subscription(from, Types[j], f) \in subs
      BY <2>2, <2>3, Zenon DEF HandInv, AllOrNone
    <3>2. \A type : Subscription(from, type, f).id = from /\ Subscription(from, type, f).type = type
      BY Zenon DEF Subscription
    <3>3. Subscription(from, Types[i], f) = Subscription(from, Types[j], f)
      BY <3>1, <3>2, Zenon DEF HandInv, IdsUsed
    <3> QED BY <3>2, <3>3, Zenon
  <2>4. ASSUME NEW q \in Frames, FrameOf(q)'.fsm = f, FrameOf(q)'.pc \in {"subscribe", "attach"}
        PROVE  from \notin Entries(FrameOf(q)'.ids)
    <3>1. q # p /\ FrameOf(q)' = FrameOf(q)
      BY <1>1, <1>3, <2>4, Zenon DEF Moves
    <3>2. FrameOf(q).ids = <<>>
      BY <2>2, <2>4, <3>1, InHandOnly, Zenon DEF HandInv
    <3> QED BY <3>1, <3>2, EntriesNone, Zenon
  <2> QED BY <2>3, <2>4, Zenon
<1> QED BY <1>1, <1>4, <1>5, <1>6, EchoMoves, Zenon

\* The snapshot of a publication has no subscription of the FSM under whose id it is
\* published, if that FSM has the id recorded.
LEMMA PublishEcho ==
  ASSUME TypeOK, HandInv, EchoInv, NEW t \in Threads, Publish(t)
  PROVE  EchoInv'
<1>1. PICK p \in Frames, b \in Calls, todo \in SUBSET subs, pc \in {"leave", "deliver"} :
        LET a == FrameOf(p) IN
        /\ a.pc = "publish" /\ Moves(p, b) /\ todo = Snapshot(a.type, a.from)
        /\ pc = IF todo = {} THEN "leave" ELSE "deliver"
        /\ Is(b, pc, a.fsm, a.type, a.from, todo, a.ids, a.errs, a.then)
        /\ impl' = [f \in Fsms |-> [impl[f] EXCEPT !.refs = impl[f].refs + Cardinality(Of(f, todo))]]
  BY PublishDoes, Zenon
<1>2. /\ UNCHANGED <<bus, subs, next_id>>
      /\ b.pc \in {"leave", "deliver"} /\ b.fsm = FrameOf(p).fsm /\ b.type = FrameOf(p).type
      /\ b.from = FrameOf(p).from /\ b.todo = todo
  BY <1>1, PublishDoes, Zenon DEF Is
<1>3. Kept
  <2>1. \A f \in Fsms : impl[f] \in Impls
    BY Zenon DEF TypeOK
  <2> QED BY <1>1, <2>1, Zenon DEF Impls, Kept
<1>4. Fresh(FrameOf(p), b) /\ (~bus' => subs' = {})
  BY <1>2, <1>3, KeptFresh, Zenon DEF EchoInv
<1>5. HadFrom(FrameOf(p))
  BY Zenon DEF EchoInv
<1>6. HadFrom(b)'
  BY <1>1, <1>2, <1>4, <1>5, FromStays, Zenon
<1>7. Silent(b)'
  <2>1. PICK from, f, type : from = b.from /\ f = b.fsm /\ type = b.type
    BY Zenon
  <2>2. SUFFICES ASSUME from # 0, f \in Fsms, from \in Entries(impl[f].ids), NEW sub \in todo, sub.ctx = f
                 PROVE  FALSE
    BY <1>2, <1>3, <2>1, Zenon DEF Silent, Of, Kept
  <2>3. sub \in subs /\ sub.type = type /\ sub.id # from
    BY <1>1, <1>2, <2>1, <2>2, Zenon DEF Snapshot, Matching, Matches
  <2>4. bus
    BY <2>3, Zenon DEF EchoInv
  <2>5. \A q \in Frames : FrameOf(q).fsm = f => sub.id \notin Entries(FrameOf(q).ids)
    BY <2>2, InHandOnly, EntriesNone, Zenon DEF HandInv
  <2>6. sub.id \in Entries(impl[f].ids)
    BY <2>2, <2>3, <2>5, Zenon DEF HandInv, NoneLeftBehind, InCalls
  <2>7. PICK i \in 1 .. Len(impl[f].ids) : impl[f].ids[i] = from
    BY <2>2, Zenon DEF Entries
  <2>8. PICK j \in 1 .. Len(impl[f].ids) : impl[f].ids[j] = sub.id
    BY <2>6, Zenon DEF Entries
  <2>9. Types[i] = type
    BY <1>2, <1>5, <2>1, <2>2, <2>4, <2>7, Zenon DEF HadFrom
  <2>10. Subscription(sub.id, Types[j], f) \in subs
    BY <2>2, <2>4, <2>8, Zenon DEF HandInv, AllOrNone
  <2>11. Types[j] = sub.type
    <3>1. Subscription(sub.id, Types[j], f).id = sub.id /\ Subscription(sub.id, Types[j], f).type = Types[j]
      BY Zenon DEF Subscription
    <3>2. Subscription(sub.id, Types[j], f) = sub
      BY <2>3, <2>10, <3>1, Zenon DEF HandInv, IdsUsed
    <3> QED BY <3>1, <3>2, Zenon
  <2>12. i \in 1 .. Len(Types) /\ j \in 1 .. Len(Types)
    <3>1. Len(impl[f].ids) \in {0, Len(Types)}
      BY <2>2, Zenon DEF HandInv, AllOrNone
    <3> QED BY <3>1
  <2>13. i = j
    BY <2>3, <2>9, <2>11, <2>12, BusAssumption, Zenon
  <2> QED BY <2>3, <2>7, <2>8, <2>13, Zenon
<1> QED BY <1>1, <1>4, <1>6, <1>7, EchoMoves, Zenon

\* The other steps of publications, and the ends of calls.
LEMMA PublicationEcho ==
  ASSUME TypeOK, HandInv, EchoInv, NEW t \in Threads,
         PublishNoMemory(t) \/ Deliver(t) \/ CallbackReturns(t) \/ Leave(t)
  PROVE  EchoInv'
<1>0. ASSUME NEW p \in Frames, NEW b \in Calls, Moves(p, b), UNCHANGED <<bus, subs, next_id>>, Kept,
             b.pc \notin {"subscribe", "attach"},
             \/ b.from = 0
             \/ /\ b.from = FrameOf(p).from /\ b.fsm = FrameOf(p).fsm /\ b.type = FrameOf(p).type
                /\ b.todo \subseteq FrameOf(p).todo
      PROVE  EchoInv'
  <2>1. Fresh(FrameOf(p), b) /\ (~bus' => subs' = {})
    BY <1>0, KeptFresh, Zenon DEF EchoInv
  <2> QED BY <1>0, <2>1, EchoGoesOn, Zenon
<1>1. CASE PublishNoMemory(t) \/ Deliver(t)
  <2>1. PICK p \in Frames, b \in Calls, pc \in {"leave", "callback"} :
          LET a == FrameOf(p) IN
          /\ Moves(p, b) /\ Is(b, pc, a.fsm, a.type, a.from, a.todo, a.ids, a.errs, a.then)
    BY <1>1, PassOnDoes, Zenon
  <2>2. UNCHANGED <<bus, subs, next_id>> /\ Kept
    BY <1>1, PassOnDoes, CountsKept, Zenon
  <2>3. /\ b.pc \in {"leave", "callback"} /\ b.from = FrameOf(p).from /\ b.fsm = FrameOf(p).fsm
        /\ b.type = FrameOf(p).type /\ b.todo \subseteq FrameOf(p).todo
    BY <2>1, Zenon DEF Is
  <2> QED BY <1>0, <2>1, <2>2, <2>3, Zenon
<1>2. CASE CallbackReturns(t)
  <2>1. PICK p \in Frames, b \in Calls, sub \in Subs, pc \in {"leave", "deliver"} :
          LET a == FrameOf(p) IN
          /\ Moves(p, b) /\ Is(b, pc, a.fsm, a.type, a.from, a.todo \ {sub}, a.ids, a.errs, a.then)
    BY <1>2, CallbackReturnsDoes, Zenon
  <2>2. UNCHANGED <<bus, subs, next_id>> /\ Kept
    BY <1>2, CallbackReturnsDoes, CountsKept, Zenon
  <2>3. /\ b.pc \in {"leave", "deliver"} /\ b.from = FrameOf(p).from /\ b.fsm = FrameOf(p).fsm
        /\ b.type = FrameOf(p).type /\ b.todo \subseteq FrameOf(p).todo
    BY <2>1, Zenon DEF Is
  <2> QED BY <1>0, <2>1, <2>2, <2>3, Zenon
<1>3. CASE Leave(t)
  <2>1. PICK p \in Frames : Moves(p, NewFrame)
    BY <1>3, LeaveDoes, Zenon
  <2>2. UNCHANGED <<bus, subs, next_id>> /\ Kept
    BY <1>3, LeaveDoes, CountsKept, Zenon
  <2> QED BY <1>0, <2>1, <2>2, NewFrameOK, Zenon
<1> QED BY <1>1, <1>2, <1>3, Zenon

\* A call that drops ids has none, or goes on dropping.
LEMMA DropsGoesOn ==
  ASSUME NEW a, NEW b, NEW ids, NEW then, Drops(a, b, ids, then)
  PROVE  /\ b.from = a.from /\ b.fsm = a.fsm /\ b.type = a.type /\ b.todo \subseteq a.todo
         /\ b.pc \notin {"subscribe", "attach"} \/ b.ids = <<>>
<1>1. Is(b, IF ids = <<>> THEN then ELSE "drop", a.fsm, a.type, a.from, a.todo, ids, a.errs, then)
  BY Zenon DEF Drops
<1>2. CASE ids = <<>>
  BY <1>1, <1>2, Zenon DEF Is
<1>3. CASE ids # <<>>
  BY <1>1, <1>3, Zenon DEF Is
<1> QED BY <1>2, <1>3, Zenon

\* Ids are taken over from the FSM, to be dropped, and dropped.
LEMMA DropEcho ==
  ASSUME TypeOK, HandInv, EchoInv, NEW t \in Threads, Detach(t) \/ Destroy(t) \/ Drop(t)
  PROVE  EchoInv'
<1>1. ASSUME NEW p \in Frames, NEW b \in Calls, NEW ids, NEW then, NEW f \in Fsms, NEW destroying,
             Moves(p, b), Drops(FrameOf(p), b, ids, then), Gives(f, destroying), UNCHANGED <<bus, subs, next_id>>
      PROVE  EchoInv'
  <2>1. \A e : e \notin Entries(impl'[f].ids)
    BY <1>1, EntriesNone, Zenon DEF Gives
  <2>2. \A g \in Fsms : impl'[g].ids = impl[g].ids \/ \A e : e \notin Entries(impl'[g].ids)
    BY <1>1, <2>1, Zenon DEF Gives
  <2>3. \A e \in Entries(b.ids) : b.pc \notin {"subscribe", "attach"}
    BY <1>1, DropsGoesOn, EntriesNone, Zenon
  <2>4. Fresh(FrameOf(p), b)
    BY <1>1, <2>2, <2>3, Zenon DEF Fresh
  <2>5. ~bus' => subs' = {}
    BY <1>1, Zenon DEF EchoInv
  <2> QED BY <1>1, <2>4, <2>5, DropsGoesOn, EchoGoesOn, Zenon
<1>2. CASE Detach(t)
  <2>1. PICK p \in Frames, b \in Calls : LET a == FrameOf(p) IN
          /\ a.pc = "detach" /\ a.fsm \in Fsms /\ Moves(p, b)
          /\ Drops(a, b, impl[a.fsm].ids, a.then) /\ Gives(a.fsm, impl[a.fsm].destroying)
    BY <1>2, DetachDoes, Zenon DEF HandInv
  <2>2. UNCHANGED <<bus, subs, next_id>>
    BY <1>2, DetachDoes, Zenon DEF HandInv
  <2> QED BY <1>1, <2>1, <2>2, Zenon
<1>3. CASE Destroy(t)
  <2>1. PICK p \in Frames, b \in Calls : LET a == FrameOf(p) IN
          /\ a.pc = "destroy" /\ a.fsm \in Fsms /\ Moves(p, b)
          /\ Drops(a, b, impl[a.fsm].ids, "leave") /\ Gives(a.fsm, TRUE)
    BY <1>3, DestroyDoes, Zenon DEF HandInv
  <2>2. UNCHANGED <<bus, subs, next_id>>
    BY <1>3, DestroyDoes, Zenon DEF HandInv
  <2> QED BY <1>1, <2>1, <2>2, Zenon
<1>4. CASE Drop(t)
  <2>1. PICK p \in Frames, b \in Calls : LET a == FrameOf(p) IN
          Moves(p, b) /\ Drops(a, b, Tail(a.ids), a.then) /\ Removes(Head(a.ids))
    BY <1>4, DropDoes, Zenon DEF HandInv
  <2>2. UNCHANGED <<bus, next_id>>
    BY <1>4, DropDoes, Zenon DEF HandInv
  <2>3. Without(Head(FrameOf(p).ids)) /\ Kept
    BY <2>1, RemovesWithout, Zenon DEF HandInv
  <2>4. Fresh(FrameOf(p), b)
    BY <2>1, <2>2, <2>3, DropsGoesOn, KeptFresh, Zenon
  <2>5. ~bus' => subs' = {}
    BY <2>2, <2>3, Zenon DEF EchoInv, Without
  <2> QED BY <2>1, <2>4, <2>5, DropsGoesOn, EchoGoesOn, Zenon
<1> QED BY <1>2, <1>3, <1>4, Zenon

\* A call that subscribes keeps its publication, if it has one, to itself.
LEMMA SubscribesGoesOn ==
  ASSUME NEW a, NEW b, NEW ids, NEW errs, Subscribes(a, b, ids, errs)
  PROVE  b.from = a.from /\ b.fsm = a.fsm /\ b.type = a.type /\ b.todo \subseteq a.todo /\ b.ids = ids
BY Zenon DEF Subscribes, Is

\* The ids a call gets are new, and those it records are of no publication under way.
LEMMA SubscribeEcho ==
  ASSUME TypeOK, HandInv, EchoInv, NEW t \in Threads,
         Subscribe(t) \/ SubscribeFails(t) \/ SubscribeSkipped(t) \/ Attach(t)
  PROVE  EchoInv'
<1>1. CASE Subscribe(t)
  <2>1. PICK p \in Frames, b \in Calls : LET a == FrameOf(p) IN
          /\ a.pc = "subscribe" /\ Moves(p, b)
          /\ Subscribes(a, b, Append(a.ids, next_id + 1), Append(a.errs, "ok")) /\ Counts(a.fsm, 1)
    BY <1>1, SubscribeDoes, Zenon DEF HandInv
  <2>2. bus' = bus /\ bus /\ Kept
    BY <1>1, <2>1, CountsKept, Zenon DEF Subscribe, CanSubscribe
  <2>3. PICK id, ids : id = next_id + 1 /\ ids = FrameOf(p).ids
    BY Zenon
  <2>4. \A e \in Entries(b.ids) : e = id \/ e \in Entries(FrameOf(p).ids)
    <3>1. ids \in Seq(Nat) /\ id \in Nat
      <4>1. ids \in Seq(Nat)
        BY <2>3, FramesAre, CallFields, Zenon
      <4>2. id \in Nat
        BY <2>3 DEF TypeOK
      <4> QED BY <4>1, <4>2, Zenon
    <3>2. \A e : e \in Entries(Append(ids, id)) <=> e = id \/ e \in Entries(ids)
      BY <3>1, EntriesAppend, Zenon
    <3>3. b.ids = Append(ids, id)
      BY <2>1, <2>3, SubscribesGoesOn, Zenon
    <3> QED BY <2>3, <3>2, <3>3, Zenon
  <2>5. \A q \in Frames : id # FrameOf(q).from
    <3>1. ASSUME NEW e \in Nat, e <= next_id PROVE id # e
      BY <2>3, <3>1 DEF TypeOK
    <3>2. \A q \in Frames : FrameOf(q).from \in Nat
      BY FramesAre, Zenon DEF Calls
    <3> QED BY <3>1, <3>2, Zenon DEF HandInv, IdsUsed
  <2>6. Fresh(FrameOf(p), b)
    <3>1. b.fsm = FrameOf(p).fsm
      BY <2>1, SubscribesGoesOn, Zenon
    <3> QED BY <2>1, <2>2, <2>4, <2>5, <3>1, Zenon DEF Fresh, Kept
  <2> QED BY <2>1, <2>2, <2>6, SubscribesGoesOn, EchoGoesOn, Zenon
<1>2. CASE SubscribeFails(t) \/ SubscribeSkipped(t)
  <2>1. PICK p \in Frames, b \in Calls, e \in {"failed", "skipped"} : LET a == FrameOf(p) IN
          a.pc = "subscribe" /\ Moves(p, b) /\ Subscribes(a, b, a.ids, Append(a.errs, e))
    BY <1>2, SubscribeNotDoes, Zenon DEF HandInv
  <2>2. UNCHANGED <<bus, subs, next_id>> /\ Kept
    BY <1>2, SubscribeNotDoes, CountsKept, Zenon DEF HandInv
  <2>3. /\ b.from = FrameOf(p).from /\ b.fsm = FrameOf(p).fsm /\ b.type = FrameOf(p).type
        /\ b.todo \subseteq FrameOf(p).todo /\ b.ids = FrameOf(p).ids
    <3>1. PICK a, ids, errs : a = FrameOf(p) /\ ids = a.ids /\ Subscribes(a, b, ids, errs)
      BY <2>1, Zenon
    <3>2. b.from = a.from /\ b.fsm = a.fsm /\ b.type = a.type /\ b.todo \subseteq a.todo /\ b.ids = ids
      BY <3>1, SubscribesGoesOn, Zenon
    <3> QED BY <3>1, <3>2, Zenon
  <2>4. Fresh(FrameOf(p), b) /\ (~bus' => subs' = {})
    BY <2>1, <2>2, <2>3, KeptFresh, Zenon DEF EchoInv
  <2> QED BY <2>1, <2>3, <2>4, EchoGoesOn, Zenon
<1>3. CASE Attach(t)
  <2>1. PICK p \in Frames, b \in Calls : LET a == FrameOf(p) IN
          /\ a.pc = "attach" /\ a.fsm \in Fsms /\ Moves(p, b)
          /\ \/ impl[a.fsm].destroying /\ Drops(a, b, a.ids, "leave") /\ Counts(App, 0)
             \/ /\ ~impl[a.fsm].destroying /\ Records(a.fsm, a.ids)
                /\ Is(b, "leave", a.fsm, a.type, a.from, a.todo, <<>>, a.errs, a.then)
    BY <1>3, AttachDoes, Zenon DEF HandInv
  <2>2. UNCHANGED <<bus, subs, next_id>> /\ (~bus' => subs' = {})
    BY <1>3, AttachDoes, Zenon DEF HandInv, EchoInv
  <2>3. CASE Drops(FrameOf(p), b, FrameOf(p).ids, "leave") /\ Counts(App, 0)
    <3>1. Fresh(FrameOf(p), b)
      BY <2>2, <2>3, DropsGoesOn, CountsKept, KeptFresh, Zenon
    <3> QED BY <2>1, <2>2, <2>3, <3>1, DropsGoesOn, EchoGoesOn, Zenon
  <2>4. CASE LET a == FrameOf(p) IN
             Records(a.fsm, a.ids) /\ Is(b, "leave", a.fsm, a.type, a.from, a.todo, <<>>, a.errs, a.then)
    <3>1. PICK f, ids : f \in Fsms /\ f = FrameOf(p).fsm /\ ids = FrameOf(p).ids
      BY <2>1, Zenon
    <3>2. /\ b.from = FrameOf(p).from /\ b.fsm = FrameOf(p).fsm /\ b.type = FrameOf(p).type
          /\ b.todo \subseteq FrameOf(p).todo /\ b.pc = "leave"
      BY <2>4, Zenon DEF Is
    <3>3. \A q \in Frames : FrameOf(q).fsm = f /\ FrameOf(q).from # 0 => FrameOf(q).from \notin Entries(ids)
      BY <2>1, <3>1, Zenon DEF EchoInv, HadFrom
    <3>4. impl'[f].ids = ids /\ \A g \in Fsms : g # f => impl'[g].ids = impl[g].ids
      BY <2>4, <3>1, Zenon DEF Records
    <3>5. Fresh(FrameOf(p), b)
      BY <2>2, <3>2, <3>3, <3>4, Zenon DEF Fresh
    <3> QED BY <2>1, <2>2, <3>2, <3>5, EchoGoesOn, Zenon
  <2> QED BY <2>1, <2>3, <2>4, Zenon
<1> QED BY <1>1, <1>2, <1>3, Zenon

\* The application's own subscriptions, and the end of the bus.
LEMMA AppEcho ==
  ASSUME TypeOK, HandInv, EchoInv, NEW t \in Threads,
         \/ \E type \in Entries(Types) : AppSubscribe(t, type)
         \/ \E id \in 1 .. MaxId : AppUnsubscribe(t, id)
         \/ DestroyBus(t)
  PROVE  EchoInv'
<1>1. ASSUME stack' = stack, bus' => bus, \A f \in Fsms : impl'[f].ids = impl[f].ids, ~bus' => subs' = {}
      PROVE  EchoInv'
  <2>1. PICK p \in Frames, b \in Calls : Moves(p, b) /\ b = FrameOf(p)
    BY <1>1, Still, Zenon
  <2>2. Fresh(FrameOf(p), b)
    BY <1>1, <2>1, Zenon DEF Fresh
  <2>3. /\ b.from = FrameOf(p).from /\ b.fsm = FrameOf(p).fsm /\ b.type = FrameOf(p).type
        /\ b.todo \subseteq FrameOf(p).todo
    BY <2>1, Zenon
  <2> QED BY <1>1, <2>1, <2>2, <2>3, EchoGoesOn, Zenon
<1>2. ASSUME NEW type \in Entries(Types), AppSubscribe(t, type) PROVE EchoInv'
  <2>1. stack' = stack /\ bus' = bus /\ bus /\ impl' = impl
    BY <1>2, Zenon DEF AppSubscribe, Subscribed, CanSubscribe
  <2> QED BY <1>1, <2>1, Zenon
<1>3. ASSUME NEW id \in 1 .. MaxId, AppUnsubscribe(t, id) PROVE EchoInv'
  <2>1. stack' = stack /\ bus' = bus /\ Removes(id)
    BY <1>3, UnsubscribedRemoves, Zenon DEF AppUnsubscribe
  <2>2. Without(id) /\ Kept
    BY <2>1, RemovesWithout, Zenon DEF HandInv
  <2>3. (\A f \in Fsms : impl'[f].ids = impl[f].ids) /\ (~bus' => subs' = {})
    BY <2>1, <2>2, Zenon DEF Kept, Without, EchoInv
  <2> QED BY <1>1, <2>1, <2>3, Zenon
<1>4. CASE DestroyBus(t)
  <2>1. stack' = stack /\ bus' = FALSE /\ subs' = {}
    BY <1>4, Zenon DEF DestroyBus
  <2>2. Kept
    BY <1>4, DestroyBusKept, Zenon
  <2> QED BY <1>1, <2>1, <2>2, Zenon DEF Kept
<1> QED BY <1>2, <1>3, <1>4, Zenon

\* Every step keeps the publications quiet.
LEMMA StepEcho ==
  ASSUME TypeOK, HandInv, EchoInv, Next
  PROVE  EchoInv'
<1>1. PICK t \in Threads : Begin(t) \/ Step(t)
  BY Zenon DEF Next
<1>2. CASE Begin(t)
  BY <1>2, BeginEcho, FsmPublishEcho, AppEcho, Zenon DEF Begin
<1>3. CASE Step(t)
  BY <1>3, PublishEcho, PublicationEcho, DropEcho, SubscribeEcho, Zenon DEF Step
<1> QED BY <1>1, <1>2, <1>3, Zenon
=============================================================================
