---------------------------- MODULE EventBusRefs ----------------------------
(***************************************************************************)
(* The types, and that every reference of an FSM has one owner: the last   *)
(* part of the inductive invariant of the bus, beside that of              *)
(* EventBusProofs, and the theorems that follow from the whole.            *)
(***************************************************************************)
EXTENDS EventBusProofs, FiniteSetTheorems

-----------------------------------------------------------------------------
(* The types. *)

\* A subscription more or less.
LEMMA SubsTypes ==
  ASSUME TypeOK, NEW sub \in Subs
  PROVE  /\ subs \cup {sub} \subseteq Subs /\ IsFiniteSet(subs \cup {sub})
         /\ subs \ {sub} \subseteq Subs /\ IsFiniteSet(subs \ {sub})
BY FS_AddElement, FS_RemoveElement, Zenon DEF TypeOK

\* What libbgp_event_bus_unsubscribe leaves.
LEMMA RemovesTypes ==
  ASSUME TypeOK, NEW id, Removes(id)
  PROVE  subs' \subseteq Subs /\ IsFiniteSet(subs') /\ impl' \in [Fsms -> Impls]
<1>1. CASE \E sub \in subs : subs' = subs \ {sub} /\ Counts(sub.ctx, 0 - 1)
  <2>1. PICK sub \in subs : subs' = subs \ {sub} /\ Counts(sub.ctx, 0 - 1)
    BY <1>1, Zenon
  <2>2. sub \in Subs
    BY Zenon DEF TypeOK
  <2> QED BY <2>1, <2>2, SubsTypes, Zenon DEF Counts
<1>2. CASE subs' = subs /\ Counts(App, 0)
  BY <1>2, Zenon DEF TypeOK, Counts
<1> QED BY <1>1, <1>2, Zenon DEF Removes

\* How many of some subscriptions are f's.
LEMMA OfCounts ==
  ASSUME NEW f, NEW entries, IsFiniteSet(entries)
  PROVE  /\ IsFiniteSet(Of(f, entries)) /\ Cardinality(Of(f, entries)) \in Nat
         /\ Of(f, entries) # {} => Cardinality(Of(f, entries)) > 0
<1>1. IsFiniteSet(Of(f, entries))
  BY FS_Subset, Zenon DEF Of
<1>2. Cardinality(Of(f, entries)) \in Nat /\ (Cardinality(Of(f, entries)) = 0 <=> Of(f, entries) = {})
  BY <1>1, FS_CardinalityType, FS_EmptySet, Zenon
<1> QED BY <1>1, <1>2

\* Every step keeps the types.
LEMMA StepTypes ==
  ASSUME TypeOK, Controlled, AllOrNone, Next
  PROVE  TypeOK'
<1>0. /\ subs \subseteq Subs /\ IsFiniteSet(subs) /\ next_id \in Nat /\ next_id + 1 \in Nat /\ bus \in BOOLEAN
      /\ IsFiniteSet({})
  BY FS_EmptySet DEF TypeOK
<1>1. PICK t \in Threads : Begin(t) \/ Step(t)
  BY Zenon DEF Next
<1>2. ASSUME NEW p \in Frames, NEW b \in Calls, Moves(p, b), IsFiniteSet(b.todo), UNCHANGED <<bus, subs, next_id>>,
             impl' \in [Fsms -> Impls]
      PROVE  TypeOK'
  BY <1>0, <1>2, MovesTypes, Zenon
<1>3. ASSUME NEW type \in Entries(Types), BeginPublish(t, type) PROVE TypeOK'
  <2>1. UNCHANGED <<bus, subs, next_id>> /\ impl' \in [Fsms -> Impls]
    BY <1>3, BeginPublishDoes, Zenon DEF Counts
  <2>2. PICK p \in Frames, b \in Calls : Moves(p, b) /\ b.todo = {}
    <3>1. PICK p \in Frames, b \in Calls :
            Moves(p, b) /\ Is(b, "publish", App, type, 0, {}, <<>>, <<>>, "leave")
      BY <1>3, BeginPublishDoes, Zenon
    <3> QED BY <3>1, Zenon DEF Is
  <2> QED BY <1>0, <1>2, <2>1, <2>2, Zenon
<1>4. ASSUME NEW type \in Entries(Types), AppSubscribe(t, type) PROVE TypeOK'
  <2>1. /\ stack' = stack /\ bus' = bus /\ next_id' = next_id + 1 /\ impl' = impl
        /\ subs' = subs \cup {Subscription(next_id + 1, type, App)}
    BY <1>4, Zenon DEF AppSubscribe, Subscribed
  <2>2. type \in Kinds /\ App \in Contexts
    BY Zenon DEF Kinds, Contexts
  <2>3. subs' \subseteq Subs /\ IsFiniteSet(subs')
    BY <1>0, <2>1, <2>2, SubscriptionIs, SubsTypes, Zenon
  <2> QED BY <1>0, <2>1, <2>3, StillTypes, Zenon DEF TypeOK
<1>5. ASSUME NEW id \in 1 .. MaxId, AppUnsubscribe(t, id) PROVE TypeOK'
  <2>1. stack' = stack /\ bus' = bus /\ next_id' = next_id /\ Removes(id)
    BY <1>5, UnsubscribedRemoves, Zenon DEF AppUnsubscribe
  <2>2. subs' \subseteq Subs /\ IsFiniteSet(subs') /\ impl' \in [Fsms -> Impls]
    BY <2>1, RemovesTypes, Zenon
  <2> QED BY <1>0, <2>1, <2>2, StillTypes, Zenon
<1>6. ASSUME NEW f \in Fsms, NEW i \in 1 .. Len(Types), BeginFsmPublish(t, f, i) PROVE TypeOK'
  <2>1. UNCHANGED <<bus, subs, next_id>> /\ impl' \in [Fsms -> Impls]
    BY <1>6, BeginFsmPublishDoes, Zenon DEF Counts
  <2>2. PICK p \in Frames, b \in Calls : Moves(p, b) /\ b.todo = {}
    BY <1>6, BeginFsmPublishDoes, ZenonT(60) DEF Is
  <2> QED BY <1>0, <1>2, <2>1, <2>2, Zenon
<1>7. ASSUME NEW f \in Fsms, NEW on \in BOOLEAN, BeginSetBus(t, f, on) PROVE TypeOK'
  <2>1. UNCHANGED <<bus, subs, next_id>> /\ impl' \in [Fsms -> Impls]
    BY <1>7, BeginSetBusDoes, Zenon DEF Counts
  <2>2. PICK p \in Frames, b \in Calls : Moves(p, b) /\ b.todo = {}
    BY <1>7, BeginSetBusDoes, Zenon DEF Is
  <2> QED BY <1>0, <1>2, <2>1, <2>2, Zenon
<1>8. ASSUME NEW f \in Fsms, BeginDestroy(t, f) PROVE TypeOK'
  BY <1>0, <1>2, <1>8, BeginDestroyDoes, ZenonT(60) DEF Is
<1>9. CASE DestroyBus(t)
  <2>1. stack' = stack /\ bus' = FALSE /\ next_id' = next_id /\ subs' = {}
    BY <1>9, Zenon DEF DestroyBus
  <2>2. impl' \in [Fsms -> Impls]
    <3>1. ASSUME NEW f \in Fsms, Of(f, subs) # {}
          PROVE  Released(f, Cardinality(Of(f, subs)))[f] \in Impls
      <4>1. Cardinality(Of(f, subs)) \in Nat /\ Cardinality(Of(f, subs)) > 0
        BY <3>1, OfCounts, Zenon DEF TypeOK
      <4>2. Released(f, Cardinality(Of(f, subs))) \in [Fsms -> Impls]
        BY <4>1, ReleasedCounts, Zenon
      <4> QED BY <4>2, Zenon
    <3>2. \A f \in Fsms : impl[f] \in Impls
      BY Zenon DEF TypeOK
    <3> QED BY <1>9, <3>1, <3>2, Zenon DEF DestroyBus
  <2> QED BY <1>0, <2>1, <2>2, StillTypes, Zenon
<1>10. CASE Publish(t)
  <2>1. PICK p \in Frames, b \in Calls, todo \in SUBSET subs :
          /\ Moves(p, b) /\ b.todo = todo /\ UNCHANGED <<bus, subs, next_id>>
          /\ impl' = [f \in Fsms |-> [impl[f] EXCEPT !.refs = impl[f].refs + Cardinality(Of(f, todo))]]
    BY <1>10, PublishDoes, ZenonT(60) DEF Is
  <2>2. IsFiniteSet(todo)
    BY <1>0, FS_Subset, Zenon
  <2>3. ASSUME NEW f \in Fsms
        PROVE  [impl[f] EXCEPT !.refs = impl[f].refs + Cardinality(Of(f, todo))] \in Impls
    <3>1. Cardinality(Of(f, todo)) \in Nat /\ impl[f] \in Impls /\ impl[f].refs \in Int
      BY <2>2, OfCounts, Zenon DEF TypeOK, Impls
    <3>2. impl[f].refs + Cardinality(Of(f, todo)) \in Int
      BY <3>1
    <3> QED BY <3>1, <3>2, Zenon DEF Impls
  <2> QED BY <1>2, <2>1, <2>2, <2>3, Zenon
<1>11. CASE PublishNoMemory(t) \/ Deliver(t)
  BY <1>2, <1>11, PassOnDoes, Zenon DEF Counts, Is, TypeOK
<1>12. CASE CallbackReturns(t)
  <2>1. PICK p \in Frames, b \in Calls, sub \in Subs :
          /\ Moves(p, b) /\ b.todo = FrameOf(p).todo \ {sub} /\ UNCHANGED <<bus, subs, next_id>>
          /\ impl' \in [Fsms -> Impls]
    <3>1. PICK p \in Frames, b \in Calls, sub \in Subs, pc \in {"leave", "deliver"} : LET a == FrameOf(p) IN
            /\ Moves(p, b) /\ Counts(sub.ctx, 0 - 1)
            /\ Is(b, pc, a.fsm, a.type, a.from, a.todo \ {sub}, a.ids, a.errs, a.then)
      BY <1>12, CallbackReturnsDoes, Zenon
    <3>2. b.todo = FrameOf(p).todo \ {sub} /\ impl' \in [Fsms -> Impls]
      BY <3>1, Zenon DEF Is, Counts
    <3> QED BY <1>12, <3>1, <3>2, CallbackReturnsDoes, Zenon
  <2>2. IsFiniteSet(b.todo)
    <3>1. IsFiniteSet(FrameOf(p).todo)
      BY Zenon DEF TypeOK
    <3>2. IsFiniteSet(FrameOf(p).todo \ {sub})
      BY <3>1, FS_RemoveElement, Zenon
    <3> QED BY <2>1, <3>2, Zenon
  <2> QED BY <1>2, <2>1, <2>2, Zenon
<1>13. CASE Detach(t)
  BY <1>2, <1>13, DetachDoes, Zenon DEF Drops, Is, Gives, TypeOK
<1>14. CASE Drop(t)
  <2>1. PICK p \in Frames, b \in Calls :
          /\ Moves(p, b) /\ b.todo = FrameOf(p).todo /\ UNCHANGED <<bus, next_id>> /\ Removes(Head(FrameOf(p).ids))
    BY <1>14, DropDoes, Zenon DEF Drops, Is
  <2>2. subs' \subseteq Subs /\ IsFiniteSet(subs') /\ impl' \in [Fsms -> Impls]
    BY <2>1, RemovesTypes, Zenon
  <2> QED BY <1>0, <2>1, <2>2, MovesTypes, Zenon DEF TypeOK
<1>15. CASE Subscribe(t)
  <2>1. PICK p \in Frames, b \in Calls :
          /\ Moves(p, b) /\ b.todo = FrameOf(p).todo /\ bus' = bus /\ next_id' = next_id + 1
          /\ FrameOf(p).pc = "subscribe" /\ FrameOf(p).fsm \in Fsms
          /\ subs' = subs \cup {Subscription(next_id + 1, Types[Len(FrameOf(p).errs) + 1], FrameOf(p).fsm)}
          /\ impl' \in [Fsms -> Impls]
    <3>1. PICK p \in Frames, b \in Calls : LET a == FrameOf(p) IN
            /\ a.pc = "subscribe" /\ a.fsm \in Fsms /\ Moves(p, b)
            /\ Subscribes(a, b, Append(a.ids, next_id + 1), Append(a.errs, "ok"))
            /\ subs' = subs \cup {Subscription(next_id + 1, Types[Len(a.errs) + 1], a.fsm)}
            /\ Counts(a.fsm, 1) /\ bus' = bus /\ next_id' = next_id + 1
      BY <1>15, SubscribeDoes, Zenon
    <3>2. b.todo = FrameOf(p).todo /\ impl' \in [Fsms -> Impls]
      BY <3>1, Zenon DEF Subscribes, Is, Counts
    <3> QED BY <3>1, <3>2, Zenon
  <2>2. Types[Len(FrameOf(p).errs) + 1] \in Kinds
    <3>1. Len(FrameOf(p).errs) < Len(Types) /\ FrameOf(p).errs \in Seq({"ok", "failed", "skipped"})
      BY <2>1, FramesAre, CallFields, Zenon DEF Controlled, CallOK
    <3>2. Len(FrameOf(p).errs) + 1 \in 1 .. Len(Types)
      BY <3>1, BusAssumption
    <3> QED BY <3>2, Zenon DEF Kinds, Entries
  <2>3. subs' \subseteq Subs /\ IsFiniteSet(subs')
    BY <1>0, <2>1, <2>2, SubscriptionIs, SubsTypes, Zenon DEF Contexts
  <2> QED BY <1>0, <2>1, <2>3, MovesTypes, Zenon DEF TypeOK
<1>16. CASE SubscribeFails(t) \/ SubscribeSkipped(t)
  <2>1. PICK p \in Frames, b \in Calls, e \in {"failed", "skipped"} : LET a == FrameOf(p) IN
          /\ Moves(p, b) /\ Subscribes(a, b, a.ids, Append(a.errs, e))
          /\ UNCHANGED <<bus, subs, next_id>> /\ Counts(App, 0)
    BY <1>16, SubscribeNotDoes, Zenon
  <2>2. b.todo = FrameOf(p).todo /\ impl' \in [Fsms -> Impls]
    BY <2>1, Zenon DEF Subscribes, Is, Counts
  <2> QED BY <1>2, <2>1, <2>2, Zenon DEF TypeOK
<1>17. CASE Attach(t)
  BY <1>2, <1>17, AttachDoes, ZenonT(60) DEF Drops, Is, Counts, Records, TypeOK
<1>18. CASE Destroy(t)
  BY <1>2, <1>18, DestroyDoes, Zenon DEF Drops, Is, Gives, TypeOK
<1>19. CASE Leave(t)
  BY <1>0, <1>2, <1>19, LeaveDoes, NewFrameOK, Zenon DEF Counts
<1> QED BY <1>1, <1>3, <1>4, <1>5, <1>6, <1>7, <1>8, <1>9, <1>10, <1>11, <1>12, <1>13, <1>14, <1>15, <1>16,
           <1>17, <1>18, <1>19, Zenon DEF Begin, Step

-----------------------------------------------------------------------------
(* The references. *)

\* RefsExact of one FSM.
Exact(f) ==
  /\ impl[f].refs = Owners(f)
  /\ impl[f].freed <=> impl[f].destroying /\ Owners(f) = 0

RefsInv == \A f \in Fsms : Exact(f) /\ IsFiniteSet(InSnapshots(f))

\* A step by which f gets d owners more.
Shift(f, d) == Owners(f)' = Owners(f) + d /\ IsFiniteSet(InSnapshots(f)')

\* There are as many places for calls as threads are deep.
LEMMA FramesFinite == IsFiniteSet(Frames)
<1>1. IsFiniteSet(Threads) /\ 1 \in Int /\ MaxDepth \in Int
  BY BusAssumption
<1>2. IsFiniteSet(1 .. MaxDepth)
  BY <1>1, FS_Interval, Zenon
<1> QED BY <1>1, <1>2, FS_Product, Zenon DEF Frames

\* The owners of an FSM can be counted.
LEMMA OwnersNat ==
  ASSUME TypeOK, NEW f \in Fsms, IsFiniteSet(InSnapshots(f))
  PROVE  /\ Cardinality(Of(f, subs)) \in Nat /\ Cardinality(InCalls(f)) \in Nat
         /\ Cardinality(InSnapshots(f)) \in Nat /\ IsFiniteSet(InCalls(f)) /\ Owners(f) \in Nat
<1>1. Cardinality(Of(f, subs)) \in Nat
  BY OfCounts, Zenon DEF TypeOK
<1>2. IsFiniteSet(InCalls(f))
  BY FramesFinite, FS_Subset, Zenon DEF InCalls
<1>3. Cardinality(InCalls(f)) \in Nat /\ Cardinality(InSnapshots(f)) \in Nat
  BY <1>2, FS_CardinalityType, Zenon
<1>4. PICK h \in Nat : h = IF impl[f].handle THEN 1 ELSE 0
  OBVIOUS
<1>5. Owners(f) = h + Cardinality(Of(f, subs)) + Cardinality(InCalls(f)) + Cardinality(InSnapshots(f))
  BY <1>4, Zenon DEF Owners
<1>6. Owners(f) \in Nat
  BY <1>1, <1>3, <1>4, <1>5
<1> QED BY <1>1, <1>2, <1>3, <1>6, Zenon

\* The owners of an FSM after a step, from what it does to each kind of them.
LEMMA Shifts ==
  ASSUME TypeOK, TypeOK', RefsInv, NEW f \in Fsms, NEW h \in Int, NEW s \in Int, NEW c \in Int, NEW n \in Int,
         (IF impl'[f].handle THEN 1 ELSE 0) = (IF impl[f].handle THEN 1 ELSE 0) + h,
         Cardinality(Of(f, subs')) = Cardinality(Of(f, subs)) + s,
         Cardinality(InCalls(f)') = Cardinality(InCalls(f)) + c,
         Cardinality(InSnapshots(f)') = Cardinality(InSnapshots(f)) + n,
         IsFiniteSet(InSnapshots(f)')
  PROVE  Shift(f, h + s + c + n)
<1>1. PICK k \in Int, k1 \in Int : k = (IF impl[f].handle THEN 1 ELSE 0) /\ k1 = (IF impl'[f].handle THEN 1 ELSE 0)
  OBVIOUS
<1>2. /\ Cardinality(Of(f, subs)) \in Nat /\ Cardinality(InCalls(f)) \in Nat /\ Cardinality(InSnapshots(f)) \in Nat
  BY OwnersNat, Zenon DEF RefsInv
<1>3. /\ Owners(f) = k + Cardinality(Of(f, subs)) + Cardinality(InCalls(f)) + Cardinality(InSnapshots(f))
      /\ Owners(f)' = k1 + Cardinality(Of(f, subs')) + Cardinality(InCalls(f)') + Cardinality(InSnapshots(f)')
  <2>1. Of(f, subs)' = Of(f, subs')
    BY Zenon DEF Of
  <2> QED BY <1>1, <2>1, Zenon DEF Owners
<1>4. Owners(f)' = Owners(f) + (h + s + c + n)
  BY <1>1, <1>2, <1>3
<1> QED BY <1>4, Zenon DEF Shift

\* A count that follows the owners stays exact.
LEMMA Balanced ==
  ASSUME TypeOK, TypeOK', RefsInv, NEW f \in Fsms, NEW d \in Int, Shift(f, d),
         impl'[f].refs = impl[f].refs + d, impl'[f].destroying = impl[f].destroying,
         \/ d = 0 /\ impl'[f].freed = impl[f].freed
         \/ d > 0 /\ impl'[f].freed = impl[f].freed /\ (Owners(f) > 0 \/ ~impl[f].destroying)
         \/ d < 0 /\ impl'[f].freed = (impl[f].freed \/ (impl[f].destroying /\ impl[f].refs = 0 - d))
  PROVE  Exact(f)' /\ IsFiniteSet(InSnapshots(f))'
<1>1. Owners(f) \in Nat /\ IsFiniteSet(InSnapshots(f))' /\ Owners(f)' = Owners(f) + d /\ Exact(f)
  BY OwnersNat, Zenon DEF RefsInv, Shift
<1>2. Owners(f)' \in Nat
  <2>1. Cardinality(Of(f, subs')) \in Nat /\ Of(f, subs)' = Of(f, subs')
    <3>1. IsFiniteSet(subs')
      BY Zenon DEF TypeOK
    <3> QED BY <3>1, OfCounts, Zenon DEF Of
  <2>2. InCalls(f)' \subseteq Frames
    BY Zenon DEF InCalls, Frames
  <2>3. Cardinality(InCalls(f)') \in Nat /\ Cardinality(InSnapshots(f)') \in Nat
    BY <1>1, <2>2, FramesFinite, FS_Subset, FS_CardinalityType, Zenon
  <2>4. PICK h \in Nat : h = IF impl'[f].handle THEN 1 ELSE 0
    OBVIOUS
  <2>5. Owners(f)' = h + Cardinality(Of(f, subs')) + Cardinality(InCalls(f)') + Cardinality(InSnapshots(f)')
    BY <2>1, <2>4, Zenon DEF Owners
  <2> QED BY <2>1, <2>3, <2>4, <2>5
<1>3. impl'[f].refs = Owners(f)'
  BY <1>1, Zenon DEF Exact
<1>4. CASE d = 0 /\ impl'[f].freed = impl[f].freed
  <2>1. Owners(f)' = Owners(f)
    BY <1>1, <1>4
  <2> QED BY <1>1, <1>3, <1>4, <2>1, Zenon DEF Exact
<1>5. CASE d > 0 /\ impl'[f].freed = impl[f].freed /\ (Owners(f) > 0 \/ ~impl[f].destroying)
  <2>1. Owners(f)' # 0 /\ (Owners(f) > 0 => Owners(f) # 0)
    BY <1>1, <1>5
  <2> QED BY <1>1, <1>3, <1>5, <2>1, Zenon DEF Exact
<1>6. CASE d < 0 /\ impl'[f].freed = (impl[f].freed \/ (impl[f].destroying /\ impl[f].refs = 0 - d))
  <2>1. Owners(f) # 0 /\ (Owners(f)' = 0 <=> Owners(f) = 0 - d)
    BY <1>1, <1>2, <1>6
  <2>2. impl'[f].freed <=> impl[f].freed \/ (impl[f].destroying /\ impl[f].refs = 0 - d)
    BY <1>6, Zenon
  <2> QED BY <1>1, <1>3, <2>1, <2>2, Zenon DEF Exact
<1> QED BY <1>1, <1>4, <1>5, <1>6, Zenon

\* References come and go with the owners.
LEMMA CountsBalance ==
  ASSUME TypeOK, TypeOK', RefsInv, NEW c, NEW n \in Int, Counts(c, n),
         n = 0 => c = App, \A f \in Fsms : f # c => Shift(f, 0),
         c \in Fsms => Shift(c, n) /\ (n > 0 => Owners(c) > 0 \/ ~impl[c].destroying)
  PROVE  RefsInv'
<1>1. ASSUME NEW f \in Fsms PROVE Exact(f)' /\ IsFiniteSet(InSnapshots(f))'
  <2>0. impl[f].refs \in Int /\ App \notin Fsms
    BY BusAssumption, Zenon DEF TypeOK, Impls
  <2>1. CASE f # c
    <3>1. impl'[f].refs = impl[f].refs /\ impl'[f].freed = impl[f].freed /\ impl'[f].destroying = impl[f].destroying
      BY <2>1, Zenon DEF Counts
    <3>2. impl'[f].refs = impl[f].refs + 0 /\ 0 \in Int
      BY <2>0, <3>1
    <3> QED BY <2>1, <3>1, <3>2, Balanced, Zenon
  <2>2. CASE f = c
    <3>1. impl'[f].refs = impl[f].refs + n /\ impl'[f].destroying = impl[f].destroying
      BY <2>2, Zenon DEF Counts
    <3>2. n > 0 \/ n < 0
      <4>1. n # 0
        BY <2>0, <2>2, Zenon
      <4> QED BY <4>1
    <3>3. CASE n > 0
      BY <2>2, <3>1, <3>3, Balanced, Zenon DEF Counts
    <3>4. CASE n < 0
      <4>1. n <= 0
        BY <3>4
      <4>2. impl'[f].freed = (impl[f].freed \/ (impl[f].destroying /\ impl[f].refs = 0 - n))
        BY <2>2, <4>1, Zenon DEF Counts
      <4> QED BY <2>2, <3>1, <3>4, <4>2, Balanced, Zenon
    <3> QED BY <3>2, <3>3, <3>4, Zenon
  <2> QED BY <2>1, <2>2, Zenon
<1> QED BY <1>1, Zenon DEF RefsInv

\* The calls an FSM is in.
LEMMA CallsCounted ==
  ASSUME NEW p \in Frames, NEW b, Moves(p, b), NEW f
  PROVE  /\ (b.fsm = f <=> FrameOf(p).fsm = f) => InCalls(f)' = InCalls(f)
         /\ b.fsm = f /\ FrameOf(p).fsm # f => Cardinality(InCalls(f)') = Cardinality(InCalls(f)) + 1
         /\ b.fsm # f /\ FrameOf(p).fsm = f => Cardinality(InCalls(f)') = Cardinality(InCalls(f)) - 1
<1>1. FrameOf(p)' = b /\ \A q \in Frames : q # p => FrameOf(q)' = FrameOf(q)
  BY Zenon DEF Moves
<1>2. IsFiniteSet(InCalls(f))
  BY FramesFinite, FS_Subset, Zenon DEF InCalls
<1>3. \A q : q \in InCalls(f)' <=> q \in Frames /\ FrameOf(q)'.fsm = f
  BY Zenon DEF InCalls, Frames
<1>4. \A q : q \in InCalls(f) <=> q \in Frames /\ FrameOf(q).fsm = f
  BY Zenon DEF InCalls
<1>5. ASSUME b.fsm = f <=> FrameOf(p).fsm = f PROVE InCalls(f)' = InCalls(f)
  <2>1. \A q : q \in InCalls(f)' <=> q \in InCalls(f)
    BY <1>1, <1>3, <1>4, <1>5, Zenon
  <2> QED BY <2>1, Zenon
<1>6. ASSUME b.fsm = f, FrameOf(p).fsm # f PROVE Cardinality(InCalls(f)') = Cardinality(InCalls(f)) + 1
  <2>1. InCalls(f)' = InCalls(f) \cup {p} /\ p \notin InCalls(f)
    <3>1. ASSUME NEW q PROVE q \in InCalls(f)' <=> q \in InCalls(f) \cup {p}
      <4>1. CASE q = p
        BY <1>1, <1>3, <1>6, <4>1, Zenon
      <4>2. CASE q # p
        BY <1>1, <1>3, <1>4, <4>2, Zenon
      <4> QED BY <4>1, <4>2, Zenon
    <3> QED BY <1>4, <1>6, <3>1, Zenon
  <2> QED BY <1>2, <2>1, FS_AddElement, Zenon
<1>7. ASSUME b.fsm # f, FrameOf(p).fsm = f PROVE Cardinality(InCalls(f)') = Cardinality(InCalls(f)) - 1
  <2>1. InCalls(f)' = InCalls(f) \ {p} /\ p \in InCalls(f)
    <3>1. ASSUME NEW q PROVE q \in InCalls(f)' <=> q \in InCalls(f) \ {p}
      <4>1. CASE q = p
        BY <1>1, <1>3, <1>7, <4>1, Zenon
      <4>2. CASE q # p
        BY <1>1, <1>3, <1>4, <4>2, Zenon
      <4> QED BY <4>1, <4>2, Zenon
    <3> QED BY <1>4, <1>7, <3>1, Zenon
  <2> QED BY <1>2, <2>1, FS_RemoveElement, Zenon
<1> QED BY <1>5, <1>6, <1>7, Zenon

\* The places of an FSM in the snapshots of publications under way.
LEMMA SnapshotsCounted ==
  ASSUME NEW p \in Frames, NEW b, Moves(p, b), NEW f, IsFiniteSet(InSnapshots(f))
  PROVE  /\ Of(f, b.todo) = Of(f, FrameOf(p).todo) => InSnapshots(f)' = InSnapshots(f)
         /\ FrameOf(p).todo = {} /\ IsFiniteSet(Of(f, b.todo)) =>
              /\ IsFiniteSet(InSnapshots(f)')
              /\ Cardinality(InSnapshots(f)') = Cardinality(InSnapshots(f)) + Cardinality(Of(f, b.todo))
         /\ \A sub \in FrameOf(p).todo : b.todo = FrameOf(p).todo \ {sub} /\ sub.ctx = f =>
              /\ IsFiniteSet(InSnapshots(f)')
              /\ Cardinality(InSnapshots(f)') = Cardinality(InSnapshots(f)) - 1
<1>1. FrameOf(p)' = b /\ \A q \in Frames : q # p => FrameOf(q)' = FrameOf(q)
  BY Zenon DEF Moves
<1>2. \A x : x \in InSnapshots(f) <=> \E q \in Frames : \E s \in Of(f, FrameOf(q).todo) : x = <<q, s>>
  <2>1. ASSUME NEW q \in Frames, NEW x
        PROVE  x \in {q} \X Of(f, FrameOf(q).todo) <=> \E s \in Of(f, FrameOf(q).todo) : x = <<q, s>>
    OBVIOUS
  <2>2. \A x : x \in InSnapshots(f) <=> \E q \in Frames : x \in {q} \X Of(f, FrameOf(q).todo)
    BY Zenon DEF InSnapshots
  <2>3. ASSUME NEW x, x \in InSnapshots(f) PROVE \E q \in Frames : \E s \in Of(f, FrameOf(q).todo) : x = <<q, s>>
    <3>1. PICK q \in Frames : x \in {q} \X Of(f, FrameOf(q).todo)
      BY <2>2, <2>3, Zenon
    <3> QED BY <2>1, <3>1, Zenon
  <2>4. ASSUME NEW x, NEW q \in Frames, NEW s \in Of(f, FrameOf(q).todo), x = <<q, s>> PROVE x \in InSnapshots(f)
    BY <2>1, <2>2, <2>4, Zenon
  <2> QED BY <2>3, <2>4, Zenon
<1>3. \A x : x \in InSnapshots(f)' <=> \E q \in Frames : \E s \in Of(f, FrameOf(q)'.todo) : x = <<q, s>>
  <2>1. ASSUME NEW q \in Frames, NEW x
        PROVE  x \in {q} \X Of(f, FrameOf(q)'.todo) <=> \E s \in Of(f, FrameOf(q)'.todo) : x = <<q, s>>
    OBVIOUS
  <2>2. \A x : x \in InSnapshots(f)' <=> \E q \in Frames : x \in {q} \X Of(f, FrameOf(q)'.todo)
    BY Zenon DEF InSnapshots, Frames, Of
  <2>3. ASSUME NEW x, x \in InSnapshots(f)' PROVE \E q \in Frames : \E s \in Of(f, FrameOf(q)'.todo) : x = <<q, s>>
    <3>1. PICK q \in Frames : x \in {q} \X Of(f, FrameOf(q)'.todo)
      BY <2>2, <2>3, Zenon
    <3> QED BY <2>1, <3>1, Zenon
  <2>4. ASSUME NEW x, NEW q \in Frames, NEW s \in Of(f, FrameOf(q)'.todo), x = <<q, s>> PROVE x \in InSnapshots(f)'
    BY <2>1, <2>2, <2>4, Zenon
  <2> QED BY <2>3, <2>4, Zenon
<1>4. \A x : x \in InSnapshots(f)' <=>
        \/ \E s \in Of(f, b.todo) : x = <<p, s>>
        \/ \E q \in Frames : q # p /\ \E s \in Of(f, FrameOf(q).todo) : x = <<q, s>>
  BY <1>1, <1>3, Zenon
<1>5. \A x : x \in InSnapshots(f) <=>
        \/ \E s \in Of(f, FrameOf(p).todo) : x = <<p, s>>
        \/ \E q \in Frames : q # p /\ \E s \in Of(f, FrameOf(q).todo) : x = <<q, s>>
  BY <1>2, Zenon
<1>6. ASSUME Of(f, b.todo) = Of(f, FrameOf(p).todo) PROVE InSnapshots(f)' = InSnapshots(f)
  <2>1. \A x : x \in InSnapshots(f)' <=> x \in InSnapshots(f)
    BY <1>4, <1>5, <1>6, Zenon
  <2> QED BY <2>1, Zenon
<1>7. ASSUME FrameOf(p).todo = {}, IsFiniteSet(Of(f, b.todo))
      PROVE  /\ IsFiniteSet(InSnapshots(f)')
             /\ Cardinality(InSnapshots(f)') = Cardinality(InSnapshots(f)) + Cardinality(Of(f, b.todo))
  <2>1. PICK new : new = {p} \X Of(f, b.todo)
    BY Zenon
  <2>2. \A x : x \in new <=> \E s \in Of(f, b.todo) : x = <<p, s>>
    BY <2>1
  <2>3. \A s : s \notin Of(f, FrameOf(p).todo)
    BY <1>7, Zenon DEF Of
  <2>4. InSnapshots(f)' = InSnapshots(f) \cup new
    <3>1. \A x : x \in InSnapshots(f)' <=> x \in InSnapshots(f) \cup new
      BY <1>4, <1>5, <2>2, <2>3, Zenon
    <3> QED BY <3>1, Zenon
  <2>5. InSnapshots(f) \cap new = {}
    <3>1. ASSUME NEW x \in InSnapshots(f), x \in new PROVE FALSE
      <4>1. PICK s : x = <<p, s>>
        BY <2>2, <3>1, Zenon
      <4>2. PICK q, r : q \in Frames /\ q # p /\ x = <<q, r>>
        BY <1>5, <2>3, <3>1, Zenon
      <4> QED BY <4>1, <4>2
    <3> QED BY <3>1, Zenon
  <2>6. IsFiniteSet(new) /\ Cardinality(new) = Cardinality(Of(f, b.todo))
    <3>1. IsFiniteSet({p}) /\ Cardinality({p}) = 1 /\ Cardinality(Of(f, b.todo)) \in Nat
      BY <1>7, FS_Singleton, FS_CardinalityType, Zenon
    <3>2. IsFiniteSet(new) /\ Cardinality(new) = Cardinality({p}) * Cardinality(Of(f, b.todo))
      BY <1>7, <2>1, <3>1, FS_Product, Zenon
    <3>3. 1 * Cardinality(Of(f, b.todo)) = Cardinality(Of(f, b.todo))
      BY <3>1
    <3> QED BY <3>1, <3>2, <3>3, Zenon
  <2>7. /\ IsFiniteSet(InSnapshots(f) \cup new)
        /\ Cardinality(InSnapshots(f) \cup new) = Cardinality(InSnapshots(f)) + Cardinality(new) - Cardinality({})
    <3>1. /\ IsFiniteSet(InSnapshots(f) \cup new)
          /\ Cardinality(InSnapshots(f) \cup new)
               = Cardinality(InSnapshots(f)) + Cardinality(new) - Cardinality(InSnapshots(f) \cap new)
      BY <2>6, FS_Union, Zenon
    <3> QED BY <2>5, <3>1, Zenon
  <2>8. Cardinality({}) = 0 /\ Cardinality(InSnapshots(f)) \in Nat /\ Cardinality(new) \in Nat
    BY <2>6, FS_EmptySet, FS_CardinalityType, Zenon
  <2>9. Cardinality(InSnapshots(f) \cup new) = Cardinality(InSnapshots(f)) + Cardinality(new)
    BY <2>7, <2>8
  <2> QED BY <2>4, <2>6, <2>7, <2>9, Zenon
<1>8. ASSUME NEW sub \in FrameOf(p).todo, b.todo = FrameOf(p).todo \ {sub}, sub.ctx = f
      PROVE  /\ IsFiniteSet(InSnapshots(f)')
             /\ Cardinality(InSnapshots(f)') = Cardinality(InSnapshots(f)) - 1
  <2>1. \A s : s \in Of(f, b.todo) <=> s \in Of(f, FrameOf(p).todo) /\ s # sub
    BY <1>8, Zenon DEF Of
  <2>2. PICK x : x = <<p, sub>>
    BY Zenon
  <2>3. x \in InSnapshots(f)
    BY <1>5, <1>8, <2>2, Zenon DEF Of
  <2>4. \A q, s, r : <<q, s>> = <<p, r>> <=> q = p /\ s = r
    OBVIOUS
  <2>5. InSnapshots(f)' = InSnapshots(f) \ {x}
    <3>1. ASSUME NEW y \in InSnapshots(f)' PROVE y \in InSnapshots(f) /\ y # x
      BY <1>4, <1>5, <2>1, <2>2, <2>4, ZenonT(60)
    <3>2. ASSUME NEW y \in InSnapshots(f), y # x PROVE y \in InSnapshots(f)'
      BY <1>4, <1>5, <2>1, <2>2, <3>2, Zenon
    <3>3. \A y : y \in InSnapshots(f)' <=> y \in InSnapshots(f) \ {x}
      BY <3>1, <3>2, Zenon
    <3> QED BY <3>3, Zenon
  <2> QED BY <2>3, <2>5, FS_RemoveElement, Zenon
<1> QED BY <1>6, <1>7, <1>8, Zenon

\* The owners of an FSM after a step of one call.
LEMMA MoveShifts ==
  ASSUME TypeOK, TypeOK', RefsInv, NEW p \in Frames, NEW b, Moves(p, b), NEW f \in Fsms, NEW s \in Int,
         impl'[f].handle = impl[f].handle, Cardinality(Of(f, subs')) = Cardinality(Of(f, subs)) + s
  PROVE  LET a == FrameOf(p) IN
         /\ (b.fsm = f <=> a.fsm = f) /\ Of(f, b.todo) = Of(f, a.todo) => Shift(f, s)
         /\ s = 0 /\ b.fsm = f /\ a.fsm # f /\ Of(f, b.todo) = Of(f, a.todo) => Shift(f, 1)
         /\ s = 0 /\ b.fsm # f /\ a.fsm = f /\ Of(f, b.todo) = Of(f, a.todo) => Shift(f, 0 - 1)
         /\ s = 0 /\ b.fsm = a.fsm /\ a.todo = {} /\ IsFiniteSet(b.todo) => Shift(f, Cardinality(Of(f, b.todo)))
         /\ s = 0 /\ b.fsm = a.fsm => \A sub \in a.todo :
              b.todo = a.todo \ {sub} /\ sub.ctx = f => Shift(f, 0 - 1)
<1> DEFINE a == FrameOf(p)
<1> HIDE DEF a
<1>1. IsFiniteSet(InSnapshots(f)) /\ Cardinality(InCalls(f)) \in Nat /\ Cardinality(InSnapshots(f)) \in Nat
  BY OwnersNat, Zenon DEF RefsInv
<1>2. (IF impl'[f].handle THEN 1 ELSE 0) = (IF impl[f].handle THEN 1 ELSE 0) + 0
  OBVIOUS
<1>3. /\ (b.fsm = f <=> a.fsm = f) => Cardinality(InCalls(f)') = Cardinality(InCalls(f)) + 0
      /\ b.fsm = f /\ a.fsm # f => Cardinality(InCalls(f)') = Cardinality(InCalls(f)) + 1
      /\ b.fsm # f /\ a.fsm = f => Cardinality(InCalls(f)') = Cardinality(InCalls(f)) + (0 - 1)
  <2>1. Cardinality(InCalls(f)) + 0 = Cardinality(InCalls(f)) /\ Cardinality(InCalls(f)) - 1 = Cardinality(InCalls(f)) + (0 - 1)
    BY <1>1
  <2> QED BY <2>1, CallsCounted, Zenon DEF a
<1>4. /\ Of(f, b.todo) = Of(f, a.todo) =>
           IsFiniteSet(InSnapshots(f)') /\ Cardinality(InSnapshots(f)') = Cardinality(InSnapshots(f)) + 0
      /\ a.todo = {} /\ IsFiniteSet(b.todo) =>
           /\ IsFiniteSet(InSnapshots(f)')
           /\ Cardinality(InSnapshots(f)') = Cardinality(InSnapshots(f)) + Cardinality(Of(f, b.todo))
           /\ Cardinality(Of(f, b.todo)) \in Nat
      /\ \A sub \in a.todo : b.todo = a.todo \ {sub} /\ sub.ctx = f =>
           /\ IsFiniteSet(InSnapshots(f)')
           /\ Cardinality(InSnapshots(f)') = Cardinality(InSnapshots(f)) + (0 - 1)
  <2>1. /\ Cardinality(InSnapshots(f)) + 0 = Cardinality(InSnapshots(f))
        /\ Cardinality(InSnapshots(f)) - 1 = Cardinality(InSnapshots(f)) + (0 - 1)
    BY <1>1
  <2>2. IsFiniteSet(b.todo) => IsFiniteSet(Of(f, b.todo)) /\ Cardinality(Of(f, b.todo)) \in Nat
    BY OfCounts, Zenon
  <2>3. /\ Of(f, b.todo) = Of(f, a.todo) => InSnapshots(f)' = InSnapshots(f)
        /\ a.todo = {} /\ IsFiniteSet(Of(f, b.todo)) =>
             /\ IsFiniteSet(InSnapshots(f)')
             /\ Cardinality(InSnapshots(f)') = Cardinality(InSnapshots(f)) + Cardinality(Of(f, b.todo))
        /\ \A sub \in a.todo : b.todo = a.todo \ {sub} /\ sub.ctx = f =>
             /\ IsFiniteSet(InSnapshots(f)')
             /\ Cardinality(InSnapshots(f)') = Cardinality(InSnapshots(f)) - 1
    BY <1>1, SnapshotsCounted, Zenon DEF a
  <2> QED BY <1>1, <2>1, <2>2, <2>3, Zenon
<1>5. ASSUME NEW c \in Int, NEW m \in Int, IsFiniteSet(InSnapshots(f)'),
             Cardinality(InCalls(f)') = Cardinality(InCalls(f)) + c,
             Cardinality(InSnapshots(f)') = Cardinality(InSnapshots(f)) + m
      PROVE  \A d : d = 0 + s + c + m => Shift(f, d)
  <2>1. 0 \in Int
    OBVIOUS
  <2> QED BY <1>2, <1>5, <2>1, Shifts, Zenon
<1>6. /\ s = 0 + s + 0 + 0 /\ (s = 0 => 1 = 0 + s + 1 + 0 /\ 0 - 1 = 0 + s + (0 - 1) + 0 /\ 0 - 1 = 0 + s + 0 + (0 - 1))
      /\ \A m \in Nat : m \in Int /\ (s = 0 => m = 0 + s + 0 + m)
      /\ 0 \in Int /\ 1 \in Int /\ 0 - 1 \in Int
  OBVIOUS
<1>7. (b.fsm = f <=> a.fsm = f) /\ Of(f, b.todo) = Of(f, a.todo) => Shift(f, s)
  BY <1>3, <1>4, <1>5, <1>6, Zenon
<1>8. s = 0 /\ b.fsm = f /\ a.fsm # f /\ Of(f, b.todo) = Of(f, a.todo) => Shift(f, 1)
  BY <1>3, <1>4, <1>5, <1>6, Zenon
<1>9. s = 0 /\ b.fsm # f /\ a.fsm = f /\ Of(f, b.todo) = Of(f, a.todo) => Shift(f, 0 - 1)
  BY <1>3, <1>4, <1>5, <1>6, Zenon
<1>10. s = 0 /\ b.fsm = a.fsm /\ a.todo = {} /\ IsFiniteSet(b.todo) => Shift(f, Cardinality(Of(f, b.todo)))
  BY <1>3, <1>4, <1>5, <1>6, Zenon
<1>11. s = 0 /\ b.fsm = a.fsm => \A sub \in a.todo : b.todo = a.todo \ {sub} /\ sub.ctx = f => Shift(f, 0 - 1)
  BY <1>3, <1>4, <1>5, <1>6, Zenon
<1> QED BY <1>7, <1>8, <1>9, <1>10, <1>11, Zenon DEF a

\* The subscriptions of an FSM that is not concerned are as many as before.
LEMMA SameSubs ==
  ASSUME TypeOK, NEW f \in Fsms, Of(f, subs') = Of(f, subs)
  PROVE  Cardinality(Of(f, subs')) = Cardinality(Of(f, subs)) + 0
<1>1. Cardinality(Of(f, subs)) \in Nat
  BY OfCounts, Zenon DEF TypeOK
<1> QED BY <1>1

\* A step that leaves the owners of every FSM alone, and the references too.
LEMMA NothingOwned ==
  ASSUME TypeOK, TypeOK', RefsInv, NEW p \in Frames, NEW b, Moves(p, b), subs' = subs,
         b.fsm = FrameOf(p).fsm \/ {b.fsm, FrameOf(p).fsm} \subseteq {App}, b.todo = FrameOf(p).todo,
         \A f \in Fsms : /\ impl'[f].handle = impl[f].handle /\ impl'[f].refs = impl[f].refs
                         /\ impl'[f].freed = impl[f].freed
                         /\ impl'[f].destroying # impl[f].destroying => impl'[f].destroying /\ Owners(f) > 0
  PROVE  RefsInv'
<1>1. ASSUME NEW f \in Fsms PROVE Exact(f)' /\ IsFiniteSet(InSnapshots(f))'
  <2>0. f # App /\ 0 \in Int /\ impl[f].refs \in Int /\ impl[f].destroying \in BOOLEAN /\ impl'[f].destroying \in BOOLEAN
    <3>1. f # App /\ impl[f].refs \in Int /\ impl[f].destroying \in BOOLEAN /\ impl'[f].destroying \in BOOLEAN
      BY BusAssumption, Zenon DEF TypeOK, Impls
    <3>2. 0 \in Int
      OBVIOUS
    <3> QED BY <3>1, <3>2, Zenon
  <2>1. Shift(f, 0)
    <3>1. Cardinality(Of(f, subs')) = Cardinality(Of(f, subs)) + 0
      BY SameSubs, Zenon
    <3>2. (b.fsm = f <=> FrameOf(p).fsm = f) /\ Of(f, b.todo) = Of(f, FrameOf(p).todo)
      BY <2>0, Zenon
    <3> QED BY <2>0, <3>1, <3>2, MoveShifts, Zenon
  <2>2. CASE impl'[f].destroying = impl[f].destroying
    <3>1. impl'[f].refs = impl[f].refs + 0
      BY <2>0
    <3> QED BY <2>0, <2>1, <2>2, <3>1, Balanced, Zenon
  <2>3. CASE impl'[f].destroying # impl[f].destroying
    <3>1. Owners(f) \in Nat /\ Exact(f) /\ Owners(f)' = Owners(f) + 0 /\ IsFiniteSet(InSnapshots(f))'
      BY <2>1, OwnersNat, Zenon DEF RefsInv, Shift
    <3>2. Owners(f)' = Owners(f) /\ Owners(f) # 0
      BY <2>3, <3>1
    <3> QED BY <2>3, <3>1, <3>2, Zenon DEF Exact
  <2> QED BY <2>2, <2>3, Zenon
<1> QED BY <1>1, Zenon DEF RefsInv

\* A handle or a call is an owner.
LEMMA Owned ==
  ASSUME TypeOK, RefsInv, NEW f \in Fsms, impl[f].handle \/ \E p \in Frames : FrameOf(p).fsm = f
  PROVE  Owners(f) > 0
<1>1. /\ Cardinality(Of(f, subs)) \in Nat /\ Cardinality(InCalls(f)) \in Nat
      /\ Cardinality(InSnapshots(f)) \in Nat /\ IsFiniteSet(InCalls(f))
  BY OwnersNat, Zenon DEF RefsInv
<1>2. PICK h \in Nat : h = (IF impl[f].handle THEN 1 ELSE 0) /\ (impl[f].handle => h = 1)
  OBVIOUS
<1>3. Owners(f) = h + Cardinality(Of(f, subs)) + Cardinality(InCalls(f)) + Cardinality(InSnapshots(f))
  BY <1>2, Zenon DEF Owners
<1>4. CASE impl[f].handle
  <2>1. h = 1
    BY <1>2, <1>4, Zenon
  <2> QED BY <1>1, <1>3, <2>1
<1>5. CASE \E p \in Frames : FrameOf(p).fsm = f
  <2>1. InCalls(f) # {}
    BY <1>5, Zenon DEF InCalls
  <2>2. Cardinality(InCalls(f)) # 0
    BY <1>1, <2>1, FS_EmptySet, Zenon
  <2> QED BY <1>1, <1>2, <1>3, <2>2
<1> QED BY <1>4, <1>5, Zenon

\* Steps that neither take nor give back a reference.
LEMMA QuietRefs ==
  ASSUME TypeOK, TypeOK', HandInv, RefsInv, NEW t \in Threads,
         \/ \E type \in Entries(Types) : BeginPublish(t, type)
         \/ PublishNoMemory(t) \/ Deliver(t) \/ SubscribeFails(t) \/ SubscribeSkipped(t)
         \/ Detach(t) \/ Attach(t) \/ Destroy(t)
  PROVE  RefsInv'
<1>0. ASSUME Counts(App, 0), NEW f \in Fsms
      PROVE  /\ impl'[f].handle = impl[f].handle /\ impl'[f].refs = impl[f].refs /\ impl'[f].freed = impl[f].freed
             /\ impl'[f].destroying = impl[f].destroying
  BY <1>0, BusAssumption, Zenon DEF Counts
<1>1. ASSUME NEW type \in Entries(Types), BeginPublish(t, type) PROVE RefsInv'
  <2>1. UNCHANGED <<bus, subs, next_id>> /\ Counts(App, 0)
    BY <1>1, BeginPublishDoes, Zenon
  <2>2. PICK p \in Frames, b \in Calls : FrameOf(p) = NewFrame /\ Moves(p, b)
                                         /\ Is(b, "publish", App, type, 0, {}, <<>>, <<>>, "leave")
    BY <1>1, BeginPublishDoes, Zenon
  <2>3. b.fsm = FrameOf(p).fsm /\ b.todo = FrameOf(p).todo
    BY <2>2, NewFrameOK, Zenon DEF Is
  <2> QED BY <1>0, <2>1, <2>2, <2>3, NothingOwned, Zenon
<1>2. CASE PublishNoMemory(t) \/ Deliver(t)
  <2>1. UNCHANGED <<bus, subs, next_id>> /\ Counts(App, 0)
    BY <1>2, PassOnDoes, Zenon
  <2>2. PICK p \in Frames, b \in Calls, pc \in {"leave", "callback"} :
          LET a == FrameOf(p) IN
          /\ Moves(p, b) /\ Is(b, pc, a.fsm, a.type, a.from, a.todo, a.ids, a.errs, a.then)
    BY <1>2, PassOnDoes, Zenon
  <2>3. b.fsm = FrameOf(p).fsm /\ b.todo = FrameOf(p).todo
    BY <2>2, Zenon DEF Is
  <2> QED BY <1>0, <2>1, <2>2, <2>3, NothingOwned, Zenon
<1>3. CASE SubscribeFails(t) \/ SubscribeSkipped(t)
  <2>1. UNCHANGED <<bus, subs, next_id>> /\ Counts(App, 0)
    BY <1>3, SubscribeNotDoes, Zenon DEF HandInv
  <2>2. PICK p \in Frames, b \in Calls, e \in {"failed", "skipped"} : LET a == FrameOf(p) IN
          /\ Moves(p, b) /\ Subscribes(a, b, a.ids, Append(a.errs, e))
    BY <1>3, SubscribeNotDoes, Zenon DEF HandInv
  <2>3. b.fsm = FrameOf(p).fsm /\ b.todo = FrameOf(p).todo
    BY <2>2, Zenon DEF Subscribes, Is
  <2> QED BY <1>0, <2>1, <2>2, <2>3, NothingOwned, Zenon
<1>4. ASSUME NEW a, NEW b, NEW ids, NEW then, Drops(a, b, ids, then)
      PROVE  b.fsm = a.fsm /\ b.todo = a.todo
  BY <1>4, Zenon DEF Drops, Is
<1>5. CASE Detach(t)
  <2>1. UNCHANGED <<bus, subs, next_id>>
    BY <1>5, DetachDoes, Zenon DEF HandInv
  <2>2. PICK p \in Frames, b \in Calls : LET a == FrameOf(p) IN
          /\ Moves(p, b) /\ Drops(a, b, impl[a.fsm].ids, a.then) /\ Gives(a.fsm, impl[a.fsm].destroying)
    BY <1>5, DetachDoes, Zenon DEF HandInv
  <2>3. b.fsm = FrameOf(p).fsm /\ b.todo = FrameOf(p).todo
    BY <1>4, <2>2, Zenon
  <2>4. \A f \in Fsms :
          /\ impl'[f].handle = impl[f].handle /\ impl'[f].refs = impl[f].refs /\ impl'[f].freed = impl[f].freed
          /\ impl'[f].destroying = impl[f].destroying
    BY <2>2, Zenon DEF Gives
  <2> QED BY <2>1, <2>2, <2>3, <2>4, NothingOwned, Zenon
<1>6. CASE Attach(t)
  <2>1. UNCHANGED <<bus, subs, next_id>>
    BY <1>6, AttachDoes, Zenon DEF HandInv
  <2>2. PICK p \in Frames, b \in Calls : LET a == FrameOf(p) IN
          /\ Moves(p, b)
          /\ \/ impl[a.fsm].destroying /\ Drops(a, b, a.ids, "leave") /\ Counts(App, 0)
             \/ /\ ~impl[a.fsm].destroying /\ Records(a.fsm, a.ids)
                /\ Is(b, "leave", a.fsm, a.type, a.from, a.todo, <<>>, a.errs, a.then)
    BY <1>6, AttachDoes, Zenon DEF HandInv
  <2>3. b.fsm = FrameOf(p).fsm /\ b.todo = FrameOf(p).todo
    BY <1>4, <2>2, Zenon DEF Is
  <2>4. \A f \in Fsms :
          /\ impl'[f].handle = impl[f].handle /\ impl'[f].refs = impl[f].refs /\ impl'[f].freed = impl[f].freed
          /\ impl'[f].destroying = impl[f].destroying
    BY <1>0, <2>2, Zenon DEF Records
  <2> QED BY <2>1, <2>2, <2>3, <2>4, NothingOwned, Zenon
<1>7. CASE Destroy(t)
  <2>1. UNCHANGED <<bus, subs, next_id>>
    BY <1>7, DestroyDoes, Zenon DEF HandInv
  <2>2. PICK p \in Frames, b \in Calls : LET a == FrameOf(p) IN
          /\ Moves(p, b) /\ a.fsm \in Fsms /\ Drops(a, b, impl[a.fsm].ids, "leave") /\ Gives(a.fsm, TRUE)
    BY <1>7, DestroyDoes, Zenon DEF HandInv
  <2>3. b.fsm = FrameOf(p).fsm /\ b.todo = FrameOf(p).todo
    BY <1>4, <2>2, Zenon
  <2>4. Owners(FrameOf(p).fsm) > 0
    BY <2>2, Owned, Zenon
  <2>5. \A f \in Fsms :
          /\ impl'[f].handle = impl[f].handle /\ impl'[f].refs = impl[f].refs /\ impl'[f].freed = impl[f].freed
          /\ impl'[f].destroying # impl[f].destroying => impl'[f].destroying /\ Owners(f) > 0
    BY <2>2, <2>4, Zenon DEF Gives
  <2> QED BY <2>1, <2>2, <2>3, <2>5, NothingOwned, Zenon
<1> QED BY <1>1, <1>2, <1>3, <1>5, <1>6, <1>7, Zenon

\* A call into an FSM begins: it has a reference, like the handle it was found by.
LEMMA CallRefs ==
  ASSUME TypeOK, TypeOK', RefsInv, NEW f \in Fsms, Counts(f, 1), impl[f].handle, subs' = subs,
         NEW p \in Frames, NEW b, FrameOf(p) = NewFrame, Moves(p, b), b.fsm = f, b.todo = {}
  PROVE  RefsInv'
<1>1. FrameOf(p).fsm = App /\ FrameOf(p).todo = {} /\ App \notin Fsms
  BY BusAssumption, NewFrameOK, Zenon
<1>2. 0 \in Int /\ 1 \in Int /\ 1 # 0
  OBVIOUS
<1>3. \A g \in Fsms : impl'[g].handle = impl[g].handle /\ Cardinality(Of(g, subs')) = Cardinality(Of(g, subs)) + 0
  BY SameSubs, Zenon DEF Counts
<1>4. ASSUME NEW g \in Fsms, g # f PROVE Shift(g, 0)
  <2>1. (b.fsm = g <=> FrameOf(p).fsm = g) /\ Of(g, b.todo) = Of(g, FrameOf(p).todo)
    BY <1>1, <1>4, Zenon
  <2> QED BY <1>2, <1>3, <2>1, MoveShifts, Zenon
<1>5. Shift(f, 1)
  <2>1. b.fsm = f /\ FrameOf(p).fsm # f /\ Of(f, b.todo) = Of(f, FrameOf(p).todo)
    BY <1>1, Zenon
  <2> QED BY <1>2, <1>3, <2>1, MoveShifts, Zenon
<1>6. Owners(f) > 0
  BY Owned, Zenon
<1> QED BY <1>2, <1>4, <1>5, <1>6, CountsBalance, Zenon

\* libbgp_fsm_destroy has the reference of the handle.
LEMMA BeginDestroyRefs ==
  ASSUME TypeOK, TypeOK', RefsInv, NEW t \in Threads, NEW f \in Fsms, BeginDestroy(t, f)
  PROVE  RefsInv'
<1>1. /\ subs' = subs /\ impl[f].handle /\ impl'[f].handle = FALSE
      /\ \A g \in Fsms : /\ g # f => impl'[g].handle = impl[g].handle
                         /\ impl'[g].refs = impl[g].refs /\ impl'[g].freed = impl[g].freed
                         /\ impl'[g].destroying = impl[g].destroying
  BY BeginDestroyDoes, Zenon
<1>2. PICK p \in Frames, b \in Calls : /\ FrameOf(p) = NewFrame /\ Moves(p, b)
                                       /\ Is(b, "destroy", f, "none", 0, {}, <<>>, <<>>, "leave")
  BY BeginDestroyDoes, Zenon
<1>3. b.fsm = f /\ b.todo = {} /\ FrameOf(p).fsm = App /\ FrameOf(p).todo = {} /\ App \notin Fsms
  BY <1>2, BusAssumption, NewFrameOK, Zenon DEF Is
<1>4. ASSUME NEW g \in Fsms PROVE Shift(g, 0)
  <2>1. Cardinality(Of(g, subs')) = Cardinality(Of(g, subs)) + 0
    BY <1>1, SameSubs, Zenon
  <2>2. 0 \in Int /\ 0 - 1 \in Int /\ 1 \in Int /\ (0 - 1) + 0 + 1 + 0 = 0
    OBVIOUS
  <2>3. CASE g # f
    <3>1. (b.fsm = g <=> FrameOf(p).fsm = g) /\ Of(g, b.todo) = Of(g, FrameOf(p).todo)
      BY <1>3, <2>3, Zenon
    <3> QED BY <1>1, <1>2, <2>1, <2>2, <2>3, <3>1, MoveShifts, ZenonT(60)
  <2>4. CASE g = f
    <3>1. (IF impl'[f].handle THEN 1 ELSE 0) = (IF impl[f].handle THEN 1 ELSE 0) + (0 - 1)
      <4>1. (IF impl'[f].handle THEN 1 ELSE 0) = 0 /\ (IF impl[f].handle THEN 1 ELSE 0) = 1
        BY <1>1, Zenon
      <4> QED BY <4>1
    <3>2. IsFiniteSet(InSnapshots(f)) /\ Cardinality(InSnapshots(f)) \in Nat
      BY OwnersNat, Zenon DEF RefsInv
    <3>3. Cardinality(InCalls(f)') = Cardinality(InCalls(f)) + 1 /\ InSnapshots(f)' = InSnapshots(f)
      <4>1. FrameOf(p).fsm # f /\ Of(f, b.todo) = Of(f, FrameOf(p).todo)
        BY <1>3, Zenon
      <4> QED BY <1>2, <1>3, <3>2, <4>1, CallsCounted, SnapshotsCounted, Zenon
    <3>4. Cardinality(InSnapshots(f)') = Cardinality(InSnapshots(f)) + 0
      BY <3>2, <3>3
    <3>5. IsFiniteSet(InSnapshots(f)')
      BY <3>2, <3>3, Zenon
    <3>6. Shift(f, (0 - 1) + 0 + 1 + 0)
      BY <2>1, <2>2, <2>4, <3>1, <3>3, <3>4, <3>5, Shifts, Zenon
    <3> QED BY <2>2, <2>4, <3>6, Zenon
  <2> QED BY <2>3, <2>4, Zenon
<1>5. ASSUME NEW g \in Fsms PROVE Exact(g)' /\ IsFiniteSet(InSnapshots(g))'
  <2>1. impl'[g].refs = impl[g].refs + 0 /\ 0 \in Int
    <3>1. impl[g].refs \in Int
      BY Zenon DEF TypeOK, Impls
    <3> QED BY <1>1, <3>1
  <2> QED BY <1>1, <1>4, <2>1, Balanced, Zenon
<1> QED BY <1>5, Zenon DEF RefsInv

\* A call that returns gives its reference back.
LEMMA LeaveRefs ==
  ASSUME TypeOK, TypeOK', HandInv, RefsInv, NEW t \in Threads, Leave(t)
  PROVE  RefsInv'
<1>1. subs' = subs
  BY LeaveDoes, Zenon
<1>2. PICK p \in Frames : FrameOf(p).pc = "leave" /\ Moves(p, NewFrame) /\ Counts(FrameOf(p).fsm, 0 - 1)
  BY LeaveDoes, Zenon
<1>3. FrameOf(p).todo = {} /\ NewFrame.todo = {} /\ NewFrame.fsm = App /\ App \notin Fsms
  BY <1>2, NewFrameOK, BusAssumption, Zenon DEF HandInv, Controlled, CallOK
<1>4. 0 \in Int /\ 0 - 1 \in Int /\ ~(0 - 1 > 0) /\ 0 - 1 # 0
  OBVIOUS
<1>5. \A g \in Fsms : impl'[g].handle = impl[g].handle /\ Cardinality(Of(g, subs')) = Cardinality(Of(g, subs)) + 0
  BY <1>1, <1>2, SameSubs, Zenon DEF Counts
<1>6. ASSUME NEW g \in Fsms, g # FrameOf(p).fsm PROVE Shift(g, 0)
  <2>1. (NewFrame.fsm = g <=> FrameOf(p).fsm = g) /\ Of(g, NewFrame.todo) = Of(g, FrameOf(p).todo)
    BY <1>3, <1>6, Zenon
  <2> QED BY <1>2, <1>4, <1>5, <2>1, MoveShifts, Zenon
<1>7. ASSUME FrameOf(p).fsm \in Fsms PROVE Shift(FrameOf(p).fsm, 0 - 1)
  <2>1. PICK f \in Fsms : f = FrameOf(p).fsm
    BY <1>7, Zenon
  <2>2. NewFrame.fsm # f /\ FrameOf(p).fsm = f /\ Of(f, NewFrame.todo) = Of(f, FrameOf(p).todo)
    BY <1>3, <2>1, Zenon
  <2> QED BY <1>2, <1>4, <1>5, <2>1, <2>2, MoveShifts, Zenon
<1> QED BY <1>2, <1>4, <1>6, <1>7, CountsBalance, Zenon

\* A snapshot's entry is released after its callback.
LEMMA CallbackRefs ==
  ASSUME TypeOK, TypeOK', RefsInv, NEW t \in Threads, CallbackReturns(t)
  PROVE  RefsInv'
<1>1. subs' = subs
  BY CallbackReturnsDoes, Zenon
<1>2. PICK p \in Frames, b \in Calls, sub \in Subs, pc \in {"leave", "deliver"} :
        LET a == FrameOf(p) IN
        /\ Moves(p, b) /\ sub \in a.todo /\ Counts(sub.ctx, 0 - 1)
        /\ Is(b, pc, a.fsm, a.type, a.from, a.todo \ {sub}, a.ids, a.errs, a.then)
  BY CallbackReturnsDoes, Zenon
<1>3. b.fsm = FrameOf(p).fsm /\ b.todo = FrameOf(p).todo \ {sub} /\ sub \in FrameOf(p).todo
  BY <1>2, Zenon DEF Is
<1>4. 0 \in Int /\ 0 - 1 \in Int /\ ~(0 - 1 > 0) /\ 0 - 1 # 0
  OBVIOUS
<1>5. \A g \in Fsms : impl'[g].handle = impl[g].handle /\ Cardinality(Of(g, subs')) = Cardinality(Of(g, subs)) + 0
  BY <1>1, <1>2, SameSubs, Zenon DEF Counts
<1>6. ASSUME NEW g \in Fsms, g # sub.ctx PROVE Shift(g, 0)
  <2>1. \A s : s \in Of(g, b.todo) <=> s \in Of(g, FrameOf(p).todo)
    BY <1>3, <1>6, Zenon DEF Of
  <2>2. (b.fsm = g <=> FrameOf(p).fsm = g) /\ Of(g, b.todo) = Of(g, FrameOf(p).todo)
    BY <1>3, <2>1, Zenon
  <2> QED BY <1>2, <1>4, <1>5, <2>2, MoveShifts, Zenon
<1>7. ASSUME sub.ctx \in Fsms PROVE Shift(sub.ctx, 0 - 1)
  <2>1. PICK f \in Fsms : f = sub.ctx
    BY <1>7, Zenon
  <2> QED BY <1>2, <1>3, <1>4, <1>5, <2>1, MoveShifts, Zenon
<1> QED BY <1>2, <1>4, <1>6, <1>7, CountsBalance, Zenon

\* A publication takes a reference for each entry of its snapshot.
LEMMA PublishRefs ==
  ASSUME TypeOK, TypeOK', HandInv, RefsInv, NEW t \in Threads, Publish(t)
  PROVE  RefsInv'
<1>1. subs' = subs
  BY PublishDoes, Zenon
<1>2. PICK p \in Frames, b \in Calls, todo \in SUBSET subs, pc \in {"leave", "deliver"} :
        LET a == FrameOf(p) IN
        /\ a.pc = "publish" /\ Moves(p, b) /\ todo = Snapshot(a.type, a.from)
        /\ pc = IF todo = {} THEN "leave" ELSE "deliver"
        /\ Is(b, pc, a.fsm, a.type, a.from, todo, a.ids, a.errs, a.then)
        /\ impl' = [f \in Fsms |-> [impl[f] EXCEPT !.refs = impl[f].refs + Cardinality(Of(f, todo))]]
  BY PublishDoes, Zenon
<1>3. b.fsm = FrameOf(p).fsm /\ b.todo = todo /\ FrameOf(p).todo = {}
  BY <1>2, Zenon DEF Is, HandInv, Controlled, CallOK
<1>4. IsFiniteSet(todo)
  <2>1. IsFiniteSet(subs) /\ todo \subseteq subs
    BY <1>2, Zenon DEF TypeOK
  <2> QED BY <2>1, FS_Subset, Zenon
<1>5. ASSUME NEW f \in Fsms PROVE Exact(f)' /\ IsFiniteSet(InSnapshots(f))'
  <2>1. PICK d : d = Cardinality(Of(f, todo))
    BY Zenon
  <2>2. d \in Nat /\ (d > 0 => Of(f, todo) # {})
    <3>1. d \in Nat
      BY <1>4, <2>1, OfCounts, Zenon
    <3>2. Of(f, todo) = {} => d = 0
      BY <2>1, FS_EmptySet, Zenon
    <3> QED BY <3>1, <3>2
  <2>3. /\ impl'[f].refs = impl[f].refs + d /\ impl'[f].destroying = impl[f].destroying
        /\ impl'[f].freed = impl[f].freed /\ impl'[f].handle = impl[f].handle
    <3>1. impl'[f] = [impl[f] EXCEPT !.refs = impl[f].refs + d]
      BY <1>2, <2>1, Zenon
    <3>2. impl[f] \in Impls
      BY Zenon DEF TypeOK
    <3> QED BY <3>1, <3>2, Zenon DEF Impls
  <2>4. Shift(f, d)
    <3>1. Cardinality(Of(f, subs')) = Cardinality(Of(f, subs)) + 0 /\ 0 \in Int
      <4>1. 0 \in Int
        OBVIOUS
      <4> QED BY <1>1, <4>1, SameSubs, Zenon
    <3>2. Shift(f, Cardinality(Of(f, b.todo)))
      BY <1>2, <1>3, <1>4, <2>3, <3>1, MoveShifts, Zenon
    <3> QED BY <1>3, <2>1, <3>2, Zenon
  <2>5. d > 0 => ~impl[f].destroying
    BY <1>2, <2>2, Zenon DEF Of, Snapshot, Retains
  <2>6. d \in Int /\ (d = 0 \/ d > 0)
    BY <2>2
  <2> QED BY <2>3, <2>4, <2>5, <2>6, Balanced, Zenon
<1> QED BY <1>5, Zenon DEF RefsInv

\* A subscription that is removed gives its reference back.
LEMMA RemoveRefs ==
  ASSUME TypeOK, TypeOK', RefsInv, NEW p \in Frames, NEW b, Moves(p, b), NEW id, Removes(id),
         b.fsm = FrameOf(p).fsm, b.todo = FrameOf(p).todo
  PROVE  RefsInv'
<1>1. 0 \in Int /\ 0 - 1 \in Int /\ ~(0 - 1 > 0) /\ 0 - 1 # 0 /\ ~(0 > 0)
  OBVIOUS
<1>2. \A g \in Fsms : impl'[g].handle = impl[g].handle
  BY Zenon DEF Removes, Counts
<1>3. ASSUME NEW sub \in subs, subs' = subs \ {sub}, Counts(sub.ctx, 0 - 1) PROVE RefsInv'
  <2>1. ASSUME NEW g \in Fsms, g # sub.ctx PROVE Shift(g, 0)
    <3>1. \A s : s \in Of(g, subs') <=> s \in Of(g, subs)
      BY <1>3, <2>1, Zenon DEF Of
    <3>2. Of(g, subs') = Of(g, subs)
      BY <3>1, Zenon
    <3>3. Cardinality(Of(g, subs')) = Cardinality(Of(g, subs)) + 0
      BY <3>2, SameSubs, Zenon
    <3> QED BY <1>1, <1>2, <3>3, MoveShifts, Zenon
  <2>2. ASSUME sub.ctx \in Fsms PROVE Shift(sub.ctx, 0 - 1)
    <3>1. PICK f \in Fsms : f = sub.ctx
      BY <2>2, Zenon
    <3>2. Of(f, subs') = Of(f, subs) \ {sub} /\ sub \in Of(f, subs)
      <4>1. \A s : s \in Of(f, subs') <=> s \in Of(f, subs) \ {sub}
        BY <1>3, Zenon DEF Of
      <4> QED BY <1>3, <3>1, <4>1, Zenon DEF Of
    <3>3. IsFiniteSet(Of(f, subs)) /\ Cardinality(Of(f, subs)) \in Nat
      BY OfCounts, Zenon DEF TypeOK
    <3>4. Cardinality(Of(f, subs')) = Cardinality(Of(f, subs)) - 1
      BY <3>2, <3>3, FS_RemoveElement, Zenon
    <3>5. Cardinality(Of(f, subs')) = Cardinality(Of(f, subs)) + (0 - 1)
      BY <3>3, <3>4
    <3> QED BY <1>1, <1>2, <3>1, <3>5, MoveShifts, Zenon
  <2> QED BY <1>1, <1>3, <2>1, <2>2, CountsBalance, Zenon
<1>4. ASSUME subs' = subs, Counts(App, 0) PROVE RefsInv'
  <2>1. \A f \in Fsms : /\ impl'[f].refs = impl[f].refs /\ impl'[f].freed = impl[f].freed
                        /\ impl'[f].destroying = impl[f].destroying
    BY <1>4, BusAssumption, Zenon DEF Counts
  <2> QED BY <1>2, <1>4, <2>1, NothingOwned, Zenon
<1> QED BY <1>3, <1>4, Zenon DEF Removes

\* A new subscription has a reference on its FSM, which is not being destroyed.
LEMMA AddRefs ==
  ASSUME TypeOK, TypeOK', IdsUsed, RefsInv, NEW p \in Frames, NEW b, Moves(p, b),
         b.fsm = FrameOf(p).fsm, b.todo = FrameOf(p).todo,
         NEW new, subs' = subs \cup {new}, new.id = next_id + 1,
         \/ new.ctx = App /\ impl' = impl
         \/ new.ctx \in Fsms /\ ~impl[new.ctx].destroying /\ Counts(new.ctx, 1)
  PROVE  RefsInv'
<1>1. 0 \in Int /\ 1 \in Int /\ ~(0 > 0) /\ 1 # 0 /\ App \notin Fsms
  BY BusAssumption
<1>2. \A g \in Fsms : impl'[g].handle = impl[g].handle
  BY Zenon DEF Counts
<1>3. new \notin subs
  <2>1. next_id \in Nat /\ \A sub \in subs : sub.id <= next_id
    BY Zenon DEF TypeOK, IdsUsed
  <2>2. ~(next_id + 1 <= next_id)
    BY <2>1
  <2> QED BY <2>1, <2>2, Zenon
<1>4. ASSUME NEW g \in Fsms, g # new.ctx PROVE Shift(g, 0)
  <2>1. \A s : s \in Of(g, subs') <=> s \in Of(g, subs)
    BY <1>4, Zenon DEF Of
  <2>2. Of(g, subs') = Of(g, subs)
    BY <2>1, Zenon
  <2>3. Cardinality(Of(g, subs')) = Cardinality(Of(g, subs)) + 0
    BY <2>2, SameSubs, Zenon
  <2> QED BY <1>1, <1>2, <2>3, MoveShifts, Zenon
<1>5. CASE new.ctx = App /\ impl' = impl
  <2>1. Counts(App, 0)
    BY <1>5, UncountedCounts, Zenon
  <2> QED BY <1>1, <1>4, <1>5, <2>1, CountsBalance, Zenon
<1>6. CASE new.ctx \in Fsms /\ ~impl[new.ctx].destroying /\ Counts(new.ctx, 1)
  <2>1. PICK f \in Fsms : f = new.ctx
    BY <1>6, Zenon
  <2>2. Of(f, subs') = Of(f, subs) \cup {new} /\ new \notin Of(f, subs)
    <3>1. \A s : s \in Of(f, subs') <=> s \in Of(f, subs) \cup {new}
      BY <2>1, Zenon DEF Of
    <3> QED BY <1>3, <3>1, Zenon DEF Of
  <2>3. IsFiniteSet(Of(f, subs))
    BY OfCounts, Zenon DEF TypeOK
  <2>4. Cardinality(Of(f, subs')) = Cardinality(Of(f, subs)) + 1
    BY <2>2, <2>3, FS_AddElement, Zenon
  <2>5. Shift(f, 1)
    BY <1>1, <1>2, <2>4, MoveShifts, Zenon
  <2> QED BY <1>1, <1>4, <1>6, <2>1, <2>5, CountsBalance, Zenon
<1> QED BY <1>5, <1>6, Zenon

\* Subscribing and unsubscribing, by an FSM's call or by the application.
LEMMA SubscriptionRefs ==
  ASSUME TypeOK, TypeOK', HandInv, RefsInv, NEW t \in Threads,
         \/ Drop(t) \/ Subscribe(t)
         \/ \E type \in Entries(Types) : AppSubscribe(t, type)
         \/ \E id \in 1 .. MaxId : AppUnsubscribe(t, id)
  PROVE  RefsInv'
<1>1. CASE Drop(t)
  <2>1. PICK p \in Frames, b \in Calls : LET a == FrameOf(p) IN
          /\ Moves(p, b) /\ Drops(a, b, Tail(a.ids), a.then) /\ Removes(Head(a.ids))
    BY <1>1, DropDoes, Zenon DEF HandInv
  <2>2. b.fsm = FrameOf(p).fsm /\ b.todo = FrameOf(p).todo
    BY <2>1, Zenon DEF Drops, Is
  <2> QED BY <2>1, <2>2, RemoveRefs, Zenon
<1>2. CASE Subscribe(t)
  <2>1. PICK p \in Frames, b \in Calls : LET a == FrameOf(p) IN
          /\ a.pc = "subscribe" /\ a.fsm \in Fsms /\ Moves(p, b)
          /\ Subscribes(a, b, Append(a.ids, next_id + 1), Append(a.errs, "ok"))
          /\ subs' = subs \cup {Subscription(next_id + 1, Types[Len(a.errs) + 1], a.fsm)}
          /\ ~impl[a.fsm].destroying /\ Counts(a.fsm, 1)
    BY <1>2, SubscribeDoes, Zenon DEF HandInv
  <2>2. b.fsm = FrameOf(p).fsm /\ b.todo = FrameOf(p).todo
    BY <2>1, Zenon DEF Subscribes, Is
  <2>3. PICK new : new = Subscription(next_id + 1, Types[Len(FrameOf(p).errs) + 1], FrameOf(p).fsm)
    BY Zenon
  <2>4. subs' = subs \cup {new} /\ new.id = next_id + 1 /\ new.ctx = FrameOf(p).fsm
    BY <2>1, <2>3, Zenon DEF Subscription
  <2>5. new.ctx \in Fsms /\ ~impl[new.ctx].destroying /\ Counts(new.ctx, 1) /\ IdsUsed
    BY <2>1, <2>4, Zenon DEF HandInv
  <2> QED BY <2>1, <2>2, <2>4, <2>5, AddRefs, Zenon
<1>3. ASSUME NEW type \in Entries(Types), AppSubscribe(t, type) PROVE RefsInv'
  <2>1. stack' = stack /\ subs' = subs \cup {Subscription(next_id + 1, type, App)} /\ impl' = impl
    BY <1>3, Zenon DEF AppSubscribe, Subscribed
  <2>2. PICK p \in Frames, b \in Calls : Moves(p, b) /\ b = FrameOf(p)
    BY <2>1, Still, Zenon
  <2>3. PICK new : new = Subscription(next_id + 1, type, App)
    BY Zenon
  <2>4. subs' = subs \cup {new} /\ new.id = next_id + 1 /\ new.ctx = App /\ IdsUsed
    BY <2>1, <2>3, Zenon DEF Subscription, HandInv
  <2>5. b.fsm = FrameOf(p).fsm /\ b.todo = FrameOf(p).todo
    BY <2>2, Zenon
  <2> QED BY <2>1, <2>2, <2>4, <2>5, AddRefs, Zenon
<1>4. ASSUME NEW id \in 1 .. MaxId, AppUnsubscribe(t, id) PROVE RefsInv'
  <2>1. stack' = stack /\ Removes(id)
    BY <1>4, UnsubscribedRemoves, Zenon DEF AppUnsubscribe
  <2>2. PICK p \in Frames, b \in Calls : Moves(p, b) /\ b = FrameOf(p)
    BY <2>1, Still, Zenon
  <2>3. b.fsm = FrameOf(p).fsm /\ b.todo = FrameOf(p).todo
    BY <2>2, Zenon
  <2> QED BY <2>1, <2>2, <2>3, RemoveRefs, Zenon
<1> QED BY <1>1, <1>2, <1>3, <1>4, Zenon

\* The bus goes with all of its subscriptions, and their references.
LEMMA DestroyBusRefs ==
  ASSUME TypeOK, TypeOK', RefsInv, NEW t \in Threads, DestroyBus(t)
  PROVE  RefsInv'
<1>1. /\ stack' = stack /\ subs' = {}
      /\ \A f \in Fsms : impl'[f] = IF Of(f, subs) = {} THEN impl[f] ELSE Released(f, Cardinality(Of(f, subs)))[f]
  BY Zenon DEF DestroyBus
<1>2. PICK p \in Frames, b \in Calls : Moves(p, b) /\ b = FrameOf(p)
  BY <1>1, Still, Zenon
<1>3. ASSUME NEW f \in Fsms PROVE Exact(f)' /\ IsFiniteSet(InSnapshots(f))'
  <2>1. PICK n : n = Cardinality(Of(f, subs))
    BY Zenon
  <2>2. n \in Nat /\ (Of(f, subs) # {} => n > 0) /\ IsFiniteSet(Of(f, subs))
    BY <2>1, OfCounts, Zenon DEF TypeOK
  <2>3. Of(f, subs') = {} /\ Cardinality(Of(f, subs')) = 0
    BY <1>1, FS_EmptySet, Zenon DEF Of
  <2>4. impl[f].refs \in Int /\ impl[f] \in Impls
    BY Zenon DEF TypeOK, Impls
  <2>5. CASE Of(f, subs) = {}
    <3>1. impl'[f] = impl[f] /\ Of(f, subs') = Of(f, subs)
      BY <1>1, <2>3, <2>5, Zenon
    <3>2. 0 \in Int /\ impl'[f].refs = impl[f].refs + 0
      BY <2>4, <3>1
    <3>3. Cardinality(Of(f, subs')) = Cardinality(Of(f, subs)) + 0
      BY <3>1, SameSubs, Zenon
    <3>4. Shift(f, 0)
      BY <1>2, <3>1, <3>2, <3>3, MoveShifts, Zenon
    <3> QED BY <3>1, <3>2, <3>4, Balanced, Zenon
  <2>6. CASE Of(f, subs) # {}
    <3>1. n > 0 /\ impl'[f] = Released(f, n)[f]
      BY <1>1, <2>1, <2>2, <2>6, Zenon
    <3>2. /\ impl'[f].handle = impl[f].handle /\ impl'[f].destroying = impl[f].destroying
          /\ impl'[f].refs = impl[f].refs + (0 - n)
          /\ impl'[f].freed = (impl[f].freed \/ (impl[f].destroying /\ impl[f].refs = 0 - (0 - n)))
      <4>1. n \in Nat
        BY <2>2, Zenon
      <4>2. PICK r : r = Released(f, n)[f]
        BY Zenon
      <4>3. /\ r.handle = impl[f].handle /\ r.destroying = impl[f].destroying /\ r.refs = impl[f].refs + (0 - n)
            /\ r.freed = (impl[f].freed \/ (impl[f].destroying /\ impl[f].refs = 0 - (0 - n)))
        BY <3>1, <4>1, <4>2, ReleasedCounts, Zenon
      <4> QED BY <3>1, <4>2, <4>3, Zenon
    <3>3. 0 - n \in Int /\ 0 - n < 0 /\ Cardinality(Of(f, subs')) = Cardinality(Of(f, subs)) + (0 - n)
      BY <2>1, <2>2, <2>3, <3>1
    <3>4. Shift(f, 0 - n)
      BY <1>2, <3>2, <3>3, MoveShifts, Zenon
    <3> QED BY <3>2, <3>3, <3>4, Balanced, Zenon
  <2> QED BY <2>5, <2>6, Zenon
<1> QED BY <1>3, Zenon DEF RefsInv

\* Every step keeps the references exact.
LEMMA StepRefs ==
  ASSUME TypeOK, TypeOK', HandInv, RefsInv, Next
  PROVE  RefsInv'
<1>1. PICK t \in Threads : Begin(t) \/ Step(t)
  BY Zenon DEF Next
<1>2. ASSUME NEW f \in Fsms, NEW i \in 1 .. Len(Types), BeginFsmPublish(t, f, i) PROVE RefsInv'
  <2>1. subs' = subs /\ Counts(f, 1) /\ impl[f].handle
    BY <1>2, BeginFsmPublishDoes, Zenon DEF HandInv
  <2>2. PICK p \in Frames, b \in Calls, from \in Nat :
          FrameOf(p) = NewFrame /\ Moves(p, b) /\ Is(b, "publish", f, Types[i], from, {}, <<>>, <<>>, "leave")
    BY <1>2, BeginFsmPublishDoes, Zenon DEF HandInv
  <2>3. b.fsm = f /\ b.todo = {}
    BY <2>2, Zenon DEF Is
  <2> QED BY <2>1, <2>2, <2>3, CallRefs, Zenon
<1>3. ASSUME NEW f \in Fsms, NEW on \in BOOLEAN, BeginSetBus(t, f, on) PROVE RefsInv'
  <2>1. subs' = subs /\ Counts(f, 1) /\ impl[f].handle
    BY <1>3, BeginSetBusDoes, Zenon
  <2>2. PICK p \in Frames, b \in Calls, then \in {"subscribe", "attach"} :
          FrameOf(p) = NewFrame /\ Moves(p, b) /\ Is(b, "detach", f, "none", 0, {}, <<>>, <<>>, then)
    BY <1>3, BeginSetBusDoes, Zenon
  <2>3. b.fsm = f /\ b.todo = {}
    BY <2>2, Zenon DEF Is
  <2> QED BY <2>1, <2>2, <2>3, CallRefs, Zenon
<1>4. CASE Begin(t)
  BY <1>2, <1>3, <1>4, QuietRefs, BeginDestroyRefs, SubscriptionRefs, DestroyBusRefs, Zenon DEF Begin
<1>5. CASE Step(t)
  BY <1>5, QuietRefs, PublishRefs, CallbackRefs, SubscriptionRefs, LeaveRefs, Zenon DEF Step
<1> QED BY <1>1, <1>4, <1>5, Zenon

-----------------------------------------------------------------------------
(* The theorems. *)

IInv == TypeOK /\ HandInv /\ EchoInv /\ RefsInv

\* A step that changes nothing keeps what is said of the state.
LEMMA Stutters ==
  ASSUME UNCHANGED vars
  PROVE  /\ TypeOK' = TypeOK /\ HandInv' = HandInv /\ EchoInv' = EchoInv /\ RefsInv' = RefsInv
<1>1. /\ bus' = bus /\ subs' = subs /\ next_id' = next_id /\ impl' = impl /\ stack' = stack
  BY Zenon DEF vars
<1>2. TypeOK' = TypeOK
  BY <1>1, Zenon DEF TypeOK, FrameOf, NewFrame, Depth, Frames, Calls, Subs, Kinds, Impls, Contexts, Pcs, Entries
<1>3. HandInv' = HandInv
  <2>1. \A p : FrameOf(p)' = FrameOf(p)
    BY <1>1, Zenon DEF FrameOf, NewFrame, Depth
  <2>2. ASSUME NEW p \in Frames
        PROVE  /\ CallOK(FrameOf(p))' <=> CallOK(FrameOf(p))
               /\ OnBehalf(FrameOf(p))' <=> OnBehalf(FrameOf(p))
               /\ Progress(FrameOf(p))' <=> Progress(FrameOf(p))
    <3>1. PICK a : a = FrameOf(p) /\ FrameOf(p)' = a
      BY <2>1, Zenon
    <3>2. CallOK(FrameOf(p))' <=> CallOK(FrameOf(p))
      BY <1>1, <3>1, Zenon DEF CallOK
    <3>3. OnBehalf(FrameOf(p))' <=> OnBehalf(FrameOf(p))
      BY <1>1, <3>1, Zenon DEF OnBehalf, Setter
    <3>4. Progress(FrameOf(p))' <=> Progress(FrameOf(p))
      BY <1>1, <3>1, Zenon DEF Progress, Aligned, Entries
    <3> QED BY <3>2, <3>3, <3>4, Zenon
  <2>3. Controlled' = Controlled
    BY <2>2, Zenon DEF Controlled, Frames
  <2>4. Destroying' = Destroying /\ AllOrNone' = AllOrNone
    BY <1>1, Zenon DEF Destroying, AllOrNone, Subscription
  <2>5. IdsUsed' = IdsUsed
    BY <1>1 DEF IdsUsed, FrameOf, Depth, Frames, NewFrame, Entries
  <2>6. OwnIds' = OwnIds
    BY <1>1 DEF OwnIds, FrameOf, Depth, Frames, NewFrame, Entries
  <2>7. OneHand' = OneHand
    BY <1>1 DEF OneHand, Setter, FrameOf, Depth, Frames, NewFrame, Entries
  <2>8. NoneLeftBehind' = NoneLeftBehind
    BY <1>1 DEF NoneLeftBehind, InCalls, FrameOf, Depth, Frames, NewFrame, Entries
  <2> QED BY <2>3, <2>4, <2>5, <2>6, <2>7, <2>8, Zenon DEF HandInv
<1>4. EchoInv' = EchoInv
  <2>1. \A p : FrameOf(p)' = FrameOf(p)
    BY <1>1, Zenon DEF FrameOf, NewFrame, Depth
  <2>2. ASSUME NEW p \in Frames
        PROVE  /\ HadFrom(FrameOf(p))' <=> HadFrom(FrameOf(p))
               /\ Silent(FrameOf(p))' <=> Silent(FrameOf(p))
    <3>1. PICK a : a = FrameOf(p) /\ FrameOf(p)' = a
      BY <2>1, Zenon
    <3>2. HadFrom(FrameOf(p))' <=> HadFrom(FrameOf(p))
      BY <1>1, <2>1, <3>1, ZenonT(60) DEF HadFrom, Frames, Entries
    <3>3. Silent(FrameOf(p))' <=> Silent(FrameOf(p))
      BY <1>1, <3>1, Zenon DEF Silent, Of, Entries
    <3> QED BY <3>2, <3>3, Zenon
  <2> QED BY <1>1, <2>2, Zenon DEF EchoInv, Frames
<1>5. RefsInv' = RefsInv
  BY <1>1 DEF RefsInv, Exact, Owners, InCalls, InSnapshots, FrameOf, Depth, Frames, NewFrame, Of
<1> QED BY <1>2, <1>3, <1>4, <1>5, Zenon

\* At the start there are no calls and no subscriptions, and every FSM has its handle.
LEMMA InitIInv ==
  ASSUME Init
  PROVE  IInv
<1>1. /\ bus = TRUE /\ subs = {} /\ next_id = 0 /\ impl = [f \in Fsms |-> NewImpl] /\ stack = [t \in Threads |-> <<>>]
  BY Zenon DEF Init
<1>2. ASSUME NEW p \in Frames PROVE FrameOf(p) = NewFrame
  <2>1. p[1] \in Threads /\ p[2] \in 1 .. MaxDepth /\ MaxDepth \in Nat
    BY BusAssumption DEF Frames
  <2>2. Depth(p[1]) = 0
    BY <1>1, <2>1 DEF Depth
  <2>3. ~(p[2] <= Depth(p[1]))
    BY <2>1, <2>2
  <2> QED BY <2>3, Zenon DEF FrameOf
<1>3. /\ NewImpl \in Impls /\ NewImpl.handle = TRUE /\ NewImpl.refs = 1 /\ NewImpl.destroying = FALSE
      /\ NewImpl.freed = FALSE /\ NewImpl.ids = <<>>
  BY DEF NewImpl, Impls
<1>4. \A f \in Fsms : impl[f] = NewImpl
  BY <1>1, Zenon
<1>5. TypeOK
  <2>1. bus \in BOOLEAN /\ next_id \in Nat
    BY <1>1
  <2>2. subs \subseteq Subs /\ IsFiniteSet(subs) /\ IsFiniteSet(NewFrame.todo)
    BY <1>1, FS_EmptySet, NewFrameOK, Zenon
  <2>3. impl \in [Fsms -> Impls]
    BY <1>1, <1>3, Zenon
  <2>4. stack \in [Threads -> Seq(Calls)]
    <3>1. <<>> \in Seq(Calls)
      OBVIOUS
    <3> QED BY <1>1, <3>1, Zenon
  <2>5. \A t \in Threads : Depth(t) <= MaxDepth
    BY <1>1, BusAssumption DEF Depth
  <2> QED BY <1>2, <2>1, <2>2, <2>3, <2>4, <2>5, Zenon DEF TypeOK
<1>6. HandInv
  <2>1. Len(<<>>) = 0 /\ \A i \in 1 .. 0 : FALSE
    OBVIOUS
  <2>2. CallOK(NewFrame) /\ OnBehalf(NewFrame) /\ Progress(NewFrame) /\ ~Setter(NewFrame)
    <3>1. NewFrame.pc = "leave" /\ NewFrame.ids = <<>> /\ NewFrame.todo = {}
      BY NewFrameOK, Zenon
    <3> QED BY <3>1, Zenon DEF CallOK, OnBehalf, Progress, Setter
  <2>3. Controlled
    BY <1>2, <2>2, Zenon DEF Controlled
  <2>4. Destroying
    BY <1>3, <1>4, Zenon DEF Destroying
  <2>5. IdsUsed
    <3>1. 0 <= 0
      OBVIOUS
    <3> QED BY <1>1, <1>2, <1>3, <1>4, <3>1, EntriesNone, NewFrameOK, Zenon DEF IdsUsed
  <2>6. OwnIds /\ NoneLeftBehind
    BY <1>1, Zenon DEF OwnIds, NoneLeftBehind
  <2>7. OneHand
    BY <1>2, <2>2, EntriesNone, NewFrameOK, Zenon DEF OneHand
  <2>8. AllOrNone
    BY <1>3, <1>4, <2>1, Zenon DEF AllOrNone
  <2> QED BY <2>3, <2>4, <2>5, <2>6, <2>7, <2>8, Zenon DEF HandInv
<1>7. EchoInv
  <2>1. HadFrom(NewFrame) /\ Silent(NewFrame)
    BY NewFrameOK, Zenon DEF HadFrom, Silent
  <2> QED BY <1>1, <1>2, <2>1, Zenon DEF EchoInv
<1>8. RefsInv
  <2>1. ASSUME NEW f \in Fsms PROVE Exact(f) /\ IsFiniteSet(InSnapshots(f))
    <3>1. InCalls(f) = {}
      BY <1>2, NewFrameOK, BusAssumption, Zenon DEF InCalls
    <3>2. Of(f, subs) = {} /\ Of(f, NewFrame.todo) = {}
      BY <1>1, NewFrameOK, Zenon DEF Of
    <3>3. InSnapshots(f) = {}
      <4>1. ASSUME NEW p \in Frames, NEW x \in {p} \X Of(f, FrameOf(p).todo) PROVE FALSE
        <5>1. Of(f, FrameOf(p).todo) = {}
          BY <1>2, <3>2, Zenon
        <5> QED BY <4>1, <5>1
      <4> QED BY <4>1, Zenon DEF InSnapshots
    <3>4. Cardinality({}) = 0 /\ IsFiniteSet({})
      BY FS_EmptySet, Zenon
    <3>5. Owners(f) = 1 + 0 + 0 + 0
      BY <1>3, <1>4, <3>1, <3>2, <3>3, <3>4, Zenon DEF Owners
    <3>6. Owners(f) = 1 /\ Owners(f) # 0
      BY <3>5
    <3> QED BY <1>3, <1>4, <3>3, <3>4, <3>6, Zenon DEF Exact
  <2> QED BY <2>1, Zenon DEF RefsInv
<1> QED BY <1>5, <1>6, <1>7, <1>8, Zenon DEF IInv

\* Every behaviour of the bus keeps the inductive invariant.
LEMMA BusInvariant == Spec => []IInv
<1>1. Init => IInv
  BY InitIInv, Zenon
<1>2. IInv /\ [Next]_vars => IInv'
  <2>1. ASSUME IInv, Next PROVE IInv'
    <3>1. TypeOK'
      BY <2>1, StepTypes, Zenon DEF IInv, HandInv
    <3> QED BY <2>1, <3>1, StepHand, StepEcho, StepRefs, Zenon DEF IInv
  <2>2. ASSUME IInv, UNCHANGED vars PROVE IInv'
    BY <2>2, Stutters, Zenon DEF IInv
  <2> QED BY <2>1, <2>2, Zenon
<1> QED BY <1>1, <1>2, PTL DEF Spec

\* No subscription is left behind on the bus: detaching or destroying an FSM from any
\* thread, and from inside callbacks, finds each of its subscriptions.
THEOREM NothingEverLeftBehind == Spec => []NoneLeftBehind
<1>1. IInv => NoneLeftBehind
  BY Zenon DEF IInv, HandInv
<1> QED BY <1>1, BusInvariant, PTL

\* An FSM is subscribed to all of its event types or to none, whichever of its
\* subscriptions fail.
THEOREM AlwaysAllOrNone == Spec => []AllOrNone
<1>1. IInv => AllOrNone
  BY Zenon DEF IInv, HandInv
<1> QED BY <1>1, BusInvariant, PTL

\* An FSM does not hear what it publishes itself, as long as it has not been attached anew.
THEOREM NeverEchoes == Spec => []NoEcho
<1>1. IInv => NoEcho
  <2>1. ASSUME IInv, NEW f \in Fsms, NEW p \in InCalls(f), FrameOf(p).from # 0, FrameOf(p).from \in Entries(impl[f].ids)
        PROVE  Of(f, FrameOf(p).todo) = {}
    <3>1. p \in Frames /\ FrameOf(p).fsm = f
      BY Zenon DEF InCalls
    <3>2. Silent(FrameOf(p))
      BY <2>1, <3>1, Zenon DEF IInv, EchoInv
    <3> QED BY <2>1, <3>1, <3>2, Zenon DEF Silent
  <2> QED BY <2>1, Zenon DEF NoEcho
<1> QED BY <1>1, BusInvariant, PTL

\* The reference count of an FSM is the number of its owners in every state, and it is
\* freed exactly when it has been destroyed and the last of them is gone.
THEOREM BusRefsAlwaysExact == Spec => []RefsExact
<1>1. IInv => RefsExact
  <2>1. ASSUME IInv, NEW f \in Fsms
        PROVE  impl[f].refs = Owners(f) /\ impl[f].freed = (impl[f].destroying /\ Owners(f) = 0)
    <3>1. impl[f].freed \in BOOLEAN /\ Exact(f)
      BY <2>1, Zenon DEF IInv, TypeOK, Impls, RefsInv
    <3> QED BY <3>1, Zenon DEF Exact
  <2> QED BY <2>1, Zenon DEF RefsExact
<1> QED BY <1>1, BusInvariant, PTL
=============================================================================
