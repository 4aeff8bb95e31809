------------------------------ MODULE EventBus ------------------------------
(***************************************************************************)
(* The event bus (event.c) and the FSMs that listen on it                  *)
(* (libbgp_fsm_set_event_bus, libbgp_fsm_destroy): subscriptions that hold *)
(* a reference on their FSM, publication to a snapshot of the subscribers  *)
(* outside the lock, and an application that attaches, detaches, publishes *)
(* and destroys from several threads and from inside callbacks.            *)
(*                                                                         *)
(* There is one bus.  A context is an FSM or the application, whose        *)
(* subscriptions hold no reference.  Each section of code under the bus's  *)
(* or the FSM's lock is one step; the release of a reference is part of    *)
(* the step before it.                                                     *)
(***************************************************************************)
EXTENDS Integers, Sequences, FiniteSets

CONSTANTS
  Threads, Fsms,
  App,           \* the application as a subscriber
  Types,         \* the event types an FSM subscribes to, in its order
  StackSnapshot, \* BGP_EVENT_STACK_SNAPSHOT (64)
  AllocFails,    \* allocations may fail
  MaxDepth,      \* bound: how deep calls nest inside callbacks
  MaxCalls,      \* bound: calls begun
  MaxId          \* bound: subscriptions made

ASSUME BusAssumption ==
  /\ App \notin Fsms /\ IsFiniteSet(Threads)
  /\ Types \in Seq(STRING) /\ Types # <<>>
  /\ \A i, j \in 1 .. Len(Types) : Types[i] = Types[j] => i = j
  /\ StackSnapshot \in Nat /\ AllocFails \in BOOLEAN
  /\ MaxDepth \in Nat \ {0} /\ MaxCalls \in Nat /\ MaxId \in Nat

VARIABLES
  bus,           \* bus->impl is not NULL
  subs, next_id, \* event_bus_impl_t
  impl,          \* the part of fsm_impl_t that matters here
  stack,         \* the calls each thread is in, innermost last
  calls          \* history: calls begun

vars == <<bus, subs, next_id, impl, stack, calls>>

Contexts == Fsms \cup {App}

\* A subscription.  The ids grow and removal keeps the array in order, so that the
\* set of its entries is the array: an entry is before those of greater ids.
Subscription(id, type, c) == [id |-> id, type |-> type, ctx |-> c]

Entries(seq) == {seq[i] : i \in 1 .. Len(seq)}

\* handle: the application's handle still points to it.  attached: impl->bus is
\* set.  ids: the recorded subscription ids, all of them or none.
NewImpl == [handle |-> TRUE, refs |-> 1, destroying |-> FALSE, freed |-> FALSE,
            attached |-> FALSE, ids |-> <<>>]

\* fsm: whom the call is for.  type, from: the event, and the id it is published
\* under (0: none).  todo: the subscriptions of the snapshot still to be called, the
\* first of them being called.  ids: subscription ids the call has in its variables.  errs: results of its subscriptions.
\* then: where it goes on after unsubscribing.
NewFrame == [pc |-> "leave", fsm |-> App, type |-> "none", from |-> 0, todo |-> {},
             ids |-> <<>>, errs |-> <<>>, then |-> "leave"]

Init ==
  /\ bus = TRUE /\ subs = {} /\ next_id = 0
  /\ impl = [f \in Fsms |-> NewImpl]
  /\ stack = [t \in Threads |-> <<>>]
  /\ calls = 0

Depth(t) == Len(stack[t])
Top(t) == stack[t][Depth(t)]
At(t, pc) == Depth(t) > 0 /\ Top(t).pc = pc
Become(t, fr) == stack' = [stack EXCEPT ![t][Depth(t)] = fr]
Return(t) == stack' = [stack EXCEPT ![t] = SubSeq(@, 1, Len(@) - 1)]

\* fsm_impl_acquire, where the caller has seen that f is not being destroyed.
Held(f) == [impl EXCEPT ![f].refs = @ + 1]

\* fsm_impl_release_free of n references.
Released(f, n) ==
  [impl EXCEPT ![f].refs = @ - n,
               ![f].freed = @ \/ (impl[f].destroying /\ impl[f].refs = n)]

\* The release function of a subscription; the application's have none.
ReleasedCtx(c) == IF c = App THEN impl ELSE Released(c, 1)

-----------------------------------------------------------------------------
(* Beginning a call: application code runs outside the library or in a       *)
(* callback.                                                                 *)

CanCall(t) ==
  /\ calls < MaxCalls
  /\ Depth(t) = 0 \/ (At(t, "callback") /\ Depth(t) < MaxDepth)

Call(t, fr) ==
  /\ CanCall(t)
  /\ stack' = [stack EXCEPT ![t] = Append(@, fr)]
  /\ calls' = calls + 1

\* A call for an FSM, by the first lines of which it has a reference.
CallFsm(t, f, fr) ==
  /\ impl[f].handle
  /\ Call(t, fr)
  /\ impl' = Held(f)
  /\ UNCHANGED <<bus, subs, next_id>>

\* The application publishes under no id.
BeginPublish(t, type) ==
  /\ Call(t, [NewFrame EXCEPT !.pc = "publish", !.type = type])
  /\ UNCHANGED <<bus, subs, next_id, impl>>

\* A call into f reads its bus and the id of its subscription to the type of the
\* event, and unlocks: the event is published later.
BeginFsmPublish(t, f, i) ==
  /\ impl[f].attached
  /\ CallFsm(t, f, [NewFrame EXCEPT !.pc = "publish", !.fsm = f, !.type = Types[i],
                                    !.from = IF impl[f].ids = <<>> THEN 0 ELSE impl[f].ids[i]])

Setting(f) == \E t \in Threads : \E i \in 1 .. Depth(t) :
                stack[t][i].fsm = f /\ stack[t][i].pc \in {"detach", "drop", "subscribe", "attach"}

\* libbgp_fsm_set_event_bus, with the bus or with NULL.  fsm.h asks the application
\* to synchronize the replacement of an FSM's bus.
BeginSetBus(t, f, on) ==
  /\ ~Setting(f)
  /\ CallFsm(t, f, [NewFrame EXCEPT !.pc = "detach", !.fsm = f,
                                    !.then = IF on THEN "subscribe" ELSE "attach"])

\* libbgp_fsm_destroy: the call takes over the reference of the handle.
BeginDestroy(t, f) ==
  /\ impl[f].handle
  /\ Call(t, [NewFrame EXCEPT !.pc = "destroy", !.fsm = f])
  /\ impl' = [impl EXCEPT ![f].handle = FALSE]
  /\ UNCHANGED <<bus, subs, next_id>>

Leave(t) ==
  /\ At(t, "leave")
  /\ Return(t)
  /\ impl' = ReleasedCtx(Top(t).fsm)
  /\ UNCHANGED <<bus, subs, next_id, calls>>

-----------------------------------------------------------------------------
(* The bus. *)

\* A subscription succeeds when there is a bus, memory, and an FSM to retain.
Subscribed(c, type) ==
  /\ next_id < MaxId
  /\ next_id' = next_id + 1
  /\ subs' = subs \cup {Subscription(next_id + 1, type, c)}
  /\ impl' = IF c = App THEN impl ELSE Held(c)

\* fsm_event_ctx_retain refuses an FSM that is being destroyed.
Retains(c) == c \in Fsms => ~impl[c].destroying

CanSubscribe(c) == bus /\ Retains(c)

\* libbgp_event_bus_unsubscribe: nothing happens if the id is not there.  A bus
\* that is gone has no subscriptions.
Unsubscribed(id) ==
  \/ \E sub \in subs : sub.id = id /\ subs' = subs \ {sub} /\ impl' = ReleasedCtx(sub.ctx)
  \/ (\A sub \in subs : sub.id # id) /\ UNCHANGED <<subs, impl>>

\* The application subscribes and unsubscribes for itself.
AppSubscribe(t, type) ==
  /\ CanCall(t) /\ CanSubscribe(App)
  /\ Subscribed(App, type)
  /\ calls' = calls + 1
  /\ UNCHANGED <<bus, stack>>

AppUnsubscribe(t, id) ==
  /\ CanCall(t)
  /\ \E sub \in subs : sub.id = id /\ sub.ctx = App
  /\ Unsubscribed(id)
  /\ calls' = calls + 1
  /\ UNCHANGED <<bus, next_id, stack>>

\* Mutant: the publisher is not left out.
MatchesAll(sub, type, from) == sub.type = type

Matches(sub, type, from) == sub.type = type /\ (from = 0 \/ sub.id # from)

Matching(type, from) == {sub \in subs : Matches(sub, type, from)}

\* The subscriptions an event is for, without those of FSMs that are being destroyed
\* and cannot be retained.
Snapshot(type, from) == {sub \in Matching(type, from) : Retains(sub.ctx)}

Of(f, entries) == {sub \in entries : sub.ctx = f}

\* Mutant: the snapshot takes no references.
PublishUnretained(t) ==
  /\ At(t, "publish")
  /\ LET todo == Snapshot(Top(t).type, Top(t).from)
     IN  Become(t, [Top(t) EXCEPT !.pc = IF todo = {} THEN "leave" ELSE "deliver", !.todo = todo])
  /\ UNCHANGED <<bus, subs, next_id, impl, calls>>

\* libbgp_event_bus_publish_from up to the unlock.
Publish(t) ==
  /\ At(t, "publish")
  /\ LET todo == Snapshot(Top(t).type, Top(t).from)
     IN  /\ Become(t, [Top(t) EXCEPT !.pc = IF todo = {} THEN "leave" ELSE "deliver", !.todo = todo])
         /\ impl' = [f \in Fsms |-> [impl[f] EXCEPT !.refs = @ + Cardinality(Of(f, todo))]]
  /\ UNCHANGED <<bus, subs, next_id, calls>>

\* More subscribers than fit on the stack, and no memory: nobody is told.
PublishNoMemory(t) ==
  /\ At(t, "publish") /\ AllocFails
  /\ Cardinality(Matching(Top(t).type, Top(t).from)) > StackSnapshot
  /\ Become(t, [Top(t) EXCEPT !.pc = "leave"])
  /\ UNCHANGED <<bus, subs, next_id, impl, calls>>

First(todo) == {sub \in todo : \A other \in todo : sub.id <= other.id}

\* The next subscriber of the snapshot is called ...
Deliver(t) ==
  /\ At(t, "deliver")
  /\ Become(t, [Top(t) EXCEPT !.pc = "callback"])
  /\ UNCHANGED <<bus, subs, next_id, impl, calls>>

\* ... and released.
CallbackReturns(t) ==
  /\ At(t, "callback")
  /\ \E sub \in First(Top(t).todo) :
       LET rest == Top(t).todo \ {sub}
       IN  /\ impl' = ReleasedCtx(sub.ctx)
           /\ Become(t, [Top(t) EXCEPT !.todo = rest, !.pc = IF rest = {} THEN "leave" ELSE "deliver"])
  /\ UNCHANGED <<bus, subs, next_id, calls>>

\* libbgp_event_bus_destroy
DestroyBus(t) ==
  /\ CanCall(t) /\ bus
  /\ bus' = FALSE /\ subs' = {}
  /\ impl' = [f \in Fsms |-> IF Of(f, subs) = {} THEN impl[f]
                             ELSE Released(f, Cardinality(Of(f, subs)))[f]]
  /\ calls' = calls + 1
  /\ UNCHANGED <<next_id, stack>>

-----------------------------------------------------------------------------
(* Attaching and detaching an FSM. *)

\* Unsubscribe ids one after the other, and go on.
Dropping(fr, ids, then) ==
  [fr EXCEPT !.pc = IF ids = <<>> THEN then ELSE "drop", !.ids = ids, !.then = then]

\* The first lock section of libbgp_fsm_set_event_bus.
Detach(t) ==
  /\ At(t, "detach")
  /\ LET f == Top(t).fsm
     IN  /\ Become(t, Dropping(Top(t), impl[f].ids, Top(t).then))
         /\ impl' = [impl EXCEPT ![f].attached = FALSE, ![f].ids = <<>>]
  /\ UNCHANGED <<bus, subs, next_id, calls>>

\* fsm_unsubscribe_route_events
Drop(t) ==
  /\ At(t, "drop")
  /\ Unsubscribed(Head(Top(t).ids))
  /\ Become(t, Dropping(Top(t), Tail(Top(t).ids), Top(t).then))
  /\ UNCHANGED <<bus, next_id, calls>>

\* Mutant: the subscriptions that succeeded are kept.
SubscribingKeepsSome(fr, ids, errs) ==
  [fr EXCEPT !.ids = ids, !.errs = errs, !.pc = IF Len(errs) < Len(Types) THEN @ ELSE "attach"]

\* After the last subscription: all of them are kept, or none.
Subscribing(fr, ids, errs) ==
  LET now == [fr EXCEPT !.ids = ids, !.errs = errs]
  IN  IF Len(errs) < Len(Types) THEN now
      ELSE IF "failed" \in Entries(errs) THEN Dropping(now, ids, "attach")
      ELSE [now EXCEPT !.pc = "attach"]

\* The next subscription is skipped when the one before it has failed.
Skipped(fr) == fr.errs # <<>> /\ fr.errs[Len(fr.errs)] = "failed"

Subscribe(t) ==
  /\ At(t, "subscribe") /\ ~Skipped(Top(t)) /\ CanSubscribe(Top(t).fsm)
  /\ LET fr == Top(t)
     IN  /\ Subscribed(fr.fsm, Types[Len(fr.errs) + 1])
         /\ Become(t, Subscribing(fr, Append(fr.ids, next_id + 1), Append(fr.errs, "ok")))
  /\ UNCHANGED <<bus, calls>>

SubscribeFails(t) ==
  /\ At(t, "subscribe") /\ ~Skipped(Top(t))
  /\ AllocFails \/ ~CanSubscribe(Top(t).fsm)
  /\ Become(t, Subscribing(Top(t), Top(t).ids, Append(Top(t).errs, "failed")))
  /\ UNCHANGED <<bus, subs, next_id, impl, calls>>

SubscribeSkipped(t) ==
  /\ At(t, "subscribe") /\ Skipped(Top(t))
  /\ Become(t, Subscribing(Top(t), Top(t).ids, Append(Top(t).errs, "skipped")))
  /\ UNCHANGED <<bus, subs, next_id, impl, calls>>

\* Mutant: a destroyed FSM does not give its new subscriptions back.
AttachForgets(t) ==
  /\ At(t, "attach")
  /\ LET fr == Top(t)
     IN  /\ Become(t, [fr EXCEPT !.pc = "leave", !.ids = <<>>])
         /\ impl' = IF impl[fr.fsm].destroying THEN impl
                    ELSE [impl EXCEPT ![fr.fsm].attached = (fr.errs # <<>>), ![fr.fsm].ids = fr.ids]
  /\ UNCHANGED <<bus, subs, next_id, calls>>

\* The last lock section: the FSM is attached, unless it is being destroyed.
Attach(t) ==
  /\ At(t, "attach")
  /\ LET fr == Top(t)
     IN  IF impl[fr.fsm].destroying
           THEN /\ Become(t, Dropping(fr, fr.ids, "leave"))
                /\ UNCHANGED impl
           ELSE /\ Become(t, [fr EXCEPT !.pc = "leave", !.ids = <<>>])
                /\ impl' = [impl EXCEPT ![fr.fsm].attached = (fr.errs # <<>>), ![fr.fsm].ids = fr.ids]
  /\ UNCHANGED <<bus, subs, next_id, calls>>

\* The lock section of libbgp_fsm_destroy.
Destroy(t) ==
  /\ At(t, "destroy")
  /\ LET f == Top(t).fsm
     IN  /\ Become(t, Dropping(Top(t), impl[f].ids, "leave"))
         /\ impl' = [impl EXCEPT ![f].attached = FALSE, ![f].ids = <<>>, ![f].destroying = TRUE]
  /\ UNCHANGED <<bus, subs, next_id, calls>>

Begin(t) ==
  \/ \E type \in Entries(Types) : BeginPublish(t, type) \/ AppSubscribe(t, type)
  \/ \E id \in 1 .. MaxId : AppUnsubscribe(t, id)
  \/ \E f \in Fsms :
       \/ \E i \in 1 .. Len(Types) : BeginFsmPublish(t, f, i)
       \/ \E on \in BOOLEAN : BeginSetBus(t, f, on)
       \/ BeginDestroy(t, f)
  \/ DestroyBus(t)

Step(t) ==
  \/ Publish(t) \/ PublishNoMemory(t) \/ Deliver(t) \/ CallbackReturns(t)
  \/ Detach(t) \/ Drop(t) \/ Subscribe(t) \/ SubscribeFails(t) \/ SubscribeSkipped(t)
  \/ Attach(t) \/ Destroy(t) \/ Leave(t)

Next == \E t \in Threads : Begin(t) \/ Step(t)

\* Threads in a call keep running and callbacks return; nobody has to call.
Spec == Init /\ [][Next]_vars

-----------------------------------------------------------------------------
(* Properties. *)

\* The places of the calls under way, and the call in one of them.
Frames == Threads \X (1 .. MaxDepth)
FrameOf(p) == IF p[2] <= Depth(p[1]) THEN stack[p[1]][p[2]] ELSE NewFrame

\* The references of an FSM: its handle, its subscriptions, the calls it is in, and
\* its places in the snapshots of publications under way.
InCalls(f) == {p \in Frames : FrameOf(p).fsm = f}
InSnapshots(f) == UNION {{p} \X Of(f, FrameOf(p).todo) : p \in Frames}

Owners(f) ==
  (IF impl[f].handle THEN 1 ELSE 0) + Cardinality(Of(f, subs))
  + Cardinality(InCalls(f)) + Cardinality(InSnapshots(f))

\* Every reference is counted once, and an FSM is freed when it is destroyed and
\* the last one is gone: the bus never calls a freed FSM, and a destroyed one that
\* no subscription was left behind for does not stay in memory.
RefsExact ==
  \A f \in Fsms : impl[f].refs = Owners(f) /\ impl[f].freed = (impl[f].destroying /\ Owners(f) = 0)

\* A subscription of an FSM on the bus is one the FSM has recorded, or one that a
\* call under way still has in hand, so that detaching and destroying find it.
NoneLeftBehind ==
  \A sub \in subs : sub.ctx \in Fsms =>
    \/ sub.id \in Entries(impl[sub.ctx].ids)
    \/ \E p \in InCalls(sub.ctx) : sub.id \in Entries(FrameOf(p).ids)

\* An FSM hears all of its event types or none, also when a subscription failed.
AllOrNone ==
  \A f \in Fsms :
    /\ Len(impl[f].ids) \in {0, Len(Types)}
    /\ bus => \A i \in 1 .. Len(impl[f].ids) : Subscription(impl[f].ids[i], Types[i], f) \in subs

\* An FSM is not told what it publishes itself, unless it was attached anew
\* between reading its id and publishing.
NoEcho ==
  \A f \in Fsms : \A p \in InCalls(f) :
    FrameOf(p).from # 0 /\ FrameOf(p).from \in Entries(impl[f].ids) => Of(f, FrameOf(p).todo) = {}
=============================================================================
