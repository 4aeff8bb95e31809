------------------------------ MODULE FsmCalls ------------------------------
(***************************************************************************)
(* What every call into an FSM has around it (fsm.c): the reference it     *)
(* takes on the implementation, the delivery of state changes to the       *)
(* application's callback outside the lock, the replacement of that        *)
(* callback, and libbgp_fsm_destroy, all of it by several threads and from *)
(* inside the callback itself.                                             *)
(*                                                                         *)
(* The state is abstracted to a number that grows with every change, so    *)
(* that two changes are never confused.  The FSM's three subscriptions on  *)
(* the event bus are one subscription here.  Each section of code under    *)
(* the FSM's lock is one step; a thread that waits on state_change_cond is *)
(* a thread whose step is not enabled.                                     *)
(***************************************************************************)
EXTENDS Integers, Sequences, FiniteSets

CONSTANTS
  Threads,
  Callbacks,     \* callback and context pairs the application registers
  NoCallback,    \* no callback is registered
  QueueCap,      \* FSM_STATE_CHANGE_QUEUE_CAP (32)
  MaxDepth,      \* bound: how deep calls nest inside callbacks
  MaxChanges,    \* bound: state changes
  MaxCalls       \* bound: calls begun

ASSUME CallsAssumption ==
  /\ IsFiniteSet(Threads) /\ Threads # {}
  /\ QueueCap \in Nat \ {0}
  /\ MaxDepth \in Nat /\ MaxChanges \in Nat /\ MaxCalls \in Nat
  /\ NoCallback \notin Callbacks

VARIABLES
  handle,        \* fsm->impl is not NULL
  refcount, destroy_started, freed,
  subscribed,    \* the event bus holds a reference
  state, queue,  \* impl->state and impl->state_changes
  dispatching,   \* state_change_dispatch_count
  dispatcher,    \* state_change_dispatch_thread
  callback,      \* state_change_cb and state_change_ctx
  stack,         \* the calls each thread is in, innermost last
  calls,         \* history: calls begun
  base,          \* history: the state when the callback was registered
  seen,          \* history: the changes that callback was given
  setter,        \* history: the thread that registered it
  crossed,       \* history: a nested call delivered before an outer one was done
  gap            \* history: a change was left out while earlier ones were waiting

object == <<handle, refcount, destroy_started, freed, subscribed>>
changes == <<state, queue>>
dispatch == <<dispatching, dispatcher>>
registered == <<callback, base, seen, setter>>
excuses == <<crossed, gap>>
vars == <<handle, refcount, destroy_started, freed, subscribed, state, queue,
          dispatching, dispatcher, callback, stack, calls, base, seen, setter, crossed, gap>>

NewFrame == [pc |-> "leave", todo |-> <<>>, cb |-> NoCallback]
Frame(pc) == [NewFrame EXCEPT !.pc = pc]
Depth(t) == Len(stack[t])
Top(t) == stack[t][Depth(t)]
At(t, pc) == Depth(t) > 0 /\ Top(t).pc = pc
Become(t, fr) == stack' = [stack EXCEPT ![t][Depth(t)] = fr]
Goto(t, pc) == Become(t, [Top(t) EXCEPT !.pc = pc])
Push(t, fr) == stack' = [stack EXCEPT ![t] = Append(@, fr)]

Init ==
  /\ handle = TRUE /\ destroy_started = FALSE /\ freed = FALSE
  /\ subscribed \in BOOLEAN
  /\ refcount = IF subscribed THEN 2 ELSE 1
  /\ state = 0 /\ queue = <<>>
  /\ dispatching = 0 /\ dispatcher = CHOOSE t \in Threads : TRUE
  /\ callback = NoCallback /\ base = 0 /\ seen = <<>> /\ setter = CHOOSE t \in Threads : TRUE
  /\ stack = [t \in Threads |-> <<>>]
  /\ calls = 0 /\ crossed = FALSE /\ gap = FALSE

-----------------------------------------------------------------------------
(* References. *)

\* A call is in application code in the state-change callback, and in send functions
\* and event subscribers: before it drains the changes it made, or after that and
\* before it delivers them.
CallsOut == {"drain", "deliver", "callback"}

\* Application code runs: a thread outside the library, or in a function called back.
CanCall(t) ==
  /\ calls < MaxCalls
  /\ Depth(t) < MaxDepth
  /\ Depth(t) > 0 => Top(t).pc \in CallsOut

\* fsm_handle_acquire and the first instructions of a call.
Acquire(t, fr) ==
  /\ CanCall(t) /\ handle
  /\ refcount' = refcount + 1
  /\ Push(t, fr)
  /\ calls' = calls + 1
  /\ UNCHANGED <<handle, destroy_started, freed, subscribed, changes, dispatch, registered, excuses>>

\* A call that may change the state: start, stop, a packet, a tick.
BeginCall(t) == Acquire(t, Frame("change"))

\* libbgp_fsm_set_state_change_cb
BeginSetCallback(t, c) == Acquire(t, [Frame("set") EXCEPT !.cb = c])

\* Mutant: the event runs without a reference of its own.
BeginEventUncounted(t) ==
  /\ CanCall(t) /\ subscribed /\ ~destroy_started
  /\ Push(t, Frame("change"))
  /\ calls' = calls + 1
  /\ UNCHANGED <<object, changes, dispatch, registered, excuses>>

\* The bus publishes to the FSM's subscription: fsm_event_ctx_retain takes a
\* reference of its own for the event, unless the FSM is being destroyed.
BeginEvent(t) ==
  /\ CanCall(t) /\ subscribed /\ ~destroy_started
  /\ refcount' = refcount + 1
  /\ Push(t, Frame("change"))
  /\ calls' = calls + 1
  /\ UNCHANGED <<handle, destroy_started, freed, subscribed, changes, dispatch, registered, excuses>>

\* fsm_impl_release, and fsm_impl_free by the one that took the last reference.
Drop ==
  /\ refcount' = refcount - 1
  /\ freed' = (freed \/ (destroy_started /\ refcount = 1))

Leave(t) ==
  /\ At(t, "leave")
  /\ Drop
  /\ stack' = [stack EXCEPT ![t] = SubSeq(@, 1, Len(@) - 1)]
  /\ UNCHANGED <<handle, destroy_started, subscribed, changes, dispatch, registered, calls, excuses>>

-----------------------------------------------------------------------------
(* State changes. *)

\* Mutant: a change that finds the queue full is dropped.
SetStateDrops(s) ==
  /\ state' = s
  /\ queue' = IF callback = NoCallback \/ s = state \/ Len(queue) >= QueueCap THEN queue
              ELSE Append(queue, [old |-> state, new |-> s])

\* fsm_set_state: a change is queued for the callback; when the queue is full it
\* is merged into the last entry.
SetState(s) ==
  /\ state' = s
  /\ queue' = IF callback = NoCallback \/ s = state THEN queue
              ELSE IF Len(queue) >= QueueCap THEN [queue EXCEPT ![QueueCap].new = s]
              ELSE Append(queue, [old |-> state, new |-> s])

\* Some change is queued or drained and not yet delivered.
Waiting == queue # <<>> \/ \E t \in Threads : \E i \in DOMAIN stack[t] : stack[t][i].todo # <<>>

\* The part of a call under the lock, which may or may not change the state.
Change(t) ==
  /\ At(t, "change")
  /\ \E s \in {state, state + 1} : s <= MaxChanges /\ SetState(s)
  /\ Goto(t, "drain")
  /\ gap' = (gap \/ (callback = NoCallback /\ state' # state /\ Waiting))
  /\ UNCHANGED <<object, dispatch, registered, calls, crossed>>

\* fsm_state_change_wait lets through the thread that is dispatching.
MayPass(t) == dispatching = 0 \/ dispatcher = t

\* Mutant: a thread drains while another one is delivering.
DrainAtOnce(t) ==
  /\ At(t, "drain")
  /\ IF queue = <<>>
       THEN /\ Goto(t, "leave")
            /\ UNCHANGED <<dispatch, crossed>>
       ELSE /\ Become(t, [NewFrame EXCEPT !.pc = "deliver", !.todo = queue, !.cb = callback])
            /\ dispatching' = dispatching + 1 /\ dispatcher' = t
            /\ crossed' = (crossed \/ \E i \in 1 .. Depth(t) - 1 : stack[t][i].todo # <<>>)
  /\ queue' = <<>>
  /\ UNCHANGED <<object, state, registered, calls, gap>>

\* fsm_drain_state_changes
Drain(t) ==
  /\ At(t, "drain") /\ MayPass(t)
  /\ IF queue = <<>>
       THEN /\ Goto(t, "leave")
            /\ UNCHANGED <<dispatch, crossed>>
       ELSE /\ Become(t, [NewFrame EXCEPT !.pc = "deliver", !.todo = queue, !.cb = callback])
            /\ dispatching' = dispatching + 1 /\ dispatcher' = t
            /\ crossed' = (crossed \/ \E i \in 1 .. Depth(t) - 1 : stack[t][i].todo # <<>>)
  /\ queue' = <<>>
  /\ UNCHANGED <<object, state, registered, calls, gap>>

\* libbgp_fsm_on_packet does not drain what the handlers before ESTABLISHED have
\* changed: it waits for a later call.
KeepQueued(t) ==
  /\ At(t, "drain")
  /\ Goto(t, "leave")
  /\ UNCHANGED <<object, changes, dispatch, registered, calls, excuses>>

\* fsm_dispatch_drained_state_changes: the next change goes to the callback,
\* provided it is still the registered one ...
Deliver(t) ==
  /\ At(t, "deliver")
  /\ Top(t).cb # NoCallback /\ Top(t).todo # <<>>
  /\ callback = Top(t).cb
  /\ Become(t, [Top(t) EXCEPT !.pc = "callback", !.todo = Tail(@)])
  /\ seen' = Append(seen, Head(Top(t).todo))
  /\ UNCHANGED <<object, changes, dispatch, callback, base, setter, calls, excuses>>

CallbackReturns(t) ==
  /\ At(t, "callback")
  /\ Goto(t, "deliver")
  /\ UNCHANGED <<object, changes, dispatch, registered, calls, excuses>>

\* Mutant: the dispatch that was cut short is not counted off.
EndDispatchForgets(t) ==
  /\ At(t, "deliver")
  /\ Top(t).cb = NoCallback \/ Top(t).todo = <<>> \/ callback # Top(t).cb
  /\ Become(t, Frame("leave"))
  /\ dispatching' = IF Top(t).todo = <<>> THEN dispatching - 1 ELSE dispatching
  /\ UNCHANGED <<object, changes, dispatcher, registered, calls, excuses>>

\* ... and when none is left, or it is not, waiting threads are woken.
EndDispatch(t) ==
  /\ At(t, "deliver")
  /\ Top(t).cb = NoCallback \/ Top(t).todo = <<>> \/ callback # Top(t).cb
  /\ Become(t, Frame("leave"))
  /\ dispatching' = dispatching - 1
  /\ UNCHANGED <<object, changes, dispatcher, registered, calls, excuses>>

\* Mutant: the callback is replaced without waiting.
SetCallbackAtOnce(t) ==
  /\ At(t, "set")
  /\ callback' = Top(t).cb
  /\ base' = state /\ seen' = <<>> /\ setter' = t
  /\ Goto(t, "leave")
  /\ UNCHANGED <<object, changes, dispatch, calls, excuses>>

\* libbgp_fsm_set_state_change_cb once the lock is held and no other thread is
\* dispatching.  Changes queued before stay queued.
SetCallback(t) ==
  /\ At(t, "set") /\ MayPass(t)
  /\ callback' = Top(t).cb
  /\ base' = state /\ seen' = <<>> /\ setter' = t
  /\ Goto(t, "leave")
  /\ UNCHANGED <<object, changes, dispatch, calls, excuses>>

-----------------------------------------------------------------------------
(* libbgp_fsm_destroy *)

\* The handle is taken away; the call now owns the reference it stood for.
BeginDestroy(t) ==
  /\ CanCall(t) /\ handle
  /\ handle' = FALSE
  /\ Push(t, Frame("destroy"))
  /\ calls' = calls + 1
  /\ UNCHANGED <<refcount, destroy_started, freed, subscribed, changes, dispatch, registered, excuses>>

\* Once no other thread is dispatching: no callback, no queue, no new references.
Destroy(t) ==
  /\ At(t, "destroy") /\ MayPass(t)
  /\ callback' = NoCallback
  /\ base' = state /\ seen' = <<>> /\ setter' = t
  /\ queue' = <<>>
  /\ destroy_started' = TRUE
  /\ Goto(t, "unsubscribe")
  /\ UNCHANGED <<handle, refcount, freed, subscribed, state, dispatch, calls, excuses>>

\* fsm_unsubscribe_route_events: the bus gives its reference back.
Unsubscribe(t) ==
  /\ At(t, "unsubscribe")
  /\ IF subscribed THEN Drop ELSE UNCHANGED <<refcount, freed>>
  /\ subscribed' = FALSE
  /\ Goto(t, "leave")
  /\ UNCHANGED <<handle, destroy_started, changes, dispatch, registered, calls, excuses>>

Begin(t) ==
  \/ BeginCall(t) \/ BeginEvent(t) \/ BeginDestroy(t)
  \/ \E c \in Callbacks \cup {NoCallback} : BeginSetCallback(t, c)

Step(t) ==
  \/ Change(t) \/ Drain(t) \/ KeepQueued(t) \/ Deliver(t) \/ CallbackReturns(t) \/ EndDispatch(t)
  \/ SetCallback(t) \/ Destroy(t) \/ Unsubscribe(t) \/ Leave(t)

Next == \E t \in Threads : Begin(t) \/ Step(t)

\* Threads in a call keep running and callbacks return; nobody has to call.
Spec == Init /\ [][Next]_vars /\ \A t \in Threads : WF_vars(Step(t))

-----------------------------------------------------------------------------
(* Properties. *)

Quiet == \A t \in Threads : stack[t] = <<>>

\* The calls in progress, by thread and depth.
InCall == {c \in Threads \X (1 .. MaxDepth) : c[2] <= Depth(c[1])}

\* Who has a reference: the handle, the subscription, and every call in progress.
Owners == (IF handle THEN 1 ELSE 0) + (IF subscribed THEN 1 ELSE 0) + Cardinality(InCall)

\* The reference count is the number of owners, and the implementation is freed
\* exactly when destroy has run and the last of them has left: no call, event or
\* subscription is left with freed memory, also when the callback destroys the
\* FSM it is called from.
RefsExact ==
  /\ refcount = Owners
  /\ freed = (destroy_started /\ Owners = 0)

\* Once a callback has been replaced or the FSM destroyed, the old callback is
\* not running any more, except around the very call that replaced it.
OldCallbackDone ==
  \A t \in Threads : \A i \in DOMAIN stack[t] :
    stack[t][i].pc = "callback" /\ stack[t][i].cb # callback => t = setter

\* A callback is given the changes in the order they happened, each one starting
\* where the one before it ended, whichever threads made and delivered them.  A
\* call from inside the callback may deliver its own change too early, and a change
\* made while no callback is registered is left out.
OrderKept ==
  crossed \/ gap \/ \A i \in 1 .. Len(seen) - 1 : seen[i].new = seen[i + 1].old

\* The queue of changes never grows past its array, and no change is lost to that:
\* what the callback was told, followed by what is still queued, leads to the
\* state, also when changes were merged in a full queue.
LatestReported ==
  /\ Len(queue) <= QueueCap
  /\ Quiet /\ callback # NoCallback /\ ~crossed /\ ~gap =>
       state = IF queue # <<>> THEN queue[Len(queue)].new
               ELSE IF seen # <<>> THEN seen[Len(seen)].new ELSE base

\* A destroyed FSM is freed: destroy never waits for ever for a dispatch, and no
\* reference is lost.
DestroyFrees == ~handle ~> freed
=============================================================================
