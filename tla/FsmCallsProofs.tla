--------------------------- MODULE FsmCallsProofs ---------------------------
(***************************************************************************)
(* For every number of threads and callbacks, every queue capacity and any *)
(* bound on calls, changes and nesting: references are exact, one thread   *)
(* dispatches at a time, a replaced callback is not running any more, and  *)
(* the changes of the state arrive in order.  One inductive invariant, in  *)
(* parts that build on each other: types, nesting, counts, who dispatches, *)
(* and how the changes link up.                                            *)
(***************************************************************************)
EXTENDS FsmCalls, FiniteSetTheorems, TLAPS

Handlers == Callbacks \cup {NoCallback}
Changes == [old : Nat, new : Nat]
Pcs == {"change", "drain", "deliver", "callback", "set", "destroy", "unsubscribe", "leave"}
Frames == [pc : Pcs, todo : Seq(Changes), cb : Handlers]

\* The types of the variables.
TypeOK ==
  /\ handle \in BOOLEAN /\ destroy_started \in BOOLEAN /\ freed \in BOOLEAN
  /\ subscribed \in BOOLEAN /\ refcount \in Int
  /\ state \in Nat /\ queue \in Seq(Changes)
  /\ dispatching \in Int /\ dispatcher \in Threads
  /\ callback \in Handlers /\ base \in Nat /\ seen \in Seq(Changes) /\ setter \in Threads
  /\ stack \in [Threads -> Seq(Frames)]
  /\ calls \in Nat /\ crossed \in BOOLEAN /\ gap \in BOOLEAN

\* The calls of each thread nest: only the innermost one runs library code.
Nested ==
  \A t \in Threads :
    /\ Depth(t) <= MaxDepth
    /\ \A i \in 1 .. Depth(t) - 1 : stack[t][i].pc \in CallsOut

\* destroy has taken the handle away before it does anything else.
HandleTaken ==
  /\ destroy_started => ~handle
  /\ \A t \in Threads : \A i \in 1 .. Depth(t) : stack[t][i].pc = "destroy" => ~handle

\* Frames between draining and the end of their dispatch, which the code counts.
Dispatching == {"deliver", "callback"}
InDispatch == {c \in InCall : stack[c[1]][c[2]].pc \in Dispatching}

\* The count is exact, and all dispatches are one thread's.
OneDispatcher ==
  /\ dispatching = Cardinality(InDispatch)
  /\ \A t \in Threads : \A i \in 1 .. Depth(t) : stack[t][i].pc \in Dispatching => t = dispatcher

\* OldCallbackDone, with the places of a stack as numbers.
OldDone ==
  \A t \in Threads : \A i \in 1 .. Depth(t) :
    stack[t][i].pc = "callback" /\ stack[t][i].cb # callback => t = setter

\* Only a dispatch holds drained changes.
TodoInDispatch ==
  \A t \in Threads : \A i \in 1 .. Depth(t) :
    stack[t][i].todo # <<>> => stack[t][i].pc \in Dispatching

CallsInv ==
  /\ TypeOK /\ Nested /\ HandleTaken /\ RefsExact /\ OneDispatcher /\ TodoInDispatch
  /\ Len(queue) <= QueueCap
  /\ OldDone

-----------------------------------------------------------------------------
(* The stack of a thread. *)

\* Top(t) is a frame of the thread.
LEMMA TopIsFrame ==
    ASSUME TypeOK, NEW t \in Threads, Depth(t) > 0
    PROVE  Depth(t) \in Nat /\ Depth(t) \in 1 .. Depth(t) /\ Top(t) \in Frames
BY DEF TypeOK, Depth, Top

\* The frames of a new call.
LEMMA NewFrames ==
    ASSUME NEW pc \in Pcs
    PROVE  /\ Frame(pc) \in Frames /\ Frame(pc).pc = pc /\ Frame(pc).todo = <<>>
           /\ Frame(pc).cb = NoCallback
           /\ \A c \in Handlers :
                LET fr == [Frame(pc) EXCEPT !.cb = c]
                IN  fr \in Frames /\ fr.pc = pc /\ fr.todo = <<>> /\ fr.cb = c
<1>1. Frame(pc) = [pc |-> pc, todo |-> <<>>, cb |-> NoCallback]
  BY DEF Frame, NewFrame
<1>2. \A c \in Handlers : [Frame(pc) EXCEPT !.cb = c] = [pc |-> pc, todo |-> <<>>, cb |-> c]
  BY <1>1
<1>3. \A c \in Handlers : [pc |-> pc, todo |-> <<>>, cb |-> c] \in Frames
  BY DEF Frames
<1>. QED
  BY <1>1, <1>2, <1>3 DEF Handlers

\* A step inside a call changes the innermost frame only.
LEMMA BecomeChanges ==
    ASSUME TypeOK, NEW t \in Threads, Depth(t) > 0, NEW fr \in Frames, Become(t, fr)
    PROVE  /\ stack' \in [Threads -> Seq(Frames)]
           /\ \A u \in Threads : Depth(u)' = Depth(u)
           /\ \A u \in Threads : \A i \in 1 .. Depth(u) :
                stack'[u][i] = IF u = t /\ i = Depth(t) THEN fr ELSE stack[u][i]
<1>1. stack[t] \in Seq(Frames) /\ Len(stack[t]) > 0
  BY Zenon DEF TypeOK, Depth
<1>2. stack' = [stack EXCEPT ![t] = [stack[t] EXCEPT ![Len(stack[t])] = fr]]
  BY Zenon DEF Become, Depth
<1>3. [stack[t] EXCEPT ![Len(stack[t])] = fr] \in Seq(Frames)
  BY <1>1
<1>. QED
  BY <1>1, <1>2, <1>3 DEF TypeOK, Depth

\* A call begun adds a frame.
LEMMA PushAdds ==
    ASSUME TypeOK, NEW t \in Threads, NEW fr \in Frames, Push(t, fr)
    PROVE  /\ stack' \in [Threads -> Seq(Frames)]
           /\ \A u \in Threads : Depth(u)' = IF u = t THEN Depth(u) + 1 ELSE Depth(u)
           /\ \A u \in Threads : \A i \in 1 .. Depth(u) : stack'[u][i] = stack[u][i]
           /\ stack'[t][Depth(t) + 1] = fr
<1>1. stack[t] \in Seq(Frames)
  BY Zenon DEF TypeOK
<1>2. /\ Append(stack[t], fr) \in Seq(Frames)
      /\ Len(Append(stack[t], fr)) = Len(stack[t]) + 1
      /\ \A i \in 1 .. Len(stack[t]) : Append(stack[t], fr)[i] = stack[t][i]
      /\ Append(stack[t], fr)[Len(stack[t]) + 1] = fr
  BY <1>1
<1>3. stack' = [stack EXCEPT ![t] = Append(stack[t], fr)]
  BY Zenon DEF Push
<1>. QED
  BY <1>1, <1>2, <1>3, Zenon DEF TypeOK, Depth

\* A call that returns takes its frame away.
LEMMA LeavePops ==
    ASSUME TypeOK, NEW t \in Threads, Leave(t)
    PROVE  /\ stack' \in [Threads -> Seq(Frames)]
           /\ \A u \in Threads : Depth(u)' = IF u = t THEN Depth(u) - 1 ELSE Depth(u)
           /\ \A u \in Threads : \A i \in 1 .. Depth(u)' : stack'[u][i] = stack[u][i]
<1>1. stack[t] \in Seq(Frames) /\ Len(stack[t]) > 0
  BY Zenon DEF TypeOK, Depth, Leave, At
<1>2. /\ SubSeq(stack[t], 1, Len(stack[t]) - 1) \in Seq(Frames)
      /\ Len(SubSeq(stack[t], 1, Len(stack[t]) - 1)) = Len(stack[t]) - 1
      /\ \A i \in 1 .. Len(stack[t]) - 1 : SubSeq(stack[t], 1, Len(stack[t]) - 1)[i] = stack[t][i]
  BY <1>1
<1>3. stack' = [stack EXCEPT ![t] = SubSeq(stack[t], 1, Len(stack[t]) - 1)]
  BY Zenon DEF Leave
<1>. QED
  BY <1>1, <1>2, <1>3, Zenon DEF TypeOK, Depth

-----------------------------------------------------------------------------
(* Types. *)

\* A frame keeps its type when it moves on.
LEMMA FrameMoves ==
    ASSUME NEW fr \in Frames, NEW pc \in Pcs
    PROVE  LET gr == [fr EXCEPT !.pc = pc]
           IN  gr \in Frames /\ gr.pc = pc /\ gr.todo = fr.todo /\ gr.cb = fr.cb
BY Zenon DEF Frames

\* Init establishes the types, and the counts of one owner or two.
LEMMA InitTypes == Init => TypeOK
<1>. SUFFICES ASSUME Init PROVE TypeOK
  BY Zenon
<1>1. dispatcher \in Threads /\ setter \in Threads
  BY CallsAssumption, Zenon DEF Init
<1>2. stack \in [Threads -> Seq(Frames)] /\ queue \in Seq(Changes) /\ seen \in Seq(Changes)
  BY DEF Init
<1>3. refcount \in Int
  BY DEF Init
<1>4. callback \in Handlers
  BY Zenon DEF Init, Handlers
<1>5. handle \in BOOLEAN /\ destroy_started \in BOOLEAN /\ freed \in BOOLEAN
      /\ subscribed \in BOOLEAN /\ crossed \in BOOLEAN /\ gap \in BOOLEAN
  BY Zenon DEF Init
<1>6. state \in Nat /\ dispatching \in Int /\ base \in Nat /\ calls \in Nat
  BY DEF Init
<1>. QED
  BY <1>1, <1>2, <1>3, <1>4, <1>5, <1>6, Zenon DEF TypeOK

\* What fsm_set_state leaves in the queue.
LEMMA SetStateQueue ==
    ASSUME TypeOK, Len(queue) <= QueueCap, NEW s \in Nat, SetState(s)
    PROVE  /\ state' = s
           /\ queue' \in Seq(Changes) /\ Len(queue') <= QueueCap
           /\ callback = NoCallback \/ s = state => queue' = queue
           /\ ~(callback = NoCallback \/ s = state) =>
                /\ Len(queue') \in {Len(queue), Len(queue) + 1} /\ Len(queue') > 0
                /\ queue'[Len(queue')].new = s
                /\ Len(queue') = Len(queue) + 1 => queue'[Len(queue')].old = state
                /\ Len(queue') = Len(queue) => queue'[Len(queue')].old = queue[Len(queue)].old
                /\ \A i \in 1 .. Len(queue') - 1 : queue'[i] = queue[i]
<1>. DEFINE k == QueueCap
            c == [old |-> state, new |-> s]
<1>1. state' = s /\ queue \in Seq(Changes) /\ state \in Nat /\ k \in Nat \ {0} /\ c \in Changes
  BY CallsAssumption, Zenon DEF SetState, TypeOK, Changes
<1>2. CASE callback = NoCallback \/ s = state
  BY <1>1, <1>2, Zenon DEF SetState
<1>3. CASE ~(callback = NoCallback \/ s = state) /\ Len(queue) >= k
  <2>1. Len(queue) = k /\ queue[k] \in Changes
    BY <1>1, <1>3
  <2>2. queue' = [queue EXCEPT ![k] = [queue[k] EXCEPT !.new = s]]
    BY <1>3, Zenon DEF SetState
  <2>3. [queue[k] EXCEPT !.new = s] \in Changes /\ [queue[k] EXCEPT !.new = s].new = s
        /\ [queue[k] EXCEPT !.new = s].old = queue[k].old
    BY <2>1, Zenon DEF Changes
  <2>. HIDE DEF c
  <2>. QED
    BY <1>1, <1>3, <2>1, <2>2, <2>3
<1>4. CASE ~(callback = NoCallback \/ s = state) /\ ~(Len(queue) >= k)
  <2>1. queue' = Append(queue, c)
    BY <1>4, Zenon DEF SetState
  <2>2. c.old = state /\ c.new = s
    BY Zenon
  <2>. HIDE DEF c
  <2>. QED
    BY <1>1, <1>4, <2>1, <2>2
<1>. QED
  BY <1>2, <1>3, <1>4, Zenon

-----------------------------------------------------------------------------
(* What each step does to the frame it runs in. *)

\* Thread t's innermost frame, with everything else on the stacks as it was, has
\* moved to pc with the changes todo to deliver to cb.
MovedTo(t, pc, todo, cb) ==
  /\ Depth(t) > 0
  /\ stack' \in [Threads -> Seq(Frames)]
  /\ \A u \in Threads : Depth(u)' = Depth(u)
  /\ \A u \in Threads : \A i \in 1 .. Depth(u) :
       u # t \/ i # Depth(t) => stack'[u][i] = stack[u][i]
  /\ stack'[t][Depth(t)] \in Frames
  /\ stack'[t][Depth(t)].pc = pc
  /\ stack'[t][Depth(t)].todo = todo
  /\ stack'[t][Depth(t)].cb = cb

\* Thread t has begun a call, at pc with nothing to deliver.
Begun(t, pc) ==
  /\ stack' \in [Threads -> Seq(Frames)]
  /\ \A u \in Threads : Depth(u)' = IF u = t THEN Depth(u) + 1 ELSE Depth(u)
  /\ \A u \in Threads : \A i \in 1 .. Depth(u) : stack'[u][i] = stack[u][i]
  /\ stack'[t][Depth(t) + 1] \in Frames
  /\ stack'[t][Depth(t) + 1].pc = pc
  /\ stack'[t][Depth(t) + 1].todo = <<>>

\* Which frames there are after a call has begun, has returned, or has moved on.
LEMMA BegunFrames ==
    ASSUME TypeOK, NEW t \in Threads, NEW pc, Begun(t, pc), NEW u \in Threads, NEW i \in 1 .. Depth(u)'
    PROVE  \/ i \in 1 .. Depth(u) /\ stack'[u][i] = stack[u][i]
           \/ u = t /\ i = Depth(t) + 1 /\ stack'[u][i].pc = pc /\ stack'[u][i].todo = <<>>
<1>1. Depth(u) \in Nat
  BY DEF TypeOK, Depth
<1>2. i \in 1 .. Depth(u) \/ (u = t /\ i = Depth(u) + 1)
  <2>1. Depth(u)' = IF u = t THEN Depth(u) + 1 ELSE Depth(u)
    BY Zenon DEF Begun
  <2>. QED
    BY <1>1, <2>1
<1>. QED
  BY <1>2, Zenon DEF Begun

\* The frames left when a call has returned.
LEMMA LeaveFrames ==
    ASSUME TypeOK, NEW t \in Threads, Leave(t), NEW u \in Threads, NEW i \in 1 .. Depth(u)'
    PROVE  i \in 1 .. Depth(u) /\ stack'[u][i] = stack[u][i]
<1>1. Depth(u) \in Nat
  BY DEF TypeOK, Depth
<1>2. Depth(u)' = (IF u = t THEN Depth(u) - 1 ELSE Depth(u)) /\ stack'[u][i] = stack[u][i]
  BY LeavePops, Zenon
<1>. QED
  BY <1>1, <1>2

\* The frames when the innermost one has moved on.
LEMMA MovedFrames ==
    ASSUME NEW t \in Threads, NEW pc, NEW todo, NEW cb, MovedTo(t, pc, todo, cb),
           NEW u \in Threads, NEW i \in 1 .. Depth(u)'
    PROVE  /\ i \in 1 .. Depth(u)
           /\ \/ stack'[u][i] = stack[u][i]
              \/ u = t /\ i = Depth(t) /\ stack'[u][i].pc = pc /\ stack'[u][i].todo = todo
                 /\ stack'[u][i].cb = cb
<1>1. i \in 1 .. Depth(u)
  BY Zenon DEF MovedTo
<1>. QED
  BY <1>1, Zenon DEF MovedTo

\* Become moves the frame to the one it is given.
LEMMA BecomeMoves ==
    ASSUME TypeOK, NEW t \in Threads, Depth(t) > 0, NEW fr \in Frames, Become(t, fr)
    PROVE  MovedTo(t, fr.pc, fr.todo, fr.cb)
<1>1. Depth(t) \in 1 .. Depth(t)
  BY TopIsFrame, Zenon
<1>. QED
  BY <1>1, BecomeChanges, SMTT(30) DEF MovedTo

\* Goto keeps what the frame has to deliver.
LEMMA GotoMoves ==
    ASSUME TypeOK, NEW t \in Threads, Depth(t) > 0, NEW pc \in Pcs, Goto(t, pc)
    PROVE  MovedTo(t, pc, Top(t).todo, Top(t).cb)
<1>. DEFINE fr == [Top(t) EXCEPT !.pc = pc]
<1>1. fr \in Frames /\ fr.pc = pc /\ fr.todo = Top(t).todo /\ fr.cb = Top(t).cb
  BY TopIsFrame, FrameMoves, Zenon
<1>2. Become(t, fr)
  BY Zenon DEF Goto
<1>. HIDE DEF fr
<1>. QED
  BY <1>1, <1>2, BecomeMoves, Zenon

\* The calls that begin.
LEMMA BeginBegins ==
    ASSUME TypeOK, NEW t \in Threads, Begin(t)
    PROVE  \/ /\ BeginCall(t) \/ BeginEvent(t)
              /\ Begun(t, "change")
           \/ BeginDestroy(t) /\ Begun(t, "destroy")
           \/ (\E c \in Handlers : BeginSetCallback(t, c)) /\ Begun(t, "set")
<1>1. ASSUME NEW pc \in Pcs, NEW fr \in Frames, fr.pc = pc, fr.todo = <<>>, Push(t, fr)
      PROVE  Begun(t, pc)
  BY <1>1, PushAdds, Zenon DEF Begun
<1>2. CASE BeginCall(t) \/ BeginEvent(t)
  <2>1. Push(t, Frame("change"))
    BY <1>2, Zenon DEF BeginCall, BeginEvent, Acquire
  <2>2. "change" \in Pcs
    BY Zenon DEF Pcs
  <2>. QED
    BY <1>1, <1>2, <2>1, <2>2, NewFrames, Zenon
<1>3. CASE BeginDestroy(t)
  <2>1. Push(t, Frame("destroy"))
    BY <1>3, Zenon DEF BeginDestroy
  <2>2. "destroy" \in Pcs
    BY Zenon DEF Pcs
  <2>. QED
    BY <1>1, <1>3, <2>1, <2>2, NewFrames, Zenon
<1>4. ASSUME NEW c \in Handlers, BeginSetCallback(t, c)
      PROVE  Begun(t, "set")
  <2>1. Push(t, [Frame("set") EXCEPT !.cb = c])
    BY <1>4, Zenon DEF BeginSetCallback, Acquire
  <2>2. "set" \in Pcs
    BY Zenon DEF Pcs
  <2>. QED
    BY <1>1, <2>1, <2>2, NewFrames, ZenonT(60)
<1>. QED
  BY <1>2, <1>3, <1>4, Zenon DEF Begin, Handlers

\* The steps inside a call.
LEMMA ChangeMoves ==
    ASSUME TypeOK, NEW t \in Threads, Change(t)
    PROVE  MovedTo(t, "drain", Top(t).todo, Top(t).cb)
BY GotoMoves, Zenon DEF Change, At, Pcs

\* fsm_drain_state_changes moves the queue into the innermost frame, or leaves the call.
LEMMA DrainMoves ==
    ASSUME TypeOK, NEW t \in Threads, Drain(t)
    PROVE  IF queue = <<>> THEN MovedTo(t, "leave", Top(t).todo, Top(t).cb)
                           ELSE MovedTo(t, "deliver", queue, callback)
<1>1. CASE queue = <<>>
  BY <1>1, GotoMoves, Zenon DEF Drain, At, Pcs
<1>2. CASE queue # <<>>
  <2>. DEFINE fr == [NewFrame EXCEPT !.pc = "deliver", !.todo = queue, !.cb = callback]
  <2>1. NewFrame \in Frames
    BY DEF NewFrame, Frames, Pcs, Handlers
  <2>2. fr \in Frames /\ fr.pc = "deliver" /\ fr.todo = queue /\ fr.cb = callback
    BY <2>1, Zenon DEF Frames, Pcs, TypeOK
  <2>3. Depth(t) > 0 /\ Become(t, fr)
    BY <1>2, Zenon DEF Drain, At
  <2>. HIDE DEF fr
  <2>. QED
    BY <1>2, <2>2, <2>3, BecomeMoves, Zenon
<1>. QED
  BY <1>1, <1>2, Zenon

\* A thread that is not the dispatcher leaves the changes queued.
LEMMA KeepQueuedMoves ==
    ASSUME TypeOK, NEW t \in Threads, KeepQueued(t)
    PROVE  MovedTo(t, "leave", Top(t).todo, Top(t).cb)
BY GotoMoves, Zenon DEF KeepQueued, At, Pcs

\* Delivering a change takes it off the drained ones and runs the callback.
LEMMA DeliverMoves ==
    ASSUME TypeOK, NEW t \in Threads, Deliver(t)
    PROVE  MovedTo(t, "callback", Tail(Top(t).todo), Top(t).cb)
<1>. DEFINE fr == [Top(t) EXCEPT !.pc = "callback", !.todo = Tail(@)]
<1>1. Top(t) \in Frames /\ Top(t).todo # <<>> /\ Depth(t) > 0
  BY TopIsFrame, Zenon DEF Deliver, At
<1>2. Top(t).todo \in Seq(Changes) /\ Tail(Top(t).todo) \in Seq(Changes)
  BY <1>1 DEF Frames
<1>3. /\ fr \in Frames /\ fr.pc = "callback" /\ fr.todo = Tail(Top(t).todo)
      /\ fr.cb = Top(t).cb
  BY <1>1, <1>2, Zenon DEF Frames, Pcs
<1>4. Become(t, fr)
  BY Zenon DEF Deliver
<1>. HIDE DEF fr
<1>. QED
  BY <1>1, <1>3, <1>4, BecomeMoves, Zenon

\* A callback that returns continues the dispatch it was called from.
LEMMA CallbackReturnsMoves ==
    ASSUME TypeOK, NEW t \in Threads, CallbackReturns(t)
    PROVE  MovedTo(t, "deliver", Top(t).todo, Top(t).cb)
BY GotoMoves, Zenon DEF CallbackReturns, At, Pcs

\* The end of a dispatch drops what it still held and leaves the call.
LEMMA EndDispatchMoves ==
    ASSUME TypeOK, NEW t \in Threads, EndDispatch(t)
    PROVE  MovedTo(t, "leave", <<>>, NoCallback)
<1>1. Depth(t) > 0 /\ Become(t, Frame("leave"))
  BY Zenon DEF EndDispatch, At
<1>2. "leave" \in Pcs
  BY Zenon DEF Pcs
<1>. QED
  BY <1>1, <1>2, NewFrames, BecomeMoves, Zenon

\* set_state_change_cb only moves its own frame on.
LEMMA SetCallbackMoves ==
    ASSUME TypeOK, NEW t \in Threads, SetCallback(t)
    PROVE  MovedTo(t, "leave", Top(t).todo, Top(t).cb)
BY GotoMoves, Zenon DEF SetCallback, At, Pcs

\* destroy's locked part only moves its own frame on.
LEMMA DestroyMoves ==
    ASSUME TypeOK, NEW t \in Threads, Destroy(t)
    PROVE  MovedTo(t, "unsubscribe", Top(t).todo, Top(t).cb)
BY GotoMoves, Zenon DEF Destroy, At, Pcs

\* Dropping the subscription's reference only moves the frame on.
LEMMA UnsubscribeMoves ==
    ASSUME TypeOK, NEW t \in Threads, Unsubscribe(t)
    PROVE  MovedTo(t, "leave", Top(t).todo, Top(t).cb)
BY GotoMoves, Zenon DEF Unsubscribe, At, Pcs

-----------------------------------------------------------------------------
(* The types and the bound of the queue, preserved. *)

\* Every step keeps the types, and the queue within its array.
LEMMA NextTypes ==
    ASSUME TypeOK, Len(queue) <= QueueCap, [Next]_vars
    PROVE  TypeOK' /\ Len(queue') <= QueueCap
<1>. USE DEF object, changes, dispatch, registered, excuses
<1>1. CASE UNCHANGED vars
  BY <1>1, Zenon DEF vars, TypeOK
<1>2. ASSUME NEW t \in Threads, Begin(t)
      PROVE  TypeOK' /\ Len(queue') <= QueueCap
  <2>1. stack' \in [Threads -> Seq(Frames)]
    BY <1>2, BeginBegins, Zenon DEF Begun
  <2>2. CASE BeginCall(t) \/ BeginEvent(t) \/ \E c \in Handlers : BeginSetCallback(t, c)
    <3>1. /\ refcount' = refcount + 1 /\ calls' = calls + 1
          /\ UNCHANGED <<handle, destroy_started, freed, subscribed, changes, dispatch, registered, excuses>>
      BY <2>2, Zenon DEF BeginCall, BeginEvent, BeginSetCallback, Acquire
    <3>. QED
      BY <2>1, <3>1 DEF TypeOK
  <2>3. CASE BeginDestroy(t)
    <3>1. handle' \in BOOLEAN
      BY <2>3, Zenon DEF BeginDestroy
    <3>2. calls' = calls + 1 /\ UNCHANGED <<refcount, destroy_started, freed, subscribed, changes, dispatch, registered, excuses>>
      BY <2>3, Zenon DEF BeginDestroy
    <3>. QED
      BY <2>1, <3>1, <3>2 DEF TypeOK
  <2>. QED
    BY <1>2, <2>2, <2>3, Zenon DEF Begin, Handlers
<1>3. ASSUME NEW t \in Threads, Change(t)
      PROVE  TypeOK' /\ Len(queue') <= QueueCap
  <2>1. PICK s \in {state, state + 1} : SetState(s)
    BY <1>3, Zenon DEF Change
  <2>2. s \in Nat
    BY <2>1 DEF TypeOK
  <2>3. state' \in Nat /\ queue' \in Seq(Changes) /\ Len(queue') <= QueueCap
    BY <2>1, <2>2, SetStateQueue, Zenon
  <2>4. stack' \in [Threads -> Seq(Frames)]
    BY <1>3, ChangeMoves, Zenon DEF MovedTo
  <2>5. gap' \in BOOLEAN
    BY <1>3, Zenon DEF Change
  <2>. QED
    BY <1>3, <2>3, <2>4, <2>5, Zenon DEF Change, TypeOK
<1>4. ASSUME NEW t \in Threads, Drain(t)
      PROVE  TypeOK' /\ Len(queue') <= QueueCap
  <2>1. stack' \in [Threads -> Seq(Frames)]
    BY <1>4, DrainMoves, Zenon DEF MovedTo
  <2>2. queue' = <<>> /\ queue' \in Seq(Changes) /\ Len(queue') <= QueueCap
    BY <1>4, CallsAssumption DEF Drain
  <2>3. dispatching' \in Int /\ dispatcher' \in Threads
    BY <1>4 DEF Drain, TypeOK
  <2>4. crossed' \in BOOLEAN
    <3>1. CASE queue = <<>>
      BY <1>4, <3>1, Zenon DEF Drain, TypeOK
    <3>2. CASE queue # <<>>
      BY <1>4, <3>2, Zenon DEF Drain
    <3>. QED
      BY <3>1, <3>2, Zenon
  <2>. QED
    BY <1>4, <2>1, <2>2, <2>3, <2>4, Zenon DEF Drain, TypeOK
<1>5. ASSUME NEW t \in Threads, KeepQueued(t)
      PROVE  TypeOK' /\ Len(queue') <= QueueCap
  BY <1>5, KeepQueuedMoves, Zenon DEF MovedTo, KeepQueued, TypeOK
<1>6. ASSUME NEW t \in Threads, Deliver(t)
      PROVE  TypeOK' /\ Len(queue') <= QueueCap
  <2>1. Top(t) \in Frames /\ Top(t).todo # <<>>
    BY <1>6, TopIsFrame, Zenon DEF Deliver, At
  <2>2. Top(t).todo \in Seq(Changes) /\ Head(Top(t).todo) \in Changes
    BY <2>1 DEF Frames
  <2>3. seen' \in Seq(Changes)
    BY <1>6, <2>2 DEF Deliver, TypeOK
  <2>4. stack' \in [Threads -> Seq(Frames)]
    BY <1>6, DeliverMoves, Zenon DEF MovedTo
  <2>. QED
    BY <1>6, <2>3, <2>4, Zenon DEF Deliver, TypeOK
<1>7. ASSUME NEW t \in Threads, CallbackReturns(t)
      PROVE  TypeOK' /\ Len(queue') <= QueueCap
  BY <1>7, CallbackReturnsMoves, Zenon DEF MovedTo, CallbackReturns, TypeOK
<1>8. ASSUME NEW t \in Threads, EndDispatch(t)
      PROVE  TypeOK' /\ Len(queue') <= QueueCap
  BY <1>8, EndDispatchMoves DEF MovedTo, EndDispatch, TypeOK
<1>9. ASSUME NEW t \in Threads, SetCallback(t) \/ Destroy(t)
      PROVE  TypeOK' /\ Len(queue') <= QueueCap
  <2>1. stack' \in [Threads -> Seq(Frames)]
    BY <1>9, SetCallbackMoves, DestroyMoves, Zenon DEF MovedTo
  <2>2. callback' \in Handlers
    <3>1. Depth(t) > 0 => Top(t).cb \in Handlers
      BY TopIsFrame, Zenon DEF Frames
    <3>. QED
      BY <1>9, <3>1, Zenon DEF SetCallback, Destroy, At, Handlers
  <2>3. seen' = <<>> /\ (queue' = queue \/ queue' = <<>>)
    BY <1>9, Zenon DEF SetCallback, Destroy
  <2>4. seen' \in Seq(Changes) /\ queue' \in Seq(Changes) /\ Len(queue') <= QueueCap
    <3>1. <<>> \in Seq(Changes) /\ Len(<<>>) <= QueueCap
      BY CallsAssumption
    <3>2. queue \in Seq(Changes)
      BY Zenon DEF TypeOK
    <3>. QED
      BY <2>3, <3>1, <3>2, Zenon
  <2>5. destroy_started' \in BOOLEAN
    BY <1>9, Zenon DEF SetCallback, Destroy, TypeOK
  <2>. QED
    BY <1>9, <2>1, <2>2, <2>3, <2>4, <2>5, Zenon DEF SetCallback, Destroy, TypeOK
<1>10. ASSUME NEW t \in Threads, Unsubscribe(t)
       PROVE  TypeOK' /\ Len(queue') <= QueueCap
  <2>1. stack' \in [Threads -> Seq(Frames)]
    BY <1>10, UnsubscribeMoves, Zenon DEF MovedTo
  <2>2. subscribed' \in BOOLEAN /\ freed' \in BOOLEAN
    <3>1. CASE subscribed
      BY <1>10, <3>1, Zenon DEF Unsubscribe, Drop
    <3>2. CASE ~subscribed
      BY <1>10, <3>2, Zenon DEF Unsubscribe, TypeOK
    <3>. QED
      BY <3>1, <3>2, Zenon
  <2>3. refcount' \in Int
    BY <1>10 DEF Unsubscribe, Drop, TypeOK
  <2>. QED
    BY <1>10, <2>1, <2>2, <2>3, Zenon DEF Unsubscribe, TypeOK
<1>11. ASSUME NEW t \in Threads, Leave(t)
       PROVE  TypeOK' /\ Len(queue') <= QueueCap
  <2>1. stack' \in [Threads -> Seq(Frames)]
    BY <1>11, LeavePops, Zenon
  <2>2. freed' \in BOOLEAN
    BY <1>11, Zenon DEF Leave, Drop
  <2>. QED
    BY <1>11, <2>1, <2>2 DEF Leave, Drop, TypeOK
<1>. QED
  BY <1>1, <1>2, <1>3, <1>4, <1>5, <1>6, <1>7, <1>8, <1>9, <1>10, <1>11, Zenon DEF Next, Step

-----------------------------------------------------------------------------
(* The calls in progress, counted. *)

\* A call's place on a stack is in InCall.
LEMMA PlaceInCall ==
    ASSUME TypeOK, Nested, NEW t \in Threads, NEW i \in Int
    PROVE  <<t, i>> \in InCall <=> i \in 1 .. Depth(t)
BY CallsAssumption DEF InCall, Nested, TypeOK, Depth

\* There are finitely many calls in progress, and of them finitely many dispatch.
LEMMA CallsFinite ==
    /\ IsFiniteSet(InCall) /\ Cardinality(InCall) \in Nat
    /\ IsFiniteSet(InDispatch) /\ Cardinality(InDispatch) \in Nat
<1>1. IsFiniteSet(Threads) /\ MaxDepth \in Int
  BY CallsAssumption
<1>2. IsFiniteSet(1 .. MaxDepth)
  BY <1>1, FS_Interval
<1>3. IsFiniteSet(Threads \X (1 .. MaxDepth))
  BY <1>1, <1>2, FS_Product, Zenon
<1>4. InCall \subseteq Threads \X (1 .. MaxDepth)
  BY Zenon DEF InCall
<1>5. IsFiniteSet(InCall)
  BY <1>3, <1>4, FS_Subset, Zenon
<1>6. InDispatch \subseteq InCall
  BY Zenon DEF InDispatch
<1>7. IsFiniteSet(InDispatch)
  BY <1>5, <1>6, FS_Subset, Zenon
<1>. QED
  BY <1>5, <1>7, FS_CardinalityType, Zenon

\* A call begun is one call more; it does not dispatch.
LEMMA BegunCounts ==
    ASSUME TypeOK, NEW t \in Threads, NEW pc, Begun(t, pc), Nested, Depth(t) < MaxDepth
    PROVE  /\ Cardinality(InCall') = Cardinality(InCall) + 1
           /\ pc \notin Dispatching => InDispatch' = InDispatch
<1>. DEFINE new == <<t, Depth(t) + 1>>
<1>1. Depth(t) \in Nat /\ \A u \in Threads : Depth(u) \in Nat
  BY DEF TypeOK, Depth
<1>2. InCall' = InCall \cup {new}
  BY <1>1, CallsAssumption DEF InCall, Begun
<1>3. new \notin InCall
  BY <1>1 DEF InCall
<1>4. Cardinality(InCall') = Cardinality(InCall) + 1
  <2>. HIDE DEF new
  <2>. QED
    BY <1>2, <1>3, CallsFinite, FS_AddElement, Zenon
<1>5. ASSUME pc \notin Dispatching
      PROVE  InDispatch' = InDispatch
  <2>1. \A c \in InCall : stack'[c[1]][c[2]] = stack[c[1]][c[2]]
    BY <1>1 DEF InCall, Begun
  <2>2. stack'[new[1]][new[2]].pc \notin Dispatching
    BY <1>5, Zenon DEF Begun
  <2>. HIDE DEF new
  <2>. QED
    BY <1>2, <2>1, <2>2, Zenon DEF InDispatch
<1>. QED
  BY <1>4, <1>5, Zenon

\* A step inside a call begins or ends at most its own dispatch.
LEMMA MovedCounts ==
    ASSUME TypeOK, Nested, NEW t \in Threads, NEW pc, NEW todo, NEW cb, MovedTo(t, pc, todo, cb)
    PROVE  /\ InCall' = InCall
           /\ <<t, Depth(t)>> \in InCall
           /\ pc \in Dispatching => InDispatch' = InDispatch \cup {<<t, Depth(t)>>}
           /\ pc \notin Dispatching => InDispatch' = InDispatch \ {<<t, Depth(t)>>}
           /\ <<t, Depth(t)>> \in InDispatch <=> Top(t).pc \in Dispatching
<1>. DEFINE top == <<t, Depth(t)>>
<1>1. Depth(t) \in Nat /\ Depth(t) > 0 /\ \A u \in Threads : Depth(u) \in Nat
  BY DEF TypeOK, Depth, MovedTo
<1>2. InCall' = InCall
  BY Zenon DEF InCall, MovedTo
<1>3. top \in InCall
  BY <1>1, PlaceInCall
<1>4. \A c \in InCall : c # top => stack'[c[1]][c[2]] = stack[c[1]][c[2]]
  BY <1>1 DEF InCall, MovedTo
<1>5. stack'[top[1]][top[2]].pc = pc
  BY Zenon DEF MovedTo
<1>6. stack[top[1]][top[2]] = Top(t)
  BY Zenon DEF Top
<1>. HIDE DEF top
<1>7. top \in InDispatch <=> Top(t).pc \in Dispatching
  BY <1>3, <1>6, Zenon DEF InDispatch
<1>8. pc \in Dispatching => InDispatch' = InDispatch \cup {top}
  BY <1>2, <1>3, <1>4, <1>5, Zenon DEF InDispatch
<1>9. pc \notin Dispatching => InDispatch' = InDispatch \ {top}
  BY <1>2, <1>3, <1>4, <1>5, Zenon DEF InDispatch
<1>. QED
  BY <1>2, <1>3, <1>7, <1>8, <1>9, Zenon DEF top

\* A call that returns is one call fewer; it had ended its dispatch.
LEMMA LeaveCounts ==
    ASSUME TypeOK, Nested, NEW t \in Threads, Leave(t)
    PROVE  /\ Cardinality(InCall') = Cardinality(InCall) - 1
           /\ Cardinality(InCall) > 0
           /\ InDispatch' = InDispatch
<1>. DEFINE top == <<t, Depth(t)>>
<1>1. Depth(t) \in Nat /\ Depth(t) > 0 /\ \A u \in Threads : Depth(u) \in Nat
  BY DEF TypeOK, Depth, Leave, At
<1>2. InCall' = InCall \ {top}
  BY <1>1, LeavePops, CallsAssumption, SMTT(30) DEF InCall
<1>3. top \in InCall
  BY <1>1, PlaceInCall
<1>4. \A c \in InCall' : stack'[c[1]][c[2]] = stack[c[1]][c[2]]
  BY <1>1, LeavePops DEF InCall
<1>5. stack[top[1]][top[2]].pc \notin Dispatching
  BY Zenon DEF Leave, At, Top, Dispatching
<1>. HIDE DEF top
<1>6. InDispatch' = InDispatch
  BY <1>2, <1>4, <1>5, Zenon DEF InDispatch
<1>7. Cardinality(InCall') = Cardinality(InCall) - 1
  BY <1>2, <1>3, CallsFinite, FS_RemoveElement, Zenon
<1>8. Cardinality(InCall) > 0
  BY <1>3, CallsFinite, FS_EmptySet
<1>. QED
  BY <1>6, <1>7, <1>8, Zenon

\* The places of a call after its first.
LaterPcs == {"drain", "deliver", "callback", "unsubscribe", "leave"}

\* A step inside a call returns from it, or moves the frame to a later place.
LEMMA StepCases ==
    ASSUME TypeOK, NEW t \in Threads, Step(t)
    PROVE  \/ Leave(t)
           \/ \E pc \in LaterPcs, todo \in Seq(Changes), cb \in Handlers : MovedTo(t, pc, todo, cb)
<1>1. Depth(t) > 0 => Top(t).todo \in Seq(Changes) /\ Top(t).cb \in Handlers
  BY TopIsFrame, Zenon DEF Frames
<1>2. <<>> \in Seq(Changes) /\ NoCallback \in Handlers
  BY DEF Handlers
<1>. USE DEF LaterPcs
<1>3. ASSUME NEW pc \in LaterPcs, MovedTo(t, pc, Top(t).todo, Top(t).cb)
      PROVE  \E q \in LaterPcs, todo \in Seq(Changes), cb \in Handlers : MovedTo(t, q, todo, cb)
  BY <1>1, <1>3, Zenon DEF MovedTo
<1>4. CASE Change(t) \/ KeepQueued(t) \/ CallbackReturns(t) \/ SetCallback(t) \/ Destroy(t) \/ Unsubscribe(t)
  BY <1>3, <1>4, ChangeMoves, KeepQueuedMoves, CallbackReturnsMoves, SetCallbackMoves, Zenon,
     DestroyMoves, UnsubscribeMoves
<1>5. CASE Drain(t)
  BY <1>3, <1>5, DrainMoves, Zenon DEF TypeOK
<1>6. CASE Deliver(t)
  <2>1. Depth(t) > 0 /\ Top(t).todo # <<>>
    BY <1>6, Zenon DEF Deliver, At
  <2>2. Tail(Top(t).todo) \in Seq(Changes)
    BY <1>1, <2>1
  <2>. QED
    BY <1>1, <1>6, <2>1, <2>2, DeliverMoves, Zenon
<1>7. CASE EndDispatch(t)
  BY <1>2, <1>7, EndDispatchMoves, Zenon
<1>. QED
  BY <1>4, <1>5, <1>6, <1>7, Zenon DEF Step

-----------------------------------------------------------------------------
(* Nesting. *)

\* A call begins in application code only, so the calls around it are in code that
\* calls out.
LEMMA NextNested ==
    ASSUME TypeOK, Nested, [Next]_vars
    PROVE  Nested'
<1>1. CASE UNCHANGED vars
  BY <1>1, Zenon DEF vars, Nested, Depth
<1>2. ASSUME NEW t \in Threads, Begin(t)
      PROVE  Nested'
  <2>1. PICK pc : Begun(t, pc)
    BY <1>2, BeginBegins, Zenon
  <2>2. CanCall(t)
    BY <1>2, Zenon DEF Begin, BeginCall, BeginEvent, BeginDestroy, BeginSetCallback, Acquire
  <2>3. \A u \in Threads : Depth(u) \in Nat
    BY DEF TypeOK, Depth
  <2>. SUFFICES ASSUME NEW u \in Threads
                PROVE  /\ Depth(u)' <= MaxDepth
                       /\ \A i \in 1 .. Depth(u)' - 1 : stack'[u][i].pc \in CallsOut
    BY Zenon DEF Nested
  <2>4. CASE u = t
    <3>1. \A i \in 1 .. Depth(t) : stack[t][i].pc \in CallsOut
      BY <2>2, <2>3 DEF CanCall, Nested, Top
    <3>2. Depth(t)' = Depth(t) + 1 /\ \A i \in 1 .. Depth(t) : stack'[t][i] = stack[t][i]
      BY <2>1, Zenon DEF Begun
    <3>3. Depth(t) < MaxDepth
      BY <2>2, Zenon DEF CanCall
    <3>. QED
      BY <2>3, <2>4, <3>1, <3>2, <3>3, CallsAssumption
  <2>5. CASE u # t
    <3>1. Depth(u)' = Depth(u) /\ \A i \in 1 .. Depth(u) : stack'[u][i] = stack[u][i]
      BY <2>1, <2>5, Zenon DEF Begun
    <3>2. Depth(u) <= MaxDepth /\ \A i \in 1 .. Depth(u) - 1 : stack[u][i].pc \in CallsOut
      BY Zenon DEF Nested
    <3>. QED
      BY <2>3, <3>1, <3>2
  <2>. QED
    BY <2>4, <2>5, Zenon
<1>3. ASSUME NEW t \in Threads, Step(t)
      PROVE  Nested'
  <2>1. \A u \in Threads : Depth(u) \in Nat
    BY DEF TypeOK, Depth
  <2>2. CASE Leave(t)
    <3>. SUFFICES ASSUME NEW u \in Threads
                  PROVE  /\ Depth(u)' <= MaxDepth
                         /\ \A i \in 1 .. Depth(u)' - 1 : stack'[u][i].pc \in CallsOut
      BY DEF Nested
    <3>1. Depth(u)' = (IF u = t THEN Depth(u) - 1 ELSE Depth(u))
          /\ \A i \in 1 .. Depth(u)' : stack'[u][i] = stack[u][i]
      BY <2>2, LeavePops, Zenon
    <3>2. Depth(u) <= MaxDepth /\ \A i \in 1 .. Depth(u) - 1 : stack[u][i].pc \in CallsOut
      BY DEF Nested
    <3>3. Depth(u)' \in Nat /\ Depth(u)' <= Depth(u)
      BY <2>1, <2>2, <3>1 DEF Leave, At
    <3>. QED
      BY <2>1, <3>1, <3>2, <3>3, CallsAssumption
  <2>3. CASE \E pc, todo, cb : MovedTo(t, pc, todo, cb)
    BY <2>1, <2>3, SMTT(30) DEF Nested, MovedTo
  <2>. QED
    BY <1>3, <2>2, <2>3, StepCases, Zenon
<1>. QED
  BY <1>1, <1>2, <1>3, Zenon DEF Next

\* The handle is taken once, by destroy, and never given back.
LEMMA NextHandleTaken ==
    ASSUME TypeOK, HandleTaken, [Next]_vars
    PROVE  HandleTaken'
<1>. USE DEF object, HandleTaken
<1>1. CASE UNCHANGED vars
  BY <1>1, Zenon DEF vars, Depth
<1>d. \A u \in Threads : Depth(u) \in Nat
  BY DEF TypeOK, Depth
<1>2. ASSUME NEW t \in Threads, Begin(t)
      PROVE  HandleTaken'
  <2>2. CASE ~BeginDestroy(t) /\ (Begun(t, "change") \/ Begun(t, "set"))
    <3>1. handle' = handle /\ destroy_started' = destroy_started
      BY <1>2, <2>2, Zenon DEF Begin, BeginCall, BeginEvent, BeginSetCallback, Acquire
    <3>2. \A u \in Threads : \A i \in 1 .. Depth(u)' :
            stack'[u][i].pc = "destroy" => i \in 1 .. Depth(u) /\ stack[u][i].pc = "destroy"
      BY <2>2, BegunFrames
    <3>. QED
      BY <3>1, <3>2, Zenon
  <2>. QED
    <3>1. CASE BeginDestroy(t)
      <4>1. ~handle'
        BY <3>1, Zenon DEF BeginDestroy
      <4>. QED
        BY <4>1, Zenon
    <3>. QED
      BY <1>2, <2>2, <3>1, BeginBegins, Zenon
<1>3. ASSUME NEW t \in Threads, Step(t)
      PROVE  HandleTaken'
  <2>1. handle' = handle
    BY <1>3, Zenon DEF Step, Change, Drain, KeepQueued, Deliver, CallbackReturns, EndDispatch,
       SetCallback, Destroy, Unsubscribe, Leave
  <2>2. CASE Leave(t)
    <3>1. destroy_started' = destroy_started
      BY <2>2, Zenon DEF Leave
    <3>2. \A u \in Threads : \A i \in 1 .. Depth(u)' : i \in 1 .. Depth(u) /\ stack'[u][i] = stack[u][i]
      BY <2>2, LeaveFrames, Zenon
    <3>. QED
      BY <2>1, <3>1, <3>2, Zenon
  <2>3. CASE ~Leave(t)
    <3>1. \A u \in Threads : \A i \in 1 .. Depth(u)' :
            stack'[u][i].pc = "destroy" => i \in 1 .. Depth(u) /\ stack[u][i].pc = "destroy"
      <4>1. PICK pc \in LaterPcs : \E todo, cb : MovedTo(t, pc, todo, cb)
        BY <1>3, <2>3, StepCases, Zenon
      <4>2. pc # "destroy"
        BY <4>1, Zenon DEF LaterPcs
      <4>. QED
        BY <1>d, <4>1, <4>2, Zenon DEF MovedTo
    <3>2. CASE Destroy(t)
      <4>1. Depth(t) \in 1 .. Depth(t) /\ stack[t][Depth(t)].pc = "destroy"
        BY <1>d, <3>2 DEF Destroy, At, Top
      <4>2. ~handle'
        BY <2>1, <4>1, Zenon
      <4>. QED
        BY <4>2, Zenon
    <3>3. CASE ~Destroy(t)
      <4>1. destroy_started' = destroy_started
        BY <1>3, <2>3, <3>3, Zenon DEF Step, Change, Drain, KeepQueued, Deliver, CallbackReturns,
           EndDispatch, SetCallback, Unsubscribe
      <4>. QED
        BY <2>1, <3>1, <4>1, Zenon
    <3>. QED
      BY <3>2, <3>3, Zenon
  <2>. QED
    BY <1>3, <2>2, <2>3, StepCases, Zenon
<1>. QED
  BY <1>1, <1>2, <1>3, Zenon DEF Next

-----------------------------------------------------------------------------
(* References. *)

\* The number of owners is a number, and the handle is one of them.
LEMMA OwnersCount ==
    ASSUME TypeOK
    PROVE  Owners \in Nat /\ (handle => Owners > 0) /\ (InCall # {} => Owners > 0)
<1>1. Cardinality(InCall) \in Nat /\ (InCall # {} => Cardinality(InCall) > 0)
  BY CallsFinite, FS_EmptySet
<1>2. CASE handle
  BY <1>1, <1>2 DEF Owners
<1>3. CASE ~handle
  BY <1>1, <1>3 DEF Owners
<1>. QED
  BY <1>2, <1>3, Zenon

\* Every call, event and subscription takes one reference and gives one back, and
\* the last one to go frees.
LEMMA NextRefs ==
    ASSUME TypeOK, Nested, RefsExact, [Next]_vars
    PROVE  RefsExact'
<1>. USE DEF object, changes, dispatch, registered, excuses
<1>1. CASE UNCHANGED vars
  <2>1. InCall' = InCall
    BY <1>1, Zenon DEF vars, InCall, Depth
  <2>. QED
    BY <1>1, <2>1, Zenon DEF vars, RefsExact, Owners
<1>o. Owners \in Nat /\ Cardinality(InCall) \in Nat
  BY OwnersCount, CallsFinite, Zenon
<1>2. ASSUME NEW t \in Threads, Begin(t)
      PROVE  RefsExact'
  <2>1. Depth(t) < MaxDepth
    BY <1>2, Zenon DEF Begin, BeginCall, BeginEvent, BeginDestroy, BeginSetCallback, Acquire, CanCall
  <2>2. Cardinality(InCall)' = Cardinality(InCall) + 1
    BY <1>2, <2>1, BeginBegins, BegunCounts, Zenon
  <2>3. CASE BeginDestroy(t)
    <3>1. handle /\ ~handle' /\ UNCHANGED <<refcount, destroy_started, freed, subscribed>>
      BY <2>3, Zenon DEF BeginDestroy
    <3>2. Owners' = Owners
      BY <1>o, <2>2, <3>1 DEF Owners
    <3>. QED
      BY <3>1, <3>2, Zenon DEF RefsExact
  <2>4. CASE ~BeginDestroy(t)
    <3>1. refcount' = refcount + 1 /\ UNCHANGED <<handle, destroy_started, freed, subscribed>>
      BY <1>2, <2>4, Zenon DEF Begin, BeginCall, BeginEvent, BeginSetCallback, Acquire
    <3>2. handle \/ subscribed
      BY <1>2, <2>4, Zenon DEF Begin, BeginCall, BeginEvent, BeginSetCallback, Acquire
    <3>3. Owners' = Owners + 1 /\ Owners > 0
      BY <1>o, <2>2, <3>1, <3>2 DEF Owners
    <3>4. ~freed /\ refcount = Owners
      <4>1. Owners # 0
        BY <1>o, <3>3
      <4>. QED
        BY <4>1, Zenon DEF RefsExact
    <3>5. Owners' # 0 /\ refcount' = Owners'
      BY <1>o, <3>1, <3>3, <3>4
    <3>. QED
      BY <3>1, <3>4, <3>5, Zenon DEF RefsExact, TypeOK
  <2>. QED
    BY <2>3, <2>4, Zenon
<1>3. ASSUME NEW t \in Threads, Step(t), ~Leave(t)
      PROVE  RefsExact'
  <2>1. InCall' = InCall /\ InCall # {}
    BY <1>3, StepCases, MovedCounts, Zenon
  <2>2. Owners > 0
    BY <2>1, OwnersCount, Zenon
  <2>3. ~freed /\ refcount = Owners
    <3>1. Owners # 0
      BY <1>o, <2>2
    <3>. QED
      BY <3>1, Zenon DEF RefsExact
  <2>4. CASE Unsubscribe(t) /\ subscribed
    <3>1. /\ refcount' = refcount - 1 /\ freed' = (freed \/ (destroy_started /\ refcount = 1))
          /\ subscribed' = FALSE /\ UNCHANGED <<handle, destroy_started>>
      BY <2>4, Zenon DEF Unsubscribe, Drop
    <3>2. Owners' = Owners - 1
      BY <1>o, <2>1, <2>4, <3>1 DEF Owners
    <3>3. refcount' = Owners' /\ (refcount = 1 <=> Owners' = 0)
      BY <1>o, <2>3, <3>1, <3>2
    <3>. QED
      BY <2>3, <3>1, <3>3, Zenon DEF RefsExact
  <2>5. CASE ~(Unsubscribe(t) /\ subscribed)
    <3>1. UNCHANGED <<handle, refcount, freed>> /\ (subscribed' <=> subscribed)
      <4>1. CASE Unsubscribe(t)
        BY <2>5, <4>1, Zenon DEF Unsubscribe
      <4>2. CASE ~Unsubscribe(t)
        <5>1. CASE Destroy(t)
          BY <5>1, Zenon DEF Destroy
        <5>2. CASE ~Destroy(t)
          <6>1. UNCHANGED object
            BY <1>3, <4>2, <5>2, Zenon DEF Step, Change, Drain, KeepQueued, Deliver,
               CallbackReturns, EndDispatch, SetCallback
          <6>. QED
            BY <6>1, Zenon
        <5>. QED
          BY <5>1, <5>2
      <4>. QED
        BY <4>1, <4>2, Zenon
    <3>2. Owners' = Owners
      BY <1>o, <2>1, <3>1, Zenon DEF Owners
    <3>3. Owners # 0
      BY <1>o, <2>2
    <3>. QED
      BY <2>3, <3>1, <3>2, <3>3, Zenon DEF RefsExact, TypeOK
  <2>. QED
    BY <2>4, <2>5, Zenon
<1>4. ASSUME NEW t \in Threads, Leave(t)
      PROVE  RefsExact'
  <2>1. Cardinality(InCall)' = Cardinality(InCall) - 1 /\ Cardinality(InCall) > 0
    BY <1>4, LeaveCounts, Zenon
  <2>2. /\ refcount' = refcount - 1 /\ freed' = (freed \/ (destroy_started /\ refcount = 1))
        /\ UNCHANGED <<handle, destroy_started, subscribed>>
    BY <1>4, Zenon DEF Leave, Drop
  <2>3. Owners' = Owners - 1 /\ Owners > 0
    BY <1>o, <2>1, <2>2 DEF Owners
  <2>4. ~freed /\ refcount = Owners
    <3>1. Owners # 0
      BY <1>o, <2>3
    <3>. QED
      BY <3>1, Zenon DEF RefsExact
  <2>5. refcount' = Owners' /\ (refcount = 1 <=> Owners' = 0)
    BY <1>o, <2>2, <2>3, <2>4
  <2>. QED
    BY <2>2, <2>4, <2>5, Zenon DEF RefsExact
<1>. QED
  BY <1>1, <1>2, <1>3, <1>4, Zenon DEF Next

-----------------------------------------------------------------------------
(* Who dispatches. *)

\* While other threads dispatch nobody drains, registers or destroys; when nobody
\* does, no frame is in a dispatch.
LEMMA PassIsAlone ==
    ASSUME TypeOK, Nested, OneDispatcher, NEW t \in Threads, MayPass(t)
    PROVE  \A u \in Threads : \A i \in 1 .. Depth(u) : stack[u][i].pc \in Dispatching => u = t
<1>1. CASE dispatching = 0
  <2>1. InDispatch = {}
    BY <1>1, CallsFinite, FS_EmptySet, Zenon DEF OneDispatcher
  <2>. SUFFICES ASSUME NEW u \in Threads, NEW i \in 1 .. Depth(u), stack[u][i].pc \in Dispatching
                PROVE  FALSE
    BY Zenon
  <2>2. <<u, i>> \in InCall
    BY PlaceInCall
  <2>3. <<u, i>> \in InDispatch
    BY <2>2, Zenon DEF InDispatch
  <2>. QED
    BY <2>1, <2>3, Zenon
<1>2. CASE dispatcher = t
  BY <1>2, Zenon DEF OneDispatcher
<1>. QED
  BY <1>1, <1>2, Zenon DEF MayPass

\* Each drain that takes changes counts one dispatch, each end of one counts it off,
\* and no thread drains while another one dispatches.
LEMMA NextDispatcher ==
    ASSUME TypeOK, Nested, OneDispatcher, [Next]_vars
    PROVE  OneDispatcher'
<1>. USE DEF object, changes, dispatch, registered, excuses
<1>c. IsFiniteSet(InDispatch) /\ Cardinality(InDispatch) \in Nat /\ dispatching = Cardinality(InDispatch)
  BY CallsFinite, Zenon DEF OneDispatcher
<1>d. \A u \in Threads : Depth(u) \in Nat
  BY DEF TypeOK, Depth
<1>1. CASE UNCHANGED vars
  <2>1. InDispatch' = InDispatch
    BY <1>1, Zenon DEF vars, InDispatch, InCall, Depth
  <2>. QED
    BY <1>1, <2>1, Zenon DEF vars, OneDispatcher, Depth
<1>2. ASSUME NEW t \in Threads, Begin(t)
      PROVE  OneDispatcher'
  <2>1. Depth(t) < MaxDepth
    BY <1>2, Zenon DEF Begin, BeginCall, BeginEvent, BeginDestroy, BeginSetCallback, Acquire, CanCall
  <2>2. PICK pc \in {"change", "destroy", "set"} : Begun(t, pc)
    BY <1>2, BeginBegins, Zenon
  <2>3. pc \notin Dispatching
    BY <2>2, Zenon DEF Dispatching
  <2>4. InDispatch' = InDispatch
    BY <2>1, <2>2, <2>3, BegunCounts, Zenon
  <2>5. UNCHANGED dispatch
    BY <1>2, Zenon DEF Begin, BeginCall, BeginEvent, BeginDestroy, BeginSetCallback, Acquire
  <2>6. \A u \in Threads : \A i \in 1 .. Depth(u)' :
          stack'[u][i].pc \in Dispatching => i \in 1 .. Depth(u) /\ stack[u][i].pc \in Dispatching
    BY <1>d, <2>2, <2>3 DEF Begun
  <2>. QED
    BY <1>c, <2>4, <2>5, <2>6, Zenon DEF OneDispatcher
<1>3. ASSUME NEW t \in Threads, Leave(t)
      PROVE  OneDispatcher'
  <2>1. InDispatch' = InDispatch
    BY <1>3, LeaveCounts, Zenon
  <2>2. UNCHANGED dispatch
    BY <1>3, Zenon DEF Leave
  <2>3. \A u \in Threads : \A i \in 1 .. Depth(u)' : i \in 1 .. Depth(u) /\ stack'[u][i] = stack[u][i]
    BY <1>3, LeaveFrames, Zenon
  <2>. QED
    BY <1>c, <2>1, <2>2, <2>3, Zenon DEF OneDispatcher
<1>4. ASSUME NEW t \in Threads, NEW pc, NEW todo, NEW cb, MovedTo(t, pc, todo, cb),
             UNCHANGED dispatch, pc \in Dispatching <=> Top(t).pc \in Dispatching
      PROVE  OneDispatcher'
  <2>1. InDispatch' = InDispatch
    BY <1>4, MovedCounts, Zenon
  <2>2. \A u \in Threads : \A i \in 1 .. Depth(u)' :
          stack'[u][i].pc \in Dispatching => i \in 1 .. Depth(u) /\ stack[u][i].pc \in Dispatching
    BY <1>d, <1>4, Zenon DEF MovedTo, Top
  <2>. QED
    BY <1>c, <1>4, <2>1, <2>2, Zenon DEF OneDispatcher
<1>5. ASSUME NEW t \in Threads, Drain(t), queue # <<>>
      PROVE  OneDispatcher'
  <2>1. MovedTo(t, "deliver", queue, callback)
    BY <1>5, DrainMoves, Zenon
  <2>2. "deliver" \in Dispatching /\ Top(t).pc \notin Dispatching
    BY <1>5, Zenon DEF Drain, At, Dispatching
  <2>3. InDispatch' = InDispatch \cup {<<t, Depth(t)>>} /\ <<t, Depth(t)>> \notin InDispatch
    BY <2>1, <2>2, MovedCounts, Zenon
  <2>4. Cardinality(InDispatch') = Cardinality(InDispatch) + 1
    BY <1>c, <2>3, FS_AddElement, Zenon
  <2>5. dispatching' = dispatching + 1 /\ dispatcher' = t /\ MayPass(t)
    BY <1>5, Zenon DEF Drain
  <2>6. \A u \in Threads : \A i \in 1 .. Depth(u)' : stack'[u][i].pc \in Dispatching => u = t
    BY <1>d, <2>1, <2>5, PassIsAlone, Zenon DEF MovedTo
  <2>. QED
    BY <1>c, <2>4, <2>5, <2>6, Zenon DEF OneDispatcher
<1>6. ASSUME NEW t \in Threads, EndDispatch(t)
      PROVE  OneDispatcher'
  <2>1. MovedTo(t, "leave", <<>>, NoCallback)
    BY <1>6, EndDispatchMoves, Zenon
  <2>2. "leave" \notin Dispatching /\ Top(t).pc \in Dispatching
    BY <1>6, Zenon DEF EndDispatch, At, Dispatching
  <2>3. InDispatch' = InDispatch \ {<<t, Depth(t)>>} /\ <<t, Depth(t)>> \in InDispatch
    BY <2>1, <2>2, MovedCounts, Zenon
  <2>4. Cardinality(InDispatch') = Cardinality(InDispatch) - 1
    BY <1>c, <2>3, FS_RemoveElement, Zenon
  <2>5. dispatching' = dispatching - 1 /\ dispatcher' = dispatcher
    BY <1>6, Zenon DEF EndDispatch
  <2>6. \A u \in Threads : \A i \in 1 .. Depth(u)' :
          stack'[u][i].pc \in Dispatching => i \in 1 .. Depth(u) /\ stack[u][i].pc \in Dispatching
    BY <1>d, <2>1, <2>2, Zenon DEF MovedTo
  <2>. QED
    BY <1>c, <2>4, <2>5, <2>6, Zenon DEF OneDispatcher
<1>7. ASSUME NEW t \in Threads, Step(t), ~Leave(t), ~EndDispatch(t), ~(Drain(t) /\ queue # <<>>)
      PROVE  OneDispatcher'
  <2>. USE DEF Dispatching
  <2>1. CASE Change(t)
    BY <1>4, <2>1, ChangeMoves, Zenon DEF Change, At
  <2>2. CASE Drain(t)
    BY <1>4, <1>7, <2>2, DrainMoves, Zenon DEF Drain, At
  <2>3. CASE KeepQueued(t)
    BY <1>4, <2>3, KeepQueuedMoves, Zenon DEF KeepQueued, At
  <2>4. CASE Deliver(t)
    BY <1>4, <2>4, DeliverMoves, Zenon DEF Deliver, At
  <2>5. CASE CallbackReturns(t)
    BY <1>4, <2>5, CallbackReturnsMoves, Zenon DEF CallbackReturns, At
  <2>6. CASE SetCallback(t)
    BY <1>4, <2>6, SetCallbackMoves, Zenon DEF SetCallback, At
  <2>7. CASE Destroy(t)
    BY <1>4, <2>7, DestroyMoves, Zenon DEF Destroy, At
  <2>8. CASE Unsubscribe(t)
    BY <1>4, <2>8, UnsubscribeMoves, Zenon DEF Unsubscribe, At
  <2>. QED
    BY <1>7, <2>1, <2>2, <2>3, <2>4, <2>5, <2>6, <2>7, <2>8, Zenon DEF Step
<1>. QED
  BY <1>1, <1>2, <1>3, <1>5, <1>6, <1>7, Zenon DEF Next

\* Changes are taken into a frame only by the drain that begins its dispatch, and
\* the end of the dispatch forgets what is left.
LEMMA NextTodo ==
    ASSUME TypeOK, TodoInDispatch, [Next]_vars
    PROVE  TodoInDispatch'
<1>d. \A u \in Threads : Depth(u) \in Nat
  BY DEF TypeOK, Depth
<1>1. CASE UNCHANGED vars
  BY <1>1, Zenon DEF vars, TodoInDispatch, Depth
<1>2. ASSUME NEW t \in Threads, Begin(t)
      PROVE  TodoInDispatch'
  <2>1. PICK pc : Begun(t, pc)
    BY <1>2, BeginBegins, Zenon
  <2>. QED
    BY <2>1, BegunFrames, Zenon DEF TodoInDispatch
<1>3. ASSUME NEW t \in Threads, Leave(t)
      PROVE  TodoInDispatch'
  <2>1. \A u \in Threads : \A i \in 1 .. Depth(u)' : i \in 1 .. Depth(u) /\ stack'[u][i] = stack[u][i]
    BY <1>3, LeaveFrames, Zenon
  <2>. QED
    BY <2>1, Zenon DEF TodoInDispatch
<1>4. ASSUME NEW t \in Threads, NEW pc, NEW todo, NEW cb, MovedTo(t, pc, todo, cb),
             pc \in Dispatching \/ todo = <<>>
      PROVE  TodoInDispatch'
  <2>. SUFFICES ASSUME NEW u \in Threads, NEW i \in 1 .. Depth(u)', stack'[u][i].todo # <<>>
                PROVE  stack'[u][i].pc \in Dispatching
    BY Zenon DEF TodoInDispatch
  <2>1. i \in 1 .. Depth(u)
    BY <1>4, MovedFrames, Zenon
  <2>2. stack'[u][i] = stack[u][i] \/ (stack'[u][i].pc = pc /\ stack'[u][i].todo = todo)
    BY <1>4, <2>1, Zenon DEF MovedTo
  <2>. QED
    BY <1>4, <2>1, <2>2 DEF TodoInDispatch
<1>5. ASSUME NEW t \in Threads, Depth(t) > 0, Top(t).pc \notin Dispatching
      PROVE  Top(t).todo = <<>>
  BY <1>5, <1>d DEF TodoInDispatch, Top
<1>. USE DEF Dispatching
<1>6. ASSUME NEW t \in Threads, Change(t) \/ KeepQueued(t) \/ SetCallback(t)
      PROVE  TodoInDispatch'
  BY <1>4, <1>5, <1>6, ChangeMoves, KeepQueuedMoves, SetCallbackMoves, Zenon
  DEF Change, KeepQueued, SetCallback, At
<1>7. ASSUME NEW t \in Threads, Destroy(t) \/ Unsubscribe(t)
      PROVE  TodoInDispatch'
  BY <1>4, <1>5, <1>7, DestroyMoves, UnsubscribeMoves, Zenon DEF Destroy, Unsubscribe, At
<1>8. ASSUME NEW t \in Threads, Drain(t)
      PROVE  TodoInDispatch'
  BY <1>4, <1>5, <1>8, DrainMoves, Zenon DEF Drain, At
<1>9. ASSUME NEW t \in Threads, Deliver(t) \/ CallbackReturns(t) \/ EndDispatch(t)
      PROVE  TodoInDispatch'
  BY <1>4, <1>9, DeliverMoves, CallbackReturnsMoves, EndDispatchMoves, Zenon
<1>. QED
  BY <1>1, <1>2, <1>3, <1>6, <1>7, <1>8, <1>9, Zenon DEF Next, Step

\* A callback is replaced only by the thread that may be running the old one.
LEMMA NextOldCallback ==
    ASSUME TypeOK, Nested, OneDispatcher, OldDone, [Next]_vars
    PROVE  OldDone'
<1>. USE DEF object, changes, dispatch, registered, excuses
<1>d. \A u \in Threads : Depth(u) \in Nat
  BY DEF TypeOK, Depth
<1>1. CASE UNCHANGED vars
  BY <1>1, Zenon DEF vars, OldDone, Depth
<1>2. ASSUME NEW t \in Threads, Begin(t)
      PROVE  OldDone'
  <2>1. PICK pc \in {"change", "destroy", "set"} : Begun(t, pc)
    BY <1>2, BeginBegins, Zenon
  <2>2. callback' = callback /\ setter' = setter
    BY <1>2, Zenon DEF Begin, BeginCall, BeginEvent, BeginDestroy, BeginSetCallback, Acquire
  <2>3. \A u \in Threads : \A i \in 1 .. Depth(u)' :
          stack'[u][i].pc = "callback" => i \in 1 .. Depth(u) /\ stack'[u][i] = stack[u][i]
    BY <2>1, BegunFrames
  <2>. QED
    BY <2>2, <2>3, Zenon DEF OldDone
<1>3. ASSUME NEW t \in Threads, Leave(t)
      PROVE  OldDone'
  <2>1. \A u \in Threads : \A i \in 1 .. Depth(u)' : i \in 1 .. Depth(u) /\ stack'[u][i] = stack[u][i]
    BY <1>3, LeaveFrames, Zenon
  <2>2. callback' = callback /\ setter' = setter
    BY <1>3, Zenon DEF Leave
  <2>. QED
    BY <2>1, <2>2 DEF OldDone
<1>4. ASSUME NEW t \in Threads, NEW pc, NEW todo, NEW cb, MovedTo(t, pc, todo, cb),
             UNCHANGED <<callback, setter>>, pc # "callback" \/ cb = callback
      PROVE  OldDone'
  <2>. SUFFICES ASSUME NEW u \in Threads, NEW i \in 1 .. Depth(u)',
                       stack'[u][i].pc = "callback", stack'[u][i].cb # callback'
                PROVE  u = setter'
    BY Zenon DEF OldDone
  <2>1. i \in 1 .. Depth(u)
    BY <1>4, MovedFrames, Zenon
  <2>2. stack'[u][i] = stack[u][i] \/ (stack'[u][i].pc = pc /\ stack'[u][i].cb = cb)
    BY <1>4, <2>1, Zenon DEF MovedTo
  <2>3. callback' = callback /\ setter' = setter
    BY <1>4
  <2>. QED
    BY <1>4, <2>1, <2>2, <2>3 DEF OldDone
<1>5. ASSUME NEW t \in Threads, SetCallback(t) \/ Destroy(t)
      PROVE  OldDone'
  <2>1. MayPass(t) /\ setter' = t
    BY <1>5, Zenon DEF SetCallback, Destroy
  <2>2. PICK pc \in {"leave", "unsubscribe"} : \E todo, cb : MovedTo(t, pc, todo, cb)
    BY <1>5, SetCallbackMoves, DestroyMoves, Zenon
  <2>3. \A u \in Threads : \A i \in 1 .. Depth(u) : stack[u][i].pc \in Dispatching => u = t
    BY <2>1, PassIsAlone, Zenon
  <2>4. \A u \in Threads : \A i \in 1 .. Depth(u)' :
          stack'[u][i].pc = "callback" => i \in 1 .. Depth(u) /\ stack'[u][i] = stack[u][i]
    BY <1>d, <2>2, Zenon DEF MovedTo
  <2>. QED
    BY <1>d, <2>1, <2>3, <2>4 DEF OldDone, Dispatching
<1>6. ASSUME NEW t \in Threads, Deliver(t)
      PROVE  OldDone'
  BY <1>4, <1>6, DeliverMoves, Zenon DEF Deliver
<1>7. ASSUME NEW t \in Threads, Drain(t) \/ Change(t) \/ KeepQueued(t)
      PROVE  OldDone'
  <2>1. UNCHANGED <<callback, setter>>
    BY <1>7, Zenon DEF Drain, Change, KeepQueued
  <2>. QED
    BY <1>4, <1>7, <2>1, DrainMoves, ChangeMoves, KeepQueuedMoves, Zenon
<1>8. ASSUME NEW t \in Threads, CallbackReturns(t) \/ EndDispatch(t) \/ Unsubscribe(t)
      PROVE  OldDone'
  <2>1. UNCHANGED <<callback, setter>>
    BY <1>8, Zenon DEF CallbackReturns, EndDispatch, Unsubscribe
  <2>. QED
    BY <1>4, <1>8, <2>1, CallbackReturnsMoves, EndDispatchMoves, UnsubscribeMoves, Zenon
<1>. QED
  BY <1>1, <1>2, <1>3, <1>5, <1>6, <1>7, <1>8, Zenon DEF Next, Step

-----------------------------------------------------------------------------
(* The theorems. *)

\* The invariant holds at first: one owner or two, nobody in a call, nothing told.
LEMMA InitInv == Init => CallsInv
<1>. SUFFICES ASSUME Init PROVE CallsInv
  OBVIOUS
<1>1. TypeOK
  BY InitTypes, Zenon
<1>2. \A t \in Threads : Depth(t) = 0
  BY Zenon DEF Init, Depth
<1>3. InCall = {} /\ InDispatch = {}
  BY <1>2 DEF InCall, InDispatch
<1>4. Nested /\ HandleTaken /\ TodoInDispatch /\ OldDone
  <2>1. Nested /\ TodoInDispatch /\ OldDone
    BY <1>2, CallsAssumption DEF Nested, TodoInDispatch, OldDone
  <2>2. ~destroy_started /\ \A t \in Threads, i \in 1 .. 0 : FALSE
    BY DEF Init
  <2>3. HandleTaken
    BY <1>2, <2>2, Zenon DEF HandleTaken
  <2>. QED
    BY <2>1, <2>3, Zenon
<1>5. RefsExact
  <2>1. Cardinality(InCall) = 0
    BY <1>3, FS_EmptySet, Zenon
  <2>2. Owners = IF subscribed THEN 2 ELSE 1
    BY <2>1 DEF Owners, Init
  <2>3. refcount = Owners /\ ~freed /\ ~destroy_started
    BY <2>2, Zenon DEF Init
  <2>. QED
    BY <2>3, Zenon DEF RefsExact, Init
<1>6. OneDispatcher
  BY <1>2, <1>3, FS_EmptySet DEF OneDispatcher, Init
<1>7. Len(queue) <= QueueCap
  BY CallsAssumption DEF Init
<1>. QED
  BY <1>1, <1>4, <1>5, <1>6, <1>7, Zenon DEF CallsInv

\* The invariant is inductive.
THEOREM CallsInvariant == Spec => []CallsInv
<1>1. ASSUME CallsInv, [Next]_vars
      PROVE  CallsInv'
  BY <1>1, NextTypes, NextNested, NextHandleTaken, NextRefs, NextDispatcher, NextTodo,
     NextOldCallback, Zenon DEF CallsInv
<1>. QED
  BY <1>1, InitInv, PTL DEF Spec

\* fsm_handle_acquire, fsm_event_ctx_retain, fsm_impl_release, libbgp_fsm_destroy: the
\* reference count is exact, and the last owner to leave frees.
THEOREM RefsAlwaysExact == Spec => []RefsExact
<1>1. CallsInv => RefsExact
  BY Zenon DEF CallsInv
<1>. QED
  BY <1>1, CallsInvariant, PTL

\* libbgp_fsm_set_state_change_cb, libbgp_fsm_destroy: a callback that was replaced
\* is not running, except around the call that replaced it.
THEOREM OldCallbackAlwaysDone == Spec => []OldCallbackDone
<1>1. CallsInv => OldCallbackDone
  <2>. SUFFICES ASSUME CallsInv
                PROVE  OldCallbackDone
    BY Zenon
  <2>1. \A t \in Threads : DOMAIN stack[t] = 1 .. Depth(t)
    BY DEF CallsInv, TypeOK, Depth
  <2>. QED
    BY <2>1, Zenon DEF CallsInv, OldDone, OldCallbackDone
<1>. QED
  BY <1>1, CallsInvariant, PTL

-----------------------------------------------------------------------------
(* The changes of an FSM arrive in order, and none is lost.  Links says    *)
(* how what was delivered, what a dispatch has drained and what is queued  *)
(* follow on each other up to the current state, as long as no history     *)
(* excuses it.  It is inductive beside CallsInv.                           *)

Chained(s) == \A i \in 1 .. Len(s) - 1 : s[i].new = s[i + 1].old
Final(s) == s[Len(s)].new

\* The frame at depth i of thread t holds changes it has not delivered.
Holds(t, i) == t \in Threads /\ i \in 1 .. Depth(t) /\ stack[t][i].todo # <<>>

\* destroy has cleared the queue under a dispatch of its own thread: nothing is
\* delivered after that.
CutOff(t) == ~handle /\ callback = NoCallback /\ queue = <<>> /\ Top(t).pc # "set"

\* Where the changes start that are neither delivered nor drained.
Start == IF queue = <<>> THEN state ELSE queue[1].old

\* What is queued leads from one state to the current one.
QueueLinks ==
  /\ Chained(queue)
  /\ queue # <<>> => Final(queue) = state

\* One frame at most holds changes; they come before the queued ones.
TodoLinks ==
  \A t \in Threads, i \in Nat :
    Holds(t, i) =>
      /\ \A u \in Threads, j \in Nat : Holds(u, j) => u = t /\ j = i
      /\ Chained(stack[t][i].todo)
      /\ \/ CutOff(t)
         \/ Final(stack[t][i].todo) = Start

\* What was delivered comes before what is held, or else before what is queued, or
\* ends in the current state.  A frame whose callback has been replaced will
\* deliver nothing more, and nothing was delivered since.
SeenLinks ==
  /\ Chained(seen)
  /\ callback = NoCallback => seen = <<>>
  /\ \A t \in Threads, i \in Nat :
       Holds(t, i) =>
         IF stack[t][i].cb = callback
         THEN seen # <<>> => Final(seen) = stack[t][i].todo[1].old
         ELSE seen = <<>> /\ (queue = <<>> => base = state)
  /\ (\A t \in Threads, i \in Nat : ~Holds(t, i)) =>
       /\ seen # <<>> => Final(seen) = Start
       /\ seen = <<>> /\ queue = <<>> /\ callback # NoCallback => base = state

Links == crossed \/ gap \/ (QueueLinks /\ TodoLinks /\ SeenLinks)

-----------------------------------------------------------------------------
(* How the changes link up, preserved. *)

Linked == QueueLinks /\ TodoLinks /\ SeenLinks

\* The same frames hold the same changes for the same callbacks.
SameHolds ==
  \A u \in Threads, i \in Nat :
    /\ Holds(u, i)' <=> Holds(u, i)
    /\ Holds(u, i) => stack'[u][i].todo = stack[u][i].todo /\ stack'[u][i].cb = stack[u][i].cb

\* Frames hold changes after a step inside a call as before, but for the frame
\* itself.
LEMMA MovedHolds ==
    ASSUME TypeOK, NEW t \in Threads, NEW pc, NEW todo, NEW cb, MovedTo(t, pc, todo, cb)
    PROVE  /\ todo = Top(t).todo /\ cb = Top(t).cb => SameHolds
           /\ Depth(t) \in Nat /\ Depth(t) > 0
           /\ Holds(t, Depth(t)) <=> Top(t).todo # <<>>
           /\ Holds(t, Depth(t))' <=> todo # <<>>
           /\ \A u \in Threads, i \in Nat :
                u # t \/ i # Depth(t) =>
                  /\ Holds(u, i)' <=> Holds(u, i)
                  /\ Holds(u, i) => stack'[u][i] = stack[u][i]
<1>1. Depth(t) \in Nat /\ Depth(t) > 0 /\ \A u \in Threads : Depth(u) \in Nat
  BY DEF TypeOK, Depth, MovedTo
<1>2. \A u \in Threads, i \in Nat :
        u # t \/ i # Depth(t) =>
          /\ Holds(u, i)' <=> Holds(u, i)
          /\ Holds(u, i) => stack'[u][i] = stack[u][i]
  BY <1>1, Zenon DEF Holds, MovedTo
<1>3. /\ Holds(t, Depth(t)) <=> Top(t).todo # <<>>
      /\ (t \in Threads /\ Depth(t) \in 1 .. Depth(t)' /\ stack'[t][Depth(t)].todo # <<>>) <=> todo # <<>>
  BY <1>1 DEF Holds, Top, MovedTo
<1>4. ASSUME todo = Top(t).todo, cb = Top(t).cb
      PROVE  SameHolds
  <2>. SUFFICES ASSUME NEW u \in Threads, NEW i \in Nat
                PROVE  /\ Holds(u, i)' <=> Holds(u, i)
                       /\ Holds(u, i) => stack'[u][i].todo = stack[u][i].todo /\ stack'[u][i].cb = stack[u][i].cb
    BY Zenon DEF SameHolds
  <2>1. CASE u # t \/ i # Depth(t)
    BY <1>2, <2>1, Zenon
  <2>2. CASE u = t /\ i = Depth(t)
    BY <1>1, <1>4, <2>2, Zenon DEF Holds, Top, MovedTo
  <2>. QED
    BY <2>1, <2>2, Zenon
<1>5. Depth(t)' = Depth(t)
  BY Zenon DEF MovedTo
<1>6. Holds(t, Depth(t))' <=> todo # <<>>
  BY <1>3, <1>5, Zenon DEF Holds
<1>. QED
  BY <1>1, <1>2, <1>3, <1>4, <1>6, Zenon

\* A call that begins or returns holds nothing.
LEMMA BegunHolds ==
    ASSUME TypeOK, NEW t \in Threads, NEW pc, Begun(t, pc)
    PROVE  SameHolds
<1>1. \A u \in Threads : Depth(u) \in Nat
  BY DEF TypeOK, Depth
<1>. QED
  BY <1>1 DEF SameHolds, Holds, Begun

\* Returning from a call loses no drained change.
LEMMA LeaveHolds ==
    ASSUME TypeOK, TodoInDispatch, NEW t \in Threads, Leave(t)
    PROVE  SameHolds
<1>1. \A u \in Threads : Depth(u) \in Nat
  BY DEF TypeOK, Depth
<1>2. Depth(t) > 0 /\ stack[t][Depth(t)].todo = <<>>
  BY <1>1 DEF TodoInDispatch, Leave, At, Top, Dispatching
<1>. SUFFICES ASSUME NEW u \in Threads, NEW i \in Nat
              PROVE  /\ Holds(u, i)' <=> Holds(u, i)
                     /\ Holds(u, i) => stack'[u][i].todo = stack[u][i].todo /\ stack'[u][i].cb = stack[u][i].cb
  BY Zenon DEF SameHolds
<1>3. /\ Depth(u)' = IF u = t THEN Depth(u) - 1 ELSE Depth(u)
      /\ \A j \in 1 .. Depth(u)' : stack'[u][j] = stack[u][j]
  BY LeavePops, Zenon
<1>. QED
  BY <1>1, <1>2, <1>3 DEF Holds

\* A frame that holds changes belongs to the thread that may pass.
LEMMA HolderPasses ==
    ASSUME TypeOK, Nested, OneDispatcher, TodoInDispatch, NEW t \in Threads, MayPass(t)
    PROVE  \A u \in Threads, i \in Nat : Holds(u, i) => u = t
BY PassIsAlone, Zenon DEF TodoInDispatch, Holds

\* Steps that touch neither the changes nor the callback keep the links.
LEMMA LinksKept ==
    ASSUME Linked, SameHolds, UNCHANGED <<queue, state, seen, base, callback>>,
           \A u \in Threads, i \in Nat : Holds(u, i) /\ CutOff(u) => CutOff(u)'
    PROVE  Linked'
<1>1. QueueLinks' /\ Start' = Start
  BY Zenon DEF Linked, QueueLinks, Start, Chained, Final
<1>2. TodoLinks'
  <2>. SUFFICES ASSUME NEW t \in Threads, NEW i \in Nat, Holds(t, i)'
                PROVE  /\ \A u \in Threads, j \in Nat : Holds(u, j)' => u = t /\ j = i
                       /\ Chained(stack'[t][i].todo)
                       /\ CutOff(t)' \/ Final(stack'[t][i].todo) = Start'
    BY Zenon DEF TodoLinks, Chained, Final
  <2>1. Holds(t, i) /\ stack'[t][i].todo = stack[t][i].todo
    BY Zenon DEF SameHolds
  <2>2. /\ \A u \in Threads, j \in Nat : Holds(u, j) => u = t /\ j = i
        /\ Chained(stack[t][i].todo)
        /\ CutOff(t) \/ Final(stack[t][i].todo) = Start
    BY <2>1, Zenon DEF Linked, TodoLinks
  <2>3. \A u \in Threads, j \in Nat : Holds(u, j)' => u = t /\ j = i
    BY <2>2, Zenon DEF SameHolds
  <2>. QED
    BY <1>1, <2>1, <2>2, <2>3, Zenon
<1>3. SeenLinks'
  <2>. USE DEF Linked, SeenLinks, SameHolds, Chained, Final
  <2>1. Chained(seen)' /\ (callback' = NoCallback => seen' = <<>>)
    BY Zenon
  <2>2. ASSUME NEW t \in Threads, NEW i \in Nat, Holds(t, i)'
        PROVE  IF stack'[t][i].cb = callback'
               THEN seen' # <<>> => seen'[Len(seen')].new = stack'[t][i].todo[1].old
               ELSE seen' = <<>> /\ (queue' = <<>> => base' = state')
    BY <2>2, Zenon
  <2>3. ASSUME \A t \in Threads, i \in Nat : ~Holds(t, i)'
        PROVE  /\ seen' # <<>> => seen'[Len(seen')].new = Start'
               /\ seen' = <<>> /\ queue' = <<>> /\ callback' # NoCallback => base' = state'
    BY <1>1, <2>3, Zenon
  <2>. QED
    BY <2>1, <2>2, <2>3, Zenon
<1>. QED
  BY <1>1, <1>2, <1>3, Zenon DEF Linked

\* No frame inside a call moves to the registration of a callback.
LEMMA MovedTop ==
    ASSUME TypeOK, NEW t \in Threads, NEW pc, NEW todo, NEW cb, MovedTo(t, pc, todo, cb), pc # "set"
    PROVE  \A u \in Threads, i \in Nat : Holds(u, i) /\ Top(u).pc # "set" => Top(u)'.pc # "set"
<1>. SUFFICES ASSUME NEW u \in Threads, NEW i \in Nat, Holds(u, i), Top(u).pc # "set"
              PROVE  Top(u)'.pc # "set"
  BY Zenon
<1>1. Depth(u) \in Nat /\ Depth(u) \in 1 .. Depth(u) /\ Depth(u)' = Depth(u)
  BY DEF TypeOK, Depth, MovedTo, Holds
<1>2. Top(u)' = stack'[u][Depth(u)]
  BY <1>1, Zenon DEF Top
<1>3. CASE u = t
  BY <1>2, <1>3, Zenon DEF MovedTo
<1>4. CASE u # t
  BY <1>1, <1>2, <1>4, Zenon DEF MovedTo, Top
<1>. QED
  BY <1>3, <1>4, Zenon

\* A change made for a registered callback is queued behind what is there.
LEMMA ChangeLinks ==
    ASSUME TypeOK, Len(queue) <= QueueCap, Linked, NEW t \in Threads, Change(t), ~gap'
    PROVE  Linked'
<1>. USE DEF object, dispatch, registered
<1>1. PICK s \in {state, state + 1} : SetState(s)
  BY Zenon DEF Change
<1>2. s \in Nat /\ state \in Nat /\ queue \in Seq(Changes)
  BY <1>1 DEF TypeOK
<1>3. MovedTo(t, "drain", Top(t).todo, Top(t).cb) /\ SameHolds
  BY ChangeMoves, MovedHolds, Zenon
<1>4. UNCHANGED <<handle, callback, seen, base>>
  BY Zenon DEF Change
<1>5. /\ state' = s /\ queue' \in Seq(Changes)
      /\ callback = NoCallback \/ s = state => queue' = queue
  BY <1>1, <1>2, SetStateQueue, Zenon
<1>6. CASE s = state
  <2>1. UNCHANGED <<queue, state, seen, base, callback>>
    BY <1>4, <1>5, <1>6, Zenon
  <2>2. \A u \in Threads, i \in Nat : Holds(u, i) /\ CutOff(u) => CutOff(u)'
    <3>1. \A u \in Threads, i \in Nat : Holds(u, i) /\ Top(u).pc # "set" => Top(u)'.pc # "set"
      BY <1>3, MovedTop, Zenon
    <3>. QED
      BY <1>4, <2>1, <3>1, Zenon DEF CutOff
  <2>. QED
    BY <1>3, <2>1, <2>2, LinksKept, Zenon
<1>7. CASE s # state /\ callback = NoCallback
  <2>1. ~Waiting
    <3>1. state' # state
      BY <1>5, <1>7, Zenon
    <3>. QED
      BY <1>7, <3>1, Zenon DEF Change
  <2>2. queue = <<>> /\ \A u \in Threads, i \in Nat : ~Holds(u, i)
    <3>1. queue = <<>> /\ \A u \in Threads : \A i \in DOMAIN stack[u] : stack[u][i].todo = <<>>
      BY <2>1, Zenon DEF Waiting
    <3>2. \A u \in Threads : DOMAIN stack[u] = 1 .. Depth(u)
      BY DEF TypeOK, Depth
    <3>. QED
      BY <3>1, <3>2, Zenon DEF Holds
  <2>3. queue' = <<>> /\ \A u \in Threads, i \in Nat : ~Holds(u, i)'
    BY <1>3, <1>5, <1>7, <2>2, Zenon DEF SameHolds
  <2>4. seen = <<>>
    BY <1>7, Zenon DEF Linked, SeenLinks
  <2>5. QueueLinks'
    BY <2>3 DEF QueueLinks, Chained
  <2>6. TodoLinks'
    BY <2>3, Zenon DEF TodoLinks
  <2>7. SeenLinks'
    BY <1>4, <1>7, <2>3, <2>4 DEF SeenLinks, Chained
  <2>. QED
    BY <2>5, <2>6, <2>7, Zenon DEF Linked
<1>8. CASE s # state /\ callback # NoCallback
  <2>1. /\ Len(queue') \in {Len(queue), Len(queue) + 1} /\ Len(queue') > 0
        /\ queue'[Len(queue')].new = s
        /\ Len(queue') = Len(queue) + 1 => queue'[Len(queue')].old = state
        /\ Len(queue') = Len(queue) => queue'[Len(queue')].old = queue[Len(queue)].old
        /\ \A i \in 1 .. Len(queue') - 1 : queue'[i] = queue[i]
    BY <1>1, <1>2, <1>8, SetStateQueue, Zenon
  <2>2. Chained(queue) /\ (queue # <<>> => queue[Len(queue)].new = state)
    BY Zenon DEF Linked, QueueLinks, Final
  <2>3. QueueLinks' /\ Start' = Start /\ queue' # <<>>
    <3>1. queue' # <<>> /\ Len(queue) \in Nat /\ Len(queue') \in Nat
      BY <1>2, <1>5, <2>1
    <3>2. ASSUME NEW i \in 1 .. Len(queue') - 1
          PROVE  queue'[i].new = queue'[i + 1].old
      <4>1. queue'[i] = queue[i]
        BY <2>1, Zenon
      <4>2. CASE i + 1 = Len(queue')
        <5>1. CASE Len(queue') = Len(queue) + 1
          BY <2>1, <2>2, <3>1, <4>1, <4>2, <5>1
        <5>2. CASE Len(queue') = Len(queue)
          BY <2>1, <2>2, <3>1, <4>1, <4>2, <5>2 DEF Chained
        <5>. QED
          BY <2>1, <5>1, <5>2
      <4>3. CASE i + 1 # Len(queue')
        <5>1. i + 1 \in 1 .. Len(queue') - 1 /\ i \in 1 .. Len(queue) - 1
          BY <2>1, <3>1, <4>3
        <5>. QED
          BY <2>1, <2>2, <4>1, <5>1, Zenon DEF Chained
      <4>. QED
        BY <4>2, <4>3
    <3>3. Start' = Start
      BY <1>2, <2>1, <3>1 DEF Start
    <3>. QED
      BY <1>5, <2>1, <3>1, <3>2, <3>3, Zenon DEF QueueLinks, Chained, Final
  <2>4. TodoLinks'
    <3>. SUFFICES ASSUME NEW u \in Threads, NEW i \in Nat, Holds(u, i)'
                  PROVE  /\ \A v \in Threads, j \in Nat : Holds(v, j)' => v = u /\ j = i
                         /\ Chained(stack'[u][i].todo)
                         /\ Final(stack'[u][i].todo) = Start'
      BY Zenon DEF TodoLinks, Chained, Final
    <3>1. Holds(u, i) /\ stack'[u][i].todo = stack[u][i].todo
      BY <1>3, Zenon DEF SameHolds
    <3>2. ~CutOff(u)
      BY <1>8, Zenon DEF CutOff
    <3>3. /\ \A v \in Threads, j \in Nat : Holds(v, j) => v = u /\ j = i
          /\ Chained(stack[u][i].todo)
          /\ Final(stack[u][i].todo) = Start
      BY <3>1, <3>2, Zenon DEF Linked, TodoLinks
    <3>4. \A v \in Threads, j \in Nat : Holds(v, j)' => v = u /\ j = i
      BY <1>3, <3>3, Zenon DEF SameHolds
    <3>. QED
      BY <2>3, <3>1, <3>3, <3>4, Zenon
  <2>5. SeenLinks'
    <3>. USE DEF Linked, SeenLinks, SameHolds, Chained, Final
    <3>1. Chained(seen)' /\ (callback' = NoCallback => seen' = <<>>)
      BY <1>4, Zenon
    <3>2. ASSUME NEW u \in Threads, NEW i \in Nat, Holds(u, i)'
          PROVE  IF stack'[u][i].cb = callback'
                 THEN seen' # <<>> => seen'[Len(seen')].new = stack'[u][i].todo[1].old
                 ELSE seen' = <<>> /\ (queue' = <<>> => base' = state')
      BY <1>3, <1>4, <2>3, <3>2
    <3>3. ASSUME \A u \in Threads, i \in Nat : ~Holds(u, i)'
          PROVE  seen' # <<>> => seen'[Len(seen')].new = Start'
      BY <1>3, <1>4, <2>3, <3>3, Zenon
    <3>. QED
      BY <2>3, <3>1, <3>2, <3>3, Zenon
  <2>. QED
    BY <2>3, <2>4, <2>5, Zenon DEF Linked
<1>. QED
  BY <1>6, <1>7, <1>8, Zenon

\* A drain that crosses no other takes over the whole queue, and nothing was held.
LEMMA DrainLinks ==
    ASSUME TypeOK, Nested, OneDispatcher, TodoInDispatch, Linked,
           NEW t \in Threads, Drain(t), queue # <<>>, ~crossed'
    PROVE  Linked'
<1>. USE DEF object, registered
<1>1. MovedTo(t, "deliver", queue, callback)
  BY DrainMoves, Zenon
<1>2. /\ Depth(t) \in Nat /\ Depth(t) > 0
      /\ \A u \in Threads, i \in Nat :
           u # t \/ i # Depth(t) => (Holds(u, i)' <=> Holds(u, i))
  BY <1>1, MovedHolds, Zenon
<1>3. MayPass(t) /\ Top(t).pc = "drain"
  BY Zenon DEF Drain, At
<1>4. \A i \in 1 .. Depth(t) - 1 : stack[t][i].todo = <<>>
  BY Zenon DEF Drain
<1>5. \A u \in Threads, i \in Nat : ~Holds(u, i)
  <2>1. \A u \in Threads, i \in Nat : Holds(u, i) => u = t
    BY <1>3, HolderPasses, Zenon
  <2>2. stack[t][Depth(t)].todo = <<>>
    BY <1>2, <1>3 DEF TodoInDispatch, Dispatching, Top
  <2>. QED
    BY <1>2, <1>4, <2>1, <2>2 DEF Holds
<1>6. UNCHANGED <<state, seen, base, callback>> /\ queue' = <<>>
  BY Zenon DEF Drain
<1>7. \A u \in Threads, i \in Nat : Holds(u, i)' => u = t /\ i = Depth(t)
  BY <1>2, <1>5, Zenon
<1>8. stack'[t][Depth(t)].todo = queue /\ stack'[t][Depth(t)].cb = callback
  BY <1>1, Zenon DEF MovedTo
<1>9. QueueLinks' /\ Start' = state
  BY <1>6 DEF QueueLinks, Chained, Start
<1>10. Chained(queue) /\ Final(queue) = state
  BY Zenon DEF Linked, QueueLinks
<1>11. TodoLinks'
  BY <1>7, <1>8, <1>9, <1>10, Zenon DEF TodoLinks, Chained, Final
<1>12. seen # <<>> => Final(seen) = queue[1].old
  BY <1>5, Zenon DEF Linked, SeenLinks, Start
<1>13. SeenLinks'
  <2>. USE DEF Chained, Final
  <2>1. Chained(seen)' /\ (callback' = NoCallback => seen' = <<>>)
    BY <1>6, Zenon DEF Linked, SeenLinks
  <2>2. Holds(t, Depth(t))'
    BY <1>1, MovedHolds, Zenon
  <2>3. Depth(t)' = Depth(t)
    BY <1>1, Zenon DEF MovedTo
  <2>4. ~(\A u \in Threads, i \in Nat : ~Holds(u, i)')
    BY <1>2, <2>2, <2>3, Zenon
  <2>. QED
    BY <1>6, <1>7, <1>8, <1>12, <2>1, <2>4, Zenon DEF SeenLinks
<1>. QED
  BY <1>9, <1>11, <1>13, Zenon DEF Linked

\* A delivery moves the first change held behind what was delivered.
LEMMA DeliverLinks ==
    ASSUME TypeOK, Linked, NEW t \in Threads, Deliver(t)
    PROVE  Linked'
<1>. USE DEF object, changes, dispatch
<1>. DEFINE todo == Top(t).todo
            rest == Tail(todo)
<1>0. todo = Top(t).todo /\ rest = Tail(todo)
  BY Zenon
<1>1. MovedTo(t, "callback", rest, Top(t).cb)
  BY DeliverMoves, Zenon
<1>. HIDE DEF todo, rest
<1>2. /\ Depth(t) \in Nat /\ Depth(t) > 0
      /\ Holds(t, Depth(t)) <=> todo # <<>>
      /\ Holds(t, Depth(t))' <=> rest # <<>>
      /\ \A u \in Threads, i \in Nat :
           u # t \/ i # Depth(t) => (Holds(u, i)' <=> Holds(u, i))
  BY <1>0, <1>1, MovedHolds, Zenon
<1>3. /\ todo # <<>> /\ callback = Top(t).cb /\ callback # NoCallback
      /\ seen' = Append(seen, Head(todo))
      /\ UNCHANGED <<queue, state, base, callback>>
  BY <1>0, Zenon DEF Deliver
<1>4. todo = stack[t][Depth(t)].todo /\ todo \in Seq(Changes) /\ seen \in Seq(Changes)
  <2>1. Top(t) \in Frames
    BY <1>2, TopIsFrame, Zenon
  <2>. QED
    BY <1>0, <2>1, Zenon DEF Top, Frames, TypeOK
<1>5. /\ stack'[t][Depth(t)].todo = rest /\ stack'[t][Depth(t)].cb = callback
      /\ stack[t][Depth(t)].cb = callback
  BY <1>1, <1>3, Zenon DEF MovedTo, Top
<1>6. Holds(t, Depth(t)) /\ ~CutOff(t)
  BY <1>2, <1>3, Zenon DEF CutOff
<1>7. /\ \A u \in Threads, i \in Nat : Holds(u, i) => u = t /\ i = Depth(t)
      /\ Chained(todo) /\ Final(todo) = Start
  BY <1>2, <1>4, <1>6, Zenon DEF Linked, TodoLinks
<1>8. Chained(seen) /\ (seen # <<>> => Final(seen) = todo[1].old)
  BY <1>2, <1>4, <1>5, <1>6, Zenon DEF Linked, SeenLinks
<1>9. /\ Len(todo) \in Nat /\ Len(todo) > 0 /\ Head(todo) = todo[1]
      /\ rest \in Seq(Changes) /\ Len(rest) = Len(todo) - 1
      /\ \A i \in 1 .. Len(todo) - 1 : rest[i] = todo[i + 1]
      /\ rest # <<>> <=> Len(todo) > 1
  <2>1. /\ Len(todo) \in Nat /\ Len(todo) > 0 /\ Head(todo) = todo[1]
        /\ rest \in Seq(Changes) /\ Len(rest) = Len(todo) - 1
    BY <1>0, <1>3, <1>4
  <2>2. \A i \in 1 .. Len(todo) - 1 : rest[i] = todo[i + 1]
    BY <1>0, <1>3, <1>4
  <2>3. rest # <<>> <=> Len(rest) > 0
    BY <2>1
  <2>. QED
    BY <2>1, <2>2, <2>3
<1>10. /\ seen' \in Seq(Changes) /\ Len(seen') = Len(seen) + 1 /\ seen'[Len(seen')] = todo[1]
       /\ \A i \in 1 .. Len(seen) : seen'[i] = seen[i]
       /\ Len(seen) \in Nat /\ seen' # <<>>
  <2>1. Head(todo) \in Changes
    BY <1>3, <1>4
  <2>. QED
    BY <1>3, <1>4, <1>9, <2>1
<1>11. \A i \in 1 .. Len(seen') - 1 : seen'[i].new = seen'[i + 1].old
  <2>. SUFFICES ASSUME NEW i \in 1 .. Len(seen') - 1
                PROVE  seen'[i].new = seen'[i + 1].old
    BY Zenon
  <2>1. CASE i = Len(seen)
    BY <1>4, <1>8, <1>10, <2>1 DEF Final
  <2>2. CASE i # Len(seen)
    BY <1>8, <1>10, <2>2 DEF Chained
  <2>. QED
    BY <2>1, <2>2, Zenon
<1>12. QueueLinks' /\ Start' = Start
  BY <1>3, Zenon DEF Linked, QueueLinks, Chained, Final, Start
<1>13. \A u \in Threads, i \in Nat : Holds(u, i)' => u = t /\ i = Depth(t)
  BY <1>2, <1>7, Zenon
<1>14. Depth(t)' = Depth(t)
  BY <1>1, Zenon DEF MovedTo
<1>15. CASE Len(todo) = 1
  <2>1. \A u \in Threads, i \in Nat : ~Holds(u, i)'
    BY <1>2, <1>9, <1>13, <1>14, <1>15
  <2>2. TodoLinks'
    BY <2>1, Zenon DEF TodoLinks
  <2>3. seen'[Len(seen')].new = Start'
    BY <1>7, <1>10, <1>12, <1>15, Zenon DEF Final
  <2>4. SeenLinks'
    BY <1>3, <1>10, <1>11, <2>1, <2>3, Zenon DEF SeenLinks, Chained, Final
  <2>. QED
    BY <1>12, <2>2, <2>4, Zenon DEF Linked
<1>16. CASE Len(todo) > 1
  <2>1. /\ \A i \in 1 .. Len(rest) - 1 : rest[i].new = rest[i + 1].old
        /\ rest[Len(rest)].new = Start
        /\ rest[1].old = todo[1].new
    <3>1. ASSUME NEW i \in 1 .. Len(rest) - 1
          PROVE  rest[i].new = rest[i + 1].old
      <4>1. rest[i] = todo[i + 1] /\ rest[i + 1] = todo[i + 2]
        BY <1>9, <3>1
      <4>2. todo[i + 1].new = todo[i + 2].old
        BY <1>7, <1>9, <3>1 DEF Chained
      <4>. QED
        BY <4>1, <4>2, Zenon
    <3>2. rest[Len(rest)] = todo[Len(todo)] /\ rest[1] = todo[2]
      BY <1>9, <1>16
    <3>3. todo[1].new = todo[2].old /\ todo[Len(todo)].new = Start
      BY <1>7, <1>9, <1>16 DEF Chained, Final
    <3>. QED
      BY <3>1, <3>2, <3>3, Zenon
  <2>2. TodoLinks'
    BY <1>5, <1>12, <1>13, <2>1, Zenon DEF TodoLinks, Chained, Final
  <2>3. ~(\A u \in Threads, i \in Nat : ~Holds(u, i)')
    BY <1>2, <1>9, <1>14, <1>16, Zenon
  <2>4. SeenLinks'
    BY <1>3, <1>5, <1>10, <1>11, <1>13, <2>1, <2>3, Zenon DEF SeenLinks, Chained, Final
  <2>. QED
    BY <1>12, <2>2, <2>4 DEF Linked
<1>. QED
  BY <1>9, <1>15, <1>16

\* The end of a dispatch forgets only changes whose callback is not registered, and
\* to the callback that is nothing had been delivered.
LEMMA EndLinks ==
    ASSUME TypeOK, Linked, NEW t \in Threads, EndDispatch(t)
    PROVE  Linked'
<1>. USE DEF object, changes, registered
<1>1. MovedTo(t, "leave", <<>>, NoCallback)
  BY EndDispatchMoves, Zenon
<1>2. /\ Depth(t) \in Nat /\ Depth(t) > 0
      /\ Holds(t, Depth(t)) <=> Top(t).todo # <<>>
      /\ ~Holds(t, Depth(t))'
      /\ \A u \in Threads, i \in Nat :
           u # t \/ i # Depth(t) =>
             /\ Holds(u, i)' <=> Holds(u, i)
             /\ Holds(u, i) => stack'[u][i] = stack[u][i]
  BY <1>1, MovedHolds, Zenon
<1>3. UNCHANGED <<handle, queue, state, seen, base, callback>>
  BY Zenon DEF EndDispatch
<1>4. Depth(t)' = Depth(t)
  BY <1>1, Zenon DEF MovedTo
<1>5. CASE Holds(t, Depth(t))
  <2>1. \A u \in Threads, i \in Nat : ~Holds(u, i)'
    BY <1>2, <1>4, <1>5 DEF Linked, TodoLinks
  <2>2. QueueLinks' /\ Start' = Start
    BY <1>3, Zenon DEF Linked, QueueLinks, Chained, Final, Start
  <2>3. TodoLinks'
    BY <2>1, Zenon DEF TodoLinks
  <2>4. Top(t).todo # <<>> /\ Top(t) = stack[t][Depth(t)]
    BY <1>2, <1>5, Zenon DEF Top
  <2>5. Top(t).cb = callback => callback = NoCallback
    BY <2>4, Zenon DEF EndDispatch
  <2>6. seen = <<>> /\ (queue = <<>> /\ callback # NoCallback => base = state)
    BY <1>2, <1>5, <2>4, <2>5 DEF Linked, SeenLinks
  <2>7. SeenLinks'
    BY <1>3, <2>1, <2>6 DEF SeenLinks, Chained
  <2>. QED
    BY <2>2, <2>3, <2>7 DEF Linked
<1>6. CASE ~Holds(t, Depth(t))
  <2>1. SameHolds
    BY <1>2, <1>4, <1>6, Zenon DEF SameHolds
  <2>2. \A u \in Threads, i \in Nat : Holds(u, i) /\ Top(u).pc # "set" => Top(u)'.pc # "set"
    BY <1>1, MovedTop, Zenon
  <2>3. \A u \in Threads, i \in Nat : Holds(u, i) /\ CutOff(u) => CutOff(u)'
    BY <1>3, <2>2, Zenon DEF CutOff
  <2>. QED
    BY <1>3, <2>1, <2>3, LinksKept, Zenon
<1>. QED
  BY <1>5, <1>6, Zenon

\* A new callback starts from the current state; what is held or queued stays.
LEMMA SetCallbackLinks ==
    ASSUME TypeOK, Nested, OneDispatcher, TodoInDispatch, Linked,
           NEW t \in Threads, SetCallback(t)
    PROVE  Linked'
<1>. USE DEF object, changes
<1>1. MovedTo(t, "leave", Top(t).todo, Top(t).cb) /\ SameHolds
  BY SetCallbackMoves, MovedHolds, Zenon
<1>2. /\ UNCHANGED <<queue, state>> /\ seen' = <<>> /\ base' = state
      /\ MayPass(t) /\ Top(t).pc = "set"
  BY Zenon DEF SetCallback, At
<1>3. QueueLinks' /\ Start' = Start
  BY <1>2, Zenon DEF Linked, QueueLinks, Chained, Final, Start
<1>4. TodoLinks'
  <2>. SUFFICES ASSUME NEW u \in Threads, NEW i \in Nat, Holds(u, i)'
                PROVE  /\ \A v \in Threads, j \in Nat : Holds(v, j)' => v = u /\ j = i
                       /\ Chained(stack'[u][i].todo)
                       /\ Final(stack'[u][i].todo) = Start'
    BY Zenon DEF TodoLinks, Chained, Final
  <2>1. Holds(u, i) /\ stack'[u][i].todo = stack[u][i].todo
    BY <1>1, Zenon DEF SameHolds
  <2>2. u = t
    BY <1>2, <2>1, HolderPasses, Zenon
  <2>3. ~CutOff(u)
    BY <1>2, <2>2, Zenon DEF CutOff
  <2>4. /\ \A v \in Threads, j \in Nat : Holds(v, j) => v = u /\ j = i
        /\ Chained(stack[u][i].todo)
        /\ Final(stack[u][i].todo) = Start
    BY <2>1, <2>3, Zenon DEF Linked, TodoLinks
  <2>5. \A v \in Threads, j \in Nat : Holds(v, j)' => v = u /\ j = i
    BY <1>1, <2>4, Zenon DEF SameHolds
  <2>. QED
    BY <1>3, <2>1, <2>4, <2>5, Zenon
<1>5. SeenLinks'
  BY <1>2 DEF SeenLinks, Chained
<1>. QED
  BY <1>3, <1>4, <1>5, Zenon DEF Linked

\* destroy leaves nothing queued and no callback; what its own thread still holds
\* will not be delivered.
LEMMA DestroyLinks ==
    ASSUME TypeOK, Nested, HandleTaken, OneDispatcher, TodoInDispatch, Linked,
           NEW t \in Threads, Destroy(t)
    PROVE  Linked'
<1>1. MovedTo(t, "unsubscribe", Top(t).todo, Top(t).cb) /\ SameHolds /\ Depth(t) \in Nat /\ Depth(t) > 0
  BY DestroyMoves, MovedHolds, Zenon
<1>2. /\ queue' = <<>> /\ callback' = NoCallback /\ seen' = <<>> /\ base' = state /\ state' = state
      /\ MayPass(t) /\ Top(t).pc = "destroy"
  BY Zenon DEF Destroy, At
<1>3. ~handle'
  <2>1. stack[t][Depth(t)].pc = "destroy" /\ Depth(t) \in 1 .. Depth(t)
    BY <1>1, <1>2 DEF Top
  <2>2. handle' = handle
    BY Zenon DEF Destroy
  <2>. QED
    BY <2>1, <2>2, Zenon DEF HandleTaken
<1>4. Top(t)'.pc # "set"
  BY <1>1, Zenon DEF MovedTo, Top
<1>5. QueueLinks'
  BY <1>2 DEF QueueLinks, Chained
<1>6. CutOff(t)'
  BY <1>2, <1>3, <1>4, Zenon DEF CutOff
<1>7. TodoLinks'
  <2>. SUFFICES ASSUME NEW u \in Threads, NEW i \in Nat, Holds(u, i)'
                PROVE  /\ \A v \in Threads, j \in Nat : Holds(v, j)' => v = u /\ j = i
                       /\ Chained(stack'[u][i].todo)
                       /\ CutOff(u)'
    BY Zenon DEF TodoLinks, Chained
  <2>1. Holds(u, i) /\ stack'[u][i].todo = stack[u][i].todo
    BY <1>1, Zenon DEF SameHolds
  <2>2. u = t
    BY <1>2, <2>1, HolderPasses, Zenon
  <2>3. /\ \A v \in Threads, j \in Nat : Holds(v, j) => v = u /\ j = i
        /\ Chained(stack[u][i].todo)
    BY <2>1, Zenon DEF Linked, TodoLinks
  <2>4. \A v \in Threads, j \in Nat : Holds(v, j)' => v = u /\ j = i
    BY <1>1, <2>3, Zenon DEF SameHolds
  <2>. QED
    BY <1>6, <2>1, <2>2, <2>3, <2>4, Zenon
<1>8. SeenLinks'
  BY <1>2 DEF SeenLinks, Chained
<1>. QED
  BY <1>5, <1>7, <1>8, Zenon DEF Linked

\* The remaining steps leave the changes and the callback alone.
LEMMA OtherLinks ==
    ASSUME TypeOK, Nested, TodoInDispatch, Linked, NEW t \in Threads,
           Begin(t) \/ Leave(t) \/ KeepQueued(t) \/ CallbackReturns(t) \/ Unsubscribe(t)
             \/ (Drain(t) /\ queue = <<>>)
    PROVE  Linked'
<1>. USE DEF object, changes, dispatch, registered, excuses
<1>1. UNCHANGED <<queue, state, seen, base, callback>>
  <2>1. CASE Begin(t)
    BY <2>1, Zenon DEF Begin, BeginCall, BeginEvent, BeginDestroy, BeginSetCallback, Acquire
  <2>2. CASE Leave(t) \/ KeepQueued(t) \/ CallbackReturns(t) \/ Unsubscribe(t)
    BY <2>2, Zenon DEF Leave, KeepQueued, CallbackReturns, Unsubscribe
  <2>3. CASE Drain(t) /\ queue = <<>>
    BY <2>3, Zenon DEF Drain
  <2>. QED
    BY <2>1, <2>2, <2>3, Zenon
<1>2. CASE Begin(t)
  <2>1. PICK pc : Begun(t, pc) /\ (pc = "set" => handle)
    <3>1. ASSUME NEW c \in Handlers, BeginSetCallback(t, c)
          PROVE  handle
      BY <3>1, Zenon DEF BeginSetCallback, Acquire
    <3>2. "change" # "set" /\ "destroy" # "set"
      BY Zenon
    <3>. QED
      BY <1>2, <3>1, <3>2, BeginBegins, Zenon
  <2>2. SameHolds
    BY <2>1, BegunHolds, Zenon
  <2>3. ~handle => ~handle'
    BY <1>2, Zenon DEF Begin, BeginCall, BeginEvent, BeginDestroy, BeginSetCallback, Acquire
  <2>4. ASSUME NEW u \in Threads, NEW i \in Nat, Holds(u, i), CutOff(u)
        PROVE  CutOff(u)'
    <3>1. Depth(u) \in Nat /\ Depth(u) > 0
      BY <2>4 DEF TypeOK, Depth, Holds
    <3>2. Top(u)'.pc # "set"
      <4>1. CASE u = t
        <5>1. ~handle
          BY <2>4, Zenon DEF CutOff
        <5>2. Top(t)'.pc = pc
          BY <2>1, <3>1, <4>1, Zenon DEF Begun, Top
        <5>. QED
          BY <2>1, <4>1, <5>1, <5>2, Zenon
      <4>2. CASE u # t
        <5>1. Depth(u)' = Depth(u) /\ Depth(u) \in 1 .. Depth(u)
          <6>1. Depth(u)' = Depth(u)
            BY <2>1, <4>2, Zenon DEF Begun
          <6>. QED
            BY <3>1, <6>1
        <5>2. Top(u)' = Top(u)
          BY <2>1, <5>1, Zenon DEF Begun, Top
        <5>. QED
          BY <2>4, <5>2, Zenon DEF CutOff
      <4>. QED
        BY <4>1, <4>2, Zenon
    <3>. QED
      BY <1>1, <2>3, <2>4, <3>2, Zenon DEF CutOff
  <2>. QED
    BY <1>1, <2>2, <2>4, LinksKept, Zenon
<1>3. CASE Leave(t)
  <2>1. SameHolds
    BY <1>3, LeaveHolds, Zenon
  <2>2. handle' = handle
    BY <1>3, Zenon DEF Leave
  <2>3. ASSUME NEW u \in Threads, NEW i \in Nat, Holds(u, i), CutOff(u)
        PROVE  CutOff(u)'
    <3>1. Depth(u) \in Nat /\ i \in 1 .. Depth(u)' /\ Depth(u)' \in Nat
      <4>1. Holds(u, i)'
        BY <2>1, <2>3, Zenon DEF SameHolds
      <4>2. stack' \in [Threads -> Seq(Frames)]
        BY <1>3, LeavePops, Zenon
      <4>. QED
        BY <4>1, <4>2 DEF Holds, TypeOK, Depth
    <3>2. Top(u)' = stack[u][Depth(u)']
      BY <1>3, <3>1, LeavePops DEF Top
    <3>3. Depth(u)' = IF u = t THEN Depth(u) - 1 ELSE Depth(u)
      BY <1>3, LeavePops, Zenon
    <3>4. CASE u = t
      <4>1. Top(u)'.pc \in CallsOut
        BY <3>1, <3>2, <3>3, <3>4 DEF Nested
      <4>2. Top(u)'.pc # "set"
        BY <4>1, Zenon DEF CallsOut
      <4>. QED
        BY <1>1, <2>2, <2>3, <4>2, Zenon DEF CutOff
    <3>5. CASE u # t
      <4>1. Top(u)' = Top(u)
        BY <3>2, <3>3, <3>5, Zenon DEF Top
      <4>. QED
        BY <1>1, <2>2, <2>3, <4>1, Zenon DEF CutOff
    <3>. QED
      BY <3>4, <3>5, Zenon
  <2>. QED
    BY <1>1, <2>1, <2>3, LinksKept
<1>4. CASE KeepQueued(t) \/ CallbackReturns(t) \/ Unsubscribe(t) \/ (Drain(t) /\ queue = <<>>)
  <2>1. PICK pc \in {"leave", "deliver"} : MovedTo(t, pc, Top(t).todo, Top(t).cb)
    BY <1>4, KeepQueuedMoves, CallbackReturnsMoves, UnsubscribeMoves, DrainMoves, Zenon
  <2>2. SameHolds
    BY <2>1, MovedHolds, Zenon
  <2>3. \A u \in Threads, i \in Nat : Holds(u, i) /\ Top(u).pc # "set" => Top(u)'.pc # "set"
    BY <2>1, MovedTop, Zenon
  <2>4. handle' = handle
    BY <1>4, Zenon DEF KeepQueued, CallbackReturns, Unsubscribe, Drain
  <2>5. \A u \in Threads, i \in Nat : Holds(u, i) /\ CutOff(u) => CutOff(u)'
    BY <1>1, <2>3, <2>4, Zenon DEF CutOff
  <2>. QED
    BY <1>1, <2>2, <2>5, LinksKept, Zenon
<1>. QED
  BY <1>2, <1>3, <1>4, Zenon

\* Every step keeps the links, unless the histories excuse it.
LEMMA NextLinks ==
    ASSUME CallsInv, Links, [Next]_vars
    PROVE  Links'
<1>. USE DEF CallsInv
<1>. SUFFICES ASSUME ~crossed', ~gap'
              PROVE  Linked'
  BY Zenon DEF Links, Linked
<1>1. ~crossed /\ ~gap
  <2>1. CASE UNCHANGED vars
    BY <2>1, Zenon DEF vars
  <2>2. ASSUME NEW t \in Threads, Begin(t)
        PROVE  ~crossed /\ ~gap
    <3>1. UNCHANGED excuses
      BY <2>2, Zenon DEF Begin, BeginCall, BeginEvent, BeginDestroy, BeginSetCallback, Acquire
    <3>2. crossed' = crossed /\ gap' = gap
      BY <3>1, Zenon DEF excuses
    <3>. QED
      BY <3>2, Zenon
  <2>3. ASSUME NEW t \in Threads, Step(t)
        PROVE  ~crossed /\ ~gap
    <3>1. CASE Change(t)
      <4>1. gap => gap'
        BY <3>1, Zenon DEF Change
      <4>2. crossed' = crossed
        BY <3>1, Zenon DEF Change
      <4>. QED
        BY <4>1, <4>2, Zenon
    <3>2. CASE Drain(t)
      <4>1. gap' = gap
        BY <3>2, Zenon DEF Drain
      <4>2. crossed => crossed'
        BY <3>2, Zenon DEF Drain
      <4>. QED
        BY <4>1, <4>2, Zenon
    <3>3. CASE ~Change(t) /\ ~Drain(t)
      <4>1. UNCHANGED excuses
        BY <2>3, <3>3, Zenon DEF Step, KeepQueued, Deliver, CallbackReturns, EndDispatch, SetCallback,
           Destroy, Unsubscribe, Leave
      <4>2. crossed' = crossed /\ gap' = gap
        BY <4>1 DEF excuses
      <4>. QED
        BY <4>2, Zenon
    <3>. QED
      BY <3>1, <3>2, <3>3, Zenon
  <2>. QED
    BY <2>1, <2>2, <2>3, Zenon DEF Next
<1>2. Linked
  BY <1>1, Zenon DEF Links, Linked
<1>3. CASE UNCHANGED vars
  <2>1. handle' = handle
    BY <1>3, Zenon DEF vars
  <2>2. state' = state /\ queue' = queue /\ callback' = callback /\ base' = base
        /\ seen' = seen /\ stack' = stack
    BY <1>3, Zenon DEF vars
  <2>3. QueueLinks'
    BY <1>2, <2>2, Zenon DEF Linked, QueueLinks, Chained, Final
  <2>4. TodoLinks'
    <3>1. Start' = Start /\ \A t \in Threads, i \in Nat : Holds(t, i)' <=> Holds(t, i)
      BY <2>2, Zenon DEF Start, Holds, Depth
    <3>2. \A t \in Threads : CutOff(t) => CutOff(t)'
      BY <2>1, <2>2, Zenon DEF CutOff, Top, Depth
    <3>3. SUFFICES ASSUME NEW t \in Threads, NEW i \in Nat, Holds(t, i)
                   PROVE  /\ \A u \in Threads, j \in Nat : Holds(u, j)' => u = t /\ j = i
                          /\ Chained(stack[t][i].todo)'
                          /\ \/ CutOff(t)'
                             \/ Final(stack[t][i].todo)' = Start'
      BY <3>1, Zenon DEF TodoLinks
    <3>4. /\ \A u \in Threads, j \in Nat : Holds(u, j) => u = t /\ j = i
          /\ Chained(stack[t][i].todo)
          /\ CutOff(t) \/ Final(stack[t][i].todo) = Start
      BY <1>2, <3>3, Zenon DEF Linked, TodoLinks
    <3>5. Chained(stack[t][i].todo)' /\ Final(stack[t][i].todo)' = Final(stack[t][i].todo)
      BY <2>2, <3>4, Zenon DEF Chained, Final
    <3>. QED
      BY <3>1, <3>2, <3>4, <3>5, Zenon
  <2>5. SeenLinks'
    BY <1>2, <2>2, Zenon DEF Linked, SeenLinks, Chained, Final, Holds, Start, Depth
  <2>. QED
    BY <2>3, <2>4, <2>5, Zenon DEF Linked
<1>4. ASSUME NEW t \in Threads, Begin(t)
      PROVE  Linked'
  BY <1>2, <1>4, OtherLinks, Zenon
<1>5. ASSUME NEW t \in Threads, Step(t)
      PROVE  Linked'
  <2>1. CASE Change(t)
    BY <1>2, <2>1, ChangeLinks, Zenon
  <2>2. CASE Drain(t)
    BY <1>2, <2>2, DrainLinks, OtherLinks, Zenon
  <2>3. CASE Deliver(t)
    BY <1>2, <2>3, DeliverLinks, Zenon
  <2>4. CASE EndDispatch(t)
    BY <1>2, <2>4, EndLinks, Zenon
  <2>5. CASE SetCallback(t)
    BY <1>2, <2>5, SetCallbackLinks, Zenon
  <2>6. CASE Destroy(t)
    BY <1>2, <2>6, DestroyLinks, Zenon
  <2>7. CASE KeepQueued(t) \/ CallbackReturns(t) \/ Unsubscribe(t) \/ Leave(t)
    BY <1>2, <2>7, OtherLinks, Zenon
  <2>. QED
    BY <1>5, <2>1, <2>2, <2>3, <2>4, <2>5, <2>6, <2>7, Zenon DEF Step
<1>. QED
  BY <1>3, <1>4, <1>5, Zenon DEF Next

-----------------------------------------------------------------------------
(* The theorems. *)

\* The links hold at first: nothing told, nothing queued, nobody in a call.
LEMMA InitLinks == Init => Links
<1>. SUFFICES ASSUME Init PROVE Links
  BY Zenon
<1>2. \A t \in Threads : Depth(t) = 0
  BY Zenon DEF Init, Depth
<1>1. queue = <<>> /\ seen = <<>> /\ callback = NoCallback
  BY Zenon DEF Init
<1>6. \A t \in Threads, i \in Nat : ~Holds(t, i)
  BY <1>2 DEF Holds
<1>3. QueueLinks
  BY <1>1 DEF QueueLinks, Chained
<1>4. TodoLinks
  BY <1>6, Zenon DEF TodoLinks
<1>5. SeenLinks
  BY <1>1, <1>6 DEF SeenLinks, Chained
<1>. QED
  BY <1>3, <1>4, <1>5, Zenon DEF Links

\* fsm_set_state, fsm_drain_state_changes, fsm_dispatch_drained_state_changes: what was
\* told, what is drained and what is queued always link up to the current state.
THEOREM ChangesAlwaysLink == Spec => [](CallsInv /\ Links)
<1>1. ASSUME CallsInv, Links, [Next]_vars
      PROVE  Links'
  BY <1>1, NextLinks, Zenon
<1>. QED
  BY <1>1, InitLinks, CallsInvariant, PTL DEF Spec

\* fsm_drain_state_changes, fsm_dispatch_drained_state_changes: whichever threads make
\* and deliver the changes, a callback is given them in order.
THEOREM OrderAlwaysKept == Spec => []OrderKept
<1>1. CallsInv /\ Links => OrderKept
  BY Zenon DEF Links, SeenLinks, Chained, OrderKept
<1>. QED
  BY <1>1, ChangesAlwaysLink, PTL

\* fsm_set_state: the queue stays in its array, and once every call has returned
\* what was told and what is queued leads to the current state.
THEOREM LatestAlwaysReported == Spec => []LatestReported
<1>1. CallsInv /\ Links => LatestReported
  <2>. SUFFICES ASSUME CallsInv, Links
                PROVE  LatestReported
    BY Zenon
  <2>1. Len(queue) <= QueueCap
    BY Zenon DEF CallsInv
  <2>2. ASSUME Quiet, callback # NoCallback, ~crossed, ~gap
        PROVE  state = IF queue # <<>> THEN queue[Len(queue)].new
                       ELSE IF seen # <<>> THEN seen[Len(seen)].new ELSE base
    <3>1. QueueLinks /\ SeenLinks
      BY <2>2, Zenon DEF Links
    <3>2. \A t \in Threads, i \in Nat : ~Holds(t, i)
      BY <2>2 DEF Quiet, Holds, Depth
    <3>3. CASE queue # <<>>
      BY <3>1, <3>3, Zenon DEF QueueLinks, Final
    <3>4. CASE queue = <<>>
      BY <2>2, <3>1, <3>2, <3>4, Zenon DEF SeenLinks, Final, Start
    <3>. QED
      BY <3>3, <3>4, Zenon
  <2>. QED
    BY <2>1, <2>2, Zenon DEF LatestReported
<1>. QED
  BY <1>1, ChangesAlwaysLink, PTL
=============================================================================
