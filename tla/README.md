# libbgp in TLA+

libbgp is a C library for BGP-4 speakers: a session state machine driven by
its caller, two routing tables (IPv4 and IPv6), an event bus through which the
sessions of a speaker exchange routes, and the codecs of the protocol. This
directory holds TLA+ modules that model its stateful parts, TLC configurations
that check them on small instances, and TLAPS proofs about the session state
machine, its timers and callbacks, the event bus, the propagation of routes and the
receive sink.
`PROJECT.json` maps the definitions to the lines of the source they model.

## The system and its parts

| Part | Source | Module |
| --- | --- | --- |
| Session state machine: states, generations, pending sends, collision, teardown | `fsm.c` | `FsmSession` |
| Hold and keepalive timers | `fsm.c` | `FsmTimers` |
| UPDATE handling: journal, rollback, route events | `fsm.c` | `UpdateJournal`, `UpdateAtomic` |
| Route propagation: events, callbacks, dump to a new peer | `fsm.c`, `event.c` | `Advertise` |
| OPEN negotiation, route export and acceptance | `fsm.c`, `open.c`, `pattr.c` | `Export`, `Relay` |
| AS path encodings | `update.c` | `AsPath`, `Relay` |
| Route filters and prefixes | `filter.c`, `prefix4.c`, `prefix6.c` | `Filter`, `Relay` |
| Routing tables: hash table, two indexes, radix tree, best path | `rib4.c`, `rib6.c`, `hashmap.c`, `radix4.c`, `radix6.c` | `Rib`, `Radix`, `RibTable` |
| Reference count, destroy, state-change callback | `fsm.c` | `FsmCalls` |
| Event bus, and attaching FSMs to it | `event.c`, `fsm.c` | `EventBus` |
| Receive sink: byte buffer, framing, packet ring | `sink.c`, `packet.c` | `Sink` |
| Output handler, NOTIFICATION, byte layout of messages, allocator, log | `out_handler.c`, `notification.c`, ... | not modelled, see the end |

The modules cut the system where one part only sees the outcome of another. An
UPDATE is received by `Sink`, its path is restored and judged by `AsPath`,
`Export` and `Filter`, it changes `Rib` through `UpdateJournal`, `Advertise`
carries the change to the other peers over the bus of `EventBus`, and `FsmSession`
with `FsmTimers` and `FsmCalls` are the session it all happens in. `Relay` and
`Advertise` are compositions: several speakers on the way of one route, and
several FSMs of one speaker.

The application owns sockets, threads and the clock. It calls
`libbgp_fsm_on_packet`, `libbgp_fsm_tick`, `libbgp_fsm_start`, ... of one FSM;
the FSM takes its lock, changes its record, releases the lock and only then
calls out: to the send function of the output handler, to event subscribers, to
the table. Callbacks may call any entry point again. With `LIBBGP_THREADSAFE`
the locks are real and several threads may call; without it the only
concurrency is the nesting of calls. Most of what is hard to test in this code
comes from this pattern, because whatever a call remembers across an unlock may
be out of date when it goes on.

## FsmSession

`fsm[f]` is `fsm_impl_t` (state, `session_generation`, peer id, the four
pending flags); `call[c]` is a call frame, that is the local variables of an
entry point between two lock sections; `rib` holds the route of each peer, with
the session that inserted it; `published` the SESSION_UP and SESSION_DOWN
events. Each lock section, each send, each publication is one action.

Frames are threads (`Threads = TRUE`, any frame may step) or nested calls
(`Threads = FALSE`, only the innermost frame steps, and a new frame starts only
while the innermost one is in a callback). One prefix per peer stands for all,
and IPv4 and IPv6 are discarded in one step. Timers are reduced to "expired".
The configuration is chosen in `Init`. `MaxGen` and `MaxUid` stop calls that
would open another generation or learn another route; at the bound everything
may stop, so these runs do not check deadlock.

Fairness (`FairSpec`) is strong fairness of the steps of a call that has begun.
Such a call waits for nothing but a lock that is held for a bounded time and
callbacks of the application; the callback may call into the FSM again, which
disables the outer call, and strong fairness says that it does not do so for
ever. No fairness is assumed of calls being made.

| Run | Instance | Checks |
| --- | --- | --- |
| `fsm_threads` | 1 FSM, 3 threads | pending flags have an owner, rollback spares established sessions, ESTABLISHED only after the peer's KEEPALIVE, routes and SESSION_DOWN follow each teardown |
| `fsm_reentrant` | 1 FSM, calls nested 3 deep, failing allocations, fair | UP and DOWN once and in this order, ESTABLISHED only after our KEEPALIVE; a deferred KEEPALIVE is acted on and the routes of a dead session leave |
| `fsm_collision` | 2 FSMs, one call at a time | one negotiation per peer |
| `fsm_stale_promotion` | 1 FSM, calls nested 2 deep | violation, see below |

Six generations are enough for a full session (start, OPEN_CONFIRM,
ESTABLISHED, teardown) and half of a second one, which is where a stale call
meets a new session; three threads allow a sender, a packet and a teardown.

### What is proved

`FsmSessionProofs` proves, for any set of FSMs, calls and peers, with threads or
nested calls, with or without collision detection and for every bound:

* `TypeCorrect`: `Spec => []TypeOK`, in which a peer is recorded exactly from the
  accepted OPEN to the teardown;
* `RollbackSafe`: the rollback of a failed answer never meets its session as
  ESTABLISHED (`RollbackSparesEstablished`);
* `PendingOwned`: `PendingHasOwner`;
* `PeerKeepaliveSeen`: `EstablishedNeedsPeerKeepalive`;
* `GenerationExact`: the action property `GenerationTracksState`, every change of
  state is one generation (proved only, no run repeats it).

None of these is inductive by itself. The inductive invariant is `TypeInv`
(types, and what the frame of each kind of call holds) with `IInv`: the call
that answers an OPEN and is still current owns its pending flag (`AnswerOwns`),
there is one such call (`OneAnswer`), a flag has an owner, and a deferred or
established session has had its KEEPALIVE (`KeepaliveArrived`). It is needed
because the rollback compares generations: that a generation was not reused is
only known from the fact that frames never hold a generation of the future. The
proof sorts all actions into five kinds of steps (a new generation, a quiet
step, an accepted OPEN, a deferred KEEPALIVE, an answer that ends), shows for
each kind once that it keeps `IInv`, and for each action which kind it is. The
only assumptions are those of the constants in `FsmSession`.

`FsmSessionEvents` goes on to the properties of two calls, two FSMs or two events.
Each theorem names, as hypotheses on the constants, the configurations for which the
property is claimed. They are those of the run that checks it; outside of them the
code does not have the property (see the known limits), and the theorems still hold
for any number of FSMs, peers, calls and generations:

* `OwnKeepaliveSent` (`~Threads`): `EstablishedNeedsOwnKeepalive`. With threads a
  KEEPALIVE may come between two lock sections of the passive open. The invariant
  `OwnSent` says that in OPEN_CONFIRM a flag is up, or our KEEPALIVE is out, or a
  call is between these sections, where it calls nobody back;
* `DownAlwaysTold` (`~CollisionDetection`): the action property `NoSilentDown`, with
  threads as with nested calls. With collision detection the handler of an OPEN may
  find that its session came up while it asked the others, and ends it without a word
  (the disagreement below);
* `RoutesAlwaysOwned` (`~CollisionDetection`, `~AllocFails`): `NoOrphanRoutes`. An
  undo that runs out of memory after another thread's stop leaves a route behind;
* `UpComesFirst` (`~Threads`): `UpBeforeDown`. Two threads may publish in either
  order. The invariant `UpInv` adds who is still to publish: one call is on its
  way to the SESSION_UP of a generation, one owes its SESSION_DOWN, once and only
  when the generation is over, and neither is published already; a call about to
  publish SESSION_UP is in no callback, so its session is still up;
* `CollisionsResolved` (`CollisionDetection`, one call): `OneNegotiationPerPeer`. Two
  checks at the same moment both win. The invariant `NegInv` says that while a check
  is under way an FSM that was asked and still negotiates with the peer has objected.

They rest on a second description of the steps, of the frame instead of the session:
`Form` says which frames a step can leave, `TaskStep` and `OtherStep` what it
publishes and does to the routes, `StepBy` that only the innermost call steps when
calls nest. `FramesInv` is what follows for the frames that are there.

## Rib, Radix and RibTable

`Rib` keeps the four structures of `rib4.c` separately: hash chains, the array
of each source, groups of prefixes that are equal up to host bits with their
cached best route, and the radix tree. `Radix` is the tree, as a function from
the bit strings of its nodes to values: nodes without a value lead to others,
insertion may fail at each node it makes, removal prunes, a lookup walks down and
keeps the last value. The hash table doubles when it is full, which reverses the
chain of each key; two buckets to begin with (`InitialBuckets`) make that happen.
Operations hold the table's lock and are single actions; an allocation may fail at
every place the code allocates, and the action then does what the error path does.
`rib6.c` is the same code; the width of an address is a constant. `RibTable` is the
contract: a set of routes and the routes handed out to callers.

| Run | Instance | Checks |
| --- | --- | --- |
| `rib_tables` | prefixes that nest and that share a group, local and learned routes, a resize, failures | the structures agree and the tree has no dead nodes, lookups are right, reports of best routes equal what lookups see, `Rib` implements `RibTable` |

Two sources and two ranks are the least with which a route is replaced, beaten
and succeeded; two-bit addresses give nesting and aliasing of prefixes, and two
detached routes (`MaxSaved`) let a rollback restore them in either order. States
that differ only in the last report are one (`VIEW`); reports are checked at every
step. The routes of the instance
have no MED: the code's comparison is not transitive with it (see the known limits).

## UpdateJournal and UpdateAtomic

`UpdateJournal` runs the handlers of two peers over one table, operation by
operation, with the journal as the handler's local state. `UpdateAtomic` says
what an UPDATE is meant to do: all its operations or none. While a handler
applies or undoes, the refinement mapping shows the routes from before the
UPDATE. The UPDATEs of the instance repeat a prefix, withdraw what they
announce, and span two prefixes, so that each failure point has something to
undo.

| Run | Instance | Checks |
| --- | --- | --- |
| `journal` | two handlers interleave, an allocation may fail while applying, undoing and publishing | `UpdateJournal` implements `UpdateAtomic`, saved routes have one owner, the events describe the best routes |

A route that cannot be put back because the undo itself runs out of memory is
lost, as in the code; `UpdateAtomic` allows that loss and no other.

## Sink and SinkProofs

`Sink` models `sink.c` byte by byte: the allocation with its window
(`buf_off`, `buf_len`, `buf_cap`), compaction and growth, the framing loop of
`sink_process_locked` one iteration at a time, and the packet ring with its head,
count and capacity. A byte is a position in the stream of the peer, so a byte
that is lost, repeated or stale cannot be mistaken for the right one. Whether a
frame parses is part of the stream. Calls hold the sink's lock; a feed is split
into its iterations because each of them can fail.

| Run | Instance | Checks |
| --- | --- | --- |
| `sink` | five streams (good frames of all lengths, a frame that does not parse, a bad marker, lengths too small and too large), every chunking, failing allocations, pops and clears in between | the window is the bytes fed last, the packets are the good frames in order and each is owned once, and no whole frame waits after a feed succeeds |

A header of two bytes, frames of at most four and chunks of at most five make a
chunk hold part of a frame, a frame, or several; a ring that starts with one
slot grows while it is wrapped.

`SinkProofs` proves, for every header length, maximum length, initial ring, stream
and chunking, and wherever allocations fail:

* `SinkBounds` (`TypeOK`: the window lies in the buffer and the ring in its array)
  and `SinkWindow` (`WindowExact`), which are inductive together. The lemmas say
  that a reservation makes room for the chunk (`ReserveFits`), what compacting the
  buffer (`PackedWindow`) and dropping a frame (`DropKeeps`) do to the window and
  growth to the ring (`RingGrown`);
* `NothingWaits` (`NoFrameWaits`): what a successful feed leaves is less than a frame;
* `PacketsAlwaysExact` (`PacketsExact`). Besides the window the invariant `PacketInv`
  counts popped and queued packets as one sequence (`OutAt`), in the order of the
  stream, equal to the good frames behind the window; the lemmas about frames
  say which of them are complete when the window moves by one frame, by a dropped
  header or by a clear.

The assumption on the streams (`SinkAssumption`) is that a frame with a valid header
is as long as it declares (`SoundFrame`) and that the bytes of a stream are those
of its frames, one frame behind the other (`LaidOut`). The second is what `Wire`
computes; it is assumed because that needs induction over the sequence, and TLC
evaluates it for the streams of the instance. That a header is not longer than the
largest packet is true of the protocol's 19 and 4096.

## FsmCalls

Every entry point of an FSM has the same frame around it: take a reference
through the handle, change the state under the lock, drain the queued state
changes and deliver them to the application's callback outside the lock, give the
reference back. `FsmCalls` models that frame, `libbgp_fsm_set_state_change_cb` and
`libbgp_fsm_destroy`, and leaves out what the call does. `stack[t]` are the calls
thread `t` is in. A call reaches application code, from which another call may be
made, in the callback and in the send functions and event subscribers that run
before it drains or between draining and delivering (`CallsOut`). A packet
handled before ESTABLISHED does not drain at all (`KeepQueued`): its changes wait
for a later call. States are numbers that grow with each change; the queue merges
changes when it is full as `fsm_set_state` does. A thread waiting in
`fsm_state_change_wait` is one whose step is disabled. Fairness is weak
fairness of the steps of calls in progress, callbacks included; calls are bounded
in number here, so a callback cannot go on for ever.

| Run | Instance | Checks |
| --- | --- | --- |
| `fsm_calls` | two threads, calls nested two deep, five calls, three changes, a queue of two | reference count exact and freed once, no replaced callback still runs, changes in order and none lost, the queue within its limit, destroy frees |

Three changes overflow the queue of two. Two excuses are part of the properties, as
history variables: `crossed`, a call made from application code delivers its own
change before the outer call has delivered the earlier ones; and `gap`, a
change made while no callback is registered is not queued although earlier ones
still are, so a callback registered then is told the older ones only. Both follow
from the code and nothing in the repository promises more.

`FsmCallsProofs` proves, for any finite set of threads, any callbacks, any
queue and every bound on calls, nesting and changes: `RefsAlwaysExact`
(`RefsExact`), `OldCallbackAlwaysDone` (`OldCallbackDone`), `OrderAlwaysKept`
(`OrderKept`) and `LatestAlwaysReported` (`LatestReported`). The invariant
`CallsInv` says that only the innermost call of a thread runs library code, that
the count of dispatches is that of the frames that dispatch, all of one thread
(`OneDispatcher`), and that drained changes are in such frames only; a callback is
replaced only when this count is zero or all of it is the caller's, which is what
makes `OldCallbackDone` inductive. `Links` says how the changes told, drained by the
frames of the dispatcher from the innermost outwards, and queued follow on each other
up to the current state, unless `crossed` or `gap`. That destroy frees in the end
(`DestroyFrees`) is liveness and model-checked only.

## EventBus

`EventBus` is `event.c` together with `libbgp_fsm_set_event_bus` and the part of
`libbgp_fsm_destroy` that concerns the bus. `subs` are the entries of the array of
subscriptions, as a set: ids are given out in growing order and an entry is added
at the end, so the order of the array is that of the ids (`First`),
`impl[f]` the reference count, bus and subscription ids of an FSM, `stack[t]` the
calls of a thread, nested through event callbacks. A publication copies the
subscribers of its type, holding a reference on each, and calls them after the
unlock; `set_event_bus` detaches, unsubscribes, subscribes to one type after the
other and attaches in separate steps. A subscription may fail at any time (no
memory, or an array that other subscribers have filled), and the snapshot of more
subscribers than fit on the stack may. A reference is released in the step
before it, without a lock section of its own. `fsm.h` asks that the replacement of
an FSM's bus is synchronized by the application: two `set_event_bus` of one FSM do
not overlap here. Everything else may, destroying the bus under an attached FSM
included.

| Run | Instance | Checks |
| --- | --- | --- |
| `event_bus` | two threads, two FSMs and the application, the three event types, four calls nested two deep, six subscriptions, failing allocations | references exact and the last one frees, no subscription left behind, all three subscriptions or none, no event back to its publisher |

Six subscriptions let an FSM be attached twice, and four calls let one be
destroyed while it is attached anew and while it is in a snapshot. A snapshot on
the stack of one makes the allocation happen. FSMs and threads are symmetric.

`EventBusProofs` and `EventBusRefs` prove all four, for any finite set of threads,
any FSMs, any list of event types without repetition, and every bound:
`NothingEverLeftBehind` (`NoneLeftBehind`), `AlwaysAllOrNone` (`AllOrNone`),
`NeverEchoes` (`NoEcho`) and `BusRefsAlwaysExact` (`RefsExact`). The parts of the
invariant are:

* `HandInv`: an id is given out once, and recorded by the FSM whose subscription it
  is or in the hand of one call on its behalf (`IdsUsed`, `OwnIds`, `OneHand`); a
  call holds the ids of the types it has subscribed to so far, unless one failed
  (`Progress`), and an FSM that is being destroyed is detached;
* `EchoInv`: the id a publication goes under was recorded for its event type and
  will not be recorded again (`HadFrom`), so that a snapshot can leave its FSM out;
* `RefsInv`: the reference count is the number of owners, which are the handle, the
  subscriptions, the calls in progress and the entries of snapshots still to be
  called. Each action changes the number by as much as the count (`Shift`); the
  cardinalities are the work, and the reason why threads are finite.

The proofs treat a stack as places `<<thread, depth>>` that hold a call or nothing
(`FrameOf`); each action is first shown to change one place (`Moves`), and everything
else is proved from that.

## FsmTimers and FsmTimersProofs

The library reads no clock: the host calls `libbgp_fsm_tick` with a time, and a
message of the peer is stamped with the time of the latest tick. `sess` holds the
fields of `fsm_impl_t` that have to do with time, stored modulo `Modulus`;
`tick[t]` is a call of tick with the reading it was given, between its lock
sections; `heard`, `told`, `ticked` and `rxAt` are history, in true times. A tick
checks the hold timer before the keepalive timer, sends without the lock, and
afterwards stamps or tears down only the session it left. The host is assumed to
tick at least every `MaxGap` (`Pass`), without which no timer can be right.

| Run | Instance | Checks |
| --- | --- | --- |
| `timers` | two ticking threads, proposed hold times of 0 and 3 seconds against a local 4, a clock that wraps three units after the start, three generations | no early expiry, a silent peer is noticed, our KEEPALIVEs are in time |

Two units make a second, so that a keepalive interval of one second is more than
one tick; nine units of time let the hold time of six units run out after the
wrap; three generations let the session become ESTABLISHED during a send. Ticks
that overtake each other (`ordered` is then FALSE) are excused.

`FsmTimersProofs` proves, for any hold times, tick interval, number of threads and
clock width, as long as a run is shorter than one full turn of the clock:
`TypeCorrect` (the stored stamps are the true ones modulo the width),
`SilentPeerNoticed` (`Spec => []DeadPeerNoticed`), `LivePeerKept`
(`Spec => NoEarlyExpiry`) and `PeerIsTold` (`Spec => []SpeaksInTime`). `DeadPeerNoticed` is not inductive, because it speaks of
the last message and the code of a stamp. The invariant `TInv` adds that all
history is in the past (`Past`) and that in an ordered session the stamp is at most
one interval behind the message and the latest tick found it young enough
(`InTime`). The lemma `ElapsedTrue` carries the arithmetic: the unsigned difference
of two stored times is the true one, wherever the clock wraps.

`PeerIsTold` has a hypothesis on the host, `TicksOften`: with `n` ticking threads,
`n + 2` tick intervals fit in two seconds. The keepalive time is a third of the hold
time, rounded down to seconds, so that only about two thirds are left for delays, two
seconds at the least hold time of three; and each thread may be held up in one send
that fails while the session becomes ESTABLISHED, after which the code neither stamps
the new session nor ends it. The instance of the run meets it. The
invariant `Spoken` counts the intervals since our last KEEPALIVE by the ticks that are
sending (`Senders`).

## AsPath, Filter, Export and Relay

These model what one FSM makes of a route, as operators: `AsPath` the two
encodings of a path and of the aggregator (prepend, downgrade, restore), `Filter`
the rules and their order, `Export` the OPEN and what is negotiated, the attributes
that are forwarded, the next hop, the loop check and the acceptance of an UPDATE.
An update is a record of attributes; the bytes are left out, except that the
width of an ASN on the wire and the count of ASNs in a segment are kept, for these
decide what a path becomes.

`Relay` composes them: a route is originated or announced by a foreign speaker and
passed on, session by session. `held` is the route in a table, `wire` the UPDATE
under way, `truth` and `maker` the path and the aggregator it really has. The
properties compare what the holder can see with the truth, after any sequence of
encodings by different speakers.

| Run | Instance | Checks |
| --- | --- | --- |
| `relay` | five speakers and two foreign ones, small and large ASNs, two-octet and four-octet sessions, iBGP and eBGP, IPv4 and IPv6, up to five sessions in a row | the path can be restored, loops are cut, peers understand what they are sent, filters decide by the route, attributes of an AS stay in it |

With `TwoByteMax` 5 and `AsTrans` 4 the ASNs 6 and 7 are large; segments of two
ASNs overflow after two prepends; five sessions bring a route back to its own AS
over both kinds of speakers, of which `o1` and `o2` allow one occurrence of their own AS. The configurations differ in every switch of
`libbgp_fsm_config_t` that `Export` reads.

## Advertise and AdvertiseProofs

`Advertise` is one speaker with several peers and prefixes. `stack[t]` are the calls in
progress on the thread of peer `t`, the innermost first; a frame is what one function
still has to do:

| Frame | Code | Next step |
| --- | --- | --- |
| `Publish` | `fsm_publish_update_events`, `fsm_discard_peer_routes_publish` | `Begin` with the next event; the first of the two functions looks before each event whether its session is current (`GoesOn`), and otherwise gives up (`Abandon`) |
| `Deliver` | `libbgp_event_bus_publish_from` | `Callback` of the next subscriber; all of the snapshot are called, come what may |
| `Sending` | `fsm_send_prepared_update` | `Send`; the peer reads the message, or it cannot be sent and the session ends |
| `Discard` | the teardown after a failed send, a stop, ... | `DiscardRoutes`: the routes of the peer to all prefixes, at once |
| `Dump`, `Dumping` | `fsm_run_established_actions` | `Snapshot` of the table, then `Advertise` route by route |

The table changes before the events are published, so other calls come between. A
callback runs on the publisher's thread, and when its send fails it tears its session
down there, discards the routes of that peer to all prefixes and publishes in turn,
inside the publication that is under way; this nests as deep as sends fail.

| Run | Instance | Checks |
| --- | --- | --- |
| `advertise` | three peers, two of them iBGP, three prefixes, UPDATEs that announce and withdraw two or three of them, a local route, a filter, three calls of which two overlap, two failing sends | once all calls have returned each peer knows the best route it is to know; no peer is told its own route or a denied one |

Three peers are the least with which the session of one ends between the publisher and
a peer still to be told. Two failing sends let a second session end inside the events
of the first, and with three prefixes an UPDATE still has events to publish when its
own session has ended in between. The run has 1.8 million states.

`PeersTold` excuses a peer, for one prefix and until it is told the next change, in the
five cases its comment lists. `excused` is the history variable that records them, each
where it happens: `Tell` (calls overlapped, `tainted`; or the event is older than the
best route, `late`), `Callback` (withheld), `Begin` (the publisher) and `Abandon`. That
an event is `late` is noted by the step that overtakes it: `DiscardRoutes` marks the
prefixes whose best route it changes in the frames below (`Overtaken`). All five are
what the code does, and the known limits below describe them.

`AdvertiseProofs` proves `NothingForbiddenTold` (`Spec => []PolicyKept`) for any
peers, prefixes, routes, filters and bounds. `PolicyKept` is not inductive: whether a
route may be sent is decided when a call pushes the send, and the message leaves later,
perhaps after several other calls on the same stack. The invariant `AInv` says of
every frame on every stack that waits to send that its message may be sent
(`Frames`, `Sound`); the lemmas show that each operation on a stack keeps it a sequence
of such frames.

It also proves `PeersAlwaysTold` (`Spec => []PeersTold`), again for any number of peers,
prefixes, calls and failing sends. `PeersTold` speaks of quiet states only, so the
invariant `TellInv` has to say what holds while calls are in progress: a peer with a
session and no excuse knows the best route, or some frame on some stack is going to
tell it by an event that is not late (`PendInv`, `Knows`, `Covers`). A step that changes
best routes pushes a publication that covers every peer for them (`PublishTells`), and
makes only older events about the same prefixes late (`LateCovers`); every other step leaves the covering frame where it
is, hands the duty to the frame it pushes, or settles the peer (`Onward`, one lemma per
action). The other parts are needed for the step at which a peer is told:

* `Undisturbed`: on a thread that nothing overlaps, an event that is not late is about
  the best route there is;
* `Alone`: two threads with calls in progress are both tainted, so that what they tell
  is excused;
* `Forgotten` and `Dumps`: nothing is known of a session that ended, and while a dump is
  under way its peer has been told nothing of the prefixes that are left, or has an
  excuse; only the dump's own message can be on top of it as long as its session lasts
  (`Shape`). Hence a route that the dump withholds is one the peer does not have.

TLC checked the parts of `TellInv` on the instance above first.

The assumptions: the decision process ranks the routes without ties, which its last
two comparisons, the update id and the router id, guarantee (`rib4_better_cached`), and
every table has a best route (`PrefAssumption`); every peer's FSM subscribes and
nobody else (`OrderAssumption`); the table lists every prefix once (`WalkAssumption`);
an UPDATE does not announce what it withdraws, which is `UpdateJournal`'s subject
(`UpdatesAssumption`); local routes are routes (`LocalsAssumption`); the markers are not
routes or peers (`NamesAssumption`). What `SelectSeq` makes of the two lists is stated in
these assumptions, because it needs induction; TLC evaluates them for the instance.

## Disagreements found

`fsm_stale_promotion` is a run that TLC ends with a counterexample, and
`PROJECT.json` quotes the tests. An OPEN arrives in OPEN_SENT, and its handler releases
the lock to publish the COLLISION event. A subscriber resets the FSM inside the event.
The handler does not look at the state or the generation again
(`fsm_collision_reject_new_locked` and its callers, `fsm.c:4697` and `fsm.c:4794`): the
reset FSM enters OPEN_CONFIRM and sends a KEEPALIVE. A stop or a NOTIFICATION inside the
event is overridden in the same way. `src/tests/test_fsm.c:10464` has the FSM idle after
a reset, and the tests from `src/tests/test_fsm.c:2801` on let what a callback does win
over the OPEN handler; they call from the send function, where the handler looks again.

## Known limits of the code

Met while modelling. Each is an excuse in a property, a restriction of an instance
or left out, and none has a run of its own.

Two contradict what the tests say:

* `stop()` sends CEASE after the route events (`fsm.c:4569`), so a subscriber that
  restarts the FSM has its OPEN on the wire first; `src/tests/test_fsm.c:10158`
  expects otherwise;
* a route that cannot be put back in a rollback is lost silently (`fsm.c:1370`);
  `src/tests/test_fsm.c:7504` expects withdrawn routes back.

Sessions and threads:

* two FSMs that check for a collision at the same moment both keep their session;
* a KEEPALIVE of another thread between two lock sections of the passive open
  establishes the session before our own KEEPALIVE is sent;
* the undo of an UPDATE that ran out of memory, made after another thread's stop,
  puts a route back; what others announced in between is not taken back
  (`fsm.c:1406`);
* two FSMs whose state-change callbacks stop each other on two threads wait for
  ever (`fsm.c:30`);
* a tick that another one overtakes makes the unsigned difference of the hold timer
  huge, and the session expires at once (`fsm.c:5269`);
* a publication to more than 64 subscribers that finds no memory reaches nobody
  (`event.c:280`);
* after a parse error whole frames wait in the sink until more bytes arrive.

Routes:

* with MEDs the comparison is not transitive, and the cached best route need not be
  what a full scan selects (`rib4.c:970`);
* events of calls that overlap may reach a peer in either order;
* an event goes to all subscribers although the session of one of them has ended inside
  the publication and its routes with it (`event.c:301`): the remaining peers are told
  of the discard first and of the older event afterwards. With one failing send an
  UPDATE of several prefixes may later publish a route that is already withdrawn; with
  two, nested, the peers behind in the list keep a route that nobody has;
* an UPDATE whose own session ends inside the publication of one of its events does not
  publish the others, although its changes of other best routes were made
  (`fsm.c:2589`);
* an FSM is not told of a change it publishes itself, not even when another peer's route
  becomes the best (`event.c:265`);
* a peer keeps a route that is no longer the best when the new best is its own or
  denied to it; a re-advertisement that is ignored or filtered leaves the older
  route of its sender in the table;
* events send iBGP routes to iBGP peers, which the initial dump does not
  (`src/tests/test_fsm.c:5949` has it so);
* an AS4_PATH that names only the large ASNs is bent by a speaker with a large ASN
  on a two-octet session; a path whose first large ASN is inside an AS_SET cannot be
  sent to a two-octet peer and takes the session down (`update.c:770`);
* `allow_local_as` is compared with the count in each segment of a path by itself
  (`fsm.c:1776`): a speaker that allows one occurrence takes a route with one in each of
  several segments. `LoopsCut` therefore bounds what is taken only where nothing is
  allowed, and what is refused for any number;
* filter rules on the origin AS read AS_TRANS on two-octet sessions;
* LOCAL_PREF received over eBGP is ignored but forwarded to iBGP peers
  (`fsm.c:1855`); a local route with next hop 0 is ignored by iBGP peers; the peer
  of an IPv6-only FSM still sends IPv4 routes, which are ignored; the next-hop
  check for IPv6 does not reject the FSM's own address.

## What is only model-checked

* Liveness under fairness is beyond the proof system: `DeferredKeepaliveResolved`,
  `StaleRoutesLeave` and `DestroyFrees`.
* What the path and filter operators compute rests on induction over sequences, which
  is beyond it as well, and so is the walk down a radix tree: the properties of
  `Relay` and of `Rib`, with the refinement of `RibTable`.
* The refinement of `UpdateAtomic` by `UpdateJournal`, with `JournalOwnsSaved` and
  `EventsTellBest`: undoing a journal is an induction over the operations of an UPDATE.

## What is not modelled

* The byte layout of messages, attributes, capabilities and NLRI, and the whole of
  NOTIFICATION: encoders and decoders without state, over inputs far too many to
  enumerate. That a frame does not parse is a choice in `Sink`, and what an OPEN or
  an UPDATE says is in `Export`.
* The output handler: a function or a descriptor copied under a lock, then one
  system call. That a send fails is a choice wherever the FSM sends.
* The allocator, the log and the names of errors: wrappers. That an allocation
  fails is a choice wherever the code handles it.
* Hash buckets that different keys share: the chain of a key is kept, not what else
  is in the bucket.
* The life of a sink handle against a call that waits for its lock, and a second FSM
  in `FsmCalls`.
* `foreach_route` and the other readers of a table change nothing; the dump that
  uses them is in `Advertise`.
