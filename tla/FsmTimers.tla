----------------------------- MODULE FsmTimers ------------------------------
(***************************************************************************)
(* The clocks of a session: hold timer and keepalive timer (src/fsm.c).    *)
(*                                                                         *)
(* The library never reads a clock.  The host reads one and calls          *)
(* libbgp_fsm_tick with the value; every message of the peer is stamped    *)
(* with the value of the latest tick, not with the time it arrived.  So    *)
(* what the timers know is always a little old, and a tick that another    *)
(* thread overtakes even brings a value from before the last stamp.        *)
(*                                                                         *)
(* Times in the session record are unsigned, and wrap at Modulus; the      *)
(* history variables are true times.  Everything of a session that has no  *)
(* bearing on time is left out: IDLE stands for all states before an OPEN  *)
(* was accepted.                                                           *)
(***************************************************************************)
EXTENDS Integers

CONSTANTS
    Tickers,       \* threads that call libbgp_fsm_tick
    PeerHolds,     \* hold times a peer may propose
    LocalHold,     \* config.hold_time
    ConfKeepalive, \* config.keepalive_time
    Unit,          \* ticks of the clock per second (1000 in the code)
    Modulus,       \* times are stored modulo this (2^64 in the code)
    MaxGap,        \* host: the latest tick is never older than this
    Start,         \* host: the value its clock starts from
    MaxClock,      \* bound: the clock stops here
    MaxGen         \* bound: sessions

\* A proposed hold time of 1 or 2 is refused (fsm_on_open_sent).
ASSUME HoldsAssumption ==
    PeerHolds \subseteq Nat \ {1, 2} /\ LocalHold \in Nat \ {1, 2} /\ ConfKeepalive \in Nat
ASSUME ClockAssumption ==
    /\ Unit \in Nat \ {0} /\ MaxGap \in Nat \ {0} /\ Modulus \in Nat \ {0}
    /\ Start \in 0..(Modulus - 1) /\ MaxClock \in Nat
    /\ Start <= MaxClock /\ MaxClock < Start + Modulus
ASSUME GenAssumption == MaxGen \in Nat

VARIABLES
    sess,    \* fsm_impl_t: state, generation, negotiated hold time, the clocks
    tick,    \* the calls of libbgp_fsm_tick in progress
    clock,   \* history: the true time
    heard,   \* history: when this session last took a message of the peer
    told,    \* history: when this session last got a KEEPALIVE out
    ticked,  \* history: the time the latest tick brought
    rxAt,    \* history: the true time last_rx_ms stands for
    ordered  \* history: no tick since the OPEN was overtaken by a later one

vars == <<sess, tick, clock, heard, told, ticked, rxAt, ordered>>

-----------------------------------------------------------------------------
(* Arithmetic.                                                             *)

\* The value of the host's clock at true time t.
Stored(t) == IF t < Modulus THEN t ELSE t - Modulus

\* now_ms - last_ms, both unsigned.
Elapsed(now, then) == IF now >= then THEN now - then ELSE now - then + Modulus

Ms(seconds) == seconds * Unit

Lesser(a, b) == IF a < b THEN a ELSE b

NegotiatedHold(local, peer) == IF local = 0 \/ peer = 0 THEN 0 ELSE Lesser(local, peer)

\* Deviation: the configured interval, whatever was negotiated.
ConfiguredKeepalive(hold) == IF hold = 0 THEN 0 ELSE ConfKeepalive

EffectiveKeepalive(hold) ==
    LET third == IF hold \div 3 = 0 THEN 1 ELSE hold \div 3
    IN  IF hold = 0 THEN 0
        ELSE IF ConfKeepalive = 0 THEN third ELSE Lesser(third, ConfKeepalive)

-----------------------------------------------------------------------------
Times == 0..(Modulus - 1)

Session == [st : {"IDLE", "OPEN_CONFIRM", "ESTABLISHED"}, gen : Nat, hold : Nat,
            init : BOOLEAN, cur : Times, rx : Times, ka : Times]

TimerActive(s) == s.st \in {"OPEN_CONFIRM", "ESTABLISHED"}

Idle == [pc |-> "idle", now |-> Start, st |-> "IDLE", gen |-> 0]

Init ==
    /\ sess = [st |-> "IDLE", gen |-> 0, hold |-> 0, init |-> FALSE,
               cur |-> 0, rx |-> 0, ka |-> 0]
    /\ tick = [t \in Tickers |-> Idle]
    /\ clock = Start
    /\ heard = Start /\ told = Start /\ ticked = Start /\ rxAt = Start
    /\ ordered = TRUE

\* fsm_snapshot_teardown; current_ms and the two stamps keep their values.
Teardown(s) == [s EXCEPT !.st = "IDLE", !.gen = @ + 1, !.hold = 0, !.init = FALSE]

\* The history of a session ends with it.
Forget == heard' = Start /\ told' = Start /\ rxAt' = Start /\ ordered' = TRUE

-----------------------------------------------------------------------------
(* Messages of the peer, and the end of a session for any other reason.    *)

\* The OPEN is accepted and answered.
Open(peerHold) ==
    /\ sess.st = "IDLE" /\ sess.gen < MaxGen
    /\ sess' = [sess EXCEPT !.st = "OPEN_CONFIRM", !.gen = @ + 1,
                            !.hold = NegotiatedHold(LocalHold, peerHold),
                            !.init = FALSE, !.rx = 0, !.ka = 0]
    /\ heard' = clock /\ told' = clock /\ rxAt' = clock
    /\ ordered' = (clock - ticked <= MaxGap)
    /\ UNCHANGED <<tick, clock, ticked>>

\* Deviation: a message is not stamped.
Unmarked(s) == s

\* fsm_mark_rx_current
MarkRx(s) == IF s.init THEN [s EXCEPT !.rx = s.cur] ELSE s

\* A KEEPALIVE, in either state, or an UPDATE that was applied.  The KEEPALIVE
\* that completes the handshake opens the generation of the established session;
\* one that arrives while our own is still being sent does not.
Message(to) ==
    /\ TimerActive(sess)
    /\ to = sess.st \/ to = "ESTABLISHED"
    /\ sess' = [MarkRx(sess) EXCEPT !.st = to, !.gen = IF to = sess.st THEN @ ELSE @ + 1]
    /\ heard' = clock
    /\ rxAt' = IF sess.init THEN ticked ELSE rxAt
    /\ UNCHANGED <<tick, clock, told, ticked, ordered>>

Down ==
    /\ sess.st # "IDLE"
    /\ sess' = Teardown(sess)
    /\ Forget
    /\ UNCHANGED <<tick, clock, ticked>>

-----------------------------------------------------------------------------
(* libbgp_fsm_tick.  The host reads its clock before the call.             *)

ReadClock(t) ==
    /\ tick[t].pc = "idle"
    /\ tick' = [tick EXCEPT ![t] = [Idle EXCEPT !.pc = "read", !.now = clock]]
    /\ UNCHANGED <<sess, clock, heard, told, ticked, rxAt, ordered>>

HoldOver(s, now) ==
    s.hold > 0 /\ TimerActive(s) /\ Elapsed(now, s.rx) >= Ms(s.hold)

KeepaliveDue(s, now) ==
    /\ TimerActive(s) /\ EffectiveKeepalive(s.hold) > 0
    /\ Elapsed(now, s.ka) >= Ms(EffectiveKeepalive(s.hold))

\* The first tick of a session starts both timers, and does no more.
FirstTick(t) ==
    /\ tick[t].pc = "read" /\ ~sess.init
    /\ LET now == Stored(tick[t].now) IN
       sess' = [sess EXCEPT !.init = TRUE, !.cur = now, !.rx = now, !.ka = now]
    /\ rxAt' = tick[t].now
    /\ ticked' = tick[t].now
    /\ ordered' = (ordered /\ ticked <= tick[t].now)
    /\ tick' = [tick EXCEPT ![t] = Idle]
    /\ UNCHANGED <<clock, heard, told>>

\* Deviation: a due KEEPALIVE is looked at first, and puts the expiry off.
LaterTickKeepaliveFirst(t) ==
    /\ tick[t].pc = "read" /\ sess.init
    /\ LET now == Stored(tick[t].now) IN
       /\ sess' = [sess EXCEPT !.cur = now]
       /\ tick' = [tick EXCEPT ![t] =
                     IF KeepaliveDue(sess, now)
                     THEN [tick[t] EXCEPT !.pc = "send", !.st = sess.st, !.gen = sess.gen]
                     ELSE Idle]
    /\ ticked' = tick[t].now
    /\ ordered' = (ordered /\ ticked <= tick[t].now)
    /\ UNCHANGED <<clock, heard, told, rxAt>>

\* Every other tick: the hold timer first, then the keepalive timer.
LaterTick(t) ==
    /\ tick[t].pc = "read" /\ sess.init
    /\ LET now == Stored(tick[t].now)
           s == [sess EXCEPT !.cur = now]
       IN  /\ sess' = IF HoldOver(s, now) THEN Teardown(s) ELSE s
           /\ IF HoldOver(s, now)
              THEN Forget
              ELSE /\ ordered' = (ordered /\ ticked <= tick[t].now)
                   /\ UNCHANGED <<heard, told, rxAt>>
           /\ tick' = [tick EXCEPT ![t] =
                         IF ~HoldOver(s, now) /\ KeepaliveDue(s, now)
                         THEN [tick[t] EXCEPT !.pc = "send", !.st = s.st, !.gen = s.gen]
                         ELSE Idle]
    /\ ticked' = tick[t].now
    /\ UNCHANGED clock

\* Back from the KEEPALIVE: the session that was left may be gone, or may have become
\* ESTABLISHED, which is the same connection to the peer but not the same generation.
TickSent(t, ok) ==
    /\ tick[t].pc = "send"
    /\ LET same == sess.st = tick[t].st /\ sess.gen = tick[t].gen
           grown == sess.st = "ESTABLISHED" /\ tick[t].st = "OPEN_CONFIRM"
                        /\ sess.gen = tick[t].gen + 1
       IN  /\ sess' = IF ~same THEN sess
                      ELSE IF ok THEN [sess EXCEPT !.ka = Stored(tick[t].now)] ELSE Teardown(sess)
           /\ IF same /\ ~ok
              THEN Forget
              ELSE /\ told' = IF ok /\ (same \/ grown) THEN clock ELSE told
                   /\ UNCHANGED <<heard, rxAt, ordered>>
    /\ tick' = [tick EXCEPT ![t] = Idle]
    /\ UNCHANGED <<clock, ticked>>

-----------------------------------------------------------------------------
\* Time passes only while the latest tick is recent enough: the host calls tick
\* in time.
Pass ==
    /\ clock < MaxClock /\ clock - ticked < MaxGap
    /\ clock' = clock + 1
    /\ UNCHANGED <<sess, tick, heard, told, ticked, rxAt, ordered>>

Next ==
    \/ \E peerHold \in PeerHolds : Open(peerHold)
    \/ \E to \in {"OPEN_CONFIRM", "ESTABLISHED"} : Message(to)
    \/ Down
    \/ \E t \in Tickers : \/ ReadClock(t)
                          \/ FirstTick(t)
                          \/ LaterTick(t)
                          \/ \E ok \in BOOLEAN : TickSent(t, ok)
    \/ Pass

Spec == Init /\ [][Next]_vars

-----------------------------------------------------------------------------
(* Properties.                                                             *)

\* Every variable has its type; last_rx_ms is what the host's clock showed at rxAt
\* once the clock of the session is initialized, and current_ms at ticked.
TypeOK ==
    /\ sess \in Session
    /\ tick \in [Tickers -> [pc : {"idle", "read", "send"}, now : Start..MaxClock,
                             st : {"IDLE", "OPEN_CONFIRM", "ESTABLISHED"}, gen : Nat]]
    /\ {clock, heard, told, ticked, rxAt} \subseteq Start..MaxClock
    /\ ordered \in BOOLEAN
    /\ sess.init => sess.cur = Stored(ticked) /\ sess.rx = Stored(rxAt)

\* The hold timer ends a session only if the peer was silent for the negotiated time
\* less the age the latest tick may have, also when the clock wraps in between: a
\* peer that speaks often enough is never cut off.  Ticks that overtake each other
\* are excused: the unsigned difference in libbgp_fsm_tick is then huge.
NoEarlyExpiry ==
    [][\A t \in Tickers :
         (/\ tick[t].pc = "read" /\ tick'[t].pc = "idle"
          /\ TimerActive(sess) /\ ~TimerActive(sess')
          /\ ordered /\ ticked <= tick[t].now)
         => sess.hold > 0 /\ clock - heard >= Ms(sess.hold) - MaxGap]_vars

\* A peer that went silent is noticed: a session never outlives its hold time by more
\* than two tick intervals (one for the stamp, which the first tick of the session may
\* set anew, one for the tick that finds it).
DeadPeerNoticed ==
    TimerActive(sess) /\ sess.hold > 0 /\ ordered
        => clock - heard < Ms(sess.hold) + 2 * MaxGap

Sending == \E t \in Tickers : tick[t].pc = "send"

\* Our own side of the contract: unless a KEEPALIVE is on its way, the last one went out
\* less than the hold time ago, so the peer does not expire first.
SpeaksInTime ==
    TimerActive(sess) /\ sess.hold > 0 /\ ordered /\ ~Sending
        => clock - told < Ms(sess.hold)
=============================================================================
