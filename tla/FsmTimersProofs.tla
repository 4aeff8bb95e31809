-------------------------- MODULE FsmTimersProofs ---------------------------
(***************************************************************************)
(* The promises of the two timers of a session, for any hold times, any    *)
(* number of ticking threads and any place where the clock wraps.  The     *)
(* hold timer does not end a session early (NoEarlyExpiry) and does not    *)
(* leave a dead one (DeadPeerNoticed), at any tick interval; the keepalive *)
(* timer keeps the peer's hold timer from expiring (SpeaksInTime) on a     *)
(* host that ticks often enough for its number of threads (TicksOften).    *)
(***************************************************************************)
EXTENDS FsmTimers, FiniteSetTheorems, TLAPS

\* A number of seconds is a number of clock ticks, and none only for zero seconds.
LEMMA MsNat ==
  ASSUME NEW h \in Nat
  PROVE  Ms(h) \in Nat /\ (h > 0 => Ms(h) > 0)
<1>1. Unit \in Nat /\ Unit > 0
  BY ClockAssumption
<1>2. h * Unit \in Nat
  BY <1>1
<1>3. h > 0 => h * Unit > 0
  BY <1>1
<1> QED BY <1>2, <1>3, Zenon DEF Ms

\* The hold time agreed on is a number of seconds (fsm_on_open_sent).
LEMMA HoldNat ==
  ASSUME NEW h \in PeerHolds
  PROVE  NegotiatedHold(LocalHold, h) \in Nat
BY HoldsAssumption, Zenon DEF NegotiatedHold, Lesser

\* The value of the host's clock fits its width as long as the run is shorter than a
\* full turn of it.
LEMMA StoredTimes ==
  ASSUME NEW a \in Start..MaxClock
  PROVE  Stored(a) \in Times
BY ClockAssumption DEF Stored, Times

\* The unsigned difference of two values of the clock is the time between the two
\* readings, whether or not the clock wrapped (libbgp_fsm_tick).
LEMMA ElapsedTrue ==
  ASSUME NEW a \in Start..MaxClock, NEW b \in Start..MaxClock, a <= b
  PROVE  Elapsed(Stored(b), Stored(a)) = b - a
BY ClockAssumption DEF Elapsed, Stored

\* A torn down session is a session, without a timer (fsm_snapshot_teardown).
LEMMA TeardownType ==
  ASSUME NEW s \in Session
  PROVE  Teardown(s) \in Session /\ ~Teardown(s).init /\ Teardown(s).st = "IDLE"
<1>1. s.gen + 1 \in Nat
  BY DEF Session
<1>2. Teardown(s) \in Session
  BY <1>1, Zenon DEF Teardown, Session
<1>3. ~Teardown(s).init /\ Teardown(s).st = "IDLE"
  BY Zenon DEF Teardown, Session
<1> QED BY <1>2, <1>3, Zenon

-----------------------------------------------------------------------------
\* No history variable is ahead of the clock.
Past ==
    /\ clock \in Start..MaxClock
    /\ heard <= clock /\ told <= clock /\ ticked <= clock /\ rxAt <= clock
    /\ \A t \in Tickers : tick[t].now <= clock

\* What holds of a session whose ticks came in order.  Before the first of them the
\* latest tick is older than the latest message; after it the stamp is within one
\* tick interval of the latest message, and the latest tick found it fresh.
InTime ==
    TimerActive(sess) /\ ordered =>
        /\ clock - ticked <= MaxGap
        /\ ~sess.init => ticked <= heard
        /\ sess.init => /\ heard - MaxGap <= rxAt /\ rxAt <= heard + MaxGap
                        /\ rxAt <= ticked
                        /\ sess.hold > 0 => ticked - rxAt < Ms(sess.hold)

TInv == TypeOK /\ Past /\ InTime

\* The initial state satisfies the invariant.
LEMMA InitTInv == Init => TInv
BY ClockAssumption DEF Init, TInv, TypeOK, Past, InTime, Session, Times, Idle, TimerActive

\* An accepted OPEN preserves it: the new session is not initialized, and it counts as
\* in time only if the latest tick is recent.
LEMMA OpenTInv ==
  ASSUME TInv, NEW h \in PeerHolds, Open(h)
  PROVE  TInv'
<1>1. NegotiatedHold(LocalHold, h) \in Nat
  BY HoldNat, Zenon
<1>2. TypeOK'
  <2>1. sess \in Session /\ sess.gen + 1 \in Nat /\ 0 \in Times
    BY ClockAssumption DEF TInv, TypeOK, Session, Times
  <2>2. sess' \in Session /\ ~sess'.init
    BY <1>1, <2>1, Zenon DEF Open, Session
  <2> QED BY <2>2 DEF TInv, TypeOK, Open
<1>3. Past'
  BY DEF TInv, TypeOK, Past, Open
<1>4. InTime'
  BY ClockAssumption, Zenon DEF TInv, TypeOK, Past, Open, InTime, TimerActive, Session
<1> QED BY <1>2, <1>3, <1>4, Zenon DEF TInv

\* A message preserves it: the stamp is the latest tick, at most one interval old.
LEMMA MessageTInv ==
  ASSUME TInv, NEW to \in {"OPEN_CONFIRM", "ESTABLISHED"}, Message(to)
  PROVE  TInv'
<1>1. sess \in Session /\ sess' \in Session
  <2>1. sess \in Session /\ sess.gen \in Nat /\ sess.gen + 1 \in Nat
    BY DEF TInv, TypeOK, Session
  <2>2. MarkRx(sess) \in Session /\ MarkRx(sess).gen = sess.gen
    BY <2>1, Zenon DEF MarkRx, Session
  <2> QED BY <2>1, <2>2, Zenon DEF Message, Session
<1>2. /\ sess'.init = sess.init /\ sess'.hold = sess.hold /\ sess'.cur = sess.cur
      /\ sess'.rx = IF sess.init THEN sess.cur ELSE sess.rx
  BY <1>1, Zenon DEF Message, MarkRx, Session
<1>3. TypeOK'
  BY <1>1, <1>2, Zenon DEF TInv, TypeOK, Message, Past
<1>4. Past'
  BY DEF TInv, TypeOK, Past, Message
<1>5. sess.hold > 0 => 0 < Ms(sess.hold)
  BY <1>1, MsNat, Zenon DEF Session
<1>6. ASSUME ordered, TimerActive(sess)
      PROVE  InTime'
  BY <1>1, <1>2, <1>5, <1>6, ClockAssumption DEF TInv, TypeOK, Past, InTime, Message, Session
<1>7. TimerActive(sess) /\ ordered' = ordered
  BY Zenon DEF Message
<1> QED BY <1>3, <1>4, <1>6, <1>7, Zenon DEF TInv, InTime, TypeOK

\* The end of a session preserves it: nothing is promised of a session that is gone.
LEMMA DownTInv ==
  ASSUME TInv, Down
  PROVE  TInv'
<1>0. sess' \in Session /\ ~sess'.init /\ sess'.st = "IDLE"
  BY TeardownType, Zenon DEF TInv, TypeOK, Down
<1>1. TypeOK'
  BY <1>0, ClockAssumption DEF TInv, TypeOK, Down, Forget
<1>2. Past'
  BY DEF TInv, TypeOK, Past, Down, Forget
<1>3. ~TimerActive(sess')
  BY <1>0, Zenon DEF TimerActive
<1> QED BY <1>1, <1>2, <1>3, Zenon DEF TInv, InTime, TimerActive

\* Reading the clock changes nothing of the session.
LEMMA ReadClockTInv ==
  ASSUME TInv, NEW t \in Tickers, ReadClock(t)
  PROVE  TInv'
<1>1. /\ tick' \in [Tickers -> [pc : {"idle", "read", "send"}, now : Start..MaxClock,
                             st : {"IDLE", "OPEN_CONFIRM", "ESTABLISHED"}, gen : Nat]]
      /\ \A u \in Tickers : tick'[u].now <= clock
  <2>1. clock \in Start..MaxClock
    BY Zenon DEF TInv, Past
  <2> DEFINE r == [Idle EXCEPT !.pc = "read", !.now = clock]
  <2>2. r \in [pc : {"idle", "read", "send"}, now : Start..MaxClock,
               st : {"IDLE", "OPEN_CONFIRM", "ESTABLISHED"}, gen : Nat] /\ r.now = clock
    BY <2>1, ClockAssumption, Zenon DEF Idle
  <2>3. tick' = [tick EXCEPT ![t] = r]
    BY Zenon DEF ReadClock
  <2> HIDE DEF r
  <2> QED BY <2>2, <2>3, ClockAssumption DEF TInv, TypeOK, Past
<1>2. UNCHANGED <<sess, clock, heard, told, ticked, rxAt, ordered>>
  BY Zenon DEF ReadClock
<1>3. TypeOK'
  BY <1>1, <1>2, Zenon DEF TInv, TypeOK
<1>4. Past'
  BY <1>1, <1>2, Zenon DEF TInv, Past
<1>5. InTime'
  BY <1>2, Zenon DEF TInv, InTime, TimerActive
<1> QED BY <1>3, <1>4, <1>5 DEF TInv

\* The first tick of a session preserves it: it came within one interval of the tick
\* before it, which is older than the latest message.
LEMMA FirstTickTInv ==
  ASSUME TInv, NEW t \in Tickers, FirstTick(t)
  PROVE  TInv'
<1> DEFINE n == tick[t].now
<1>1. n \in Start..MaxClock /\ n <= clock
  BY Zenon DEF TInv, TypeOK, Past
<1>2. Stored(n) \in Times
  BY <1>1, StoredTimes, Zenon
<1>3. sess \in Session /\ sess' \in Session
  BY <1>2, Zenon DEF TInv, TypeOK, FirstTick, Session
<1>4. /\ sess'.init /\ sess'.cur = Stored(n) /\ sess'.rx = Stored(n)
      /\ sess'.st = sess.st /\ sess'.hold = sess.hold
  BY <1>3, Zenon DEF FirstTick, Session
<1>5. TypeOK'
  BY <1>1, <1>3, <1>4, ClockAssumption DEF TInv, TypeOK, FirstTick, Idle
<1>6. Past'
  BY <1>1, ClockAssumption DEF TInv, TypeOK, Past, FirstTick, Idle
<1>7. sess.hold > 0 => 0 < Ms(sess.hold)
  BY <1>3, MsNat, Zenon DEF Session
<1>8. InTime'
  BY <1>1, <1>3, <1>4, <1>7, ClockAssumption
  DEF TInv, TypeOK, Past, InTime, FirstTick, TimerActive, Session
<1> QED BY <1>5, <1>6, <1>8 DEF TInv

\* What a later tick that comes in order finds: the unsigned difference it computes is
\* the time since the stamp.
LEMMA LaterTickElapsed ==
  ASSUME TInv, NEW t \in Tickers, LaterTick(t), TimerActive(sess), ordered,
         ticked <= tick[t].now
  PROVE  Elapsed(Stored(tick[t].now), sess.rx) = tick[t].now - rxAt
<1>1. /\ tick[t].now \in Start..MaxClock /\ rxAt \in Start..MaxClock /\ ticked \in Start..MaxClock
      /\ rxAt <= ticked /\ sess.rx = Stored(rxAt)
  BY Zenon DEF TInv, TypeOK, InTime, LaterTick
<1>2. rxAt <= tick[t].now
  BY <1>1
<1> QED BY <1>1, <1>2, ElapsedTrue, Zenon

\* A later tick preserves it: it ends the session or has found the stamp fresh.
LEMMA LaterTickTInv ==
  ASSUME TInv, NEW t \in Tickers, LaterTick(t)
  PROVE  TInv'
<1> DEFINE n == tick[t].now
           s == [sess EXCEPT !.cur = Stored(n)]
<1>1. n \in Start..MaxClock /\ n <= clock
  BY DEF TInv, TypeOK, Past
<1>2. Stored(n) \in Times
  BY <1>1, StoredTimes
<1>3. sess \in Session /\ s \in Session
  BY <1>2, Zenon DEF TInv, TypeOK, Session
<1>4. /\ s.cur = Stored(n) /\ s.rx = sess.rx /\ s.init /\ s.hold = sess.hold
      /\ s.st = sess.st /\ s.gen = sess.gen
  BY <1>3, Zenon DEF LaterTick, Session
<1>5. tick' \in [Tickers -> [pc : {"idle", "read", "send"}, now : Start..MaxClock,
                             st : {"IDLE", "OPEN_CONFIRM", "ESTABLISHED"}, gen : Nat]]
      /\ \A u \in Tickers : tick'[u].now <= clock
  <2>1. tick' = [tick EXCEPT ![t] = Idle]
          \/ tick' = [tick EXCEPT ![t] = [tick[t] EXCEPT !.pc = "send", !.st = s.st, !.gen = s.gen]]
    BY Zenon DEF LaterTick
  <2>2. s.st \in {"IDLE", "OPEN_CONFIRM", "ESTABLISHED"} /\ s.gen \in Nat
    BY <1>3, Zenon DEF Session
  <2>3. CASE tick' = [tick EXCEPT ![t] = Idle]
    BY <2>3, ClockAssumption DEF TInv, TypeOK, Past, Idle
  <2>4. CASE tick' = [tick EXCEPT ![t] = [tick[t] EXCEPT !.pc = "send", !.st = s.st, !.gen = s.gen]]
    BY <2>2, <2>4, Zenon DEF TInv, TypeOK, Past
  <2> QED BY <2>1, <2>3, <2>4, Zenon
<1>6. CASE HoldOver(s, Stored(n))
  <2>1. sess' = Teardown(s) /\ Forget /\ ticked' = n /\ clock' = clock
    BY <1>6, Zenon DEF LaterTick
  <2>2. sess' \in Session /\ ~sess'.init /\ sess'.st = "IDLE"
    BY <1>3, <2>1, TeardownType, Zenon
  <2>3. TypeOK'
    BY <1>1, <1>5, <2>1, <2>2, ClockAssumption DEF TInv, TypeOK, Forget
  <2>4. Past'
    BY <1>1, <1>5, <2>1 DEF TInv, TypeOK, Past, Forget
  <2> QED BY <2>2, <2>3, <2>4, Zenon DEF TInv, InTime, TimerActive
<1>7. CASE ~HoldOver(s, Stored(n))
  <2>1. /\ sess' = s /\ ticked' = n /\ clock' = clock /\ heard' = heard /\ told' = told
        /\ rxAt' = rxAt /\ ordered' = (ordered /\ ticked <= n)
    BY <1>7, Zenon DEF LaterTick
  <2>2. sess.rx = Stored(rxAt)
    BY Zenon DEF TInv, TypeOK, LaterTick
  <2>3. TypeOK'
    BY <1>1, <1>3, <1>4, <1>5, <2>1, <2>2 DEF TInv, TypeOK
  <2>4. Past'
    BY <1>1, <1>5, <2>1, Zenon DEF TInv, TypeOK, Past
  <2>5. ASSUME TimerActive(sess), ordered, ticked <= n
        PROVE  sess.hold > 0 => n - rxAt < Ms(sess.hold)
    <3>1. Elapsed(Stored(n), s.rx) = n - rxAt
      BY <1>4, <2>5, LaterTickElapsed, Zenon
    <3>2. sess.hold > 0 => ~(n - rxAt >= Ms(sess.hold))
      BY <1>4, <1>7, <2>5, <3>1, Zenon DEF HoldOver, TimerActive
    <3>3. sess.hold \in Nat /\ rxAt \in Int /\ n \in Int
      BY <1>1, <1>3 DEF TInv, TypeOK, Session
    <3>4. Ms(sess.hold) \in Nat
      BY <3>3, MsNat, Zenon
    <3> QED BY <3>2, <3>3, <3>4
  <2>6. InTime'
    <3> SUFFICES ASSUME TimerActive(sess'), ordered'
                 PROVE  InTime'
      BY Zenon DEF InTime
    <3>1. TimerActive(sess) /\ ordered /\ ticked <= n /\ sess.init
      BY <1>4, <2>1, Zenon DEF TimerActive, LaterTick
    <3>2. /\ clock - ticked <= MaxGap
          /\ heard - MaxGap <= rxAt /\ rxAt <= heard + MaxGap /\ rxAt <= ticked
      BY <3>1, Zenon DEF TInv, InTime
    <3>3. clock - n <= MaxGap /\ rxAt <= n
      BY <1>1, <3>1, <3>2, ClockAssumption DEF TInv, TypeOK
    <3> QED BY <1>4, <2>1, <2>5, <3>1, <3>2, <3>3, Zenon DEF InTime
  <2> QED BY <2>3, <2>4, <2>6 DEF TInv
<1> QED BY <1>6, <1>7, Zenon

\* The end of a KEEPALIVE preserves it: it touches no stamp of the peer.
LEMMA TickSentTInv ==
  ASSUME TInv, NEW t \in Tickers, NEW ok \in BOOLEAN, TickSent(t, ok)
  PROVE  TInv'
<1> DEFINE same == sess.st = tick[t].st /\ sess.gen = tick[t].gen
<1>1. tick[t].now \in Start..MaxClock
  BY Zenon DEF TInv, TypeOK
<1>2. Stored(tick[t].now) \in Times
  BY <1>1, StoredTimes, Zenon
<1>3. sess \in Session
  BY Zenon DEF TInv, TypeOK
<1>4. /\ tick' \in [Tickers -> [pc : {"idle", "read", "send"}, now : Start..MaxClock,
                             st : {"IDLE", "OPEN_CONFIRM", "ESTABLISHED"}, gen : Nat]]
      /\ \A u \in Tickers : tick'[u].now <= clock
  BY ClockAssumption DEF TInv, TypeOK, Past, TickSent, Idle
<1>5. CASE same /\ ~ok
  <2>1. sess' = Teardown(sess) /\ Forget /\ ticked' = ticked /\ clock' = clock
    BY <1>5, Zenon DEF TickSent
  <2>2. sess' \in Session /\ ~sess'.init /\ sess'.st = "IDLE"
    BY <1>3, <2>1, TeardownType, Zenon
  <2>3. TypeOK'
    BY <1>4, <2>1, <2>2, ClockAssumption DEF TInv, TypeOK, Forget
  <2>4. Past'
    BY <1>4, <2>1 DEF TInv, TypeOK, Past, Forget
  <2> QED BY <2>2, <2>3, <2>4, Zenon DEF TInv, InTime, TimerActive
<1>6. CASE ~(same /\ ~ok)
  <2>1. /\ ticked' = ticked /\ clock' = clock /\ heard' = heard /\ rxAt' = rxAt
        /\ ordered' = ordered /\ told' \in {clock, told}
    BY <1>6, Zenon DEF TickSent
  <2>2. sess' = sess \/ sess' = [sess EXCEPT !.ka = Stored(tick[t].now)]
    BY <1>6, Zenon DEF TickSent
  <2>3. /\ sess' \in Session /\ sess'.init = sess.init /\ sess'.cur = sess.cur
        /\ sess'.rx = sess.rx /\ sess'.hold = sess.hold /\ sess'.st = sess.st
    BY <1>2, <1>3, <2>2, Zenon DEF Session
  <2>4. TypeOK'
    BY <1>4, <2>1, <2>3 DEF TInv, TypeOK
  <2>5. Past'
    BY <1>4, <2>1 DEF TInv, TypeOK, Past
  <2>6. InTime'
    BY <2>1, <2>3, Zenon DEF TInv, InTime, TimerActive
  <2> QED BY <2>4, <2>5, <2>6, Zenon DEF TInv
<1> QED BY <1>5, <1>6, Zenon

\* Time passes only while the latest tick is recent.
LEMMA PassTInv ==
  ASSUME TInv, Pass
  PROVE  TInv'
<1>1. TypeOK'
  BY ClockAssumption DEF TInv, TypeOK, Pass
<1>2. Past'
  BY ClockAssumption DEF TInv, TypeOK, Past, Pass
<1>3. InTime'
  BY ClockAssumption DEF TInv, TypeOK, InTime, Pass, TimerActive
<1> QED BY <1>1, <1>2, <1>3, Zenon DEF TInv

\* The invariant holds in every state.
LEMMA TimersInvariant == Spec => []TInv
<1>1. Init => TInv
  BY InitTInv, Zenon
<1>2. TInv /\ [Next]_vars => TInv'
  <2> SUFFICES ASSUME TInv, [Next]_vars PROVE TInv'
    BY Zenon
  <2>1. CASE \E h \in PeerHolds : Open(h)
    BY <2>1, OpenTInv, Zenon
  <2>2. CASE \E to \in {"OPEN_CONFIRM", "ESTABLISHED"} : Message(to)
    BY <2>2, MessageTInv, Zenon
  <2>3. CASE Down
    BY <2>3, DownTInv, Zenon
  <2>4. CASE \E t \in Tickers : ReadClock(t)
    BY <2>4, ReadClockTInv
  <2>5. CASE \E t \in Tickers : FirstTick(t)
    BY <2>5, FirstTickTInv
  <2>6. CASE \E t \in Tickers : LaterTick(t)
    BY <2>6, LaterTickTInv
  <2>7. CASE \E t \in Tickers, ok \in BOOLEAN : TickSent(t, ok)
    BY <2>7, TickSentTInv, Zenon
  <2>8. CASE Pass
    BY <2>8, PassTInv
  <2>9. CASE UNCHANGED vars
    BY <2>9, Zenon DEF vars, TInv, TypeOK, Past, InTime, TimerActive
  <2> QED BY <2>1, <2>2, <2>3, <2>4, <2>5, <2>6, <2>7, <2>8, <2>9, Zenon DEF Next
<1> QED BY <1>1, <1>2, PTL DEF Spec

\* Stamps, readings and their widths are right at all times (libbgp_fsm_tick,
\* fsm_mark_rx_current).
THEOREM TypeCorrect == Spec => []TypeOK
<1>1. TInv => TypeOK
  BY Zenon DEF TInv
<1> QED BY <1>1, TimersInvariant, PTL

\* A silent peer is noticed within its hold time and two tick intervals.
THEOREM SilentPeerNoticed == Spec => []DeadPeerNoticed
<1>1. TInv => DeadPeerNoticed
  <2> SUFFICES ASSUME TInv, TimerActive(sess), sess.hold > 0, ordered
               PROVE  clock - heard < Ms(sess.hold) + 2 * MaxGap
    BY Zenon DEF DeadPeerNoticed
  <2>1. sess.hold \in Nat /\ Ms(sess.hold) \in Nat /\ Ms(sess.hold) > 0
    BY MsNat, Zenon DEF TInv, TypeOK, Session
  <2>2. CASE sess.init
    BY <2>1, <2>2, ClockAssumption DEF TInv, TypeOK, InTime
  <2>3. CASE ~sess.init
    BY <2>1, <2>3, ClockAssumption DEF TInv, TypeOK, InTime
  <2>4. sess.init \in BOOLEAN
    BY Zenon DEF TInv, TypeOK, Session
  <2> QED BY <2>2, <2>3, <2>4, Zenon
<1> QED BY <1>1, TimersInvariant, PTL

\* The hold timer never ends a session whose peer has spoken within the hold time less
\* one tick interval.
THEOREM LivePeerKept == Spec => NoEarlyExpiry
<1> DEFINE Fine == \A t \in Tickers :
         (/\ tick[t].pc = "read" /\ tick'[t].pc = "idle"
          /\ TimerActive(sess) /\ ~TimerActive(sess')
          /\ ordered /\ ticked <= tick[t].now)
         => sess.hold > 0 /\ clock - heard >= Ms(sess.hold) - MaxGap
<1>1. TInv /\ [Next]_vars => [Fine]_vars
  <2> SUFFICES ASSUME TInv, Next, NEW t \in Tickers,
                      tick[t].pc = "read", tick'[t].pc = "idle",
                      TimerActive(sess), ~TimerActive(sess'),
                      ordered, ticked <= tick[t].now
               PROVE  sess.hold > 0 /\ clock - heard >= Ms(sess.hold) - MaxGap
    BY Zenon
  <2>1. /\ tick \in [Tickers -> [pc : {"idle", "read", "send"}, now : Start..MaxClock,
                                 st : {"IDLE", "OPEN_CONFIRM", "ESTABLISHED"}, gen : Nat]]
        /\ sess \in Session
    BY Zenon DEF TInv, TypeOK
  <2>2. tick'[t] # tick[t]
    BY <2>1, Zenon
  <2>3. PICK u \in Tickers : ReadClock(u) \/ FirstTick(u) \/ LaterTick(u)
                                \/ \E ok \in BOOLEAN : TickSent(u, ok)
    BY <2>2, Zenon DEF Next, Open, Message, Down, Pass
  <2>4. u = t
    BY <2>1, <2>2, <2>3, Zenon DEF ReadClock, FirstTick, LaterTick, TickSent
  <2>5. LaterTick(t)
    <3>1. ~ReadClock(t) /\ \A ok \in BOOLEAN : ~TickSent(t, ok)
      BY Zenon DEF ReadClock, TickSent
    <3>2. ~FirstTick(t)
      BY <2>1, Zenon DEF FirstTick, TimerActive, Session
    <3> QED BY <2>3, <2>4, <3>1, <3>2, Zenon
  <2> DEFINE n == tick[t].now
             s == [sess EXCEPT !.cur = Stored(n)]
  <2>6. s.rx = sess.rx /\ s.hold = sess.hold /\ s.st = sess.st
    BY <2>1, Zenon DEF Session
  <2>7. HoldOver(s, Stored(n))
    <3>1. ~HoldOver(s, Stored(n)) => sess' = s
      BY <2>5, Zenon DEF LaterTick
    <3> QED BY <2>6, <3>1, Zenon DEF TimerActive
  <2>8. sess.hold > 0 /\ n - rxAt >= Ms(sess.hold)
    BY <2>5, <2>6, <2>7, LaterTickElapsed, Zenon DEF HoldOver
  <2>9. /\ n \in Int /\ clock \in Int /\ heard \in Int /\ rxAt \in Int
        /\ n <= clock /\ heard - MaxGap <= rxAt
    BY <2>5 DEF TInv, TypeOK, Past, InTime, LaterTick
  <2>10. sess.hold \in Nat /\ Ms(sess.hold) \in Nat
    BY <2>1, MsNat, Zenon DEF Session
  <2> QED BY <2>8, <2>9, <2>10, ClockAssumption
<1> QED BY <1>1, TimersInvariant, PTL DEF Spec, NoEarlyExpiry

-----------------------------------------------------------------------------
(* Our own side: the KEEPALIVEs go out in time, if the host ticks often.   *)

\* The host ticks often enough for its number of threads.  Each thread may be held up
\* in one KEEPALIVE that fails while the session becomes ESTABLISHED, which
\* libbgp_fsm_tick does not take for a failure of the new session.
TicksOften ==
    IsFiniteSet(Tickers) /\ (Cardinality(Tickers) + 2) * MaxGap <= 2 * Unit

Gaps(c) == c * MaxGap
Keep(s) == Ms(EffectiveKeepalive(s.hold))

\* The ticks of this generation that are sending.
Senders == {t \in Tickers : tick[t].pc = "send" /\ tick[t].gen = sess.gen}

\* A generation has one state, and no tick is ahead of the session.
SendersOK ==
    /\ sess.hold \notin {1, 2}
    /\ \A t \in Tickers : tick[t].pc = "send" =>
         /\ tick[t].gen <= sess.gen
         /\ tick[t].gen = sess.gen => tick[t].st = sess.st /\ sess.init

\* The stamp of our KEEPALIVE is at most one interval ahead of the KEEPALIVE itself,
\* and the latest tick found that stamp fresh, or is sending: each tick that is
\* sending in OPEN_CONFIRM may have put the next KEEPALIVE off by one interval.
Spoken ==
    TimerActive(sess) /\ ordered /\ sess.hold > 0 =>
        /\ ~sess.init => ticked <= told
        /\ sess.init =>
             /\ \E k \in Start..MaxClock : sess.ka = Stored(k) /\ k <= ticked /\ k <= told + MaxGap
             /\ \A t \in Senders : tick[t].now <= ticked
             /\ IF sess.st = "OPEN_CONFIRM"
                THEN ticked - told < Keep(sess) + Gaps(1 + Cardinality(Senders))
                ELSE Senders # {} \/ ticked - told < Keep(sess) + Gaps(1 + Cardinality(Tickers))

\* Tick intervals add up.
LEMMA GapsAdd ==
  ASSUME NEW c \in Nat
  PROVE  /\ Gaps(c) \in Nat /\ Gaps(c + 1) = Gaps(c) + MaxGap
         /\ \A d \in Nat : c <= d => Gaps(c) <= Gaps(d)
<1>1. MaxGap \in Nat
  BY ClockAssumption, Zenon
<1>2. Gaps(c) \in Nat /\ Gaps(c + 1) = Gaps(c) + MaxGap
  BY <1>1 DEF Gaps
<1>3. ASSUME NEW d \in Nat, c <= d
      PROVE  Gaps(c) <= Gaps(d)
  <2>1. PICK e \in Nat : d = c + e
    <3>1. d - c \in Nat /\ d = c + (d - c)
      BY <1>3
    <3> QED BY <3>1, Zenon
  <2>2. e * MaxGap \in Nat /\ d * MaxGap = c * MaxGap + e * MaxGap
    BY <1>1, <2>1
  <2>3. c * MaxGap \in Nat
    BY <1>1
  <2> QED BY <2>2, <2>3 DEF Gaps
<1> QED BY <1>2, <1>3, Zenon

\* fsm_effective_keepalive: at least one second, and three of them fit the hold time.
LEMMA KeepaliveThird ==
  ASSUME NEW h \in Nat \ {0, 1, 2}
  PROVE  /\ EffectiveKeepalive(h) \in Nat \ {0}
         /\ Ms(EffectiveKeepalive(h)) \in Nat /\ Unit <= Ms(EffectiveKeepalive(h))
         /\ 3 * Ms(EffectiveKeepalive(h)) <= Ms(h)
<1> DEFINE k == EffectiveKeepalive(h)
<1>1. k \in Nat \ {0} /\ 3 * k <= h
  <2>1. h \div 3 \in Nat \ {0} /\ 3 * (h \div 3) <= h
    OBVIOUS
  <2>2. ConfKeepalive \in Nat
    BY HoldsAssumption, Zenon
  <2> QED BY <2>1, <2>2 DEF EffectiveKeepalive, Lesser
<1>2. Unit \in Nat \ {0}
  BY ClockAssumption, Zenon
<1> HIDE DEF k
<1>3. PICK r \in Nat : h = 3 * k + r
  <2>1. h - 3 * k \in Nat /\ h = 3 * k + (h - 3 * k)
    BY <1>1
  <2> QED BY <2>1, Zenon
<1>4. PICK q \in Nat : k = q + 1
  <2>1. k - 1 \in Nat /\ k = (k - 1) + 1
    BY <1>1
  <2> QED BY <2>1, Zenon
<1>5. r * Unit \in Nat /\ h * Unit = 3 * (k * Unit) + r * Unit
  BY <1>1, <1>2, <1>3
<1>6. q * Unit \in Nat /\ k * Unit = q * Unit + Unit
  BY <1>2, <1>4
<1>7. k * Unit \in Nat
  BY <1>2, <1>6
<1>8. Unit <= k * Unit /\ 3 * (k * Unit) <= h * Unit
  BY <1>2, <1>5, <1>6, <1>7
<1> QED BY <1>1, <1>7, <1>8, Zenon DEF Ms, k

\* There are as many sending ticks as ticking threads, at most.
LEMMA CountTickers ==
  ASSUME IsFiniteSet(Tickers), NEW S, S \subseteq Tickers
  PROVE  /\ IsFiniteSet(S) /\ Cardinality(S) \in Nat
         /\ Cardinality(Tickers) \in Nat /\ Cardinality(S) <= Cardinality(Tickers)
BY FS_Subset, FS_CardinalityType, Zenon

\* The keepalive interval of a session with a hold time is a positive time.
LEMMA KeepPositive ==
  ASSUME TInv, SendersOK, sess.hold > 0
  PROVE  /\ Keep(sess) \in Nat /\ Unit <= Keep(sess) /\ Keep(sess) > 0
         /\ 3 * Keep(sess) <= Ms(sess.hold) /\ Ms(sess.hold) \in Nat
<1>1. sess.hold \in Nat \ {0, 1, 2}
  BY DEF TInv, TypeOK, Session, SendersOK
<1>2. Ms(sess.hold) \in Nat
  BY <1>1, MsNat, Zenon
<1>3. Unit \in Nat \ {0}
  BY ClockAssumption, Zenon
<1> QED BY <1>1, <1>2, <1>3, KeepaliveThird DEF Keep

\* An accepted OPEN: the new generation has no tick yet, and was spoken to just now.
LEMMA OpenSpoken ==
  ASSUME TInv, SendersOK, NEW h \in PeerHolds, Open(h)
  PROVE  SendersOK' /\ Spoken'
<1>1. sess \in Session
  BY Zenon DEF TInv, TypeOK
<1>2. /\ sess'.gen = sess.gen + 1 /\ ~sess'.init /\ sess'.hold = NegotiatedHold(LocalHold, h)
      /\ tick' = tick /\ told' = clock /\ ticked' = ticked
  BY <1>1, Zenon DEF Open, Session
<1>3. NegotiatedHold(LocalHold, h) \notin {1, 2}
  BY HoldsAssumption, Zenon DEF NegotiatedHold, Lesser
<1>4. sess.gen \in Nat /\ \A t \in Tickers : tick[t].gen \in Nat
  BY Zenon DEF TInv, TypeOK, Session
<1>5. \A t \in Tickers : tick[t].pc = "send" => tick[t].gen < sess'.gen
  BY <1>2, <1>4 DEF SendersOK
<1>6. SendersOK'
  BY <1>2, <1>3, <1>4, <1>5 DEF SendersOK
<1>7. ticked' <= told'
  BY <1>2, Zenon DEF TInv, Past
<1> QED BY <1>2, <1>6, <1>7, Zenon DEF Spoken

\* A message: the KEEPALIVE that establishes the session leaves every sending tick in
\* the generation before.
LEMMA MessageSpoken ==
  ASSUME TInv, SendersOK, Spoken, IsFiniteSet(Tickers),
         NEW to \in {"OPEN_CONFIRM", "ESTABLISHED"}, Message(to)
  PROVE  SendersOK' /\ Spoken'
<1>1. sess \in Session
  BY Zenon DEF TInv, TypeOK
<1>2. /\ sess'.gen = (IF to = sess.st THEN sess.gen ELSE sess.gen + 1) /\ sess'.st = to
      /\ sess'.init = sess.init /\ sess'.hold = sess.hold /\ sess'.ka = sess.ka
  BY <1>1, Zenon DEF Message, MarkRx, Session
<1>3. /\ tick' = tick /\ told' = told /\ ticked' = ticked /\ ordered' = ordered
      /\ TimerActive(sess) /\ (to = sess.st \/ (to = "ESTABLISHED" /\ sess.st = "OPEN_CONFIRM"))
  BY Zenon DEF Message, TimerActive
<1>4. sess.gen \in Nat /\ \A t \in Tickers : tick[t].gen \in Nat
  BY Zenon DEF TInv, TypeOK, Session
<1>5. Keep(sess)' = Keep(sess)
  BY <1>2, Zenon DEF Keep
<1>6. CASE to = sess.st
  <2>1. Senders' = Senders
    BY <1>2, <1>3, <1>6, Zenon DEF Senders
  <2>2. SendersOK'
    BY <1>2, <1>3, <1>6, Zenon DEF SendersOK
  <2>3. TimerActive(sess') <=> TimerActive(sess)
    BY <1>2, <1>6, Zenon DEF TimerActive
  <2> QED BY <1>2, <1>3, <1>5, <1>6, <2>1, <2>2, <2>3, Zenon DEF Spoken, TimerActive
<1>7. CASE to # sess.st
  <2>1. sess'.st = "ESTABLISHED" /\ sess.st = "OPEN_CONFIRM" /\ sess'.gen = sess.gen + 1
    BY <1>2, <1>3, <1>7, Zenon
  <2>2. \A t \in Tickers : tick[t].pc = "send" => tick[t].gen < sess'.gen
    BY <1>4, <2>1 DEF SendersOK
  <2>3. SendersOK'
    BY <1>2, <1>3, <1>4, <2>2 DEF SendersOK
  <2>4. Senders' = {}
    BY <1>3, <1>4, <2>1, <2>2 DEF Senders
  <2> SUFFICES ASSUME ordered, sess.hold > 0, sess.init
               PROVE  ticked - told < Keep(sess) + Gaps(1 + Cardinality(Tickers))
    BY <1>2, <1>3, <1>5, <2>1, <2>3, <2>4, Zenon DEF Spoken
  <2>5. ticked - told < Keep(sess) + Gaps(1 + Cardinality(Senders))
    BY <1>3, <2>1, Zenon DEF Spoken
  <2>6. /\ Cardinality(Senders) \in Nat /\ Cardinality(Tickers) \in Nat
        /\ Cardinality(Senders) <= Cardinality(Tickers)
    BY CountTickers, Zenon DEF Senders
  <2>7. /\ Gaps(1 + Cardinality(Senders)) <= Gaps(1 + Cardinality(Tickers))
        /\ Gaps(1 + Cardinality(Senders)) \in Nat /\ Gaps(1 + Cardinality(Tickers)) \in Nat
    BY <2>6, GapsAdd, SMTT(30)
  <2>8. Keep(sess) \in Nat /\ ticked \in Int /\ told \in Int
    BY KeepPositive DEF TInv, TypeOK
  <2> QED BY <2>5, <2>7, <2>8
<1> QED BY <1>6, <1>7, Zenon

\* A step that ends the session, and one that changes neither the session's clocks nor
\* a sending tick.
LEMMA EndSpoken ==
  ASSUME TInv, SendersOK, NEW s \in Session, sess' = Teardown(s), s.gen = sess.gen,
         \A t \in Tickers : tick'[t].pc = "send" => tick'[t] = tick[t]
  PROVE  SendersOK' /\ Spoken'
<1>1. sess'.gen = sess.gen + 1 /\ sess'.st = "IDLE" /\ sess'.hold = 0
  BY Zenon DEF Teardown, Session
<1>2. sess.gen \in Nat /\ \A t \in Tickers : tick[t].gen \in Nat
  BY Zenon DEF TInv, TypeOK, Session
<1>3. ASSUME NEW t \in Tickers, tick'[t].pc = "send"
      PROVE  tick'[t].gen <= sess'.gen /\ tick'[t].gen # sess'.gen
  BY <1>1, <1>2, <1>3 DEF SendersOK
<1>4. SendersOK'
  BY <1>1, <1>3 DEF SendersOK
<1> QED BY <1>1, <1>4, Zenon DEF Spoken, TimerActive

\* A step that leaves the session and its clocks alone, and no tick begins to send.
LEMMA QuietSpoken ==
  ASSUME SendersOK, Spoken, UNCHANGED <<sess, told, ticked, ordered>>,
         \A t \in Tickers : (tick'[t].pc = "send" <=> tick[t].pc = "send")
                            /\ (tick[t].pc = "send" => tick'[t] = tick[t])
  PROVE  SendersOK' /\ Spoken'
<1>1. sess' = sess /\ told' = told /\ ticked' = ticked /\ ordered' = ordered
  BY Zenon
<1>2. Senders' = Senders
  BY <1>1, Zenon DEF Senders
<1>3. SendersOK'
  BY <1>1, Zenon DEF SendersOK
<1>4. \A t \in Senders : tick'[t].now = tick[t].now
  BY Zenon DEF Senders
<1>5. Keep(sess)' = Keep(sess)
  BY <1>1, Zenon DEF Keep
<1> SUFFICES ASSUME TimerActive(sess), ordered, sess.hold > 0, sess.init
             PROVE  /\ \E k \in Start..MaxClock : sess.ka = Stored(k) /\ k <= ticked /\ k <= told + MaxGap
                    /\ \A t \in Senders : tick'[t].now <= ticked
                    /\ IF sess.st = "OPEN_CONFIRM"
                       THEN ticked - told < Keep(sess) + Gaps(1 + Cardinality(Senders))
                       ELSE Senders # {} \/ ticked - told < Keep(sess) + Gaps(1 + Cardinality(Tickers))
  BY <1>1, <1>2, <1>3, <1>5 DEF Spoken, TimerActive
<1>6. \A t \in Senders : tick'[t].now <= ticked
  BY <1>4, Zenon DEF Spoken
<1> QED BY <1>6, Zenon DEF Spoken

\* The first tick of a session: at most one interval after the session was told.
LEMMA FirstTickSpoken ==
  ASSUME TInv, SendersOK, Spoken, IsFiniteSet(Tickers), NEW t \in Tickers, FirstTick(t)
  PROVE  SendersOK' /\ Spoken'
<1> DEFINE n == tick[t].now
<1>1. n \in Start..MaxClock /\ n <= clock /\ sess \in Session /\ ~sess.init
  BY Zenon DEF TInv, TypeOK, Past, FirstTick
<1>2. /\ sess'.ka = Stored(n) /\ sess'.init
      /\ sess'.st = sess.st /\ sess'.hold = sess.hold /\ sess'.gen = sess.gen
  BY <1>1, Zenon DEF FirstTick, Session
<1>3. /\ ticked' = n /\ told' = told /\ (ordered' => ordered /\ ticked <= n)
      /\ tick' = [tick EXCEPT ![t] = Idle]
  BY Zenon DEF FirstTick
<1>4. \A u \in Tickers : tick'[u].pc = "send" => tick'[u] = tick[u]
  BY <1>3, Zenon DEF Idle, TInv, TypeOK
<1>5. SendersOK' /\ Senders' = {}
  <2>1. ASSUME NEW u \in Tickers, tick'[u].pc = "send"
        PROVE  tick'[u].gen <= sess.gen /\ tick'[u].gen # sess.gen
    BY <1>1, <1>4, <2>1, Zenon DEF SendersOK
  <2> QED BY <1>2, <2>1, Zenon DEF SendersOK, Senders
<1> SUFFICES ASSUME TimerActive(sess'), ordered', sess'.hold > 0
             PROVE  /\ n <= told + MaxGap
                    /\ n - told < Keep(sess') + Gaps(1 + Cardinality(Senders)')
                    /\ n - told < Keep(sess') + Gaps(1 + Cardinality(Tickers))
  <2>1. n <= n
    BY <1>1
  <2>2. \A u \in Senders' : tick'[u].now <= n
    BY <1>5, Zenon
  <2> QED BY <1>1, <1>2, <1>3, <1>5, <2>1, <2>2, Zenon DEF Spoken, Keep
<1>6. TimerActive(sess) /\ ordered /\ ticked <= n /\ sess.hold > 0 /\ Keep(sess') = Keep(sess)
  BY <1>2, <1>3, Zenon DEF TimerActive, Keep
<1>7. ticked <= told /\ clock - ticked <= MaxGap
  BY <1>1, <1>6, Zenon DEF Spoken, TInv, InTime
<1>8. n <= told + MaxGap /\ n - told <= MaxGap
  BY <1>1, <1>7, ClockAssumption DEF TInv, TypeOK
<1>9. ASSUME NEW c \in Nat
      PROVE  n - told < Keep(sess') + Gaps(1 + c)
  <2>1. Gaps(1 + c) = Gaps(c) + MaxGap /\ Gaps(c) \in Nat
    BY GapsAdd, 1 + c = c + 1
  <2>2. Keep(sess) \in Nat /\ Keep(sess) > 0
    BY <1>6, KeepPositive, Zenon
  <2> QED BY <1>1, <1>6, <1>8, <2>1, <2>2, ClockAssumption DEF TInv, TypeOK
<1>10. Cardinality(Senders)' \in Nat /\ Cardinality(Tickers) \in Nat
  BY <1>5, CountTickers, FS_EmptySet, Zenon
<1> QED BY <1>8, <1>9, <1>10, Zenon

\* A later tick that finds the session alive: it finds the stamp fresh, or it begins to
\* send, and it came at most one interval after the tick before.
LEMMA LaterTickSpoken ==
  ASSUME TInv, SendersOK, Spoken, IsFiniteSet(Tickers), NEW t \in Tickers, LaterTick(t)
  PROVE  SendersOK' /\ Spoken'
<1> DEFINE n == tick[t].now
           s == [sess EXCEPT !.cur = Stored(n)]
           r == [tick[t] EXCEPT !.pc = "send", !.st = s.st, !.gen = s.gen]
<1>1. n \in Start..MaxClock /\ n <= clock /\ sess \in Session /\ sess.init
  BY Zenon DEF TInv, TypeOK, Past, LaterTick
<1>2. Stored(n) \in Times
  BY <1>1, StoredTimes, Zenon
<1>3. /\ s \in Session /\ s.st = sess.st /\ s.hold = sess.hold /\ s.gen = sess.gen
      /\ s.ka = sess.ka /\ s.init
  BY <1>1, <1>2, Zenon DEF Session
<1>4. /\ tick \in [Tickers -> [pc : {"idle", "read", "send"}, now : Start..MaxClock,
                              st : {"IDLE", "OPEN_CONFIRM", "ESTABLISHED"}, gen : Nat]]
      /\ tick[t].pc = "read"
  BY Zenon DEF TInv, TypeOK, LaterTick
<1>5. r.pc = "send" /\ r.st = sess.st /\ r.gen = sess.gen /\ r.now = n
  BY <1>3, <1>4, Zenon
<1>6. CASE HoldOver(s, Stored(n))
  <2>1. sess' = Teardown(s) /\ tick' = [tick EXCEPT ![t] = Idle]
    BY <1>6, Zenon DEF LaterTick
  <2>2. \A u \in Tickers : tick'[u].pc = "send" => tick'[u] = tick[u]
    BY <1>4, <2>1, Zenon DEF Idle
  <2> QED BY <1>3, <2>1, <2>2, EndSpoken, Zenon
<1>7. CASE ~HoldOver(s, Stored(n))
  <2>1. /\ sess' = s /\ ticked' = n /\ told' = told /\ (ordered' => ordered /\ ticked <= n)
    BY <1>7, Zenon DEF LaterTick
  <2>2. TimerActive(sess') <=> TimerActive(sess)
    BY <1>3, <2>1, Zenon DEF TimerActive
  <2>3. Keep(sess') = Keep(sess)
    BY <1>3, <2>1, Zenon DEF Keep
  <2>4. ASSUME TimerActive(sess'), ordered', sess'.hold > 0
        PROVE  /\ ordered /\ TimerActive(sess) /\ sess.hold > 0
               /\ ticked <= n /\ n <= ticked + MaxGap
               /\ Keep(sess) \in Nat /\ Keep(sess) > 0
               /\ told \in Int /\ ticked \in Int
    <3>1. ordered /\ TimerActive(sess) /\ sess.hold > 0 /\ ticked <= n
      BY <1>3, <2>1, <2>2, <2>4, Zenon
    <3>2. clock - ticked <= MaxGap
      BY <3>1, Zenon DEF TInv, InTime
    <3>3. told \in Int /\ ticked \in Int /\ n <= ticked + MaxGap
      BY <1>1, <3>2, ClockAssumption DEF TInv, TypeOK
    <3> QED BY <3>1, <3>3, KeepPositive, Zenon
  <2>5. ASSUME TimerActive(sess), ordered, sess.hold > 0
        PROVE  \E k \in Start..MaxClock : sess.ka = Stored(k) /\ k <= ticked /\ k <= told + MaxGap
    BY <1>1, <2>5, Zenon DEF Spoken
  <2>6. ASSUME TimerActive(sess'), ordered', sess'.hold > 0
        PROVE  \E k \in Start..MaxClock : sess'.ka = Stored(k) /\ k <= n /\ k <= told + MaxGap
    <3>1. PICK k \in Start..MaxClock : sess.ka = Stored(k) /\ k <= ticked /\ k <= told + MaxGap
      BY <2>4, <2>5, <2>6, Zenon
    <3>2. k <= n
      BY <1>1, <2>4, <2>6, <3>1
    <3> QED BY <1>3, <2>1, <3>1, <3>2, Zenon
  <2>7. \A u \in Senders : tick[u].now \in Int /\ u # t
    BY <1>4 DEF Senders
  <2>8. ASSUME TimerActive(sess'), ordered', sess'.hold > 0, NEW u \in Senders
        PROVE  tick[u].now <= n
    <3>1. tick[u].now <= ticked
      BY <1>1, <2>4, <2>8, Zenon DEF Spoken
    <3> QED BY <1>1, <2>4, <2>7, <2>8, <3>1
  <2>9. CASE KeepaliveDue(s, Stored(n))
    <3>1. tick' = [tick EXCEPT ![t] = r]
      BY <1>7, <2>9, Zenon DEF LaterTick
    <3> HIDE DEF r
    <3>2. tick'[t] = r /\ \A u \in Tickers : u # t => tick'[u] = tick[u]
      BY <1>4, <3>1, Zenon
    <3>3. Senders' = Senders \cup {t} /\ t \notin Senders
      <4>1. ASSUME NEW u \in Tickers
            PROVE  u \in Senders' <=> u \in Senders \/ u = t
        <5>1. u \in Senders' <=> tick'[u].pc = "send" /\ tick'[u].gen = sess.gen
          BY <1>3, <2>1, Zenon DEF Senders
        <5> QED BY <1>5, <3>2, <5>1, Zenon DEF Senders
      <4> QED BY <2>7, <4>1, Zenon DEF Senders
    <3>4. SendersOK'
      <4>1. ASSUME NEW u \in Tickers, tick'[u].pc = "send"
            PROVE  tick'[u].gen <= sess.gen /\ (tick'[u].gen = sess.gen => tick'[u].st = sess.st)
        <5>1. CASE u = t
          BY <1>1, <1>5, <3>2, <5>1 DEF Session
        <5>2. CASE u # t
          BY <3>2, <4>1, <5>2, Zenon DEF SendersOK
        <5> QED BY <5>1, <5>2, Zenon
      <4> QED BY <1>3, <2>1, <4>1, Zenon DEF SendersOK
    <3>5. IsFiniteSet(Senders) /\ Cardinality(Senders) \in Nat
      BY CountTickers, Zenon DEF Senders
    <3>6. Cardinality(Senders') = Cardinality(Senders) + 1
      BY <3>3, <3>5, FS_AddElement, Zenon
    <3> SUFFICES ASSUME TimerActive(sess'), ordered', sess'.hold > 0
                 PROVE  /\ \A u \in Senders' : tick'[u].now <= n
                        /\ sess.st = "OPEN_CONFIRM" =>
                             n - told < Keep(sess) + Gaps(1 + Cardinality(Senders'))
      BY <1>3, <2>1, <2>3, <2>6, <3>3, <3>4, Zenon DEF Spoken, Keep
    <3>7. ASSUME NEW u \in Senders'
          PROVE  tick'[u].now <= n
      <4>1. CASE u = t
        BY <1>1, <1>5, <3>2, <4>1
      <4>2. CASE u # t
        BY <2>8, <3>2, <3>3, <3>7, <4>2, Zenon DEF Senders
      <4> QED BY <4>1, <4>2, Zenon
    <3>8. ASSUME sess.st = "OPEN_CONFIRM"
          PROVE  n - told < Keep(sess) + Gaps(1 + Cardinality(Senders'))
      <4>1. ticked - told < Keep(sess) + Gaps(1 + Cardinality(Senders))
        BY <1>1, <2>4, <3>8, Zenon DEF Spoken
      <4> DEFINE c == 1 + Cardinality(Senders)
      <4>2. c \in Nat /\ 1 + Cardinality(Senders') = c + 1
        BY <3>5, <3>6
      <4> HIDE DEF c
      <4>3. Gaps(c + 1) = Gaps(c) + MaxGap /\ Gaps(c) \in Nat /\ MaxGap \in Nat
        BY <4>2, GapsAdd, ClockAssumption, Zenon
      <4>4. ticked - told < Keep(sess) + Gaps(c)
        BY <4>1, Zenon DEF c
      <4> QED BY <1>1, <2>4, <4>2, <4>3, <4>4
    <3> QED BY <3>7, <3>8, Zenon
  <2>10. CASE ~KeepaliveDue(s, Stored(n))
    <3>1. tick' = [tick EXCEPT ![t] = Idle]
      BY <1>7, <2>10, Zenon DEF LaterTick
    <3>2. \A u \in Tickers : /\ tick'[u].pc = "send" <=> tick[u].pc = "send"
                             /\ tick[u].pc = "send" => tick'[u] = tick[u]
      BY <1>4, <3>1, Zenon DEF Idle
    <3>3. Senders' = Senders
      BY <1>3, <2>1, <3>2, Zenon DEF Senders
    <3>4. SendersOK'
      BY <1>3, <2>1, <3>2, Zenon DEF SendersOK
    <3>5. /\ Cardinality(Senders) \in Nat /\ Cardinality(Tickers) \in Nat
      BY CountTickers, Zenon DEF Senders
    <3> SUFFICES ASSUME TimerActive(sess'), ordered', sess'.hold > 0
                 PROVE  /\ \A u \in Senders : tick'[u].now <= n
                        /\ \A c \in Nat : n - told < Keep(sess) + Gaps(1 + c)
      BY <1>3, <2>1, <2>3, <2>6, <3>3, <3>4, <3>5, Zenon DEF Spoken, Keep
    <3>6. \A u \in Senders : tick'[u].now <= n
      BY <2>8, <3>2, Zenon DEF Senders
    <3>7. n - told < Keep(sess) + MaxGap
      <4>1. PICK k \in Start..MaxClock : sess.ka = Stored(k) /\ k <= ticked /\ k <= told + MaxGap
        BY <2>4, <2>5, Zenon
      <4>2. k <= n
        BY <1>1, <2>4, <4>1
      <4>3. Elapsed(Stored(n), s.ka) = n - k
        BY <1>1, <1>3, <4>1, <4>2, ElapsedTrue, Zenon
      <4>4. EffectiveKeepalive(sess.hold) > 0
        <5>1. sess.hold \in Nat \ {0, 1, 2}
          BY <1>1, <2>4 DEF Session, SendersOK
        <5> QED BY <5>1, KeepaliveThird
      <4>5. ~(n - k >= Keep(sess))
        <5>1. TimerActive(s)
          BY <1>3, <2>4, Zenon DEF TimerActive
        <5> QED BY <1>3, <2>10, <4>3, <4>4, <5>1, Zenon DEF KeepaliveDue, Keep
      <4> QED BY <1>1, <2>4, <4>1, <4>5, ClockAssumption
    <3>8. ASSUME NEW c \in Nat
          PROVE  n - told < Keep(sess) + Gaps(1 + c)
      <4>1. Gaps(1 + c) = Gaps(c) + MaxGap /\ Gaps(c) \in Nat
        BY GapsAdd, 1 + c = c + 1
      <4> QED BY <1>1, <2>4, <3>7, <4>1, ClockAssumption
    <3> QED BY <3>6, <3>8, Zenon
  <2> QED BY <2>9, <2>10
<1> QED BY <1>6, <1>7, Zenon

\* The end of a KEEPALIVE: it ends the session, or it has been told just now, or the
\* tick was not one of this generation.
LEMMA TickSentSpoken ==
  ASSUME TInv, SendersOK, Spoken, IsFiniteSet(Tickers),
         NEW t \in Tickers, NEW ok \in BOOLEAN, TickSent(t, ok)
  PROVE  SendersOK' /\ Spoken'
<1> DEFINE same == sess.st = tick[t].st /\ sess.gen = tick[t].gen
           grown == sess.st = "ESTABLISHED" /\ tick[t].st = "OPEN_CONFIRM"
                        /\ sess.gen = tick[t].gen + 1
           n == tick[t].now
<1>1. n \in Start..MaxClock /\ sess \in Session /\ tick[t].pc = "send"
  BY Zenon DEF TInv, TypeOK, TickSent
<1>2. Stored(n) \in Times
  BY <1>1, StoredTimes, Zenon
<1>3. /\ tick \in [Tickers -> [pc : {"idle", "read", "send"}, now : Start..MaxClock,
                              st : {"IDLE", "OPEN_CONFIRM", "ESTABLISHED"}, gen : Nat]]
      /\ tick' = [tick EXCEPT ![t] = Idle]
  BY Zenon DEF TInv, TypeOK, TickSent
<1>4. tick'[t].pc = "idle" /\ \A u \in Tickers : u # t => tick'[u] = tick[u]
  BY <1>3, Zenon DEF Idle
<1>5. ASSUME NEW u \in Tickers, tick'[u].pc = "send"
      PROVE  u # t /\ tick'[u] = tick[u]
  BY <1>4, <1>5, Zenon
<1>6. CASE same /\ ~ok
  <2>1. sess' = Teardown(sess)
    BY <1>6, Zenon DEF TickSent
  <2> QED BY <1>1, <1>5, <2>1, EndSpoken, Zenon
<1>7. CASE ~(same /\ ~ok)
  <2>1. /\ clock' = clock /\ ticked' = ticked /\ ordered' = ordered
        /\ told' = (IF ok /\ (same \/ grown) THEN clock ELSE told)
        /\ sess' = (IF same THEN [sess EXCEPT !.ka = Stored(n)] ELSE sess)
    BY <1>7, Zenon DEF TickSent
  <2>2. /\ sess'.st = sess.st /\ sess'.gen = sess.gen /\ sess'.hold = sess.hold
        /\ sess'.init = sess.init /\ sess'.ka = IF same THEN Stored(n) ELSE sess.ka
    BY <1>1, <1>2, <2>1, Zenon DEF Session
  <2>3. Senders' = Senders \ {t}
    <3>1. ASSUME NEW u \in Tickers
          PROVE  u \in Senders' <=> u \in Senders /\ u # t
      <4>1. u \in Senders' <=> tick'[u].pc = "send" /\ tick'[u].gen = sess.gen
        BY <2>2, Zenon DEF Senders
      <4>2. CASE u = t
        BY <1>4, <4>1, <4>2, Zenon
      <4>3. CASE u # t
        BY <1>4, <4>1, <4>3, Zenon DEF Senders
      <4> QED BY <4>2, <4>3, Zenon
    <3> QED BY <3>1, Zenon DEF Senders
  <2>4. SendersOK'
    BY <1>5, <2>2, Zenon DEF SendersOK
  <2>5. Keep(sess') = Keep(sess)
    BY <2>2, Zenon DEF Keep
  <2>6. t \in Senders => same
    BY <1>1, Zenon DEF Senders, SendersOK
  <2>7. CASE ok /\ (same \/ grown)
    <3>1. told' = clock /\ ticked \in Int /\ clock \in Int /\ ticked <= clock
      BY <2>1, <2>7 DEF TInv, TypeOK, Past
    <3>2. ASSUME TimerActive(sess), ordered, sess.hold > 0, sess.init
          PROVE  \E k \in Start..MaxClock : sess'.ka = Stored(k) /\ k <= ticked /\ k <= clock + MaxGap
      <4>1. CASE same
        <5>1. n <= ticked
          BY <1>1, <3>2, <4>1, Zenon DEF Spoken, Senders
        <5>2. n <= clock + MaxGap
          BY <1>1, <3>1, <5>1, ClockAssumption
        <5> QED BY <1>1, <2>2, <4>1, <5>1, <5>2, Zenon
      <4>2. CASE ~same
        <5>1. PICK k \in Start..MaxClock : sess.ka = Stored(k) /\ k <= ticked /\ k <= told + MaxGap
          BY <3>2, Zenon DEF Spoken
        <5>2. k <= clock + MaxGap
          BY <3>1, <5>1, ClockAssumption
        <5> QED BY <2>2, <4>2, <5>1, <5>2, Zenon
      <4> QED BY <4>1, <4>2, Zenon
    <3>3. ASSUME TimerActive(sess), ordered, sess.hold > 0, NEW c \in Nat
          PROVE  ticked - clock < Keep(sess) + Gaps(1 + c)
      <4>1. 1 + c \in Nat
        OBVIOUS
      <4>2. Gaps(1 + c) \in Nat
        BY <4>1, GapsAdd, Zenon
      <4>3. Keep(sess) \in Nat /\ Keep(sess) > 0
        BY <3>3, KeepPositive, Zenon
      <4> QED BY <3>1, <4>2, <4>3
    <3>4. /\ Cardinality(Senders') \in Nat /\ Cardinality(Tickers) \in Nat
      BY <2>3, CountTickers, Zenon DEF Senders
    <3>5. ASSUME TimerActive(sess), ordered, sess.hold > 0, sess.init, NEW u \in Senders'
          PROVE  tick'[u].now <= ticked
      <4>1. u \in Senders /\ tick'[u] = tick[u]
        BY <1>4, <2>3, <3>5, Zenon DEF Senders
      <4> QED BY <3>5, <4>1, Zenon DEF Spoken
    <3>6. SUFFICES ASSUME TimerActive(sess), ordered, sess.hold > 0
                   PROVE  /\ ~sess'.init => ticked' <= told'
                          /\ sess'.init =>
                               /\ \E k \in Start..MaxClock :
                                    sess'.ka = Stored(k) /\ k <= ticked' /\ k <= told' + MaxGap
                               /\ \A u \in Senders' : tick'[u].now <= ticked'
                               /\ IF sess'.st = "OPEN_CONFIRM"
                                  THEN ticked' - told' < Keep(sess') + Gaps(1 + Cardinality(Senders'))
                                  ELSE \/ Senders' # {}
                                       \/ ticked' - told' < Keep(sess') + Gaps(1 + Cardinality(Tickers))
      BY <2>1, <2>2, <2>4, Zenon DEF Spoken, TimerActive, Keep
    <3> QED BY <2>1, <2>2, <2>5, <3>1, <3>2, <3>3, <3>4, <3>5, <3>6, Zenon
  <2>8. CASE ~(ok /\ (same \/ grown))
    <3>1. ~same /\ told' = told /\ sess' = sess /\ Senders' = Senders
      <4>1. ~same
        BY <1>7, <2>8, Zenon
      <4> QED BY <2>1, <2>3, <2>6, <2>8, <4>1, Zenon
    <3>2. \A u \in Senders : tick'[u].now = tick[u].now
      BY <1>4, <2>6, <3>1, Zenon DEF Senders
    <3>3. ASSUME TimerActive(sess), ordered, sess.hold > 0, sess.init
          PROVE  \A u \in Senders : tick'[u].now <= ticked
      BY <3>2, <3>3, Zenon DEF Spoken
    <3>4. sess' = sess /\ told' = told /\ ticked' = ticked /\ ordered' = ordered
      BY <2>1, <3>1, Zenon
    <3>5. Keep(sess)' = Keep(sess)
      BY <3>4, Zenon DEF Keep
    <3>6. SUFFICES ASSUME TimerActive(sess), ordered, sess.hold > 0, sess.init
             PROVE  /\ \E k \in Start..MaxClock : sess.ka = Stored(k) /\ k <= ticked /\ k <= told + MaxGap
                    /\ \A u \in Senders : tick'[u].now <= ticked
                    /\ IF sess.st = "OPEN_CONFIRM"
                       THEN ticked - told < Keep(sess) + Gaps(1 + Cardinality(Senders))
                       ELSE Senders # {} \/ ticked - told < Keep(sess) + Gaps(1 + Cardinality(Tickers))
      BY <2>4, <3>1, <3>4, <3>5, Zenon DEF Spoken, TimerActive
    <3> QED BY <3>3, <3>6, Zenon DEF Spoken
  <2> QED BY <2>7, <2>8, Zenon
<1> QED BY <1>6, <1>7, Zenon

\* A peer that is served by a host that ticks often enough gets our KEEPALIVEs in time
\* (libbgp_fsm_tick, fsm_effective_keepalive_time), whatever the host's sends take and
\* however they interleave, as long as the ticks themselves are not overtaken.
THEOREM PeerIsTold ==
  ASSUME TicksOften
  PROVE  Spec => []SpeaksInTime
<1>0. IsFiniteSet(Tickers) /\ Cardinality(Tickers) \in Nat
  BY CountTickers, Zenon DEF TicksOften
<1>1. Init => SendersOK /\ Spoken
  BY DEF Init, SendersOK, Spoken, TimerActive, Idle
<1>2. TInv /\ SendersOK /\ Spoken /\ [Next]_vars => SendersOK' /\ Spoken'
  <2> SUFFICES ASSUME TInv, SendersOK, Spoken, [Next]_vars PROVE SendersOK' /\ Spoken'
    BY Zenon
  <2>1. CASE \E h \in PeerHolds : Open(h)
    BY <2>1, OpenSpoken, Zenon
  <2>2. CASE \E to \in {"OPEN_CONFIRM", "ESTABLISHED"} : Message(to)
    BY <1>0, <2>2, MessageSpoken, Zenon
  <2>3. CASE Down
    <3>1. sess \in Session /\ sess' = Teardown(sess) /\ tick' = tick
      BY <2>3, Zenon DEF TInv, TypeOK, Down
    <3> QED BY <3>1, EndSpoken, Zenon
  <2>4. CASE \E t \in Tickers : ReadClock(t)
    <3>1. PICK t \in Tickers : ReadClock(t)
      BY <2>4, Zenon
    <3>2. /\ tick' = [tick EXCEPT ![t] = [Idle EXCEPT !.pc = "read", !.now = clock]]
          /\ tick[t].pc = "idle" /\ UNCHANGED <<sess, told, ticked, ordered>>
      BY <3>1, Zenon DEF ReadClock
    <3>3. \A u \in Tickers : /\ tick'[u].pc = "send" <=> tick[u].pc = "send"
                             /\ tick[u].pc = "send" => tick'[u] = tick[u]
      BY <3>2, Zenon DEF TInv, TypeOK, Idle
    <3> QED BY <3>2, <3>3, QuietSpoken, Zenon
  <2>5. CASE \E t \in Tickers : FirstTick(t)
    BY <1>0, <2>5, FirstTickSpoken, Zenon
  <2>6. CASE \E t \in Tickers : LaterTick(t)
    BY <1>0, <2>6, LaterTickSpoken
  <2>7. CASE \E t \in Tickers, ok \in BOOLEAN : TickSent(t, ok)
    BY <1>0, <2>7, TickSentSpoken, Zenon
  <2>8. CASE Pass
    BY <2>8, QuietSpoken, Zenon DEF Pass
  <2>9. CASE UNCHANGED vars
    BY <2>9, QuietSpoken, Zenon DEF vars
  <2> QED BY <2>1, <2>2, <2>3, <2>4, <2>5, <2>6, <2>7, <2>8, <2>9, Zenon DEF Next
<1>3. TInv /\ SendersOK /\ Spoken => SpeaksInTime
  <2> SUFFICES ASSUME TInv, SendersOK, Spoken, TimerActive(sess), sess.hold > 0, ordered, ~Sending
               PROVE  clock - told < Ms(sess.hold)
    BY Zenon DEF SpeaksInTime
  <2>1. /\ Keep(sess) \in Nat /\ Unit <= Keep(sess) /\ Keep(sess) > 0
        /\ 3 * Keep(sess) <= Ms(sess.hold) /\ Ms(sess.hold) \in Nat
    BY KeepPositive, Zenon
  <2>2. /\ clock - ticked <= MaxGap /\ clock \in Int /\ told \in Int /\ ticked \in Int
        /\ MaxGap \in Nat /\ Unit \in Nat
    BY ClockAssumption DEF TInv, InTime, TypeOK
  <2> DEFINE c == Cardinality(Tickers)
  <2>3. /\ Gaps(c + 1) = Gaps(1 + c) /\ Gaps(1) <= Gaps(c + 1) /\ Gaps(0) = 0 /\ Gaps(0 + 1) = Gaps(1)
        /\ Gaps(c + 2) = Gaps(c + 1) + MaxGap /\ Gaps(1) = Gaps(0) + MaxGap
        /\ Gaps(c + 1) \in Nat
    <3>1. c + 1 \in Nat /\ (c + 1) + 1 = c + 2 /\ 1 <= c + 1 /\ 1 + c = c + 1
      BY <1>0
    <3>2. Gaps(0) = 0
      BY <2>2 DEF Gaps
    <3> QED BY <3>1, <3>2, GapsAdd
  <2>4. Gaps(c + 2) <= 2 * Unit
    BY Zenon DEF TicksOften, Gaps
  <2>5. CASE ~sess.init
    <3>1. ticked <= told
      BY <2>5, Zenon DEF Spoken
    <3> QED BY <2>1, <2>2, <2>3, <2>4, <3>1
  <2>6. CASE sess.init
    <3>1. Senders = {}
      BY Zenon DEF Sending, Senders
    <3>2. 1 + Cardinality(Senders) = 1
      BY <3>1, FS_EmptySet
    <3>3. ticked - told < Keep(sess) + Gaps(1) \/ ticked - told < Keep(sess) + Gaps(1 + c)
      BY <2>6, <3>1, <3>2, Zenon DEF Spoken
    <3> HIDE DEF c
    <3> QED BY <2>1, <2>2, <2>3, <2>4, <3>3
  <2>7. sess.init \in BOOLEAN
    BY Zenon DEF TInv, TypeOK, Session
  <2> QED BY <2>5, <2>6, <2>7, Zenon
<1> QED BY <1>1, <1>2, <1>3, TimersInvariant, PTL DEF Spec
=============================================================================
