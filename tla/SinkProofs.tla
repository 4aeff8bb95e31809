----------------------------- MODULE SinkProofs -----------------------------
(***************************************************************************)
(* For every header length, frame sizes, chunking and growth of the two    *)
(* containers: the accesses of the sink stay inside its memory, its window *)
(* is exactly the bytes fed last, and the packets are the good frames of   *)
(* the stream.  The first two together are inductive; the packets need an  *)
(* invariant on top of them.                                               *)
(***************************************************************************)
EXTENDS Sink, TLAPS

\* The three independent parts of TypeOK.
BytesOK ==
  /\ buf_off \in Nat /\ buf_len \in Nat /\ buf_cap \in Nat
  /\ buf_off + buf_len <= buf_cap
  /\ DOMAIN buf = 0 .. buf_cap - 1

RingOK ==
  /\ packet_head \in Nat /\ packet_count \in Nat /\ packet_cap \in Nat
  /\ packet_count <= packet_cap
  /\ packet_head < packet_cap \/ packet_head = 0
  /\ DOMAIN packets = 0 .. packet_cap - 1

RestOK ==
  /\ pc \in {"idle", "process"}
  /\ err \in {"OK", "NOMEM", "BAD_LEN", "PARSE"}
  /\ stream \in Streams /\ fed \in Nat /\ fed <= Len(Wire(stream))

\* TypeOK is its three parts.
LEMMA TypeParts == TypeOK <=> BytesOK /\ RingOK /\ RestOK
BY DEF TypeOK, BytesOK, RingOK, RestOK

\* A remainder the ring takes is one of its slots.
LEMMA SlotInRing ==
    ASSUME NEW a \in Nat, NEW n \in Nat \ {0}
    PROVE  a % n \in Nat /\ a % n < n
OBVIOUS

-----------------------------------------------------------------------------
(* sink_reserve_buf and sink_compact_buf. *)

\* A capacity sink_reserve_buf settles on holds the window and the chunk at the
\* offset it leaves, and never shrinks the memory.
LEMMA ReserveFits ==
    ASSUME BytesOK, NEW n \in Nat, NEW cap \in ReservedCaps(n)
    PROVE  /\ cap \in Nat /\ buf_cap <= cap
           /\ ReservedOff(n) \in Nat
           /\ ReservedOff(n) + buf_len + n <= cap
<1>1. ReservedOff(n) \in Nat
  BY DEF BytesOK, ReservedOff
<1>2. CASE ~Grows(n)
  BY <1>1, <1>2 DEF BytesOK, ReservedCaps, Grows
<1>3. CASE Grows(n)
  <2>. DEFINE first == IF buf_cap = 0 THEN HeaderLen ELSE 2 * buf_cap
              required == ReservedOff(n) + buf_len + n
  <2>1. PICK k \in 0 .. required : cap = first * 2 ^ k /\ cap >= required
    BY <1>3 DEF ReservedCaps
  <2>2. first \in Nat /\ required \in Nat /\ required > buf_cap
    BY <1>1, <1>3, SinkAssumption DEF BytesOK, Grows
  <2>3. 2 ^ k \in Int
    BY <2>1, <2>2
  <2>4. cap \in Int /\ cap >= required
    BY <2>1, <2>2, <2>3
  <2>. QED
    BY <1>1, <2>2, <2>4 DEF BytesOK
<1>. QED
  BY <1>2, <1>3

\* Compaction moves the window and keeps its bytes.
LEMMA PackedWindow ==
    ASSUME BytesOK, NEW n \in Nat
    PROVE  /\ DOMAIN Packed(n) = 0 .. buf_cap - 1
           /\ ReservedOff(n) \in Nat /\ ReservedOff(n) + buf_len <= buf_cap
           /\ \A i \in 0 .. buf_len - 1 : Packed(n)[ReservedOff(n) + i] = buf[buf_off + i]
<1>1. CASE Compacts(n)
  <2>1. DOMAIN Compacted = 0 .. buf_cap - 1
    BY DEF BytesOK, Compacted
  <2>2. ASSUME NEW i \in 0 .. buf_len - 1 PROVE Compacted[0 + i] = buf[buf_off + i]
    BY DEF BytesOK, Compacted
  <2>. QED
    BY <1>1, <2>1, <2>2 DEF BytesOK, Packed, ReservedOff
<1>2. CASE ~Compacts(n)
  BY <1>2 DEF BytesOK, Packed, ReservedOff
<1>. QED
  BY <1>1, <1>2

\* Dropping a prefix keeps the window inside the memory and its remaining bytes.
LEMMA DropKeeps ==
    ASSUME BytesOK, RestOK, WindowExact, NEW n \in Nat, DropPrefix(n), fed' = fed, stream' = stream
    PROVE  BytesOK' /\ WindowExact'
<1>1. CASE n >= buf_len
  BY <1>1 DEF BytesOK, RestOK, WindowExact, DropPrefix
<1>2. CASE ~(n >= buf_len)
  <2>1. /\ buf_off' = buf_off + n /\ buf_len' = buf_len - n
        /\ buf' = buf /\ buf_cap' = buf_cap
    BY <1>2 DEF DropPrefix
  <2>2. BytesOK'
    BY <1>2, <2>1 DEF BytesOK
  <2>3. ASSUME NEW i \in 0 .. buf_len' - 1
        PROVE  buf'[buf_off' + i] = Wire(stream')[fed' - buf_len' + i + 1]
    <3>1. n + i \in 0 .. buf_len - 1
      BY <1>2, <2>1 DEF BytesOK
    <3>2. buf[buf_off + (n + i)] = Wire(stream)[fed - buf_len + (n + i) + 1]
      BY <3>1 DEF WindowExact
    <3>3. buf_off + (n + i) = buf_off' + i /\ fed - buf_len + (n + i) + 1 = fed' - buf_len' + i + 1
      BY <1>2, <2>1 DEF BytesOK, RestOK
    <3>. QED
      BY <2>1, <3>2, <3>3
  <2>. QED
    BY <1>2, <2>1, <2>2, <2>3 DEF WindowExact, BytesOK, RestOK
<1>. QED
  BY <1>1, <1>2

-----------------------------------------------------------------------------
(* sink_reserve_packets. *)

\* Growing the ring leaves a free slot, and the ring's bounds hold with it.
LEMMA RingGrown ==
    ASSUME RingOK
    PROVE  /\ GrownCap \in Nat /\ packet_count + 1 <= GrownCap
           /\ GrownHead \in Nat /\ GrownHead < GrownCap
           /\ DOMAIN GrownSlots = 0 .. GrownCap - 1
<1>1. CASE RingGrows
  <2>1. GrownCap \in Nat /\ packet_count + 1 <= GrownCap
    BY <1>1, SinkAssumption DEF RingOK, RingGrows, GrownCap
  <2>2. GrownHead = 0
    BY <1>1 DEF GrownHead
  <2>3. DOMAIN GrownSlots = 0 .. GrownCap - 1
    BY <1>1 DEF GrownSlots
  <2>. QED
    BY <2>1, <2>2, <2>3 DEF RingOK
<1>2. CASE ~RingGrows
  BY <1>2 DEF RingOK, RingGrows, GrownCap, GrownHead, GrownSlots
<1>. QED
  BY <1>1, <1>2

\* With or without a packet put into it, the grown ring is within its bounds.
LEMMA RingStep ==
    ASSUME RingOK, GrowRing,
           \/ packets' = GrownSlots /\ packet_count' = packet_count
           \/ /\ \E k : packets' = [GrownSlots EXCEPT ![(GrownHead + packet_count) % GrownCap] = k]
              /\ packet_count' = packet_count + 1
    PROVE  RingOK'
<1>1. DOMAIN packets' = DOMAIN GrownSlots
  OBVIOUS
<1>. QED
  BY <1>1, RingGrown DEF RingOK, GrowRing

-----------------------------------------------------------------------------
(* The operations. *)

\* The chunk is appended behind the window and inside the memory.
LEMMA FeedKeeps ==
    ASSUME BytesOK, RestOK, WindowExact, NEW n \in 1 .. MaxFeed, Feed(n)
    PROVE  BytesOK' /\ WindowExact' /\ RestOK'
<1>. DEFINE w == Wire(stream)
            off == ReservedOff(n)
            end == off + buf_len
<1>0. n \in Nat
  BY SinkAssumption
<1>1. PICK cap \in ReservedCaps(n) :
        /\ buf' = [a \in 0 .. cap - 1 |->
                     IF a \in end .. end + n - 1 THEN w[fed + 1 + (a - end)]
                     ELSE IF a < buf_cap THEN Packed(n)[a] ELSE Nothing]
        /\ buf_cap' = cap
  BY DEF Feed
<1>2. cap \in Nat /\ buf_cap <= cap /\ off \in Nat /\ end + n <= cap /\ end <= buf_cap
  BY <1>0, ReserveFits, PackedWindow
<1>8. \A i \in 0 .. buf_len - 1 : Packed(n)[off + i] = buf[buf_off + i]
  BY <1>0, PackedWindow
<1>3. /\ buf_off' = off /\ buf_len' = buf_len + n /\ fed' = fed + n /\ stream' = stream
      /\ fed + n <= Len(w) /\ pc' = "process" /\ err' = err
  BY DEF Feed
<1>. HIDE DEF w, off
<1>4. BytesOK'
  <2>1. DOMAIN buf' = 0 .. cap - 1
    BY <1>1
  <2>. QED
    BY <1>0, <1>1, <1>2, <1>3, <2>1 DEF BytesOK
<1>5. ASSUME NEW i \in 0 .. buf_len' - 1
      PROVE  buf'[buf_off' + i] = w[fed' - buf_len' + i + 1]
  <2>0. buf_len \in Nat /\ buf_len' = buf_len + n
    BY <1>3 DEF BytesOK
  <2>1. i \in Nat /\ i < buf_len + n /\ off + i \in 0 .. cap - 1
    BY <1>0, <1>2, <2>0
  <2>2. CASE i < buf_len
    <3>1. off + i \notin end .. end + n - 1 /\ off + i < buf_cap
      BY <1>0, <1>2, <2>1, <2>2, SMTT(30) DEF BytesOK
    <3>2. buf'[off + i] = Packed(n)[off + i]
      BY <1>1, <2>1, <3>1
    <3>3. buf'[off + i] = buf[buf_off + i]
      BY <1>8, <2>1, <2>2, <3>2 DEF BytesOK
    <3>4. buf[buf_off + i] = w[fed - buf_len + i + 1]
      BY <2>1, <2>2 DEF WindowExact, BytesOK, w
    <3>5. fed - buf_len + i + 1 = fed' - buf_len' + i + 1
      BY <1>0, <1>3, <2>1 DEF BytesOK, RestOK
    <3>. QED
      BY <1>3, <3>3, <3>4, <3>5
  <2>3. CASE ~(i < buf_len)
    <3>1. off + i \in end .. end + n - 1
      BY <1>0, <1>2, <2>1, <2>3 DEF BytesOK
    <3>2. buf'[off + i] = w[fed + 1 + ((off + i) - end)]
      BY <1>1, <2>1, <3>1
    <3>3. fed + 1 + ((off + i) - end) = fed' - buf_len' + i + 1
      BY <1>0, <1>2, <1>3, <2>1 DEF BytesOK, RestOK
    <3>. QED
      BY <1>3, <3>2, <3>3
  <2>. QED
    BY <2>2, <2>3
<1>6. buf_len' <= fed'
  BY <1>0, <1>3 DEF WindowExact, BytesOK, RestOK
<1>7. RestOK'
  BY <1>0, <1>3 DEF RestOK, w
<1>. QED
  BY <1>3, <1>4, <1>5, <1>6, <1>7 DEF WindowExact, w

\* A compaction whose realloc then fails keeps the window.
LEMMA FeedNoMemoryKeeps ==
    ASSUME BytesOK, RestOK, WindowExact, NEW n \in 1 .. MaxFeed, FeedNoMemory(n)
    PROVE  BytesOK' /\ WindowExact' /\ RestOK'
<1>0. n \in Nat
  BY SinkAssumption
<1>1. /\ buf' = Packed(n) /\ buf_off' = ReservedOff(n) /\ buf_len' = buf_len
      /\ buf_cap' = buf_cap /\ fed' = fed /\ stream' = stream /\ pc' = pc /\ err' = "NOMEM"
  BY DEF FeedNoMemory, history
<1>2. BytesOK'
  BY <1>0, <1>1, PackedWindow DEF BytesOK
<1>3. WindowExact'
  BY <1>0, <1>1, PackedWindow, Zenon DEF WindowExact
<1>. QED
  BY <1>1, <1>2, <1>3 DEF RestOK

\* The stream of this peer is one of the assumed ones.
LEMMA StreamIs ==
    ASSUME RestOK
    PROVE  /\ Len(stream) \in Nat /\ DOMAIN stream = 1 .. Len(stream)
           /\ \A k \in DOMAIN stream : SoundFrame(stream[k])
           /\ LaidOut(stream, Wire(stream))
<1>1. stream \in Streams
  BY DEF RestOK
<1>. QED
  BY <1>1, SinkAssumption, Zenon

\* A header that is read is the next byte of the stream and belongs to one of its frames.
LEMMA FrameRead ==
    ASSUME BytesOK, RestOK, WindowExact, HasHeader
    PROVE  /\ fed - buf_len + 1 \in 1 .. Len(Wire(stream))
           /\ FirstByte = Wire(stream)[fed - buf_len + 1]
           /\ FirstByte.frame \in DOMAIN stream
           /\ SoundFrame(Frame) /\ Frame.declared \in Nat
<1>1. buf_len > 0
  BY SinkAssumption DEF HasHeader, BytesOK
<1>2. buf[buf_off + 0] = Wire(stream)[fed - buf_len + 0 + 1]
  BY <1>1 DEF WindowExact, BytesOK
<1>3. fed - buf_len + 1 \in 1 .. Len(Wire(stream)) /\ fed - buf_len + 0 + 1 = fed - buf_len + 1 /\ buf_off + 0 = buf_off
  <2>1. Len(Wire(stream)) \in Nat
    BY StreamIs, Zenon DEF LaidOut
  <2>. QED
    BY <1>1, <2>1 DEF WindowExact, BytesOK, RestOK
<1>4. FirstByte = Wire(stream)[fed - buf_len + 1]
  BY <1>2, <1>3, Zenon DEF FirstByte
<1>5. FirstByte.frame \in DOMAIN stream
  BY <1>3, <1>4, StreamIs, Zenon DEF LaidOut
<1>6. SoundFrame(Frame)
  BY <1>5, StreamIs, Zenon DEF Frame
<1>. QED
  BY <1>3, <1>4, <1>5, <1>6, Zenon DEF SoundFrame

\* The bytes, the ring and the window survive a turn of the loop.
LEMMA ProcessKeeps ==
    ASSUME BytesOK, RingOK, RestOK, WindowExact, Process
    PROVE  BytesOK' /\ RingOK' /\ RestOK' /\ WindowExact'
<1>1. CASE FeedReturns \/ PacketNoMemory
  <2>1. UNCHANGED <<bytes, ring, history>> /\ pc' = "idle" /\ err' \in {"OK", "NOMEM"}
    BY <1>1 DEF FeedReturns, PacketNoMemory
  <2>2. /\ buf' = buf /\ buf_off' = buf_off /\ buf_len' = buf_len /\ buf_cap' = buf_cap
        /\ packets' = packets /\ packet_head' = packet_head /\ packet_count' = packet_count
        /\ packet_cap' = packet_cap /\ stream' = stream /\ fed' = fed
    BY <2>1 DEF bytes, ring, history
  <2>. QED
    BY <2>1, <2>2, Zenon DEF BytesOK, RingOK, RestOK, WindowExact
<1>2. CASE HeaderError
  <2>1. /\ buf' = buf /\ buf_off' = 0 /\ buf_len' = 0 /\ buf_cap' = buf_cap
        /\ packets' = packets /\ packet_head' = packet_head /\ packet_count' = packet_count
        /\ packet_cap' = packet_cap /\ stream' = stream /\ fed' = fed
        /\ pc' = "idle" /\ err' = "BAD_LEN"
    BY <1>2 DEF HeaderError, ring
  <2>. QED
    BY <2>1 DEF BytesOK, RingOK, RestOK, WindowExact
<1>3. CASE ParseError \/ ParseNoMemory
  <2>1. /\ HasHeader /\ DropPrefix(Frame.declared) /\ GrowRing /\ packets' = GrownSlots
        /\ packet_count' = packet_count /\ stream' = stream /\ fed' = fed
        /\ pc' = "idle" /\ err' \in {"PARSE", "NOMEM"}
    BY <1>3 DEF ParseError, ParseNoMemory, HasFrame, history
  <2>2. BytesOK' /\ WindowExact'
    BY <2>1, FrameRead, DropKeeps
  <2>3. RingOK'
    BY <2>1, RingStep
  <2>. QED
    BY <2>1, <2>2, <2>3 DEF RestOK
<1>4. CASE Accept
  <2>1. /\ HasHeader /\ DropPrefix(Frame.declared) /\ GrowRing
        /\ packet_count' = packet_count + 1 /\ stream' = stream /\ fed' = fed
        /\ pc' = pc /\ err' = err
        /\ \E k : packets' = [GrownSlots EXCEPT ![(GrownHead + packet_count) % GrownCap] = k]
    BY <1>4, Zenon DEF Accept, HasFrame, history
  <2>2. BytesOK' /\ WindowExact'
    BY <2>1, FrameRead, DropKeeps
  <2>3. RingOK'
    BY <2>1, RingStep, Zenon
  <2>. QED
    BY <2>1, <2>2, <2>3 DEF RestOK
<1>. QED
  BY <1>1, <1>2, <1>3, <1>4, SMTT(30) DEF Process

\* Taking a packet out leaves the head on a slot.
LEMMA PopKeeps ==
    ASSUME BytesOK, RingOK, RestOK, WindowExact, Pop
    PROVE  BytesOK' /\ RingOK' /\ RestOK' /\ WindowExact'
<1>1. /\ buf' = buf /\ buf_off' = buf_off /\ buf_len' = buf_len /\ buf_cap' = buf_cap
      /\ packet_cap' = packet_cap /\ stream' = stream /\ fed' = fed /\ pc' = pc /\ err' = err
      /\ packet_count > 0 /\ packet_count' = packet_count - 1
      /\ packet_head' \in {0, (packet_head + 1) % packet_cap}
      /\ packets' = [packets EXCEPT ![packet_head] = EmptySlot]
  BY DEF Pop, bytes
<1>2. packet_head' \in Nat /\ packet_head' < packet_cap
  <2>1. packet_cap \in Nat \ {0} /\ packet_head + 1 \in Nat
    BY <1>1 DEF RingOK
  <2>2. (packet_head + 1) % packet_cap \in Nat /\ (packet_head + 1) % packet_cap < packet_cap
    BY <2>1, SlotInRing
  <2>. QED
    BY <1>1, <2>1, <2>2
<1>3. DOMAIN packets' = DOMAIN packets
  BY <1>1
<1>4. RingOK'
  BY <1>1, <1>2, <1>3 DEF RingOK
<1>. QED
  BY <1>1, <1>4 DEF BytesOK, RestOK, WindowExact

\* Clearing empties both containers and keeps their memory.
LEMMA ClearKeeps ==
    ASSUME BytesOK, RingOK, RestOK, WindowExact, Clear
    PROVE  BytesOK' /\ RingOK' /\ RestOK' /\ WindowExact'
<1>1. /\ buf' = buf /\ buf_off' = 0 /\ buf_len' = 0 /\ buf_cap' = buf_cap
      /\ packet_cap' = packet_cap /\ packet_head' = 0 /\ packet_count' = 0
      /\ packets' = [i \in DOMAIN packets |-> EmptySlot]
      /\ stream' = stream /\ pc' = pc /\ err' = err
      /\ fed' \in fed .. Len(Wire(stream))
  BY DEF Clear, NextFrames
<1>2. fed' \in Nat /\ fed' <= Len(Wire(stream'))
  BY <1>1, SinkAssumption DEF RestOK
<1>. QED
  BY <1>1, <1>2 DEF BytesOK, RingOK, RestOK, WindowExact

-----------------------------------------------------------------------------
(* The invariant. *)

SinkInv == TypeOK /\ WindowExact

\* A sink starts without memory.
LEMMA SinkInit == Init => SinkInv
BY SinkAssumption DEF Init, SinkInv, TypeOK, WindowExact

\* Every operation keeps the invariant.
LEMMA SinkNext ==
    ASSUME SinkInv, [Next]_vars
    PROVE  SinkInv'
<1>0. BytesOK /\ RingOK /\ RestOK /\ WindowExact
  BY TypeParts, SMTT(30) DEF SinkInv
<1>. SUFFICES BytesOK' /\ RingOK' /\ RestOK' /\ WindowExact'
  BY TypeParts, Zenon DEF SinkInv, TypeOK, BytesOK, RingOK, RestOK
<1>1. ASSUME NEW n \in 1 .. MaxFeed, Feed(n) \/ FeedNoMemory(n)
      PROVE  BytesOK' /\ RingOK' /\ RestOK' /\ WindowExact'
  <2>1. RingOK'
    BY <1>0, <1>1 DEF Feed, FeedNoMemory, ring, RingOK
  <2>. QED
    BY <1>0, <1>1, <2>1, FeedKeeps, FeedNoMemoryKeeps
<1>2. CASE UNCHANGED vars
  BY <1>0, <1>2 DEF vars, BytesOK, RingOK, RestOK, WindowExact
<1>. QED
  BY <1>0, <1>1, <1>2, ProcessKeeps, PopKeeps, ClearKeeps DEF Next

\* The window of sink_process_locked and the ring of libbgp_sink_pop never leave
\* the memory allocated for them, for every chunking and every capacity.
THEOREM SinkBounds == Spec => []TypeOK
<1>1. SinkInv => TypeOK
  BY DEF SinkInv
<1>. QED
  BY <1>1, SinkInit, SinkNext, PTL DEF Spec

\* What sink_process_locked reads as the next frame is what the peer sent next:
\* compaction, growth and dropped prefixes never lose or repeat a byte.
THEOREM SinkWindow == Spec => []WindowExact
<1>1. SinkInv => WindowExact
  BY DEF SinkInv
<1>. QED
  BY <1>1, SinkInit, SinkNext, PTL DEF Spec

-----------------------------------------------------------------------------
(* A feed leaves less than a frame. *)

\* A feed that succeeds leaves less than a frame, and nothing else adds bytes.
LEMMA WaitsNext ==
    ASSUME SinkInv, NoFrameWaits, [Next]_vars
    PROVE  NoFrameWaits'
<1>1. CASE FeedReturns
  <2>1. /\ bytes' = bytes /\ stream' = stream
        /\ buf_len < HeaderLen \/ (HasHeader /\ HeaderValid /\ buf_len < Frame.declared)
    BY <1>1, Zenon DEF FeedReturns, history
  <2>2. FirstByte' = FirstByte /\ Frame' = Frame /\ buf_len' = buf_len
    BY <2>1, Zenon DEF bytes, FirstByte, Frame
  <2>3. buf_len \in Nat /\ HeaderLen \in Nat /\ MaxLen \in Nat /\ HeaderLen <= MaxLen
    BY SinkAssumption DEF SinkInv, TypeOK
  <2>4. CASE buf_len < HeaderLen
    BY <2>2, <2>3, <2>4 DEF NoFrameWaits
  <2>5. CASE HasHeader /\ HeaderValid /\ buf_len < Frame.declared
    <3>1. Frame.declared \in Nat
      BY <2>5, FrameRead, TypeParts, Zenon DEF SinkInv
    <3>2. FirstByte.pos = 1 /\ Frame.declared <= MaxLen
      BY <2>5, Zenon DEF HeaderValid, MarkerValid, LengthValid
    <3>3. buf_len < MaxLen
      BY <2>3, <2>5, <3>1, <3>2
    <3>. QED
      BY <2>2, <2>5, <3>2, <3>3, Zenon DEF NoFrameWaits
  <2>. QED
    BY <2>1, <2>4, <2>5, Zenon
<1>2. CASE Clear
  BY <1>2, SinkAssumption DEF Clear, NoFrameWaits
<1>3. CASE Pop \/ UNCHANGED vars
  BY <1>3, Zenon DEF Pop, vars, bytes, NoFrameWaits, FirstByte, Frame
<1>4. ASSUME NEW n \in 1 .. MaxFeed, Feed(n) \/ FeedNoMemory(n)
      PROVE  NoFrameWaits'
  BY <1>4 DEF Feed, FeedNoMemory, NoFrameWaits
<1>5. CASE HeaderError \/ PacketNoMemory \/ ParseError \/ ParseNoMemory
  BY <1>5 DEF HeaderError, PacketNoMemory, ParseError, ParseNoMemory, NoFrameWaits
<1>6. CASE Accept
  BY <1>6 DEF Accept, NoFrameWaits, HasFrame, HasHeader
<1>. QED
  BY <1>1, <1>2, <1>3, <1>4, <1>5, <1>6, Zenon DEF Next, Process

\* After a feed that returned success less than one frame is left in the buffer
\* (sink_process_locked), so what a peer can make the sink hold is bounded.
THEOREM NothingWaits == Spec => []NoFrameWaits
<1>1. Init => NoFrameWaits
  BY SinkAssumption DEF Init, NoFrameWaits
<1>. QED
  BY <1>1, SinkInit, SinkNext, WaitsNext, PTL DEF Spec

-----------------------------------------------------------------------------
(* The frames of the stream. *)

\* The bytes of a frame whose first is byte n + 1 are the size bytes from there on.
LEMMA FrameSpan ==
    ASSUME NEW s, NEW w, LaidOut(s, w), NEW n \in Nat, n + 1 \in 1 .. Len(w),
           w[n + 1].pos = 1, s[w[n + 1].frame].size \in Nat
    PROVE  \A i \in 1 .. Len(w) :
             w[i].frame = w[n + 1].frame <=> i \in n + 1 .. n + s[w[n + 1].frame].size
<1>. DEFINE k == w[n + 1].frame
            d == s[k].size
<1>1. Len(w) \in Nat
  BY Zenon DEF LaidOut
<1>2. k \in DOMAIN s
  BY Zenon DEF LaidOut
<1>3. ASSUME NEW i \in 1 .. Len(w), w[i].frame = k PROVE i \in n + 1 .. n + d
  <2>1. i - w[i].pos = (n + 1) - w[n + 1].pos /\ w[i].pos \in 1 .. d
    BY <1>3, Zenon DEF LaidOut
  <2>2. PICK p \in 1 .. d : i - p = (n + 1) - 1
    BY <2>1, Zenon
  <2>. QED
    BY <2>2
<1>4. ASSUME NEW i \in 1 .. Len(w), i \in n + 1 .. n + d PROVE w[i].frame = k
  <2>1. i - n \in 1 .. d
    BY <1>4
  <2>2. PICK j \in 1 .. Len(w) : w[j].frame = k /\ w[j].pos = i - n
    BY <1>2, <2>1, ZenonT(60) DEF LaidOut
  <2>3. j - w[j].pos = (n + 1) - w[n + 1].pos
    BY <2>2, Zenon DEF LaidOut
  <2>4. j - (i - n) = (n + 1) - 1
    BY <2>2, <2>3, Zenon
  <2>5. j = i
    BY <2>4
  <2>. QED
    BY <2>2, <2>5, Zenon
<1>. QED
  BY <1>3, <1>4, Zenon

\* Frame k is one the sink makes a packet of.
Parses(k) == k \in DOMAIN stream /\ stream[k].kind = "good" /\ stream[k].declared \in HeaderLen .. MaxLen

\* The frame that has been read whole, k, joins the frames that lie behind the window
\* and comes after all of them.
LEMMA FrameBehind ==
    ASSUME BytesOK, RestOK, WindowExact, HasFrame, NEW a \in Nat, a <= fed - buf_len
    PROVE  LET n == fed - buf_len
               k == FirstByte.frame
           IN  /\ GoodFrames(a, n + Frame.declared) =
                    IF Frame.kind = "good" THEN GoodFrames(a, n) \cup {k} ELSE GoodFrames(a, n)
               /\ k \notin GoodFrames(a, n) /\ k \in Nat \ {0}
               /\ \A g \in GoodFrames(a, n) : g < k
<1>. DEFINE n == fed - buf_len
            k == FirstByte.frame
            w == Wire(stream)
            d == Frame.declared
            Within(g, b) == \A i \in 1 .. Len(w) : w[i].frame = g => i \in a + 1 .. b
<1>1. /\ n + 1 \in 1 .. Len(w) /\ FirstByte = w[n + 1] /\ k \in DOMAIN stream /\ SoundFrame(Frame) /\ d \in Nat
  BY FrameRead, Zenon DEF HasFrame
<1>2. w[n + 1].pos = 1 /\ Frame.kind # "marker" /\ d >= HeaderLen /\ d <= MaxLen
  BY <1>1, Zenon DEF HasFrame, HeaderValid, MarkerValid, LengthValid
<1>3. n \in Nat /\ Len(w) \in Nat
  <2>1. Len(w) \in Nat
    BY StreamIs, Zenon DEF LaidOut
  <2>. QED
    BY <2>1 DEF BytesOK, RestOK, WindowExact
<1>4. d \in HeaderLen .. MaxLen /\ d > 0
  BY <1>1, <1>2, SinkAssumption
<1>5. Frame = stream[k] /\ stream[k].size = d
  <2>1. Frame.size = Frame.declared
    BY <1>1, <1>2, <1>4, Zenon DEF SoundFrame
  <2>2. Frame = stream[k]
    BY Zenon DEF Frame
  <2>. QED
    BY <2>1, <2>2, Zenon
<1>6. \A i \in 1 .. Len(w) : w[i].frame = k <=> i \in n + 1 .. n + d
  <2>1. w[n + 1].frame = k /\ stream[w[n + 1].frame].size = d /\ LaidOut(stream, w)
    BY <1>1, <1>5, StreamIs, Zenon
  <2>. HIDE DEF n, k, w, d
  <2>2. stream[w[n + 1].frame].size \in Nat
    BY <1>1, <2>1, Zenon
  <2>3. \A i \in 1 .. Len(w) :
          w[i].frame = w[n + 1].frame <=> i \in n + 1 .. n + stream[w[n + 1].frame].size
    BY <1>1, <1>2, <1>3, <2>1, <2>2, FrameSpan, Zenon
  <2>. QED
    BY <2>1, <2>3, Zenon
<1>7. w[n + 1].frame = k
  BY <1>1, Zenon
<1>8. Within(k, n + d) /\ ~Within(k, n)
  <2>1. Within(k, n + d)
    <3>1. \A i \in n + 1 .. n + d : i \in a + 1 .. n + d
      BY <1>1, <1>3
    <3>. QED
      BY <1>6, <3>1, Zenon
  <2>2. n + 1 \notin a + 1 .. n
    BY <1>3
  <2>. QED
    BY <1>1, <1>7, <2>1, <2>2, Zenon
<1>9. ASSUME NEW g \in DOMAIN stream, g # k PROVE Within(g, n + d) <=> Within(g, n)
  <2>1. \A i \in 1 .. Len(w) : i \in a + 1 .. n + d <=> i \in a + 1 .. n \/ i \in n + 1 .. n + d
    BY <1>1, <1>3
  <2>. QED
    BY <1>6, <1>9, <2>1, Zenon
<1>10. GoodFrames(a, n) = {g \in DOMAIN stream : Parses(g) /\ Within(g, n)}
  BY Zenon DEF GoodFrames, Parses
<1>11. GoodFrames(a, n + d) = {g \in DOMAIN stream : Parses(g) /\ Within(g, n + d)}
  BY Zenon DEF GoodFrames, Parses
<1>12. Parses(k) <=> Frame.kind = "good"
  BY <1>1, <1>4, <1>5, Zenon DEF Parses
<1>13. k \in Nat \ {0} /\ \A g \in DOMAIN stream : g \in Nat /\ g > 0
  BY <1>1, StreamIs
<1>. HIDE DEF n, k, w, d, Within
<1>14. GoodFrames(a, n + d) = IF Frame.kind = "good" THEN GoodFrames(a, n) \cup {k} ELSE GoodFrames(a, n)
  <2>1. ASSUME NEW g PROVE g \in GoodFrames(a, n + d) <=> g \in GoodFrames(a, n) \/ (g = k /\ Frame.kind = "good")
    <3>1. CASE g = k
      BY <1>1, <1>8, <1>10, <1>11, <1>12, <3>1, Zenon
    <3>2. CASE g # k
      BY <1>9, <1>10, <1>11, <3>2, Zenon
    <3>. QED
      BY <3>1, <3>2, Zenon
  <2>. QED
    BY <2>1, Zenon
<1>15. ASSUME NEW g \in GoodFrames(a, n) PROVE g < k
  <2>1. g \in DOMAIN stream /\ Parses(g) /\ Within(g, n) /\ g # k
    BY <1>8, <1>10, Zenon
  <2>2. stream[g].size \in Nat \ {0}
    <3>1. SoundFrame(stream[g])
      BY <2>1, StreamIs, Zenon
    <3>2. stream[g].declared = stream[g].size
      BY <2>1, <3>1 DEF SoundFrame, Parses
    <3>. QED
      BY <2>1, <3>1, <3>2, SinkAssumption DEF SoundFrame, Parses
  <2>3. 1 \in 1 .. stream[g].size
    BY <2>2
  <2>4. PICK i \in 1 .. Len(w) : w[i].frame = g
    BY <2>1, <2>3, StreamIs, Zenon DEF LaidOut, w
  <2>5. i \in a + 1 .. n
    BY <2>1, <2>4, Zenon DEF Within
  <2>6. i < n + 1
    BY <1>3, <2>5
  <2>7. w[i].frame <= w[n + 1].frame
    BY <1>1, <2>6, StreamIs, Zenon DEF LaidOut, w
  <2>8. g <= k
    BY <1>7, <2>4, <2>7, Zenon
  <2>. QED
    BY <1>13, <2>1, <2>8
<1>. QED
  BY <1>8, <1>10, <1>13, <1>14, <1>15, Zenon DEF n, k, d

-----------------------------------------------------------------------------
(* The packets, popped and queued. *)

\* The slot i places behind the head.
Behind(head, i, cap) == IF head + i < cap THEN head + i ELSE head + i - cap

\* The remainder of a number below twice the divisor.
LEMMA Wraps ==
    ASSUME NEW cap \in Nat, NEW head \in 0 .. cap - 1, NEW i \in 0 .. cap
    PROVE  (head + i) % cap = Behind(head, i, cap)
<1>1. CASE head + i < cap
  <2>1. (head + i) % cap = head + i
    BY <1>1
  <2>. QED
    BY <1>1, <2>1 DEF Behind
<1>2. CASE ~(head + i < cap)
  <2>1. (head + i) % cap = head + i - cap
    BY <1>2
  <2>. QED
    BY <1>2, <2>1 DEF Behind
<1>. QED
  BY <1>1, <1>2

\* Two places of the ring are two slots.
LEMMA BehindDiffer ==
    ASSUME NEW cap \in Nat, NEW head \in 0 .. cap - 1, NEW i \in 0 .. cap - 1, NEW j \in 0 .. cap - 1
    PROVE  /\ Behind(head, i, cap) \in 0 .. cap - 1
           /\ Behind(head, i, cap) = Behind(head, j, cap) => i = j
BY DEF Behind

Queued(i) == packets[Behind(packet_head, i, packet_cap)]

\* The slots in use are those of the queue.
Holds ==
  \A a \in 0 .. packet_cap - 1 :
    packets[a] # EmptySlot <=> \E i \in 0 .. packet_count - 1 : a = Behind(packet_head, i, packet_cap)

\* The slots the code computes are these.
LEMMA SlotIs ==
    ASSUME RingOK, NEW i \in 0 .. packet_count - 1
    PROVE  /\ Slot(i) = Behind(packet_head, i, packet_cap)
           /\ packet_head \in 0 .. packet_cap - 1 /\ i \in 0 .. packet_cap - 1
           /\ Slot(i) \in 0 .. packet_cap - 1
<1>1. packet_cap \in Nat /\ packet_head \in 0 .. packet_cap - 1 /\ i \in 0 .. packet_cap - 1 /\ i \in 0 .. packet_cap
  BY DEF RingOK
<1>2. Slot(i) = Behind(packet_head, i, packet_cap)
  BY <1>1, Wraps, Zenon DEF Slot
<1>. QED
  BY <1>1, <1>2, BehindDiffer, Zenon

\* Growing the ring puts the queue at its start, in order and nothing else.
LEMMA GrownHolds ==
    ASSUME RingOK, Holds
    PROVE  /\ \A i \in 0 .. packet_count - 1 : GrownSlots[Behind(GrownHead, i, GrownCap)] = Queued(i)
           /\ \A a \in 0 .. GrownCap - 1 :
                GrownSlots[a] # EmptySlot <=> \E i \in 0 .. packet_count - 1 : a = Behind(GrownHead, i, GrownCap)
<1>1. CASE ~RingGrows
  <2>1. GrownHead = packet_head /\ GrownCap = packet_cap /\ GrownSlots = packets
    BY <1>1, Zenon DEF GrownHead, GrownCap, GrownSlots
  <2>. QED
    BY <2>1, Zenon DEF Holds, Queued
<1>2. CASE RingGrows
  <2>1. /\ GrownHead = 0 /\ GrownCap \in Nat /\ packet_count \in Nat /\ packet_count < GrownCap
    BY <1>2, RingGrown DEF RingOK, GrownHead
  <2>2. ASSUME NEW i \in 0 .. packet_count - 1
        PROVE  /\ GrownSlots[i] = Queued(i) /\ Queued(i) # EmptySlot
               /\ i \in 0 .. GrownCap - 1 /\ Behind(GrownHead, i, GrownCap) = i
    <3>1. i \in 0 .. GrownCap - 1 /\ i < packet_count
      BY <2>1
    <3>2. Slot(i) = Behind(packet_head, i, packet_cap) /\ Slot(i) \in 0 .. packet_cap - 1
      BY SlotIs, Zenon
    <3>3. GrownSlots[i] = packets[Slot(i)]
      BY <1>2, <3>1, Zenon DEF GrownSlots
    <3>4. Queued(i) # EmptySlot
      BY <3>2, Zenon DEF Holds, Queued
    <3>5. Behind(GrownHead, i, GrownCap) = i
      BY <2>1, <3>1 DEF Behind
    <3>. QED
      BY <3>1, <3>2, <3>3, <3>4, <3>5, Zenon DEF Queued
  <2>3. ASSUME NEW a \in 0 .. GrownCap - 1, a \notin 0 .. packet_count - 1 PROVE GrownSlots[a] = EmptySlot
    <3>1. ~(a < packet_count)
      BY <2>1, <2>3
    <3>. QED
      BY <1>2, <3>1, Zenon DEF GrownSlots
  <2>. QED
    BY <2>2, <2>3, Zenon
<1>. QED
  BY <1>1, <1>2, Zenon

\* Making room keeps the queue.
LEMMA GrowKeeps ==
    ASSUME RingOK, Holds, GrowRing, packets' = GrownSlots, packet_count' = packet_count
    PROVE  Holds' /\ \A i \in 0 .. packet_count - 1 : Queued(i)' = Queued(i)
<1>1. packet_head' = GrownHead /\ packet_cap' = GrownCap
  BY Zenon DEF GrowRing
<1>. QED
  BY <1>1, GrownHolds, Zenon DEF Holds, Queued

\* A packet goes behind the others, into a slot that was free.
LEMMA PushKeeps ==
    ASSUME RingOK, Holds, GrowRing, NEW k, k # EmptySlot,
           packets' = [GrownSlots EXCEPT ![(GrownHead + packet_count) % GrownCap] = k],
           packet_count' = packet_count + 1
    PROVE  /\ Holds' /\ packets'[Behind(packet_head', packet_count, packet_cap')] = k
           /\ \A i \in 0 .. packet_count - 1 : Queued(i)' = Queued(i)
<1>. DEFINE e == Behind(GrownHead, packet_count, GrownCap)
<1>1. packet_head' = GrownHead /\ packet_cap' = GrownCap
  BY Zenon DEF GrowRing
<1>2. /\ GrownCap \in Nat /\ GrownHead \in 0 .. GrownCap - 1 /\ packet_count \in 0 .. GrownCap - 1
      /\ packet_count \in 0 .. GrownCap /\ packet_count \in Nat /\ DOMAIN GrownSlots = 0 .. GrownCap - 1
  BY RingGrown DEF RingOK
<1>3. (GrownHead + packet_count) % GrownCap = e
  BY <1>2, Wraps, Zenon
<1>4. e \in 0 .. GrownCap - 1
  BY <1>2, BehindDiffer, Zenon
<1>5. ASSUME NEW i \in 0 .. packet_count - 1
      PROVE  Behind(GrownHead, i, GrownCap) \in 0 .. GrownCap - 1 /\ Behind(GrownHead, i, GrownCap) # e
  <2>1. i \in 0 .. GrownCap - 1 /\ i # packet_count
    BY <1>2
  <2>. QED
    BY <1>2, <2>1, BehindDiffer, Zenon
<1>6. \A i : i \in 0 .. packet_count' - 1 <=> i \in 0 .. packet_count - 1 \/ i = packet_count
  BY <1>2
<1>. HIDE DEF e
<1>7. packets'[e] = k /\ \A a \in 0 .. GrownCap - 1 : a # e => packets'[a] = GrownSlots[a]
  BY <1>2, <1>3, <1>4, Zenon
<1>8. \A i \in 0 .. packet_count - 1 : Queued(i)' = Queued(i)
  BY <1>1, <1>5, <1>7, GrownHolds, Zenon DEF Queued
<1>9. packets'[Behind(packet_head', packet_count, packet_cap')] = k
  BY <1>1, <1>7, Zenon DEF e
<1>10. ASSUME NEW a \in 0 .. GrownCap - 1
       PROVE  packets'[a] # EmptySlot <=> \E i \in 0 .. packet_count' - 1 : a = Behind(GrownHead, i, GrownCap)
  <2>1. CASE a = e
    BY <1>6, <1>7, <2>1, Zenon DEF e
  <2>2. CASE a # e
    BY <1>6, <1>7, <2>2, GrownHolds, Zenon DEF e
  <2>. QED
    BY <2>1, <2>2, Zenon
<1>11. Holds'
  BY <1>1, <1>10, Zenon DEF Holds
<1>. QED
  BY <1>8, <1>9, <1>11, Zenon

\* Taking the head out leaves the others in their places, one nearer to the head.
LEMMA PopShifts ==
    ASSUME RingOK, Holds, Pop
    PROVE  /\ Holds' /\ packets[packet_head] = Queued(0)
           /\ \A i \in 0 .. packet_count - 2 : Queued(i)' = Queued(i + 1)
<1>1. /\ packet_count > 0 /\ packet_count' = packet_count - 1 /\ packet_cap' = packet_cap
      /\ packets' = [packets EXCEPT ![packet_head] = EmptySlot]
      /\ packet_head' = IF packet_count = 1 THEN 0 ELSE (packet_head + 1) % packet_cap
  BY Zenon DEF Pop
<1>2. /\ packet_cap \in Nat /\ packet_count \in Nat /\ packet_count <= packet_cap /\ DOMAIN packets = 0 .. packet_cap - 1
      /\ packet_head \in 0 .. packet_cap - 1 /\ 0 \in 0 .. packet_cap - 1 /\ 1 \in 0 .. packet_cap
  BY <1>1 DEF RingOK
<1>3. Behind(packet_head, 0, packet_cap) = packet_head
  BY <1>2 DEF Behind
<1>4. \A a \in 0 .. packet_cap - 1 : packets'[a] = IF a = packet_head THEN EmptySlot ELSE packets[a]
  BY <1>1, <1>2, Zenon
<1>5. ASSUME NEW i \in 0 .. packet_count - 2
      PROVE  /\ Behind(packet_head', i, packet_cap) = Behind(packet_head, i + 1, packet_cap)
             /\ Behind(packet_head, i + 1, packet_cap) \in 0 .. packet_cap - 1
             /\ Behind(packet_head, i + 1, packet_cap) # packet_head
  <2>1. (packet_head + 1) % packet_cap = Behind(packet_head, 1, packet_cap)
    BY <1>2, Wraps, Zenon
  <2>2. packet_head' = Behind(packet_head, 1, packet_cap)
    BY <1>1, <1>2, <2>1
  <2>. QED
    BY <1>2, <2>2 DEF Behind
<1>6. ASSUME NEW a \in 0 .. packet_cap - 1
      PROVE  packets'[a] # EmptySlot <=> \E i \in 0 .. packet_count' - 1 : a = Behind(packet_head', i, packet_cap)
  <2>1. ASSUME NEW i \in 0 .. packet_count' - 1, a = Behind(packet_head', i, packet_cap) PROVE packets'[a] # EmptySlot
    <3>1. i \in 0 .. packet_count - 2 /\ i + 1 \in 0 .. packet_count - 1
      BY <1>1, <1>2
    <3>2. a = Behind(packet_head, i + 1, packet_cap) /\ a # packet_head
      BY <1>5, <2>1, <3>1, Zenon
    <3>. QED
      BY <1>4, <3>1, <3>2, Zenon DEF Holds
  <2>2. ASSUME packets'[a] # EmptySlot PROVE \E i \in 0 .. packet_count' - 1 : a = Behind(packet_head', i, packet_cap)
    <3>1. a # packet_head /\ packets[a] # EmptySlot
      BY <1>4, <2>2, Zenon
    <3>2. PICK j \in 0 .. packet_count - 1 : a = Behind(packet_head, j, packet_cap)
      BY <3>1, Zenon DEF Holds
    <3>3. j # 0
      BY <1>3, <3>1, <3>2, Zenon
    <3>4. j - 1 \in 0 .. packet_count' - 1 /\ j - 1 \in 0 .. packet_count - 2 /\ (j - 1) + 1 = j
      BY <1>1, <1>2, <3>3
    <3>5. a = Behind(packet_head', j - 1, packet_cap)
      BY <1>5, <3>2, <3>4, Zenon
    <3>. QED
      BY <3>4, <3>5, Zenon
  <2>. QED
    BY <2>1, <2>2, Zenon
<1>7. Holds'
  BY <1>1, <1>6, ZenonT(60) DEF Holds
<1>8. \A i \in 0 .. packet_count - 2 : Queued(i)' = Queued(i + 1)
  BY <1>1, <1>4, <1>5, Zenon DEF Queued
<1>. QED
  BY <1>3, <1>7, <1>8, Zenon DEF Queued

\* The packets the sink has made, in their order: the popped ones, then the queue.
OutLen == Len(popped) + packet_count
OutAt(i) == IF i <= Len(popped) THEN popped[i] ELSE Queued(i - Len(popped) - 1)
Told == {OutAt(i) : i \in 1 .. OutLen}
Ordered == \A i, j \in 1 .. OutLen : i < j => OutAt(i) < OutAt(j)

SameOut == OutLen' = OutLen /\ \A i \in 1 .. OutLen : OutAt(i)' = OutAt(i)

\* They do not change when the ring grows, ...
LEMMA GrowOut ==
    ASSUME RingOK, popped \in Seq(Nat), popped' = popped, packet_count' = packet_count,
           \A i \in 0 .. packet_count - 1 : Queued(i)' = Queued(i)
    PROVE  SameOut
<1>1. packet_count \in Nat /\ Len(popped) \in Nat
  BY DEF RingOK
<1>2. ASSUME NEW i \in 1 .. OutLen PROVE OutAt(i)' = OutAt(i)
  <2>1. CASE i <= Len(popped)
    BY <2>1, Zenon DEF OutAt
  <2>2. CASE ~(i <= Len(popped))
    <3>1. i - Len(popped) - 1 \in 0 .. packet_count - 1
      BY <1>1, <2>2 DEF OutLen
    <3>2. PICK j : j = i - Len(popped) - 1
      OBVIOUS
    <3>3. Queued(j)' = Queued(j)
      BY <3>1, <3>2, Zenon
    <3>. QED
      BY <2>2, <3>2, <3>3, Zenon DEF OutAt, Queued
  <2>. QED
    BY <2>1, <2>2, Zenon
<1>. QED
  BY <1>2, Zenon DEF SameOut, OutLen

\* ... nor when one is popped, ...
LEMMA PopOut ==
    ASSUME RingOK, Holds, popped \in Seq(Nat), packets[packet_head] \in Nat, Pop
    PROVE  SameOut /\ Holds' /\ popped' \in Seq(Nat)
<1>1. /\ packet_count > 0 /\ packet_count' = packet_count - 1 /\ popped' = Append(popped, packets[packet_head])
  BY Zenon DEF Pop
<1>2. packet_count \in Nat /\ Len(popped) \in Nat
  BY DEF RingOK
<1>3. /\ popped' \in Seq(Nat) /\ Len(popped') = Len(popped) + 1
      /\ popped'[Len(popped) + 1] = packets[packet_head]
      /\ \A i \in 1 .. Len(popped) : popped'[i] = popped[i]
  BY <1>1
<1>4. OutLen' = OutLen
  BY <1>1, <1>2, <1>3 DEF OutLen
<1>5. ASSUME NEW i \in 1 .. OutLen PROVE OutAt(i)' = OutAt(i)
  <2>1. CASE i \in 1 .. Len(popped)
    <3>1. i <= Len(popped) /\ i <= Len(popped')
      BY <1>2, <1>3, <2>1
    <3>. QED
      BY <1>3, <2>1, <3>1, Zenon DEF OutAt
  <2>2. CASE i = Len(popped) + 1
    <3>1. ~(i <= Len(popped)) /\ i <= Len(popped') /\ i - Len(popped) - 1 = 0
      BY <1>2, <1>3, <2>2
    <3>2. OutAt(i) = Queued(0) /\ OutAt(i)' = popped'[i]
      BY <3>1, Zenon DEF OutAt
    <3>. QED
      BY <1>3, <2>2, <3>2, PopShifts, Zenon
  <2>3. CASE i > Len(popped) + 1
    <3>1. /\ ~(i <= Len(popped)) /\ ~(i <= Len(popped'))
          /\ i - Len(popped') - 1 \in 0 .. packet_count - 2 /\ (i - Len(popped') - 1) + 1 = i - Len(popped) - 1
      BY <1>2, <1>3, <2>3 DEF OutLen
    <3>2. PICK j : j = i - Len(popped') - 1
      OBVIOUS
    <3>3. Queued(j)' = Queued(j + 1) /\ j + 1 = i - Len(popped) - 1
      BY <3>1, <3>2, PopShifts, Zenon
    <3>4. OutAt(i) = Queued(j + 1)
      BY <3>1, <3>3, Zenon DEF OutAt
    <3>5. OutAt(i)' = Queued(j)'
      BY <3>1, <3>2, Zenon DEF OutAt, Queued
    <3>. QED
      BY <3>3, <3>4, <3>5, Zenon
  <2>. QED
    BY <1>2, <2>1, <2>2, <2>3 DEF OutLen
<1>. QED
  BY <1>3, <1>4, <1>5, PopShifts, Zenon DEF SameOut

\* ... and a new one comes last.
LEMMA PushOut ==
    ASSUME RingOK, popped \in Seq(Nat), popped' = popped, NEW k, packet_count' = packet_count + 1,
           packets'[Behind(packet_head', packet_count, packet_cap')] = k,
           \A i \in 0 .. packet_count - 1 : Queued(i)' = Queued(i)
    PROVE  /\ OutLen' = OutLen + 1 /\ OutLen \in Nat
           /\ \A i \in 1 .. OutLen' : OutAt(i)' = IF i = OutLen + 1 THEN k ELSE OutAt(i)
<1>1. packet_count \in Nat /\ Len(popped) \in Nat
  BY DEF RingOK
<1>2. OutLen' = OutLen + 1 /\ OutLen \in Nat
  BY <1>1 DEF OutLen
<1>3. ASSUME NEW i \in 1 .. OutLen, i # OutLen + 1 PROVE OutAt(i)' = OutAt(i)
  <2>1. CASE i <= Len(popped)
    BY <2>1, Zenon DEF OutAt
  <2>2. CASE ~(i <= Len(popped))
    <3>1. i - Len(popped) - 1 \in 0 .. packet_count - 1
      BY <1>1, <2>2 DEF OutLen
    <3>2. PICK j : j = i - Len(popped) - 1
      OBVIOUS
    <3>3. Queued(j)' = Queued(j)
      BY <3>1, <3>2, Zenon
    <3>. QED
      BY <2>2, <3>2, <3>3, Zenon DEF OutAt, Queued
  <2>. QED
    BY <2>1, <2>2, Zenon
<1>4. ASSUME NEW i, i = OutLen + 1 PROVE OutAt(i)' = k
  <2>1. ~(i <= Len(popped)) /\ i - Len(popped) - 1 = packet_count
    BY <1>1, <1>4 DEF OutLen
  <2>. QED
    BY <2>1, Zenon DEF OutAt, Queued
<1>5. \A i \in 1 .. OutLen' : i \in 1 .. OutLen \/ i = OutLen + 1
  BY <1>2
<1>. QED
  BY <1>2, <1>3, <1>4, <1>5, Zenon

\* The good frames behind the window.
Good == GoodFrames(start, fed - buf_len)

PacketInv ==
  /\ popped \in Seq(Nat)
  /\ start \in Nat /\ start <= fed - buf_len
  /\ Holds /\ Ordered
  /\ shed \subseteq Good
  /\ IF resync THEN Told \subseteq Good \ shed ELSE Told = Good \ shed

\* Good, as the bytes behind the window are n in the next state.
LEMMA GoodAfter ==
    ASSUME stream' = stream, NEW a, NEW n, start' = a, fed' - buf_len' = n
    PROVE  Good' = GoodFrames(a, n)
BY Zenon DEF Good, GoodFrames

\* Nothing is good without bytes, and more bytes hold no fewer frames.
LEMMA GoodGrows ==
    ASSUME RestOK, NEW a \in Nat
    PROVE  /\ GoodFrames(a, a) = {}
           /\ \A b, c \in Int : b <= c => GoodFrames(a, b) \subseteq GoodFrames(a, c)
<1>1. ASSUME NEW k \in GoodFrames(a, a) PROVE FALSE
  <2>1. k \in DOMAIN stream /\ Parses(k) /\ \A i \in 1 .. Len(Wire(stream)) : Wire(stream)[i].frame = k => i \in a + 1 .. a
    BY Zenon DEF GoodFrames, Parses
  <2>2. stream[k].size \in Nat \ {0}
    <3>1. SoundFrame(stream[k])
      BY <2>1, StreamIs, Zenon
    <3>. QED
      BY <2>1, <3>1, SinkAssumption DEF SoundFrame, Parses
  <2>3. 1 \in 1 .. stream[k].size
    BY <2>2
  <2>4. PICK i \in 1 .. Len(Wire(stream)) : Wire(stream)[i].frame = k
    BY <2>1, <2>3, StreamIs, Zenon DEF LaidOut
  <2>5. i \in a + 1 .. a
    BY <2>1, <2>4, Zenon
  <2>. QED
    BY <2>5
<1>2. ASSUME NEW b \in Int, NEW c \in Int, b <= c PROVE GoodFrames(a, b) \subseteq GoodFrames(a, c)
  <2>1. \A i : i \in a + 1 .. b => i \in a + 1 .. c
    BY <1>2
  <2>. QED
    BY <2>1, Zenon DEF GoodFrames
<1>. QED
  BY <1>1, <1>2, Zenon

\* The same packets are the same set in the same order.
LEMMA SameTold ==
    ASSUME SameOut
    PROVE  Told' = Told /\ (Ordered => Ordered')
<1>1. OutLen' = OutLen /\ \A i \in 1 .. OutLen : OutAt(i)' = OutAt(i)
  BY Zenon DEF SameOut
<1>2. Told' = {OutAt(i)' : i \in 1 .. OutLen'}
  BY Zenon DEF Told
<1>3. \A x : x \in Told' <=> x \in Told
  BY <1>1, <1>2, Zenon DEF Told
<1>4. Ordered => Ordered'
  BY <1>1, Zenon DEF Ordered
<1>. QED
  BY <1>3, <1>4, Zenon

\* A step that touches neither the packets nor the place of the window in the stream.
LEMMA AsideKeeps ==
    ASSUME RingOK, PacketInv, UNCHANGED <<packets, packet_head, packet_count, packet_cap>>,
           UNCHANGED <<stream, start, popped, resync, shed>>, fed' - buf_len' = fed - buf_len
    PROVE  PacketInv'
<1>1. Holds' = Holds /\ \A i : Queued(i)' = Queued(i)
  BY Zenon DEF Holds, Queued
<1>2. SameOut
  BY <1>1, GrowOut, Zenon DEF PacketInv
<1>3. Good' = Good
  BY GoodAfter, Zenon DEF Good
<1>4. Told' = Told /\ Ordered'
  BY <1>2, SameTold, Zenon DEF PacketInv
<1>. QED
  BY <1>1, <1>3, <1>4, Zenon DEF PacketInv

\* A frame dropped from the window.
LEMMA DropsFrame ==
    ASSUME BytesOK, RestOK, WindowExact, HasFrame, DropPrefix(Frame.declared), fed' = fed
    PROVE  fed' - buf_len' = (fed - buf_len) + Frame.declared
<1>1. Frame.declared \in Nat
  BY FrameRead, Zenon DEF HasFrame
<1>2. buf_len >= Frame.declared
  BY Zenon DEF HasFrame
<1>3. buf_len' = IF Frame.declared >= buf_len THEN 0 ELSE buf_len - Frame.declared
  BY Zenon DEF DropPrefix
<1>. QED
  BY <1>1, <1>2, <1>3 DEF BytesOK, RestOK

\* A frame without a packet: one that does not parse, or one there was no memory for.
LEMMA ParseErrorPackets ==
    ASSUME BytesOK, RingOK, RestOK, WindowExact, PacketInv, ParseError \/ ParseNoMemory
    PROVE  PacketInv'
<1>. DEFINE k == FirstByte.frame
            n == fed - buf_len
            d == Frame.declared
<1>1. /\ HasFrame /\ DropPrefix(d) /\ GrowRing /\ packets' = GrownSlots
      /\ packet_count' = packet_count /\ stream' = stream /\ fed' = fed /\ start' = start
      /\ popped' = popped /\ resync' = resync
      /\ IF Frame.kind = "good" THEN shed' = shed \cup {k} ELSE shed' = shed
  BY Zenon DEF ParseError, ParseNoMemory, history
<1>2. d \in Nat /\ n \in Int
  BY <1>1, FrameRead DEF HasFrame, BytesOK, RestOK
<1>3. fed' - buf_len' = n + d
  BY <1>1, DropsFrame, Zenon
<1>4. /\ Good' = IF Frame.kind = "good" THEN Good \cup {k} ELSE Good
      /\ k \notin Good
  <2>1. Good' = GoodFrames(start, n + d) /\ start \in Nat /\ start <= n
    BY <1>1, <1>3, GoodAfter, Zenon DEF PacketInv
  <2>. QED
    BY <1>1, <2>1, FrameBehind, Zenon DEF Good
<1>5. Holds' /\ SameOut
  BY <1>1, GrowKeeps, GrowOut, Zenon DEF PacketInv
<1>6. Told' = Told /\ Ordered'
  BY <1>5, SameTold, Zenon DEF PacketInv
<1>7. start' \in Nat /\ start' <= fed' - buf_len'
  BY <1>1, <1>2, <1>3 DEF PacketInv
<1>. HIDE DEF k
<1>8. CASE Frame.kind = "good"
  <2>1. Good' = Good \cup {k} /\ shed' = shed \cup {k}
    BY <1>1, <1>4, <1>8, Zenon
  <2>2. Good' \ shed' = Good \ shed
    BY <1>4, <2>1, Zenon
  <2>. QED
    BY <1>1, <1>5, <1>6, <1>7, <2>1, <2>2, Zenon DEF PacketInv
<1>9. CASE Frame.kind # "good"
  BY <1>1, <1>4, <1>5, <1>6, <1>7, <1>9, Zenon DEF PacketInv
<1>. QED
  BY <1>8, <1>9, Zenon

\* A frame that parses becomes the last packet, and no frame before it came later.
LEMMA AcceptPackets ==
    ASSUME BytesOK, RingOK, RestOK, WindowExact, PacketInv, Accept
    PROVE  PacketInv'
<1>. DEFINE k == FirstByte.frame
            n == fed - buf_len
            d == Frame.declared
<1>1. /\ HasFrame /\ Frame.kind = "good" /\ DropPrefix(d) /\ GrowRing
      /\ packets' = [GrownSlots EXCEPT ![(GrownHead + packet_count) % GrownCap] = k]
      /\ packet_count' = packet_count + 1 /\ stream' = stream /\ fed' = fed /\ start' = start
      /\ popped' = popped /\ resync' = resync /\ shed' = shed
  BY Zenon DEF Accept, history
<1>2. d \in Nat /\ n \in Int
  BY <1>1, FrameRead DEF HasFrame, BytesOK, RestOK
<1>3. fed' - buf_len' = n + d
  BY <1>1, DropsFrame, Zenon
<1>4. Good' = Good \cup {k} /\ k \notin Good /\ k \in Nat \ {0} /\ \A g \in Good : g < k
  <2>1. Good' = GoodFrames(start, n + d) /\ start \in Nat /\ start <= n
    BY <1>1, <1>3, GoodAfter, Zenon DEF PacketInv
  <2>. QED
    BY <1>1, <2>1, FrameBehind, Zenon DEF Good
<1>. HIDE DEF k
<1>5. k # EmptySlot /\ k \in Nat
  BY <1>4 DEF EmptySlot
<1>6. /\ Holds' /\ packets'[Behind(packet_head', packet_count, packet_cap')] = k
      /\ \A i \in 0 .. packet_count - 1 : Queued(i)' = Queued(i)
  BY <1>1, <1>5, PushKeeps, Zenon DEF PacketInv
<1>7. /\ OutLen' = OutLen + 1 /\ OutLen \in Nat
      /\ \A i \in 1 .. OutLen' : OutAt(i)' = IF i = OutLen + 1 THEN k ELSE OutAt(i)
  BY <1>1, <1>6, PushOut, Zenon DEF PacketInv
<1>8. \A i : i \in 1 .. OutLen' <=> i \in 1 .. OutLen \/ i = OutLen + 1
  BY <1>7
<1>9. OutLen + 1 \notin 1 .. OutLen /\ \A i \in 1 .. OutLen : ~(OutLen + 1 < i)
  BY <1>7
<1>10. Told \subseteq Good
  BY Zenon DEF PacketInv
<1>11. \A i \in 1 .. OutLen : OutAt(i) \in Told
  BY Zenon DEF Told
<1>12. \A x : x \in Told' <=> x \in Told \/ x = k
  <2>1. Told' = {OutAt(i)' : i \in 1 .. OutLen'}
    BY Zenon DEF Told
  <2>. QED
    BY <1>7, <1>8, <1>9, <2>1, Zenon DEF Told
<1>13. Ordered'
  <2>1. ASSUME NEW i \in 1 .. OutLen', NEW j \in 1 .. OutLen', i < j PROVE OutAt(i)' < OutAt(j)'
    <3>1. i \in 1 .. OutLen /\ i # OutLen + 1
      BY <1>7, <2>1
    <3>2. OutAt(i)' = OutAt(i)
      BY <1>7, <2>1, <3>1, Zenon
    <3>3. CASE j = OutLen + 1
      <4>1. OutAt(j)' = k /\ OutAt(i) \in Good
        BY <1>7, <1>10, <1>11, <2>1, <3>1, <3>3, Zenon
      <4>. QED
        BY <1>4, <3>2, <4>1, Zenon
    <3>4. CASE j # OutLen + 1
      <4>1. OutAt(j)' = OutAt(j) /\ j \in 1 .. OutLen
        BY <1>7, <1>8, <2>1, <3>4, Zenon
      <4>. QED
        BY <2>1, <3>1, <3>2, <4>1, Zenon DEF PacketInv, Ordered
    <3>. QED
      BY <3>3, <3>4, Zenon
  <2>. QED
    BY <2>1, Zenon DEF Ordered
<1>14. start' \in Nat /\ start' <= fed' - buf_len'
  BY <1>1, <1>2, <1>3 DEF PacketInv
<1>15. shed' \subseteq Good' /\ k \notin shed'
  BY <1>1, <1>4, Zenon DEF PacketInv
<1>16. CASE resync
  <2>1. Told' \subseteq Good' \ shed'
    BY <1>1, <1>4, <1>12, <1>15, <1>16, Zenon DEF PacketInv
  <2>. QED
    BY <1>1, <1>6, <1>13, <1>14, <1>15, <1>16, <2>1, Zenon DEF PacketInv
<1>17. CASE ~resync
  <2>1. \A x : x \in Told <=> x \in Good /\ x \notin shed
    BY <1>17, Zenon DEF PacketInv
  <2>2. \A x : x \in Told' <=> x \in Good' \ shed'
    BY <1>1, <1>4, <1>12, <1>15, <2>1, Zenon
  <2>3. Told' = Good' \ shed'
    BY <2>2, Zenon
  <2>. QED
    BY <1>1, <1>6, <1>13, <1>14, <1>15, <1>17, <2>3, Zenon DEF PacketInv
<1>. QED
  BY <1>16, <1>17, Zenon

\* A header error drops the window; what had been made of the stream stays.
LEMMA HeaderErrorPackets ==
    ASSUME BytesOK, RingOK, RestOK, WindowExact, PacketInv, HeaderError
    PROVE  PacketInv'
<1>1. /\ packets' = packets /\ packet_head' = packet_head /\ packet_count' = packet_count
      /\ packet_cap' = packet_cap /\ stream' = stream /\ fed' = fed /\ start' = start
      /\ popped' = popped /\ shed' = shed /\ resync' = TRUE /\ buf_len' = 0
  BY Zenon DEF HeaderError, ring
<1>2. fed' - buf_len' = fed /\ fed \in Int /\ fed - buf_len \in Int /\ fed - buf_len <= fed /\ start <= fed
  BY <1>1 DEF BytesOK, RestOK, PacketInv
<1>3. Good \subseteq Good'
  <2>1. Good' = GoodFrames(start, fed) /\ start \in Nat
    BY <1>1, <1>2, GoodAfter, Zenon DEF PacketInv
  <2>. QED
    <3>1. PICK b \in Int : b = fed - buf_len
      BY <1>2, Zenon
    <3>2. GoodFrames(start, b) \subseteq GoodFrames(start, fed)
      BY <1>2, <2>1, <3>1, GoodGrows, Zenon
    <3>. QED
      BY <2>1, <3>1, <3>2, Zenon DEF Good
<1>4. Holds' = Holds /\ \A i : Queued(i)' = Queued(i)
  BY <1>1, Zenon DEF Holds, Queued
<1>5. Told' = Told /\ Ordered'
  BY <1>1, <1>4, GrowOut, SameTold, Zenon DEF PacketInv
<1>6. Told \subseteq Good \ shed
  BY Zenon DEF PacketInv
<1>. QED
  BY <1>1, <1>2, <1>3, <1>4, <1>5, <1>6, Zenon DEF PacketInv

\* A packet that is popped was the oldest in the queue.
LEMMA PopPackets ==
    ASSUME RingOK, RestOK, PacketInv, Pop
    PROVE  PacketInv'
<1>1. /\ stream' = stream /\ fed' = fed /\ start' = start /\ buf_len' = buf_len
      /\ shed' = shed /\ resync' = resync /\ packet_count > 0
  BY Zenon DEF Pop, bytes
<1>2. PICK m \in 1 .. OutLen : ~(m <= Len(popped)) /\ m - Len(popped) - 1 = 0
  <2>1. Len(popped) + 1 \in 1 .. OutLen /\ ~(Len(popped) + 1 <= Len(popped)) /\ (Len(popped) + 1) - Len(popped) - 1 = 0
    BY <1>1 DEF PacketInv, RingOK, OutLen
  <2>. QED
    BY <2>1, Zenon
<1>3. packets[packet_head] = OutAt(m)
  <2>1. OutAt(m) = Queued(0)
    BY <1>2, Zenon DEF OutAt
  <2>. QED
    BY <2>1, PopShifts, Zenon DEF PacketInv
<1>4. packets[packet_head] \in DOMAIN stream
  <2>1. OutAt(m) \in Told /\ Told \subseteq Good
    BY <1>2, Zenon DEF Told, PacketInv
  <2>. QED
    BY <1>3, <2>1, Zenon DEF Good, GoodFrames
<1>5. packets[packet_head] \in Nat
  BY <1>4, StreamIs
<1>6. SameOut /\ Holds' /\ popped' \in Seq(Nat)
  BY <1>5, PopOut, Zenon DEF PacketInv
<1>7. Told' = Told /\ Ordered'
  BY <1>6, SameTold, Zenon DEF PacketInv
<1>8. Good' = Good
  BY <1>1, GoodAfter, Zenon DEF Good
<1>. QED
  BY <1>1, <1>6, <1>7, <1>8, Zenon DEF PacketInv

\* An empty sink has made no packets of no bytes.
LEMMA EmptyPackets ==
    ASSUME RestOK, fed = start, start \in Nat, buf_len = 0, packet_count = 0, packet_head = 0, popped = <<>>, shed = {}, resync = FALSE,
           \A a \in 0 .. packet_cap - 1 : packets[a] = EmptySlot
    PROVE  PacketInv
<1>1. fed - buf_len = start /\ start <= fed - buf_len /\ OutLen = 0 /\ popped \in Seq(Nat)
  BY DEF OutLen
<1>2. \A i : i \notin 1 .. OutLen /\ i \notin 0 .. packet_count - 1
  BY <1>1
<1>3. Good = {} /\ Told = {} /\ Ordered /\ Holds
  <2>1. Good = {}
    <3>1. Good = GoodFrames(start, start)
      BY <1>1, Zenon DEF Good
    <3>. QED
      BY <3>1, GoodGrows, Zenon
  <2>2. Told = {} /\ Ordered
    BY <1>2, Zenon DEF Told, Ordered
  <2>3. Holds
    BY <1>2, Zenon DEF Holds
  <2>. QED
    BY <2>1, <2>2, <2>3, Zenon
<1>. QED
  BY <1>1, <1>3, Zenon DEF PacketInv

\* A cleared sink has made no packets of the next connection.
LEMMA ClearPackets ==
    ASSUME BytesOK, RingOK, RestOK, PacketInv, Clear
    PROVE  PacketInv'
<1>1. /\ stream' = stream /\ buf_len' = 0 /\ packet_count' = 0 /\ packet_cap' = packet_cap
      /\ popped' = <<>> /\ shed' = {} /\ resync' = FALSE /\ start' = fed'
      /\ packets' = [i \in DOMAIN packets |-> EmptySlot]
      /\ fed' \in fed .. Len(Wire(stream))
  BY Zenon DEF Clear, NextFrames
<1>2. fed' \in Nat /\ fed' - buf_len' = fed' /\ start' <= fed' - buf_len' /\ OutLen' = 0 /\ popped' \in Seq(Nat)
  <2>1. fed' \in Nat /\ fed' - 0 = fed' /\ fed' <= fed'
    <3>1. Len(Wire(stream)) \in Nat
      BY StreamIs, Zenon DEF LaidOut
    <3>2. fed \in Nat
      BY Zenon DEF RestOK
    <3>3. PICK m, lo, len : m = fed' /\ lo \in Nat /\ len \in Nat /\ m \in lo .. len
      BY <1>1, <3>1, <3>2, Zenon
    <3>4. m \in Nat
      BY <3>3
    <3>5. m - 0 = m /\ m <= m
      BY <3>4
    <3>. QED
      BY <3>3, <3>4, <3>5, Zenon
  <2>2. OutLen' = 0 /\ popped' \in Seq(Nat)
    BY <1>1 DEF OutLen
  <2>. QED
    BY <1>1, <2>1, <2>2, Zenon
<1>3. \A i : i \notin 1 .. OutLen' /\ i \notin 0 .. packet_count' - 1
  BY <1>1, <1>2
<1>4. Good' = {}
  <2>1. PICK a \in Nat : a = fed'
    BY <1>2, Zenon
  <2>2. Good' = GoodFrames(a, a)
    BY <1>1, <1>2, <2>1, GoodAfter, Zenon
  <2>. QED
    BY <2>2, GoodGrows, Zenon
<1>5. Told' = {} /\ Ordered'
  BY <1>3, Zenon DEF Told, Ordered
<1>6. Holds'
  <2>1. \A a \in 0 .. packet_cap' - 1 : packets'[a] = EmptySlot
    <3>1. DOMAIN packets = 0 .. packet_cap' - 1
      BY <1>1, Zenon DEF RingOK
    <3>. QED
      BY <1>1, <3>1, Zenon
  <2>. QED
    BY <1>3, <2>1, Zenon DEF Holds
<1>. QED
  BY <1>1, <1>2, <1>4, <1>5, <1>6, Zenon DEF PacketInv

\* Every operation keeps the packets.
LEMMA PacketsNext ==
    ASSUME SinkInv, PacketInv, [Next]_vars
    PROVE  PacketInv'
<1>0. BytesOK /\ RingOK /\ RestOK /\ WindowExact
  BY TypeParts, Zenon DEF SinkInv
<1>1. ASSUME NEW n \in 1 .. MaxFeed, Feed(n) PROVE PacketInv'
  <2>1. n \in Nat
    BY SinkAssumption
  <2>2. /\ fed' = fed + n /\ buf_len' = buf_len + n /\ UNCHANGED ring /\ UNCHANGED <<stream, start, popped, resync, shed>>
    BY <1>1, Zenon DEF Feed
  <2>3. fed' - buf_len' = fed - buf_len
    BY <1>0, <2>1, <2>2 DEF BytesOK, RestOK
  <2>. QED
    BY <1>0, <2>2, <2>3, AsideKeeps, Zenon DEF ring
<1>2. ASSUME NEW n \in 1 .. MaxFeed, FeedNoMemory(n) PROVE PacketInv'
  BY <1>0, <1>2, AsideKeeps, Zenon DEF FeedNoMemory, ring, history
<1>3. CASE FeedReturns \/ PacketNoMemory
  BY <1>0, <1>3, AsideKeeps, Zenon DEF FeedReturns, PacketNoMemory, bytes, ring, history
<1>4. CASE UNCHANGED vars
  BY <1>0, <1>4, AsideKeeps, Zenon DEF vars
<1>. QED
  BY <1>0, <1>1, <1>2, <1>3, <1>4, ParseErrorPackets, AcceptPackets, HeaderErrorPackets, PopPackets, ClearPackets,
     Zenon DEF Next, Process

\* The packets in their order, as the two sequences give them.
LEMMA PacketsAre ==
    ASSUME RingOK, RestOK, PacketInv
    PROVE  PacketsExact
<1>. DEFINE out == popped \o Queue
<1>1. packet_count \in Nat /\ packet_cap \in Nat /\ Len(popped) \in Nat /\ popped \in Seq(Nat)
  BY DEF RingOK, PacketInv
<1>2. ASSUME NEW i \in 1 .. packet_count PROVE Queue[i] = Queued(i - 1) /\ i - 1 \in 0 .. packet_count - 1
  <2>1. i - 1 \in 0 .. packet_count - 1
    BY <1>1
  <2>2. Slot(i - 1) = Behind(packet_head, i - 1, packet_cap)
    BY <2>1, SlotIs, Zenon
  <2>. QED
    BY <2>1, <2>2, Zenon DEF Queue, Queued
<1>3. Queue \in Seq(Nat) /\ Len(Queue) = packet_count
  <2>1. ASSUME NEW i \in 1 .. packet_count PROVE Queue[i] \in Nat
    <3>1. /\ Len(popped) + i \in 1 .. OutLen /\ ~(Len(popped) + i <= Len(popped))
          /\ (Len(popped) + i) - Len(popped) - 1 = i - 1
      BY <1>1 DEF OutLen
    <3>2. OutAt(Len(popped) + i) = Queued(i - 1) /\ OutAt(Len(popped) + i) \in Told
      BY <3>1, Zenon DEF OutAt, Told
    <3>3. Queued(i - 1) \in DOMAIN stream
      BY <3>2, Zenon DEF PacketInv, Good, GoodFrames
    <3>. QED
      BY <1>2, <3>3, StreamIs
  <2>2. Queue = [i \in 1 .. packet_count |-> Queue[i]]
    BY Zenon DEF Queue
  <2>. HIDE DEF Queue
  <2>. QED
    BY <1>1, <2>1, <2>2
<1>4. DOMAIN out = 1 .. OutLen
  BY <1>1, <1>3 DEF OutLen
<1>5. ASSUME NEW i \in 1 .. OutLen PROVE out[i] = OutAt(i)
  <2>1. CASE i <= Len(popped)
    BY <1>1, <1>3, <2>1 DEF OutAt
  <2>2. CASE ~(i <= Len(popped))
    <3>1. i - Len(popped) \in 1 .. packet_count
      BY <1>1, <2>2 DEF OutLen
    <3>2. out[i] = Queue[i - Len(popped)]
      BY <1>1, <1>3, <2>2, <3>1 DEF OutLen
    <3>3. Queue[i - Len(popped)] = Queued((i - Len(popped)) - 1)
      BY <1>2, <3>1, Zenon
    <3>. QED
      BY <2>2, <3>2, <3>3, Zenon DEF OutAt
  <2>. QED
    BY <2>1, <2>2, Zenon
<1>6. {i \in DOMAIN packets : packets[i] # EmptySlot} = {Slot(i) : i \in 0 .. packet_count - 1}
  <2>1. DOMAIN packets = 0 .. packet_cap - 1
    BY Zenon DEF RingOK
  <2>2. \A a : a \in {i \in DOMAIN packets : packets[i] # EmptySlot} <=> a \in {Slot(i) : i \in 0 .. packet_count - 1}
    BY <2>1, SlotIs, Zenon DEF PacketInv, Holds
  <2>. QED
    BY <2>2, Zenon
<1>. HIDE DEF out
<1>7. \A i, j \in DOMAIN out : i < j => out[i] < out[j]
  BY <1>4, <1>5, Zenon DEF PacketInv, Ordered
<1>8. \A x : x \in {out[i] : i \in DOMAIN out} <=> x \in Told
  BY <1>4, <1>5, Zenon DEF Told
<1>9. {out[i] : i \in DOMAIN out} = Told
  BY <1>8, Zenon
<1>10. IF resync THEN {out[i] : i \in DOMAIN out} \subseteq GoodFrames(start, fed - buf_len) \ shed
                 ELSE {out[i] : i \in DOMAIN out} = GoodFrames(start, fed - buf_len) \ shed
  BY <1>9, Zenon DEF PacketInv, Good
<1>. QED
  BY <1>6, <1>7, <1>10, Zenon DEF PacketsExact, out

\* The application pops exactly the good frames of the bytes the sink has consumed, in
\* order and once, however libbgp_sink_feed was called and whenever the ring wrapped or
\* grew, and the ring owns exactly the queued packets.
THEOREM PacketsAlwaysExact == Spec => []PacketsExact
<1>1. Init => PacketInv
  <2>. SUFFICES ASSUME Init PROVE PacketInv
    OBVIOUS
  <2>1. RestOK
    BY SinkInit, TypeParts, Zenon DEF SinkInv
  <2>2. /\ fed = start /\ start \in Nat /\ buf_len = 0 /\ packet_count = 0 /\ packet_head = 0
        /\ popped = <<>> /\ shed = {} /\ resync = FALSE /\ \A a \in 0 .. packet_cap - 1 : packets[a] = EmptySlot
    BY DEF Init
  <2>. QED
    BY <2>1, <2>2, EmptyPackets, Zenon
<1>2. SinkInv /\ PacketInv => PacketsExact
  BY PacketsAre, TypeParts, Zenon DEF SinkInv
<1>. QED
  BY <1>1, <1>2, SinkInit, SinkNext, PacketsNext, PTL DEF Spec
=============================================================================
