-------------------------------- MODULE Sink --------------------------------
(***************************************************************************)
(* The receive sink (sink.c): bytes read from a connection are fed to it in *)
(* chunks of any size, it cuts them into frames, parses each frame and      *)
(* queues the packets for the application to pop.                           *)
(*                                                                          *)
(* The two containers are kept as the code keeps them, because the          *)
(* arithmetic on them is what can go wrong: the byte buffer is the          *)
(* allocated memory buf with an offset, a length and a capacity, where      *)
(* bytes outside the window are stale; the packet queue is a ring with a    *)
(* head, a count and a capacity.                                            *)
(*                                                                          *)
(* A byte is abstracted to its place: which frame of the stream it belongs  *)
(* to and at which position.  A frame has its size on the wire, the length  *)
(* its header declares and a kind: "marker" is a frame with a bad marker,   *)
(* "unparsable" one libbgp_packet_parse_as4 rejects.  Sixteen 0xff bytes    *)
(* that do not start a frame are not in the model: a header read at any     *)
(* other place than the start of a frame has a bad marker.                  *)
(*                                                                          *)
(* libbgp_sink_feed holds the sink's lock throughout.  Its loop over the    *)
(* buffered frames is one step per frame here, with pc saying that the lock *)
(* is held; nothing else may step until the feed returns.                   *)
(***************************************************************************)
EXTENDS Integers, Sequences, SequencesExt

CONSTANTS
  HeaderLen,     \* LIBBGP_BGP_HEADER_LEN (19)
  MaxLen,        \* LIBBGP_BGP_MAX_PACKET_LEN (4096)
  FirstRing,     \* the first capacity of the packet ring (4)
  Streams,       \* byte streams a peer may send, each a sequence of frames
  MaxFeed,       \* bound: the largest chunk fed in one call
  AllocFails     \* whether the allocator may fail

\* The bytes of the stream in the order the peer sends them.
Wire(s) ==
  FlattenSeq([k \in DOMAIN s |-> [i \in 1 .. s[k].size |-> [frame |-> k, pos |-> i]]])

\* The bytes w hold the frames of s one behind the other, each whole and in order:
\* what Wire makes of a stream.
LaidOut(s, w) ==
  /\ Len(w) \in Nat
  /\ \A i \in 1 .. Len(w) : w[i].frame \in DOMAIN s /\ w[i].pos \in 1 .. s[w[i].frame].size
  /\ \A i, j \in 1 .. Len(w) : /\ w[i].frame = w[j].frame => i - w[i].pos = j - w[j].pos
                               /\ i < j => w[i].frame <= w[j].frame
  /\ \A k \in DOMAIN s : \A p \in 1 .. s[k].size :
       \E i \in 1 .. Len(w) : w[i].frame = k /\ w[i].pos = p

\* A frame with a valid header reaches as far as the header declares.
SoundFrame(f) ==
  /\ f.size \in Nat /\ f.declared \in Nat
  /\ f.kind \in {"good", "unparsable", "marker"}
  /\ f.kind # "marker" /\ f.declared \in HeaderLen .. MaxLen => f.declared = f.size

ASSUME SinkAssumption ==
  /\ HeaderLen \in Nat \ {0}
  /\ MaxLen \in Nat /\ HeaderLen <= MaxLen
  /\ FirstRing \in Nat \ {0}
  /\ MaxFeed \in Nat
  /\ AllocFails \in BOOLEAN
  /\ \A s \in Streams : /\ Len(s) \in Nat /\ DOMAIN s = 1 .. Len(s)
                        /\ \A k \in DOMAIN s : SoundFrame(s[k])
                        /\ LaidOut(s, Wire(s))

VARIABLES
  buf,        \* the allocated bytes, by address 0 .. buf_cap - 1
  buf_off, buf_len, buf_cap,
  packets,    \* the slots of the ring, by index 0 .. packet_cap - 1
  packet_head, packet_count, packet_cap,
  pc,         \* "idle", or "process" while a feed holds the lock
  err,        \* what the last feed returned
  stream,     \* the frames this peer sends
  fed,        \* how many bytes of the stream the sink has taken
  start,      \* history: how many of them before the last clear
  popped,     \* history: the packets popped since the last clear
  resync,     \* history: a header error dropped bytes since the last clear
  shed        \* history: good frames lost to an allocation failure since then

bytes == <<buf, buf_off, buf_len, buf_cap>>
ring == <<packets, packet_head, packet_count, packet_cap>>
history == <<stream, fed, start, popped, resync, shed>>
vars == <<buf, buf_off, buf_len, buf_cap, packets, packet_head, packet_count, packet_cap,
          pc, err, stream, fed, start, popped, resync, shed>>

Nothing == [frame |-> 0, pos |-> 0]     \* memory nothing was written to
EmptySlot == 0                          \* a ring slot whose packet was moved out

Init ==
  /\ buf = [a \in {} |-> Nothing]
  /\ buf_off = 0 /\ buf_len = 0 /\ buf_cap = 0
  /\ packets = [i \in {} |-> EmptySlot]
  /\ packet_head = 0 /\ packet_count = 0 /\ packet_cap = 0
  /\ pc = "idle" /\ err = "OK"
  /\ stream \in Streams
  /\ fed = 0 /\ start = 0 /\ popped = <<>> /\ resync = FALSE /\ shed = {}

-----------------------------------------------------------------------------
(* The byte buffer. *)

TailRoom == buf_cap - buf_off - buf_len

\* Mutant: the bytes are moved by half the offset.
CompactedShort ==
  [a \in DOMAIN buf |-> IF a < buf_len THEN buf[(buf_off \div 2) + a] ELSE buf[a]]

\* sink_compact_buf: move the window to address 0; what lies beyond it stays.
Compacted ==
  [a \in DOMAIN buf |-> IF a < buf_len THEN buf[buf_off + a] ELSE buf[a]]

\* When sink_reserve_buf compacts: the window has moved and either it starts in
\* the upper half of the buffer, or the bytes fit once it is moved back.
Compacts(n) ==
  /\ n > TailRoom
  /\ buf_off > 0
  /\ buf_off >= buf_cap \div 2 \/ buf_len + n <= buf_cap

\* What sink_reserve_buf leaves before it may have to grow the memory.
ReservedOff(n) == IF Compacts(n) THEN 0 ELSE buf_off
Packed(n) == IF Compacts(n) THEN Compacted ELSE buf
\* Mutant: one byte short.
GrowsLate(n) == n > buf_cap - ReservedOff(n) - buf_len + 1
Grows(n) == n > buf_cap - ReservedOff(n) - buf_len

\* The capacity is doubled until the window, the room before it and the chunk
\* fit: one of first, 2 * first, 4 * first, ... and the least that is enough.
ReservedCaps(n) ==
  LET first == IF buf_cap = 0 THEN HeaderLen ELSE 2 * buf_cap
      required == ReservedOff(n) + buf_len + n
  IN  IF Grows(n)
        THEN {c \in {first * 2 ^ k : k \in 0 .. required} :
                c >= required /\ (c = first \/ c < 2 * required)}
        ELSE {buf_cap}

\* sink_drop_buffer_prefix
DropPrefix(n) ==
  /\ buf_off' = IF n >= buf_len THEN 0 ELSE buf_off + n
  /\ buf_len' = IF n >= buf_len THEN 0 ELSE buf_len - n
  /\ UNCHANGED <<buf, buf_cap>>

-----------------------------------------------------------------------------
(* The packet ring. *)

Slot(i) == (packet_head + i) % packet_cap

\* sink_reserve_packets for one more packet: slots and head afterwards.
RingGrows == packet_count + 1 > packet_cap
GrownCap ==
  IF ~RingGrows THEN packet_cap
  ELSE IF packet_cap = 0 THEN FirstRing ELSE 2 * packet_cap
GrownHead == IF RingGrows THEN 0 ELSE packet_head
\* Mutant: the ring is copied from its first slot on, not from its head.
GrownSlotsFromZero ==
  IF RingGrows
    THEN [i \in 0 .. GrownCap - 1 |->
            IF i < packet_count THEN packets[i] ELSE EmptySlot]
    ELSE packets

GrownSlots ==
  IF RingGrows
    THEN [i \in 0 .. GrownCap - 1 |->
            IF i < packet_count THEN packets[Slot(i)] ELSE EmptySlot]
    ELSE packets

-----------------------------------------------------------------------------
(* The operations. *)

\* libbgp_sink_feed up to its loop: room is made and the chunk is appended
\* behind the window.
Feed(n) ==
  /\ pc = "idle"
  /\ fed + n <= Len(Wire(stream))
  /\ \E cap \in ReservedCaps(n) :
       LET end == ReservedOff(n) + buf_len
       IN  /\ buf' = [a \in 0 .. cap - 1 |->
                        IF a \in end .. end + n - 1 THEN Wire(stream)[fed + 1 + (a - end)]
                        ELSE IF a < buf_cap THEN Packed(n)[a] ELSE Nothing]
           /\ buf_cap' = cap
  /\ buf_off' = ReservedOff(n)
  /\ buf_len' = buf_len + n
  /\ fed' = fed + n
  /\ pc' = "process"
  /\ UNCHANGED <<ring, err, stream, start, popped, resync, shed>>

\* There is no room and the realloc fails: nothing was appended, and the caller
\* still has the chunk.  A compaction done before the realloc stays.
FeedNoMemory(n) ==
  /\ pc = "idle"
  /\ fed + n <= Len(Wire(stream))
  /\ AllocFails /\ Grows(n)
  /\ buf' = Packed(n)
  /\ buf_off' = ReservedOff(n)
  /\ err' = "NOMEM"
  /\ UNCHANGED <<buf_len, buf_cap, ring, pc, history>>

\* One turn of sink_process_locked reads the header at the start of the window.
FirstByte == buf[buf_off]
Frame == stream[FirstByte.frame]
HasHeader == pc = "process" /\ buf_len >= HeaderLen
MarkerValid == FirstByte.pos = 1 /\ Frame.kind # "marker"
\* Mutant: no largest length.
LengthValidAny == Frame.declared >= HeaderLen
LengthValid == Frame.declared >= HeaderLen /\ Frame.declared <= MaxLen
HeaderValid == MarkerValid /\ LengthValid
HasFrame == HasHeader /\ HeaderValid /\ buf_len >= Frame.declared

\* The loop ends with a header or the frame after it incomplete.
FeedReturns ==
  /\ pc = "process"
  /\ \/ buf_len < HeaderLen
     \/ (HasHeader /\ HeaderValid /\ buf_len < Frame.declared)
  /\ pc' = "idle" /\ err' = "OK"
  /\ UNCHANGED <<bytes, ring, history>>

\* A bad marker or a length out of range: every buffered byte is dropped.
HeaderError ==
  /\ HasHeader
  /\ ~HeaderValid
  /\ buf_off' = 0 /\ buf_len' = 0
  /\ pc' = "idle" /\ err' = "BAD_LEN"
  /\ resync' = TRUE
  /\ UNCHANGED <<buf, buf_cap, ring, stream, fed, start, popped, shed>>

\* The ring is full and cannot grow: the frame stays buffered.
PacketNoMemory ==
  /\ HasFrame
  /\ AllocFails /\ RingGrows
  /\ pc' = "idle" /\ err' = "NOMEM"
  /\ UNCHANGED <<bytes, ring, history>>

\* The ring has room for the packet from here on, parsed or not.
GrowRing == packet_head' = GrownHead /\ packet_cap' = GrownCap

\* The frame does not parse: it is dropped, the feed returns its error, and
\* frames behind it wait for the next feed.
ParseError ==
  /\ HasFrame
  /\ Frame.kind = "unparsable"
  /\ DropPrefix(Frame.declared)
  /\ GrowRing /\ packets' = GrownSlots
  /\ pc' = "idle" /\ err' = "PARSE"
  /\ UNCHANGED <<packet_count, history>>

\* The parser could not allocate: a good frame is dropped in the same way, and
\* the feed returns the error it also returns when nothing was dropped.
ParseNoMemory ==
  /\ HasFrame
  /\ AllocFails /\ Frame.kind = "good"
  /\ DropPrefix(Frame.declared)
  /\ GrowRing /\ packets' = GrownSlots
  /\ pc' = "idle" /\ err' = "NOMEM"
  /\ shed' = shed \cup {FirstByte.frame}
  /\ UNCHANGED <<packet_count, stream, fed, start, popped, resync>>

\* The frame parses: its packet goes to the tail of the ring.
Accept ==
  /\ HasFrame
  /\ Frame.kind = "good"
  /\ packets' = [GrownSlots EXCEPT ![(GrownHead + packet_count) % GrownCap] = FirstByte.frame]
  /\ GrowRing
  /\ packet_count' = packet_count + 1
  /\ DropPrefix(Frame.declared)
  /\ UNCHANGED <<pc, err, history>>

\* libbgp_sink_pop
Pop ==
  /\ pc = "idle"
  /\ packet_count > 0
  /\ popped' = Append(popped, packets[packet_head])
  /\ packets' = [packets EXCEPT ![packet_head] = EmptySlot]
  /\ packet_head' = IF packet_count = 1 THEN 0 ELSE (packet_head + 1) % packet_cap
  /\ packet_count' = packet_count - 1
  /\ UNCHANGED <<bytes, packet_cap, pc, err, stream, fed, start, resync, shed>>

\* Another connection starts with the first frame not yet begun.
NextFrames ==
  LET w == Wire(stream)
  IN  {m \in fed .. Len(w) : /\ m = Len(w) \/ w[m + 1].pos = 1
                             /\ \A i \in fed .. m - 1 : w[i + 1].pos # 1}

\* libbgp_sink_clear: the packets are destroyed and the bytes forgotten; the
\* application goes on with another connection.
Clear ==
  /\ pc = "idle"
  /\ fed > start
  /\ buf_off' = 0 /\ buf_len' = 0
  /\ packets' = [i \in DOMAIN packets |-> EmptySlot]
  /\ packet_head' = 0 /\ packet_count' = 0
  /\ fed' \in NextFrames /\ start' = fed'
  /\ popped' = <<>> /\ resync' = FALSE /\ shed' = {}
  /\ UNCHANGED <<buf, buf_cap, packet_cap, pc, err, stream>>

Process ==
  \/ FeedReturns \/ HeaderError \/ PacketNoMemory
  \/ ParseError \/ ParseNoMemory \/ Accept

Next ==
  \/ \E n \in 1 .. MaxFeed : Feed(n) \/ FeedNoMemory(n)
  \/ Process
  \/ Pop
  \/ Clear

Spec == Init /\ [][Next]_vars

-----------------------------------------------------------------------------
(* Properties. *)

\* Types, and the bounds every access relies on: the window lies inside the
\* allocated bytes and the ring's head and count inside its slots.
TypeOK ==
  /\ buf_off \in Nat /\ buf_len \in Nat /\ buf_cap \in Nat
  /\ buf_off + buf_len <= buf_cap
  /\ DOMAIN buf = 0 .. buf_cap - 1
  /\ packet_head \in Nat /\ packet_count \in Nat /\ packet_cap \in Nat
  /\ packet_count <= packet_cap
  /\ packet_head < packet_cap \/ packet_head = 0
  /\ DOMAIN packets = 0 .. packet_cap - 1
  /\ pc \in {"idle", "process"}
  /\ err \in {"OK", "NOMEM", "BAD_LEN", "PARSE"}
  /\ stream \in Streams /\ fed \in Nat /\ fed <= Len(Wire(stream))

Queue == [i \in 1 .. packet_count |-> packets[Slot(i - 1)]]

\* Through every compaction, growth and dropped prefix the window is the last
\* buf_len bytes fed, in order: no byte is lost, repeated or read from stale
\* memory.
WindowExact ==
  /\ buf_len <= fed
  /\ \A i \in 0 .. buf_len - 1 : buf[buf_off + i] = Wire(stream)[fed - buf_len + i + 1]

\* The good frames all of whose bytes are among bytes a+1 .. b of the stream.
GoodFrames(a, b) ==
  LET w == Wire(stream)
  IN  {k \in DOMAIN stream : /\ stream[k].kind = "good"
                             /\ stream[k].declared \in HeaderLen .. MaxLen
                             /\ \A i \in 1 .. Len(w) : w[i].frame = k => i \in a + 1 .. b}

\* What was popped, followed by what is queued, is exactly the good frames among
\* the bytes consumed so far, in order, however the stream was cut into chunks
\* and whenever the ring wrapped or grew; only a frame the parser had no memory
\* for is missing.  After a header error bytes were dropped, and the packets
\* are still good frames in order and without repetition.  The slots of the ring
\* that hold a packet are the queued ones, so none is leaked or owned twice.
PacketsExact ==
  LET out == popped \o Queue
      told == {out[i] : i \in DOMAIN out}
      good == GoodFrames(start, fed - buf_len) \ shed
  IN  /\ {i \in DOMAIN packets : packets[i] # EmptySlot} = {Slot(i) : i \in 0 .. packet_count - 1}
      /\ \A i, j \in DOMAIN out : i < j => out[i] < out[j]
      /\ IF resync THEN told \subseteq good ELSE told = good

\* A feed that returns success leaves less than one frame in the buffer, so the
\* bytes a peer can make the sink hold stay below the largest frame.
NoFrameWaits ==
  pc = "idle" /\ err = "OK" =>
    /\ buf_len < MaxLen
    /\ buf_len >= HeaderLen => FirstByte.pos = 1 /\ buf_len < Frame.declared
=============================================================================
