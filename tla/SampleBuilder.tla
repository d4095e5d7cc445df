---------------------------- MODULE SampleBuilder ----------------------------
(***************************************************************************)
(* rtc-media's SampleBuilder: packets of a stream arrive late, twice, out   *)
(* of order or not at all; the builder holds them in a ring indexed by      *)
(* sequence number until a frame is complete, and gives up on the oldest    *)
(* packets when those held span more than max_late sequence numbers.        *)
(*                                                                          *)
(* The stream has frames of one or more packets: the first packet of a      *)
(* frame is a partition head, the last has the marker.  What a packet       *)
(* carries is its place in the stream.                                      *)
(***************************************************************************)
EXTENDS Integers, Sequences, FiniteSets

CONSTANTS Seqs,             \* how many sequence numbers there are: 2^16 in the code
          MinPacketSlots,   \* MIN_PACKET_SLOTS: 16 in the code
          Streams           \* what is sent, how the network treats it, and the builder's settings

VARIABLES stream,       \* the stream and the builder's settings
          copies,       \* per packet, how often it has arrived
          sb,           \* the builder
          popped        \* the samples handed out
vars == <<stream, copies, sb, popped>>

(***************************************************************************)
(* The stream.                                                              *)
(***************************************************************************)
\* A stream is a sequence of frames [size, pad]: size packets of media, then pad empty ones.
Start(s, f) == LET upto[i \in 1 .. f] == IF i = 1 THEN 1 ELSE upto[i - 1] + s.frames[i - 1].size + s.frames[i - 1].pad IN upto[f]
Final(s, f) == Start(s, f) + s.frames[f].size - 1
Length(s) == Final(s, Len(s.frames)) + s.frames[Len(s.frames)].pad
FrameOf(s, i) == CHOOSE f \in 1 .. Len(s.frames) : Start(s, f) <= i /\ i <= Final(s, f) + s.frames[f].pad
PacketAt(s, i, f) ==
    [sequence_number |-> (s.first + i) % Seqs, timestamp |-> 10 * f, data |-> i, fine |-> i \notin s.malformed,
     head |-> i = Start(s, f), marker |-> i = Final(s, f), void |-> i > Final(s, f)]
None == [sequence_number |-> -1, timestamp |-> -1, data |-> 0, fine |-> TRUE, head |-> FALSE, marker |-> FALSE, void |-> FALSE]
IsSome(p) == p.sequence_number >= 0

(***************************************************************************)
(* SampleSequenceLocation: the numbers from head up to tail, with wrap.     *)
(***************************************************************************)
Wrap(x) == x % Seqs
Location(head, tail) == [head |-> head, tail |-> tail]
Nowhere == Location(0, 0)
empty(l) == l.head = l.tail
has_data(l) == l.head # l.tail
seqnum_distance(x, y) == LET diff == Wrap(x - y) IN IF diff > (Seqs - 1) \div 2 THEN Seqs - diff ELSE diff
count(l) == seqnum_distance(l.head, l.tail)
compare(l, pos) ==
    IF l.head = l.tail THEN "Void"
    ELSE IF (l.head < l.tail /\ l.head <= pos /\ pos < l.tail) \/ (l.head > l.tail /\ (l.head <= pos \/ pos < l.tail)) THEN "Inside"
    ELSE IF Wrap(l.head - pos) <= Wrap(pos - l.tail) THEN "Before"
    ELSE "After"

(***************************************************************************)
(* PacketRing: slots are numbered from 0; none before the first push.       *)
(***************************************************************************)
PowersOfTwo == {2 ^ k : k \in 0 .. 16}
next_power_of_two(n) == CHOOSE p \in PowersOfTwo : p >= n /\ \A q \in PowersOfTwo : q >= n => p <= q
initial_slots(max_late) == LET n == next_power_of_two(max_late + 1) IN IF n < MinPacketSlots THEN n ELSE MinPacketSlots
NoSlots == [i \in {} |-> None]
Slots(n) == [i \in 0 .. n - 1 |-> None]
\* table is a history variable: what a table of all the sequence numbers would hold
Ring == [slots |-> NoSlots, parked |-> None, table |-> Slots(Seqs)]
Size(r) == Cardinality(DOMAIN r.slots)
index(r, seq) == seq % Size(r)
get(r, seq) ==
    IF Size(r) > 0 /\ r.slots[index(r, seq)].sequence_number = seq THEN r.slots[index(r, seq)]
    ELSE IF r.parked.sequence_number = seq THEN r.parked ELSE None
Released(r, seq) ==
    IF Size(r) > 0 /\ r.slots[index(r, seq)].sequence_number = seq THEN [r EXCEPT !.slots[index(r, seq)] = None]
    ELSE IF r.parked.sequence_number = seq THEN [r EXCEPT !.parked = None] ELSE r
release(r, seq) == [Released(r, seq) EXCEPT !.table[seq] = None]
is_held_elsewhere(slot, seq, held) ==
    IsSome(slot) /\ slot.sequence_number # seq /\ compare(held, slot.sequence_number) = "Inside"
Inserted(r, p, held) ==
    IF is_held_elsewhere(r.slots[index(r, p.sequence_number)], p.sequence_number, held) THEN [r EXCEPT !.parked = p]
    ELSE [r EXCEPT !.slots[index(r, p.sequence_number)] = p]
Allocated(r, max_late) == IF Size(r) = 0 THEN [r EXCEPT !.slots = Slots(initial_slots(max_late))] ELSE r
insert(r, p, held, max_late) == Inserted([Allocated(r, max_late) EXCEPT !.table[p.sequence_number] = p], p, held)
Grown(r, n) ==
    [r EXCEPT !.slots = [i \in 0 .. n - 1 |->
        IF \E j \in DOMAIN r.slots : IsSome(r.slots[j]) /\ r.slots[j].sequence_number % n = i
        THEN r.slots[CHOOSE j \in DOMAIN r.slots : IsSome(r.slots[j]) /\ r.slots[j].sequence_number % n = i] ELSE None]]
grow(r) == Grown(r, 2 * Size(r))
settle(r0, held) ==
    LET p == r0.parked
        RECURSIVE after(_)
        after(r) == IF is_held_elsewhere(r.slots[index(r, p.sequence_number)], p.sequence_number, held) THEN after(grow(r))
                    ELSE [r EXCEPT !.slots[index(r, p.sequence_number)] = p, !.parked = None]
    IN  IF IsSome(p) THEN after(r0) ELSE r0

(***************************************************************************)
(* PreparedSamples: completed samples, oldest first, at most max_len.       *)
(***************************************************************************)
Discarded(next, old) ==
    [next EXCEPT !.prev_dropped_packets = @ + old.prev_dropped_packets + Len(old.data),
                 !.prev_padding_packets = @ + old.prev_padding_packets]
Prepared_push(samples, sample, max_len) ==
    IF Len(samples) < max_len THEN Append(samples, sample)
    ELSE IF Len(samples) = 1 THEN <<Discarded(sample, samples[1])>>
    ELSE <<Discarded(samples[2], samples[1])>> \o Append(SubSeq(samples, 3, Len(samples)), sample)

(***************************************************************************)
(* The builder.                                                             *)
(***************************************************************************)
SampleBuilder_new ==
    [buffer |-> Ring, filled |-> Nowhere, active |-> Nowhere, prepared |-> <<>>,
     dropped_packets |-> 0, padding_packets |-> 0, last_sample_timestamp |-> -1,
     \* history: the active segment has passed a number that no counter has
     passed |-> FALSE]
release_packet(b, i) == [b EXCEPT !.buffer = release(@, i)]
Head_released(b) == [release_packet(b, b.filled.head) EXCEPT !.filled.head = Wrap(@ + 1)]
purge_consumed_location(b, consume, force_consume) ==
    IF has_data(b.filled)
         /\ (compare(consume, b.filled.head) = "Before" \/ (force_consume /\ compare(consume, b.filled.head) = "Inside"))
    THEN Head_released(b) ELSE b
purge_consumed_buffers(b) == purge_consumed_location(b, b.active, FALSE)

\* the timestamps of the first packet held in a location, and of the last after its head
Held(b, l) == {i \in 0 .. Wrap(l.tail - l.head) - 1 : IsSome(get(b.buffer, Wrap(l.head + i)))}
MinIn(s) == CHOOSE x \in s : \A y \in s : x <= y
MaxIn(s) == CHOOSE x \in s : \A y \in s : x >= y
Stamp(b, l, i) == get(b.buffer, Wrap(l.head + i)).timestamp
too_old(b, l, late_timestamp) ==
    LET held == Held(b, l)
    IN  late_timestamp # 0 /\ held \ {0} # {} /\ Stamp(b, l, MaxIn(held \ {0})) - Stamp(b, l, MinIn(held)) > late_timestamp

\* build_sample walks from the head of the active segment to the end of a frame
(* mutant: the active segment does not grow with what arrives *)
Segment_fixed(b) == IF empty(b.active) THEN [b EXCEPT !.active = b.filled] ELSE b

Segment(b) ==
    LET c == IF empty(b.active) THEN [b EXCEPT !.active = b.filled] ELSE b
    IN  IF compare(c.filled, c.active.tail) = "Inside" THEN [c EXCEPT !.active.tail = c.filled.tail] ELSE c
Walk(b, stamp) ==
    LET RECURSIVE from(_)
        from(i) ==
            LET p == get(b.buffer, i)
            IN  IF ~IsSome(p) \/ compare(b.active, i) = "After" THEN Nowhere
                ELSE IF p.marker /\ p.timestamp = stamp THEN Location(b.active.head, Wrap(i + 1))
                ELSE IF p.timestamp # stamp THEN Location(b.active.head, i)
                ELSE from(Wrap(i + 1))
    IN  from(b.active.head)
\* the timestamp after the sample: a range of numbers that does not wrap
After_timestamp(b, from, to, stamp) ==
    LET found == {i \in from .. to - 1 : IsSome(get(b.buffer, i))}
    IN  IF found = {} THEN stamp ELSE get(b.buffer, MinIn(found)).timestamp
Consumed(b, consume) == purge_consumed_buffers(purge_consumed_location(b, consume, TRUE))
Built(b, res) == [b |-> b, res |-> res]
Range(b, consume) == [i \in 1 .. count(consume) |-> get(b.buffer, Wrap(consume.head + i - 1))]
is_padding(b, packets) == \A i \in DOMAIN packets : packets[i].timestamp = b.last_sample_timestamp /\ packets[i].void
Invalid_partition(b, consume) ==
    Built([Consumed([b EXCEPT !.dropped_packets = @ + count(consume),
                              !.padding_packets = IF is_padding(b, Range(b, consume)) THEN @ + count(consume) ELSE @], consume)
            EXCEPT !.active.head = consume.tail], "InvalidPartition")
Sample(b, consume, stamp) ==
    [data |-> [i \in 1 .. count(consume) |-> Range(b, consume)[i].data],
     duration |-> After_timestamp(b, consume.tail, b.active.tail, stamp) - stamp,
     packet_timestamp |-> stamp, prev_dropped_packets |-> b.dropped_packets, prev_padding_packets |-> b.padding_packets]
Sample_built(b, consume, stamp, max_len) ==
    Built(Consumed([b EXCEPT !.active.head = consume.tail, !.dropped_packets = 0, !.padding_packets = 0, !.last_sample_timestamp = stamp,
                             !.prepared = Prepared_push(@, Sample(b, consume, stamp), max_len)], consume), "Ok")
Sample_from(b, consume, purging, stamp, max_len) ==
    CASE empty(consume) -> Built(b, "NothingToConsume")
      [] has_data(consume) /\ ~purging /\ ~IsSome(get(b.buffer, consume.tail)) -> Built(b, "PendingTimestampPacket")
      [] has_data(consume) /\ (purging \/ IsSome(get(b.buffer, consume.tail))) ->
            IF ~get(b.buffer, consume.head).head THEN Invalid_partition(b, consume)
            ELSE IF \E i \in 1 .. count(consume) : ~Range(b, consume)[i].fine
            THEN Built([b EXCEPT !.active.head = consume.tail, !.passed = TRUE], "DepacketizerFailed")
            ELSE Sample_built(b, consume, stamp, max_len)
Build_in(b, purging, max_len) ==
    IF empty(b.active) THEN Built(b, "NoActiveSegment")
    ELSE LET stamp == get(b.buffer, b.active.head).timestamp
         IN  Sample_from(b, Walk(b, stamp), purging, stamp, max_len)
build_sample(b, purging, max_len) == Build_in(Segment(b), purging, max_len)

\* one round of the purge's loop
Purge_failed(x) ==
    Head_released([x.b EXCEPT !.dropped_packets = IF x.res = "InvalidPartition" THEN @ ELSE @ + 1,
                              !.passed = @ \/ x.res = "InvalidPartition",
                              !.active.head = Wrap(@ + 1)])
Purge_forced(x) == IF x.res = "Ok" THEN x.b ELSE Purge_failed(x)
Purge_round(b, max_len) ==
    IF has_data(b.active) /\ b.active.head = b.filled.head THEN Purge_forced(build_sample(b, TRUE, max_len))
    ELSE Head_released(b)
purge_buffers(b0, s) ==
    LET RECURSIVE after(_)
        after(b) ==
            IF has_data(b.filled) /\ (too_old(b, b.filled, s.late_timestamp) \/ count(b.filled) > s.max_late)
            THEN after(Purge_round(IF empty(b.active) THEN [b EXCEPT !.active = b.filled] ELSE b, s.max_len))
            ELSE b
    IN  after(purge_consumed_buffers(b0))

Placed(l, seq) ==
    CASE compare(l, seq) = "Void"   -> Location(seq, Wrap(seq + 1))
      [] compare(l, seq) = "Before" -> [l EXCEPT !.head = seq]
      [] compare(l, seq) = "After"  -> [l EXCEPT !.tail = Wrap(seq + 1)]
      [] OTHER -> l
Push_at(b, p, filled, s) == [b EXCEPT !.filled = filled, !.buffer = insert(@, p, filled, s.max_late)]
Settled(b) == [b EXCEPT !.buffer = settle(@, b.filled)]
push(b, p, s) == Settled(purge_buffers(Push_at(b, p, Placed(b.filled, p.sequence_number), s), s))
pop(b, s) == IF Len(b.prepared) >= s.max_len THEN b ELSE build_sample(b, FALSE, s.max_len).b

(***************************************************************************)
(* The specification.                                                       *)
(***************************************************************************)
Init ==
    /\ stream \in Streams
    /\ copies = [i \in 1 .. Length(stream) |-> 0]
    /\ sb = SampleBuilder_new
    /\ popped = <<>>

\* the network delivers a packet, in any order, again, or never
Push ==
    \E i \in DOMAIN copies :
        /\ copies[i] < stream.copies /\ i \notin stream.lost
        /\ \A j \in DOMAIN copies : copies[j] > 0 => j - i <= stream.late
        /\ stream.punctual => (i = 1 \/ copies[1] > 0)
        /\ copies' = [copies EXCEPT ![i] = @ + 1]
        /\ sb' = push(sb, PacketAt(stream, i, FrameOf(stream, i)), stream)
        /\ UNCHANGED <<stream, popped>>

Pop ==
    /\ \E b \in {pop(sb, stream)} :
         /\ b # sb
         /\ IF b.prepared = <<>> THEN sb' = b /\ popped' = popped
            ELSE sb' = [b EXCEPT !.prepared = Tail(@)] /\ popped' = Append(popped, Head(b.prepared))
    /\ UNCHANGED <<stream, copies>>
PopWaiting ==
    /\ sb.prepared # <<>> /\ pop(sb, stream) = sb
    /\ sb' = [sb EXCEPT !.prepared = Tail(@)] /\ popped' = Append(popped, Head(sb.prepared))
    /\ UNCHANGED <<stream, copies>>

Next == Push \/ Pop \/ PopWaiting
Spec == Init /\ [][Next]_vars

(***************************************************************************)
(* Properties.                                                              *)
(***************************************************************************)
Whole(d, f) == d = [i \in 1 .. stream.frames[f].size |-> Start(stream, f) + i - 1]
Queue == popped \o sb.prepared

\* What pop returns is the stream: a sample is all the packets of one frame, in
\* order, and samples follow each other in stream order, none twice, however
\* packets were lost, repeated or reordered (build_sample, purge_buffers).
SamplesWhole ==
    /\ \A k \in DOMAIN Queue : Whole(Queue[k].data, FrameOf(stream, Queue[k].data[1]))
    /\ \A k \in 1 .. Len(Queue) - 1 : Queue[k].data[1] < Queue[k + 1].data[1]

\* The ring answers for every number held as a table of all sequence numbers
\* would, and stays within the power of two above max_late (PacketRing's comment:
\* "a slot reused for a later sequence number never answers for an earlier one").
RingAsTable ==
    /\ sb.buffer.parked = None
    /\ \A seq \in 0 .. Seqs - 1 : compare(sb.filled, seq) = "Inside" => get(sb.buffer, seq) = sb.buffer.table[seq]
    /\ count(sb.filled) <= stream.max_late
    /\ Size(sb.buffer) <= next_power_of_two(stream.max_late + 1)

\* Every number up to the active segment of a stream in order with losses, of frames no
\* longer than max_late, is in a sample
\* or counted as dropped by the sample after it, samples discarded from a full backlog
\* included ("either in a returned sample or counted in a prev_dropped_packets",
\* sample_builder_test.rs) - until purge_buffers gives up a partition without its head, when
\* it also passes the number after it, or the depacketizer refuses a frame.
Total(q) == LET sum[k \in 0 .. Len(q)] == IF k = 0 THEN 0 ELSE sum[k - 1] + Len(q[k].data) + q[k].prev_dropped_packets IN sum[Len(q)]
First == CHOOSE i \in DOMAIN copies : copies[i] > 0 /\ \A j \in 1 .. i - 1 : copies[j] = 0
DropsAccounted ==
    (/\ stream.late = 0 /\ \A f \in DOMAIN stream.frames : stream.frames[f].size <= stream.max_late
     /\ has_data(sb.active) /\ ~sb.passed) =>
        Total(Queue) + sb.dropped_packets = Wrap(sb.active.head - (stream.first + First))

\* When every packet has arrived no later than max_late allows and nothing is left
\* to pop, every frame was returned, but for the last, which waits for its
\* successor: no gap is left once packets fill it.
AtRest == (\A i \in DOMAIN copies : copies[i] > 0) /\ pop(sb, stream) = sb /\ sb.prepared = <<>>
NothingWithheld ==
    (stream.punctual /\ AtRest) => \A f \in 1 .. Len(stream.frames) - 1 : \E k \in DOMAIN popped : popped[k].data[1] = Start(stream, f)

=============================================================================
