-------------------------------- MODULE Nack --------------------------------
(***************************************************************************)
(* Retransmission of lost RTP packets: the NACK responder of the sending    *)
(* peer, the NACK generator of the receiving one, and the endpoint handler  *)
(* that turns a packet of the retransmission (RTX) stream back into the     *)
(* packet it repeats.                                                       *)
(*                                                                          *)
(* Packets are numbered as the application makes them: packet n has the     *)
(* sequence number n % SeqSpace.  The network may lose, repeat and reorder  *)
(* packets, but not deliver one that LogSize later numbers have overtaken.  *)
(***************************************************************************)
EXTENDS Integers, Sequences, FiniteSets, FiniteSetsExt, SequencesExt

(***************************************************************************)
(* Runs of a circular receipt bitmap of cap bits.  A bitmap is the set of   *)
(* the positions whose bit is set; a run starts anywhere, may wrap past the *)
(* end, and comes round again when it is longer than the bitmap.            *)
(***************************************************************************)
\* the offsets of the clear bits of a run, in range order
for_each_zero(bits, cap, start, len) ==
    SelectSeq([i \in 1 .. len |-> i - 1], LAMBDA o : (start + o) % cap \notin bits)
\* the first clear bit, one time round; -1 when there is none
first_zero(bits, cap, start, len) ==
    LET zeros == for_each_zero(bits, cap, start, IF len < cap THEN len ELSE cap)
    IN IF zeros = <<>> THEN -1 ELSE zeros[1]
clear_run(bits, cap, start, len) ==
    IF len >= cap THEN {} ELSE bits \ {(start + o) % cap : o \in 0 .. len - 1}

(***************************************************************************)
(* The NACK generator's record of the packets of one stream: a circular     *)
(* bitmap of LogSize bits indexed by the low bits of the sequence number,   *)
(* and the pairs a NACK packs sequence numbers into.  A bitmap is the set   *)
(* of the positions whose bit is set.                                       *)
(***************************************************************************)

CONSTANTS SeqSpace,     \* sequence numbers: 2^16 in the code
          LogSize,      \* bits of the log: 64 to 2^15 in the code
          MaskBits      \* numbers after the first that a pair can name: 16 in the code

SIZE_HALF == SeqSpace \div 2
Minus(a, b) == (a - b) % SeqSpace
Plus(a, b) == (a + b) % SeqSpace

(***************************************************************************)
(* ReceiveLog.                                                              *)
(***************************************************************************)
NewLog == [packets |-> {}, end |-> 0, started |-> FALSE, last_consecutive |-> 0]
set_received(log, seq) == [log EXCEPT !.packets = @ \cup {seq % LogSize}]
get_received(log, seq) == seq % LogSize \in log.packets
fix_last_consecutive(log) ==
    LET found == first_zero(log.packets, LogSize, Plus(log.last_consecutive, 1), Minus(log.end, log.last_consecutive))
    IN [log EXCEPT !.last_consecutive = IF found = -1 THEN log.end ELSE Plus(@, found)]

(* mutant: the receipts of a window ago are left behind *)
Ahead_uncleared(log, seq) ==
    [log EXCEPT !.end = seq, !.last_consecutive = IF Plus(@, 1) = seq THEN seq ELSE @]
\* a number ahead of the highest: the skipped numbers may hold receipts from a window ago
Ahead(log, seq) ==
    LET moved == [log EXCEPT !.packets = clear_run(@, LogSize, Plus(log.end, 1), Minus(seq, log.end) - 1), !.end = seq]
    IN IF Plus(log.last_consecutive, 1) = seq THEN [moved EXCEPT !.last_consecutive = seq]
       ELSE IF Minus(seq, log.last_consecutive) > LogSize
       THEN fix_last_consecutive([moved EXCEPT !.last_consecutive = Minus(seq, LogSize)])
       ELSE moved
Behind(log, seq) ==
    IF Plus(log.last_consecutive, 1) = seq THEN fix_last_consecutive([log EXCEPT !.last_consecutive = seq])
    ELSE log
log_add(log, seq) ==
    IF ~log.started
    THEN [set_received(log, seq) EXCEPT !.end = seq, !.started = TRUE, !.last_consecutive = seq]
    ELSE IF seq = log.end THEN log
    ELSE set_received(IF Minus(seq, log.end) < SIZE_HALF THEN Ahead(log, seq) ELSE Behind(log, seq), seq)

Span(log, skip_last_n) == Minus(Minus(log.end, skip_last_n), log.last_consecutive)
missing_seq_numbers(log, skip_last_n) ==
    IF Span(log, skip_last_n) >= SIZE_HALF THEN <<>>
    ELSE LET first == Plus(log.last_consecutive, 1)
             offsets == for_each_zero(log.packets, LogSize, first, Span(log, skip_last_n))
         IN [i \in 1 .. Len(offsets) |-> Plus(first, offsets[i])]
is_missing(log, seq, skip_last_n) ==
    /\ Span(log, skip_last_n) < SIZE_HALF
    /\ Minus(seq, log.last_consecutive) \in 1 .. Span(log, skip_last_n)
    /\ ~get_received(log, seq)

(***************************************************************************)
(* Pairs: a base number and the ones that its mask names after it.          *)
(***************************************************************************)
NackPair(seq) == [packet_id |-> seq, lost_packets |-> {}]
\* saturating: a pair does not reach past the last sequence number
InReach(pair, seq) ==
    /\ seq > pair.packet_id
    /\ seq <= pair.packet_id + MaskBits
nack_pairs_from_sequence_numbers(seqs) ==
    LET Step(pairs, seq) ==
          LET pair == pairs[Len(pairs)]
          IN IF seq = pair.packet_id THEN pairs
             ELSE IF InReach(pair, seq)
             THEN [pairs EXCEPT ![Len(pairs)].lost_packets = @ \cup {seq - pair.packet_id - 1}]
             ELSE Append(pairs, NackPair(seq))
    IN IF seqs = <<>> THEN <<>> ELSE FoldLeft(Step, <<NackPair(seqs[1])>>, Tail(seqs))
packet_list(pair) ==
    <<pair.packet_id>> \o [i \in 1 .. Cardinality(pair.lost_packets) |->
                               Plus(pair.packet_id, SetToSortSeq(pair.lost_packets, <)[i] + 1)]
packet_lists(pairs) == FlattenSeq([i \in 1 .. Len(pairs) |-> packet_list(pairs[i])])

-----------------------------------------------------------------------------
(***************************************************************************)
(* The packets of one stream that the NACK responder can send again: a      *)
(* circular array of BufSize slots, bounded also by the payload bytes it    *)
(* holds and by the age of the packets.  Instants are ages: an entry counts *)
(* the ticks since it was sent, up to MaxAge.                               *)
(***************************************************************************)

CONSTANTS BufSize, MaxBytes, MaxAge

HALF == SeqSpace \div 2
Sub(a, b) == (a - b) % SeqSpace
Add(a, b) == (a + b) % SeqSpace

NoEntry == [num |-> -1, seq |-> -1, size |-> 0, age |-> 0]
Never == -1
\* limits.max_age is None unless the history ages
NewBuffer(ages) ==
    [packets |-> [i \in 0 .. BufSize - 1 |-> NoEntry], highest_added |-> 0, started |-> FALSE,
     oldest |-> 0, bytes |-> 0, newest |-> Never, ages |-> ages]
Slot(buf, seq) == buf.packets[seq % BufSize]
expired(buf, entry) == buf.ages /\ entry.age >= MaxAge
clear(buf, seq) ==
    [buf EXCEPT !.packets[seq % BufSize] = NoEntry, !.bytes = @ - Slot(buf, seq).size]

\* evict from the oldest end while over the byte limit or aged out
evict(buf) ==
    LET RECURSIVE from(_)
        from(b) ==
          IF b.oldest = Add(b.highest_added, 1)
          THEN [b EXCEPT !.oldest = b.highest_added, !.newest = Never]
          ELSE IF Slot(b, b.oldest).seq # b.oldest THEN from([b EXCEPT !.oldest = Add(@, 1)])
          ELSE IF (b.bytes > MaxBytes /\ b.oldest # b.highest_added) \/ expired(b, Slot(b, b.oldest))
          THEN from([clear(b, b.oldest) EXCEPT !.oldest = Add(@, 1)])
          ELSE b
    IN IF buf.started THEN from(buf) ELSE buf

\* a jump of a whole buffer or more leaves nothing inside the new window
Jumped(buf, seq) ==
    [buf EXCEPT !.packets = [i \in 0 .. BufSize - 1 |-> NoEntry], !.bytes = 0, !.oldest = seq,
                !.highest_added = seq]
Skipped(buf, seq) ==
    LET gone == {Add(buf.highest_added, k) % BufSize : k \in 1 .. Sub(seq, buf.highest_added) - 1}
        cleared == [buf EXCEPT !.packets = [i \in 0 .. BufSize - 1 |-> IF i \in gone THEN NoEntry ELSE @[i]]]
        window_start == Sub(seq, BufSize - 1)
    IN [cleared EXCEPT !.bytes = @ - MapThenSumSet(LAMBDA i : buf.packets[i].size, gone), !.highest_added = seq,
                       !.oldest = IF Sub(window_start, @) < HALF THEN window_start ELSE @]
\* what held the slot is displaced: an older packet, or a duplicate of this one
Stored(buf, num, seq, size) ==
    evict([clear(buf, seq) EXCEPT !.packets[seq % BufSize] = [num |-> num, seq |-> seq, size |-> size, age |-> 0],
                                  !.bytes = @ + size, !.newest = 0])
add(buf, num, seq, size) ==
    IF ~buf.started
    THEN Stored([buf EXCEPT !.highest_added = seq, !.oldest = seq, !.started = TRUE], num, seq, size)
    ELSE IF seq = buf.highest_added THEN buf
    ELSE IF Sub(seq, buf.highest_added) < HALF
    THEN Stored(IF Sub(seq, buf.highest_added) >= BufSize THEN Jumped(buf, seq) ELSE Skipped(buf, seq),
                num, seq, size)
    \* older than the whole window: its slot belongs to a newer packet
    ELSE IF Sub(buf.highest_added, seq) >= BufSize THEN buf
    ELSE Stored([buf EXCEPT !.oldest = IF Sub(@, seq) < HALF THEN seq ELSE @], num, seq, size)

\* the packet of a sequence number; NoEntry when it is not kept or has outlived the age limit
get(buf, seq) ==
    IF buf.started /\ Sub(buf.highest_added, seq) < BufSize /\ Slot(buf, seq).seq = seq
       /\ ~expired(buf, Slot(buf, seq))
    THEN Slot(buf, seq) ELSE NoEntry

\* the newest packet's expiry: once it has aged out, everything has
expires(buf) == buf.ages /\ buf.newest >= MaxAge
Older(age) == IF age < MaxAge THEN age + 1 ELSE age
aged(buf) ==
    [buf EXCEPT !.packets = [i \in 0 .. BufSize - 1 |-> IF @[i] = NoEntry THEN NoEntry
                                                       ELSE [@[i] EXCEPT !.age = Older(@)]],
                !.newest = IF @ = Never THEN Never ELSE Older(@)]

-----------------------------------------------------------------------------
CONSTANTS Interval,     \* ticks between two rounds of NACKs
          Scenarios,    \* RTX negotiated, skip_last_n, max_nacks_per_packet, ageing, packets sent
          FirstPacket,  \* number of the first packet the application sends
          Delay,        \* how many numbers late the application writes a packet, at most
          Losses,       \* NACKs and retransmissions that are lost, at most
          InFlight      \* NACKs on their way at a time, and retransmissions

VARIABLES scenario,
          sent,         \* numbers of the packets written, with their age
          buf,          \* send_buffer
          rtx_sequence_number,
          nacks,        \* NACK packets on their way
          resent,       \* retransmissions on their way
          lost,         \* how many of these were lost
          logs,         \* receive_logs
          nack_counts,
          next_timeout, \* ticks to the next round; Never when nothing is scheduled
          base,         \* number of the first packet that the log of the media stream was given
          arrived,      \* numbers that the generator's log of the media stream was given
          delivered,    \* what the application received: sequence number and packet
          asked         \* how often each packet was asked for
vars == <<scenario, sent, buf, rtx_sequence_number, nacks, resent, lost, logs, nack_counts, next_timeout,
          base, arrived, delivered, asked>>

Numbers == FirstPacket .. FirstPacket + scenario.packets - 1
Seq_of(n) == n % SeqSpace
\* the packets differ in size, so that the byte limit tells them apart
Size_of(n) == 1 + (n % 2)
MEDIA == 1
RTX == 2
Bound == IF scenario.rtx THEN {MEDIA, RTX} ELSE {MEDIA}
Max0(S) == IF S = {} THEN FirstPacket - 1 ELSE Max(S)
Written == {n \in Numbers : sent[n] # Never}

(***************************************************************************)
(* The sending peer: NackResponderInterceptor.                              *)
(***************************************************************************)
\* handle_write: the packet is buffered and goes on to the wire
Write(n) ==
    /\ sent[n] = Never
    /\ n >= Max0(Written) - Delay
    \* the application does not run a whole log ahead of what has arrived
    /\ n <= Max0(arrived) + LogSize
    /\ sent' = [sent EXCEPT ![n] = 0]
    /\ buf' = add(buf, n, Seq_of(n), Size_of(n))
    /\ UNCHANGED <<scenario, rtx_sequence_number, nacks, resent, lost, logs, nack_counts, next_timeout, base, arrived, delivered, asked>>

\* what handle_nack finds of the numbers asked for, in the order of the request
Found(nack) ==
    IF nack.media_ssrc # MEDIA THEN <<>>
    ELSE SelectSeq(packet_lists(nack.nacks), LAMBDA seq : get(buf, seq) # NoEntry)
Retransmission(seq, rtx_seq) ==
    [ssrc |-> IF scenario.rtx THEN RTX ELSE MEDIA, seq |-> IF scenario.rtx THEN rtx_seq ELSE seq,
     osn |-> seq, num |-> get(buf, seq).num]
handle_nack(nack, found) ==
    /\ resent' = resent \cup {Retransmission(found[i], Plus(rtx_sequence_number, i - 1)) : i \in 1 .. Len(found)}
    /\ rtx_sequence_number' = IF scenario.rtx THEN Plus(rtx_sequence_number, Len(found)) ELSE rtx_sequence_number
ReadNack(nack) ==
    /\ Cardinality(resent) <= InFlight
    /\ handle_nack(nack, Found(nack))
    /\ nacks' = nacks \ {nack}
    /\ UNCHANGED <<scenario, sent, buf, lost, logs, nack_counts, next_timeout, base, arrived, delivered, asked>>

\* handle_timeout: the history of a stream that went quiet is released
ResponderTimeout ==
    /\ expires(buf)
    /\ buf' = evict(buf)
    /\ UNCHANGED <<scenario, sent, rtx_sequence_number, nacks, resent, lost, logs, nack_counts, next_timeout, base, arrived, delivered, asked>>

(***************************************************************************)
(* The receiving peer: NackGeneratorInterceptor and EndpointHandler.        *)
(***************************************************************************)
\* handle_read: a packet of a bound stream enters its log and starts the timer
Logged(ssrc, seq) ==
    /\ logs' = [logs EXCEPT ![ssrc] = log_add(@, seq)]
    /\ next_timeout' = IF next_timeout = Never THEN Interval ELSE next_timeout
InTime(n) == n > Max0(arrived) - LogSize
ReadMedia(n) ==
    /\ sent[n] # Never
    /\ InTime(n)
    /\ Logged(MEDIA, Seq_of(n))
    /\ arrived' = arrived \cup {n}
    /\ base' = IF arrived = {} THEN n ELSE base
    /\ delivered' = delivered \cup {[seq |-> Seq_of(n), num |-> n]}
    /\ UNCHANGED <<scenario, sent, buf, rtx_sequence_number, nacks, resent, lost, nack_counts, asked>>
\* the generator sees a packet of the RTX stream as it is; past the chain, deencapsulate_rtx
\* gives it the sequence number of the packet it repeats
ReadResent(p) ==
    /\ InTime(p.num)
    /\ Logged(p.ssrc, p.seq)
    /\ arrived' = IF p.ssrc = MEDIA THEN arrived \cup {p.num} ELSE arrived
    /\ delivered' = delivered \cup {[seq |-> p.osn, num |-> p.num]}
    /\ resent' = resent \ {p}
    /\ UNCHANGED <<scenario, sent, buf, rtx_sequence_number, nacks, lost, nack_counts, base, asked>>

Limited == scenario.max_nacks > 0
Missing(ssrc) == missing_seq_numbers(logs[ssrc], scenario.skip)
\* the counts of the packets that are no longer missing are forgotten first
Counted(ssrc, seq) ==
    IF is_missing(logs[ssrc], seq, scenario.skip) THEN nack_counts[ssrc][seq] ELSE 0
Filtered(ssrc) ==
    IF Limited THEN SelectSeq(Missing(ssrc), LAMBDA seq : Counted(ssrc, seq) < scenario.max_nacks)
    ELSE Missing(ssrc)
Counts(ssrc) ==
    [seq \in 0 .. SeqSpace - 1 |->
        IF Missing(ssrc) = <<>> \/ ~Limited THEN 0
        ELSE Counted(ssrc, seq) + IF Contains(Filtered(ssrc), seq) THEN 1 ELSE 0]
NackFor(ssrc) == [media_ssrc |-> ssrc, nacks |-> nack_pairs_from_sequence_numbers(Filtered(ssrc))]
generate_nacks ==
    /\ nacks' = nacks \cup {NackFor(ssrc) : ssrc \in {s \in Bound : Filtered(s) # <<>>}}
    /\ nack_counts' = [ssrc \in Bound |-> Counts(ssrc)]
    /\ asked' = [n \in Numbers |->
                    IF Contains(Filtered(MEDIA), Seq_of(n)) /\ asked[n] <= scenario.max_nacks
                    THEN asked[n] + 1 ELSE asked[n]]
GeneratorTimeout ==
    /\ next_timeout = 0
    /\ Cardinality(nacks) < InFlight
    /\ next_timeout' = Interval
    /\ generate_nacks
    /\ UNCHANGED <<scenario, sent, buf, rtx_sequence_number, resent, lost, logs, base, arrived, delivered>>

(***************************************************************************)
(* Time and the network.                                                    *)
(***************************************************************************)
Tick ==
    /\ sent' = IF scenario.ages
               THEN [n \in Numbers |-> IF sent[n] = Never THEN Never ELSE Older(sent[n])] ELSE sent
    /\ buf' = IF scenario.ages THEN aged(buf) ELSE buf
    /\ next_timeout' = IF next_timeout > 0 THEN next_timeout - 1 ELSE next_timeout
    /\ UNCHANGED <<scenario, rtx_sequence_number, nacks, resent, lost, logs, nack_counts, base, arrived, delivered, asked>>
Lose ==
    /\ lost < Losses
    /\ lost' = lost + 1
    /\ \/ \E m \in nacks : nacks' = nacks \ {m} /\ UNCHANGED resent
       \/ \E p \in resent : resent' = resent \ {p} /\ UNCHANGED nacks
    /\ UNCHANGED <<scenario, sent, buf, rtx_sequence_number, logs, nack_counts, next_timeout, base, arrived, delivered, asked>>
\* a retransmission that was overtaken by a whole log does not arrive
TooLate ==
    /\ resent' = {p \in resent : InTime(p.num)}
    /\ resent' # resent
    /\ UNCHANGED <<scenario, sent, nacks, lost, buf, rtx_sequence_number, logs, nack_counts, next_timeout, base, arrived, delivered, asked>>

Init ==
    /\ scenario \in Scenarios
    /\ sent = [n \in Numbers |-> Never] /\ buf = NewBuffer(scenario.ages) /\ rtx_sequence_number = 0
    /\ nacks = {} /\ resent = {} /\ lost = 0
    /\ logs = [ssrc \in Bound |-> NewLog]
    /\ nack_counts = [ssrc \in Bound |-> [seq \in 0 .. SeqSpace - 1 |-> 0]]
    /\ next_timeout = Never /\ base = FirstPacket /\ arrived = {} /\ delivered = {} /\ asked = [n \in Numbers |-> 0]
NacksRead == \E m \in nacks : ReadNack(m)
ResentRead == \E p \in resent : ReadResent(p)
Next ==
    \/ \E n \in Numbers : Write(n) \/ ReadMedia(n)
    \/ NacksRead \/ ResentRead \/ GeneratorTimeout \/ ResponderTimeout \/ Tick \/ Lose \/ TooLate
Spec == Init /\ [][Next]_vars

(***************************************************************************)
(* Properties.                                                              *)
(***************************************************************************)
Named(ns) == UNION {ToSet(packet_lists(m.nacks)) : m \in {x \in ns : x.media_ssrc = MEDIA}}
Gaps ==
    {n \in Numbers : /\ arrived # {} /\ n > base /\ n \notin arrived
                     /\ n <= Max0(arrived) - scenario.skip /\ n > Max0(arrived) - LogSize}
\* A round asks for exactly the packets that are missing: those the log has not been given, since
\* the first packet and within the window, but for the last skip_last_n numbers.  With a limit on
\* the NACKs of a packet, none is asked for more often.
AsksForGaps ==
    GeneratorTimeout =>
         LET round == {NackFor(s) : s \in {x \in Bound : Filtered(x) # <<>>}}
         IN /\ Named(round) \subseteq {Seq_of(n) : n \in Gaps}
            /\ {Seq_of(n) : n \in {g \in Gaps : ~Limited \/ asked[g] < scenario.max_nacks}} \subseteq Named(round)
            /\ Limited => \A n \in Numbers : asked'[n] <= scenario.max_nacks

\* A NACK is answered with packets it names, each under its own number and none
\* that is older than the age limit.
AnswersRequest ==
    \A m \in nacks : ReadNack(m) =>
         \A p \in resent' \ resent :
            /\ Seq_of(p.num) \in Named({m}) /\ p.osn = Seq_of(p.num)
            /\ scenario.ages => sent[p.num] < MaxAge

Kept(n) == get(buf, Seq_of(n)).num = n
Held == {i \in 0 .. BufSize - 1 : buf.packets[i] # NoEntry}
\* The history keeps what its limits allow and no more: a packet of the window that is not too old
\* and that fits into the byte limit with all that was sent after it can be sent again; the byte
\* count is exact, only the newest packet may exceed it, and a timer covers what is held.
HistoryExact ==
    /\ \A n \in Written :
        ( /\ n > Max(Written) - BufSize
          /\ scenario.ages => sent[n] < MaxAge
          /\ MapThenSumSet(Size_of, {m \in Written : m >= n}) <= MaxBytes )
        => Kept(n)
    /\ buf.bytes = MapThenSumSet(LAMBDA i : buf.packets[i].size, Held)
    /\ buf.bytes > MaxBytes => Held = {buf.highest_added % BufSize}
    /\ Held # {} => buf.newest # Never
=============================================================================
