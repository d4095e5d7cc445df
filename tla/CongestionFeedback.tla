------------------------- MODULE CongestionFeedback -------------------------
(***************************************************************************)
(* What a sender learns of the packets it sends: the interceptor that       *)
(* numbers them, the one that records their arrival and reports it, as      *)
(* transport-wide feedback (TWCC) or as RFC 8888 reports, and the           *)
(* CongestionControlInterceptor that joins the reports with its history of  *)
(* what was sent and hands the result to the bandwidth estimator.           *)
(*                                                                          *)
(* Packet n, from 0, is the n-th transmission.  Transport-wide feedback      *)
(* numbers transmissions; RFC 8888 reports on RTP numbers, which a plain     *)
(* retransmission of the NACK responder uses again.  The receiver's clock    *)
(* starts with the first packet that arrives.                               *)
(***************************************************************************)
EXTENDS Integers, Sequences, FiniteSets, FiniteSetsExt, SequencesExt

(***************************************************************************)
(* PacketArrivalTimeMap: the arrival times of a window of packets in a      *)
(* circular buffer that grows and shrinks by powers of two.  Numbers are    *)
(* unwrapped; -1 stands for a packet that was not received.                 *)
(***************************************************************************)

CONSTANTS MIN_CAPACITY,             \* 128 in the code
          MAX_NUMBER_OF_PACKETS     \* 2^15 in the code

NotReceived == -1
NewMap == [times |-> <<>>, capacity |-> 0, begin |-> 0, end |-> 0]
index(m, sn) == sn % m.capacity
Larger(a, b) == IF a > b THEN a ELSE b
Smaller(a, b) == IF a < b THEN a ELSE b

\* the window's times in a buffer of another size
reallocate(m, capacity) ==
    LET kept == Larger(m.begin, m.end - capacity) .. m.end - 1
    IN [m EXCEPT !.capacity = capacity,
                 !.times = [i \in 0 .. capacity - 1 |->
                              IF \E sn \in kept : sn % capacity = i
                              THEN m.times[index(m, CHOOSE sn \in kept : sn % capacity = i)] ELSE NotReceived]]
\* doubled until it fits; halved while it is at least twice what is needed
Powers == {2 ^ k : k \in 0 .. 6}
Grown(capacity, size) == Min({c \in {capacity * p : p \in Powers} : c >= size})
Shrunk(capacity, size) == Max({c \in {capacity \div p : p \in Powers} : c < 2 * Larger(size, MIN_CAPACITY)})
Fitted(m, size) == IF size > m.capacity THEN reallocate(m, Grown(m.capacity, size)) ELSE m
Trimmed(m, size) ==
    IF m.capacity > Larger(MIN_CAPACITY, size * 4) THEN reallocate(m, Shrunk(m.capacity, size)) ELSE m
adjust_to_size(m, size) == Trimmed(Fitted(m, size), size)

set_not_received(m, start, end) ==
    [m EXCEPT !.times = [i \in 0 .. m.capacity - 1 |->
                           IF \E sn \in start .. end - 1 : index(m, sn) = i THEN NotReceived ELSE @[i]]]
set_time(m, sn, time) == [m EXCEPT !.times[index(m, sn)] = time]

add_first(sn, time) == set_time([reallocate(NewMap, MIN_CAPACITY) EXCEPT !.begin = sn, !.end = sn + 1], sn, time)
add_before(m, sn, time) ==
    IF m.end - sn > MAX_NUMBER_OF_PACKETS THEN m
    ELSE [set_not_received(set_time(adjust_to_size(m, m.end - sn), sn, time), sn + 1, m.begin) EXCEPT !.begin = sn]
add_after(m, sn, time) ==
    IF sn + 1 >= m.end + MAX_NUMBER_OF_PACKETS
    THEN set_time([m EXCEPT !.begin = sn, !.end = sn + 1], sn, time)
    ELSE LET moved == [m EXCEPT !.begin = Larger(@, sn + 1 - MAX_NUMBER_OF_PACKETS)]
             fitted == adjust_to_size(moved, sn + 1 - moved.begin)
         IN set_time([set_not_received(fitted, m.end, sn) EXCEPT !.end = sn + 1], sn, time)
add_packet(m, sn, time) ==
    IF m.capacity = 0 THEN add_first(sn, time)
    ELSE IF sn < m.begin THEN add_before(m, sn, time)
    ELSE IF sn >= m.end THEN add_after(m, sn, time)
    ELSE set_time(m, sn, time)

clamp(m, sn) == Larger(m.begin, Smaller(sn, m.end))
get_time(m, sn) == IF sn < m.begin \/ sn >= m.end THEN NotReceived ELSE m.times[index(m, sn)]
has_received(m, sn) == get_time(m, sn) >= 0
\* the numbers of a run whose time is later than a limit
position_after(m, start, end, limit) == {sn \in start .. end - 1 : m.times[index(m, sn)] > limit}
\* the next packet received; the end of the map when there is none
find_next_at_or_after(m, sn) == Min({m.end} \cup position_after(m, clamp(m, sn), m.end, NotReceived))
\* from the beginning, up to the first that is not old
remove_old_packets(m, sn, limit) ==
    LET check_to == Larger(m.begin, Smaller(sn, m.end))
        begin == Min({check_to} \cup position_after(m, m.begin, check_to, limit))
    IN adjust_to_size([m EXCEPT !.begin = begin], m.end - begin)

-----------------------------------------------------------------------------
(***************************************************************************)
(* Transport-wide congestion control feedback: the recorder that the        *)
(* receiving interceptor fills and empties, the status chunks and deltas it *)
(* packs the arrivals into, and what the sending side reads from them.      *)
(***************************************************************************)

CONSTANTS SeqSpace,
          PACKET_WINDOW,            \* 500 ms in the code
          MAX_MISSING,              \* missing numbers before the first received one: 0x7FFE
          TICK,                     \* unit of the reference time: 64 ms
          SCALE,                    \* unit of a delta: 250 microseconds
          SMALL, LARGE,             \* largest small and large delta: 0xff and 2^15 - 1
          MAX_RUN_LENGTH_CAP, MAX_ONE_BIT_CAP, MAX_TWO_BIT_CAP

NoNumber == -1000             \* below every unwrapped number
(***************************************************************************)
(* Recorder.                                                                *)
(***************************************************************************)
NewRecorder == [map |-> NewMap, last_unwrapped |-> NoNumber, start |-> NoNumber, fb_pkt_cnt |-> 0]
\* the number nearest to the last one
Nearest(diff) ==
    IF diff > SeqSpace \div 2 THEN diff - SeqSpace
    ELSE IF diff < -(SeqSpace \div 2) THEN diff + SeqSpace ELSE diff
unwrap(last, seq) == IF last = NoNumber THEN seq ELSE last + Nearest(seq - (last % SeqSpace))

maybe_cull_old_packets(r, sn, time) ==
    IF r.start # NoNumber /\ r.start >= r.map.end /\ time >= PACKET_WINDOW
    THEN [r EXCEPT !.map = remove_old_packets(@, sn, time - PACKET_WINDOW)] ELSE r
\* only the first arrival of a packet counts
Recorded(r, sn, time) ==
    LET lowered == [r EXCEPT !.last_unwrapped = sn, !.start = IF @ = NoNumber THEN sn ELSE Smaller(@, sn)]
        added == [lowered EXCEPT !.map = add_packet(@, sn, time)]
    IN IF has_received(r.map, sn) THEN lowered ELSE [added EXCEPT !.start = Larger(@, added.map.begin)]
record(r, seq, time) ==
    LET sn == unwrap(r.last_unwrapped, seq) IN Recorded(maybe_cull_old_packets(r, sn, time), sn, time)

(***************************************************************************)
(* Status chunks.                                                           *)
(***************************************************************************)
LostSymbol == "PacketNotReceived"
SmallDelta == "PacketReceivedSmallDelta"
LargeDelta == "PacketReceivedLargeDelta"
different_types(symbols) == \E i \in 1 .. Len(symbols) : symbols[i] # symbols[1]
large_delta(symbols) == \E i \in 1 .. Len(symbols) : symbols[i] = LargeDelta
can_add(symbols, s) ==
    \/ Len(symbols) < MAX_TWO_BIT_CAP
    \/ Len(symbols) < MAX_ONE_BIT_CAP /\ ~large_delta(symbols) /\ s # LargeDelta
    \/ Len(symbols) < MAX_RUN_LENGTH_CAP /\ ~different_types(symbols) /\ s = symbols[1]
\* how many symbols one encoded chunk takes
taken(symbols) ==
    IF ~different_types(symbols) \/ Len(symbols) = MAX_ONE_BIT_CAP THEN Len(symbols)
    ELSE Smaller(MAX_TWO_BIT_CAP, Len(symbols))
\* on the wire a vector is full: the missing symbols read as packets that are lost
Padding(n) == [i \in 1 .. n |-> LostSymbol]
Encoded(symbols) ==
    IF ~different_types(symbols) \/ Len(symbols) = MAX_ONE_BIT_CAP THEN symbols
    ELSE SubSeq(symbols, 1, taken(symbols)) \o Padding(MAX_TWO_BIT_CAP - taken(symbols))
encode(fb) ==
    [fb EXCEPT !.chunks = Append(@, Encoded(fb.last_chunk)),
               !.last_chunk = SubSeq(fb.last_chunk, taken(fb.last_chunk) + 1, Len(fb.last_chunk))]
\* a chunk that cannot take the symbol is encoded first
add_symbol(fb, s) ==
    LET room == IF can_add(fb.last_chunk, s) THEN fb ELSE encode(fb)
    IN [room EXCEPT !.last_chunk = Append(@, s), !.count = @ + 1, !.next = (@ + 1) % SeqSpace]

(***************************************************************************)
(* Feedback.                                                                *)
(***************************************************************************)
NewFeedback(base, time, cnt) ==
    [base |-> base, next |-> base, ref |-> time \div TICK, last_time |-> (time \div TICK) * TICK,
     count |-> 0, last_chunk |-> <<>>, chunks |-> <<>>, deltas |-> <<>>, fb_pkt_cnt |-> cnt]
\* rounded to the nearest unit, away from zero
Rounded(d) == IF d >= 0 THEN (d + SCALE \div 2) \div SCALE ELSE -((SCALE \div 2 - d) \div SCALE)
Fits(fb, time) == Rounded(time - fb.last_time) \in -(LARGE + 1) .. LARGE
SymbolFor(delta) == IF delta \in 0 .. SMALL THEN SmallDelta ELSE LargeDelta
Missed(fb, seq) ==
    LET RECURSIVE after(_)
        after(f) == IF f.next = seq THEN f ELSE after(add_symbol(f, LostSymbol))
    IN after(fb)
(* mutant: the running time is not moved on by the delta written *)
Arrived_unmoved(fb, delta) == [add_symbol(fb, SymbolFor(delta)) EXCEPT !.deltas = Append(@, delta * SCALE)]
Arrived(fb, delta) ==
    [add_symbol(fb, SymbolFor(delta)) EXCEPT !.deltas = Append(@, delta * SCALE), !.last_time = @ + delta * SCALE]
add_received(fb, seq, time) == Arrived(Missed(fb, seq), Rounded(time - fb.last_time))
get_rtcp(fb) ==
    LET RECURSIVE flushed(_)
        flushed(f) == IF f.last_chunk = <<>> THEN f ELSE flushed(encode(f))
        done == flushed(fb)
    IN [base |-> fb.base, count |-> fb.count, reference_time |-> fb.ref, fb_pkt_count |-> fb.fb_pkt_cnt,
        chunks |-> done.chunks, deltas |-> done.deltas]

\* one packet of feedback from a number on: until the end, or a delta that does not fit
Filled(m, fb, from) ==
    LET RECURSIVE after(_, _)
        after(f, sn) ==
          LET seq == find_next_at_or_after(m, sn)
          IN IF seq >= m.end \/ ~Fits(f, get_time(m, seq)) THEN [fb |-> f, next |-> sn]
             ELSE after(add_received(f, seq % SeqSpace, get_time(m, seq)), seq + 1)
    IN after(fb, from)
maybe_build_feedback_packet(r, begin) ==
    LET seq == find_next_at_or_after(r.map, begin)
        base == Larger(begin, seq - MAX_MISSING)
    IN Filled(r.map, NewFeedback(base % SeqSpace, get_time(r.map, seq), r.fb_pkt_cnt), seq)
\* all that has arrived since the last time, in as many packets as it takes
build_feedback_packet(r) ==
    LET RECURSIVE after(_, _)
        after(s, feedbacks) ==
          IF s.start = NoNumber \/ s.start >= s.map.end \/ find_next_at_or_after(s.map, s.start) >= s.map.end
          THEN [recorder |-> s, feedbacks |-> feedbacks]
          ELSE LET built == maybe_build_feedback_packet(s, s.start)
               IN after([s EXCEPT !.start = built.next, !.fb_pkt_cnt = (@ + 1) % 256],
                        Append(feedbacks, get_rtcp(built.fb)))
    IN after(r, <<>>)

(***************************************************************************)
(* The sending side: convert_twcc.                                          *)
(***************************************************************************)
Lost(seq) == [seq |-> seq, arrived |-> FALSE, arrival |-> NoNumber]
Received(seq, arrival) == [seq |-> seq, arrived |-> TRUE, arrival |-> arrival]
convert_twcc(fb) ==
    LET RECURSIVE push(_, _, _, _)
        push(symbols, arrival, deltas, acks) ==
          LET seq == (fb.base + Len(acks)) % SeqSpace
              at == IF deltas # <<>> THEN arrival + deltas[1] ELSE arrival
          IN IF symbols = <<>> THEN acks
             ELSE IF symbols[1] = LostSymbol THEN push(Tail(symbols), arrival, deltas, Append(acks, Lost(seq)))
             ELSE IF deltas = <<>> THEN push(Tail(symbols), arrival, deltas, Append(acks, Received(seq, NoNumber)))
             ELSE push(Tail(symbols), Larger(at, 0), Tail(deltas), Append(acks, Received(seq, Larger(at, 0))))
    IN push(FlattenSeq(fb.chunks), fb.reference_time * TICK, fb.deltas, <<>>)

-----------------------------------------------------------------------------
(***************************************************************************)
(* RFC 8888 congestion control feedback on one stream: the log of arrivals  *)
(* of the receiving interceptor, the report block it makes of it, and what  *)
(* the sending side reads from the block.                                   *)
(***************************************************************************)

CONSTANTS MAX_REPORTS,      \* packets that a report can describe, by the byte budget and the format
          OFFSET_MAX        \* largest arrival offset: 0x1FFD in the code

None == -1
(***************************************************************************)
(* SequenceExtender: the cycle nearest to the highest number.               *)
(***************************************************************************)
Distance(diff) == IF diff >= SeqSpace \div 2 THEN diff - SeqSpace ELSE diff
extend(highest, seq) ==
    IF highest = None THEN seq ELSE Larger(highest + Distance((seq - highest) % SeqSpace), 0)

(***************************************************************************)
(* StreamLog.  log maps an extended number to its arrival.                  *)
(***************************************************************************)
NewStreamLog == [extender |-> None, next_to_report |-> 0, highest_received |-> 0, initialised |-> FALSE, log |-> <<>>]
\* a packet older than the report window has been reported
log_packet(l, seq, time) ==
    LET extended == extend(l.extender, seq)
        begun == [l EXCEPT !.extender = Larger(@, extended), !.initialised = TRUE,
                           !.next_to_report = IF l.initialised THEN @ ELSE extended]
    IN IF extended < begun.next_to_report THEN begun
       ELSE [begun EXCEPT !.highest_received = Larger(@, extended),
                          !.log = [n \in DOMAIN @ \cup {extended} |-> IF n = extended THEN time ELSE @[n]]]
log_is_empty(l) == DOMAIN l.log = {}

AFTER_REPORT == OFFSET_MAX + 2
TOO_OLD == OFFSET_MAX + 1
arrival_time_offset(reference, arrival) ==
    IF arrival > reference THEN AFTER_REPORT
    ELSE IF reference - arrival > OFFSET_MAX THEN TOO_OLD
    ELSE reference - arrival
\* the oldest end of a window too long for a report is given up
Shortened(l) ==
    LET new_next == l.highest_received + 1 - MAX_REPORTS
    IN IF l.highest_received - l.next_to_report + 1 <= MAX_REPORTS THEN l
       ELSE [l EXCEPT !.next_to_report = new_next,
                      !.log = [n \in {m \in DOMAIN @ : m >= new_next} |-> @[n]]]
\* the window advances over what was received without a gap
Advanced(l) ==
    LET next == Min({n \in l.next_to_report .. l.highest_received + 1 : n \notin DOMAIN l.log})
    IN [l EXCEPT !.next_to_report = next, !.log = [n \in {m \in DOMAIN @ : m >= next} |-> @[n]]]
Metrics(l, reference) ==
    [i \in 1 .. l.highest_received - l.next_to_report + 1 |->
        LET n == l.next_to_report + i - 1
        IN IF n \in DOMAIN l.log THEN [received |-> TRUE, offset |-> arrival_time_offset(reference, l.log[n])]
           ELSE [received |-> FALSE, offset |-> 0]]
Block(l, reference) == [begin_sequence |-> l.next_to_report % SeqSpace, metric_blocks |-> Metrics(l, reference)]
metrics_after(l, reference) ==
    IF log_is_empty(l)
    THEN [log |-> l, block |-> [begin_sequence |-> l.next_to_report % SeqSpace, metric_blocks |-> <<>>]]
    ELSE [log |-> Advanced(Shortened(l)), block |-> Block(Shortened(l), reference)]

(***************************************************************************)
(* The sending side: convert_ccfb.                                          *)
(***************************************************************************)
convert_ccfb(block) ==
    [i \in 1 .. Len(block.metric_blocks) |->
        LET m == block.metric_blocks[i]
        IN [seq |-> (block.begin_sequence + i - 1) % SeqSpace, arrived |-> m.received,
            arrival |-> IF ~m.received \/ m.offset = AFTER_REPORT THEN None ELSE m.offset]]

-----------------------------------------------------------------------------
CONSTANTS Interval,         \* ticks between two reports
          PruneHorizon,     \* ticks that a packet without a verdict is kept
          FirstSeq,         \* sequence number of packet 0
          Packets, Ticks,
          Reorder,          \* how many numbers late a packet arrives, at most
          InFlight,         \* a report is made with fewer than this on their way
          Plans             \* the feedback's format, whether packets repeat (within PACKET_WINDOW),
                            \* whether they are sent again under their number, and whether
                            \* feedback may be lost and overtaken

VARIABLES plan, now,
          sent,             \* the numbers of the transmissions so far
          next_id, packets, seq_index, highest_acknowledged, next_to_report,     \* History
          start_time, recorder, log, next_timeout,                               \* the receiving interceptors
          arrivals,         \* when copies of each packet arrived, on the receiver's clock
          feedback,         \* reports on their way
          clean,            \* no report was lost or overtaken
          verdicts          \* what the estimator was told
history == <<next_id, packets, seq_index, highest_acknowledged, next_to_report>>
receiver == <<start_time, recorder, log, next_timeout, arrivals>>
vars == <<plan, now, sent, history, receiver, feedback, clean, verdicts>>

Numbers == 0 .. Packets - 1
Seqs == 0 .. SeqSpace - 1
Seq_of(n) == sent[n + 1]
Fresh == (FirstSeq + Cardinality(ToSet(sent))) % SeqSpace
IsTwcc == plan.format = "twcc"

(***************************************************************************)
(* The sender: TwccSenderInterceptor numbers, History records.              *)
(***************************************************************************)
add_outgoing(seq) ==
    /\ next_id' = next_id + 1
    /\ seq_index' = [seq_index EXCEPT ![seq] = next_id]
    /\ packets' = packets \cup {[id |-> next_id, seq |-> seq, arrived |-> FALSE, arrival |-> None, departure |-> now]}
\* the application sends two packets an instant
Paced(t) == 2 * (t + 1)
Send(seq) ==
    /\ Len(sent) < Packets /\ Len(sent) < Paced(now)
    /\ seq # Fresh => plan.resends
    /\ sent' = Append(sent, seq)
    /\ add_outgoing(seq)
    /\ UNCHANGED <<plan, now, highest_acknowledged, next_to_report, receiver, feedback, clean, verdicts>>

\* the packets after a feedback's acknowledgements; unknown numbers are passed over
Acked(acks, seq) == {i \in 1 .. Len(acks) : acks[i].seq = seq}
apply(acks, p) ==
    IF seq_index[p.seq] # p.id \/ Acked(acks, p.seq) = {} THEN p
    ELSE LET a == acks[Max(Acked(acks, p.seq))] IN [p EXCEPT !.arrived = a.arrived, !.arrival = a.arrival]
\* all up to the highest packet that arrived, in the order sent
take_reports(known, highest) ==
    LET due == {p \in known : p.id <= highest}
    IN /\ packets' = known \ due
       /\ seq_index' = [s \in Seqs |-> IF \E p \in due : p.seq = s THEN None ELSE seq_index[s]]
       /\ highest_acknowledged' = highest
       /\ next_to_report' = Larger(next_to_report, highest + 1)
       /\ verdicts' = verdicts \cup due
Highest(known) == Max({highest_acknowledged} \cup {p.id : p \in {q \in known : q.arrived}})
Applied(acks) == {apply(acks, p) : p \in packets}
ingest(acks) == take_reports(Applied(acks), Highest(Applied(acks)))
Acknowledgements(f) == IF IsTwcc THEN convert_twcc(f.report) ELSE convert_ccfb(f.report)
ReadFeedback(f) ==
    /\ ~plan.overtakes => \A g \in feedback : f.number <= g.number
    /\ ingest(Acknowledgements(f))
    /\ feedback' = feedback \ {f}
    /\ clean' = (clean /\ \A g \in feedback : f.number <= g.number)
    /\ UNCHANGED <<plan, now, sent, next_id, receiver>>
\* handle_timeout: prune_before
Stale == {p \in packets : now - p.departure > PruneHorizon /\ ~p.arrived}
SenderTimeout ==
    /\ Stale # {}
    /\ packets' = packets \ Stale
    /\ seq_index' = [s \in Seqs |-> IF \E p \in Stale : p.seq = s THEN None ELSE seq_index[s]]
    /\ UNCHANGED <<plan, now, sent, next_id, highest_acknowledged, next_to_report, receiver, feedback, clean, verdicts>>

(***************************************************************************)
(* The receiver: TwccReceiverInterceptor or Rfc8888Interceptor.             *)
(***************************************************************************)
Started(t) == IF start_time = None THEN t ELSE start_time
ReadRtp(n) ==
    /\ n < Len(sent)
    /\ \A m \in Numbers : arrivals[m] # {} => n >= m - Reorder
    /\ arrivals[n] # {} => plan.repeats /\ now - start_time - Min(arrivals[n]) < PACKET_WINDOW
    /\ start_time' = Started(now)
    /\ next_timeout' = IF next_timeout = None THEN now + Interval ELSE next_timeout
    /\ recorder' = IF IsTwcc THEN record(recorder, Seq_of(n), now - start_time') ELSE recorder
    /\ log' = IF IsTwcc THEN log ELSE log_packet(log, Seq_of(n), now)
    /\ arrivals' = [arrivals EXCEPT ![n] = @ \cup {now - start_time'}]
    /\ UNCHANGED <<plan, now, sent, history, feedback, clean, verdicts>>
Sent_as(number, report) == [number |-> number, at |-> now - start_time, report |-> report]
TwccFeedback(built) ==
    /\ recorder' = built.recorder
    /\ feedback' = feedback \cup {Sent_as(10 * now + i, built.feedbacks[i]) : i \in 1 .. Len(built.feedbacks)}
    /\ UNCHANGED log
CcfbReport(built) ==
    /\ log' = built.log
    /\ feedback' = feedback \cup {Sent_as(10 * now, built.block)}
    /\ UNCHANGED recorder
ReceiverTimeout ==
    /\ next_timeout # None /\ now >= next_timeout
    /\ Cardinality(feedback) < InFlight
    /\ next_timeout' = now + Interval
    /\ IF IsTwcc THEN TwccFeedback(build_feedback_packet(recorder))
       ELSE IF log_is_empty(log) THEN UNCHANGED <<recorder, log, feedback>>
       ELSE CcfbReport(metrics_after(log, now))
    /\ UNCHANGED <<plan, now, sent, history, start_time, arrivals, clean, verdicts>>

Lose ==
    /\ plan.overtakes
    /\ \E f \in feedback : feedback' = feedback \ {f}
    /\ clean' = FALSE
    /\ UNCHANGED <<plan, now, sent, history, receiver, verdicts>>
Tick ==
    /\ now < Ticks
    /\ Len(sent) \in {Packets, Paced(now)}
    /\ now' = now + 1
    /\ UNCHANGED <<plan, sent, history, receiver, feedback, clean, verdicts>>

Init ==
    /\ plan \in Plans /\ now = 0 /\ sent = <<>>
    /\ next_id = 0 /\ packets = {} /\ seq_index = [s \in Seqs |-> None]
    /\ highest_acknowledged = None /\ next_to_report = 0
    /\ start_time = None /\ recorder = NewRecorder /\ log = NewStreamLog /\ next_timeout = None
    /\ arrivals = [n \in Numbers |-> {}]
    /\ feedback = {} /\ clean = TRUE /\ verdicts = {}
Next ==
    \/ SenderTimeout \/ ReceiverTimeout \/ Lose \/ Tick
    \/ \E seq \in {Fresh} \cup ToSet(sent) : Send(seq)
    \/ \E n \in Numbers : ReadRtp(n)
    \/ \E f \in feedback : ReadFeedback(f)
Spec == Init /\ [][Next]_vars

(***************************************************************************)
(* Properties.                                                              *)
(***************************************************************************)
Near(a, b) == a - b \in -(SCALE \div 2) .. SCALE \div 2
Copies(seq, last) == {n \in 0 .. last : Seq_of(n) = seq}
\* What the estimator is told of a packet is true, and it is told once: a packet said to have
\* arrived did, and transport-wide feedback gives its arrival to half a unit, however the chunks
\* split it and whatever was reordered, repeated or reported before.  Under RFC 8888 the record of a
\* packet sent again may be settled by the report on an earlier transmission of its number: the
\* history keeps one record under a number, that of the last.
VerdictsTrue ==
    /\ \A p \in verdicts : p.arrived => \E n \in Copies(p.seq, p.id) : arrivals[n] # {}
    /\ \A p \in verdicts : p.arrived /\ IsTwcc => Near(p.arrival, Min(arrivals[p.id]))
    /\ \A p, q \in verdicts : p.id = q.id => p = q
    /\ \A p \in packets : ~p.arrived /\ \A q \in verdicts : q.id < p.id

Covered(f) == {Acknowledgements(f)[i].seq : i \in 1 .. Len(Acknowledgements(f))}
SentOnce(p) == Cardinality(Copies(p.seq, Len(sent) - 1)) = 1
\* As long as no report is lost or overtaken, a packet is told lost only when it had not arrived
\* by the time of the report that told it.  An RFC 8888 report vouches only for the packets it
\* describes: not for those before the first that arrived, nor those past its byte budget; and not
\* for a packet sent again, whose two transmissions share a record.
LossesReal ==
    (clean' /\ clean) =>
         \A f \in feedback \ feedback' : \A p \in verdicts' \ verdicts :
            ~p.arrived /\ (IsTwcc \/ (p.seq \in Covered(f) /\ SentOnce(p)))
                => \A t \in arrivals[p.id] : t >= f.at

Ago(f, t) == Min({f.at - t, TOO_OLD})
\* the packets logged under p's number: SequenceExtender clamps what came before the origin to 0
LoggedAs(p) ==
    Copies(p.seq, p.id)
        \cup {n \in 0 .. Len(sent) - 1 : p.seq = 0 /\ log.extender < SeqSpace \div 2 /\ Seq_of(n) >= SeqSpace \div 2}
\* The arrival that an RFC 8888 report gives is how long before the report a copy of the packet
\* came in, TOO_OLD at most; where the stream was first heard at number 0, that of number 0 may be
\* the arrival of a packet sent before it.
OffsetsTrue ==
    \A f \in feedback \ feedback' : \A p \in verdicts' \ verdicts :
        p.arrived /\ ~IsTwcc => \E n \in LoggedAs(p) : \E t \in arrivals[n] : p.arrival = Ago(f, t)
=============================================================================
