---------------------------- MODULE SctpPartial ----------------------------
(***************************************************************************)
(* Partial reliability: the abandonment of messages by the sender, the     *)
(* FORWARD-TSN chunk, and the receiver's reassembly queues                 *)
(* (association/mod.rs, association/stream.rs, queue/*.rs), in one         *)
(* direction of an established association.                                *)
(*                                                                         *)
(* A message is a list of fragments of one byte each.  TSNs and SSNs are   *)
(* natural numbers.  The windows are left open: a pass over a queue may    *)
(* stop at any chunk, and every fragment that arrives finds room           *)
(* (SctpTransfer has both windows and the limit of T3).                    *)
(***************************************************************************)
EXTENDS Naturals, Sequences, FiniteSetsExt, SequencesExt

CONSTANTS
    Plans,        \* what the application may write, in order: sequences over MessageType
    Opened,       \* the streams the receiver's application opens itself
    NetBound      \* bound of the model: packets in transit

MessageType == [si : Nat, generation : Nat, unordered : BOOLEAN, frags : Nat \ {0},
                policy : {"Reliable", "Rexmit", "Timed", "TimedZero"}, max_retransmits : Nat]

VARIABLES
    messages,   \* the plan the application follows, and the SSN each message will get
    snd,        \* the sender's side of the association
    rcv,        \* the receiver's side
    expired,    \* the messages whose lifetime has run out
    net

M == DOMAIN messages
Streams == {messages[m].si : m \in M}
Unordered == {messages[m].si : m \in {m \in M : messages[m].unordered}}
Chunks == {[msg |-> m, frag |-> f] : m \in M, f \in 1 .. Max({messages[k].frags : k \in M})}
Fragments(m) == {[msg |-> m, frag |-> f] : f \in 1 .. messages[m].frags}
Count == FoldLeft(LAMBDA n, r : n + r.frags, 0, messages)

beginning_fragment(c) == c.frag = 1
ending_fragment(c) == c.frag = messages[c.msg].frags
ssn(m) == messages[m].ssn

SameStream(m, k) == /\ messages[m].si = messages[k].si
                    /\ messages[m].generation = messages[k].generation

\* The stream sequence number that packetize gives a message: unordered ones take the
\* number of the next ordered one.
Numbered(plan) ==
    [m \in DOMAIN plan |-> plan[m] @@ [ssn |->
        Cardinality({k \in 1 .. m - 1 : /\ plan[k].si = plan[m].si /\ ~ plan[k].unordered
                                        /\ plan[k].generation = plan[m].generation})]]

vars == <<messages, snd, rcv, expired, net>>

Empty == <<>>
NoStream == [si \in Streams |-> 0]

Init ==
    /\ messages \in {Numbered(plan) : plan \in Plans}
    /\ snd = [written |-> 0,                  \* messages written
              ordered |-> Empty, unordered |-> Empty,
              selected |-> "none",            \* the queue a partly sent message is in
              inflight |-> Empty, my_next_tsn |-> 1,
              cumulative |-> 0,               \* cumulative_tsn_ack_point
              advanced |-> 0,                 \* advanced_peer_tsn_ack_point
              fwd_map |-> [si \in Streams |-> {}],   \* fwd_tsn_stream_map: no or one message,
                                                     \* which stands for its SSN
              will_send_forward_tsn |-> FALSE,
              t3 |-> FALSE, t3_retransmit_pending |-> FALSE,
              generation |-> [si \in Streams |-> 1],
              buffered_amount |-> NoStream,
              given_up |-> {},                \* messages that were abandoned: history
              failed |-> FALSE]               \* an inconsistency has closed the association
    /\ rcv = [peer_last_tsn |-> 0, payload_queue |-> {},
              streams |-> Opened, next_ssn |-> NoStream,
              ordered |-> {}, unordered_chunks |-> {}, unordered |-> {},
              ack |-> FALSE, read |-> Empty,
              misled |-> {}]                  \* incarnations moved on by an SSN of another: history
    /\ expired = {m \in M : messages[m].policy = "TimedZero"}
    /\ net = {}

----------------------------------------------------------------------------
(* The sender's queues. *)

\* PendingQueue::peek.
Queue(s) == IF s.selected # "none" THEN s.selected
            ELSE IF s.unordered # Empty THEN "unordered" ELSE "ordered"
HasPending(s) == s[Queue(s)] # Empty
peek(s) == Head(s[Queue(s)])

\* PendingQueue::pop.
pop(s) == [s EXCEPT ![Queue(s)] = Tail(@),
                    !.selected = IF ending_fragment(peek(s)) THEN "none" ELSE Queue(s)]

Sent(c, n) == [msg |-> c.msg, frag |-> c.frag, nsent |-> n, held |-> TRUE,
               acknowledged |-> FALSE, abandoned |-> FALSE, retransmit |-> FALSE]

\* generate_next_tsn and PayloadQueue::push_no_check.
Push(s, chunk) == [s EXCEPT !.inflight = @ @@ (s.my_next_tsn :> chunk), !.my_next_tsn = @ + 1]

is_outstanding(c) == ~ c.acknowledged /\ ~ c.abandoned
is_current_stream_data(s, c) ==
    s.generation[messages[c.msg].si] = messages[c.msg].generation

\* release_stream_buffers: one byte for each chunk whose payload is released.
Release(s, chunks) ==
    [s EXCEPT !.buffered_amount = [si \in Streams |->
        @[si] - Cardinality({c \in chunks : /\ messages[c.msg].si = si
                                            /\ is_current_stream_data(s, c)})]]

----------------------------------------------------------------------------
(* Abandonment. *)

retransmission_policy_exhausted(c, is_candidate) ==
    LET r == messages[c.msg]
    IN  \/ r.policy = "Timed" /\ c.msg \in expired
        \/ r.policy = "TimedZero" /\ is_candidate
        \/ r.policy = "Rexmit" /\ is_candidate /\ c.nsent > r.max_retransmits

\* What to abandon: a range of TSNs, empty when 0, and the front of the pending queue.
ToAbandon(first, last, pending) == [first |-> first, last |-> last, pending |-> pending]

\* retransmit_message_to_abandon: from the beginning, or from what is left of it, to the
\* end, or to what is still pending.
retransmit_message_to_abandon(s, tsn) ==
    LET in == s.inflight
        first == Max({t \in s.cumulative + 1 .. tsn :
                         t = s.cumulative + 1 \/ beginning_fragment(in[t])})
        ends == {t \in tsn .. s.my_next_tsn - 1 : ending_fragment(in[t])}
    IN  ToAbandon(first, IF ends = {} THEN s.my_next_tsn - 1 ELSE Min(ends), ends = {})

\* ... whose fragments must all be of the candidate's message.
Consistent(s, tsn) ==
    LET a == retransmit_message_to_abandon(s, tsn)
        Same(c) == SameStream(c.msg, s.inflight[tsn].msg) /\ ssn(c.msg) = ssn(s.inflight[tsn].msg)
                   /\ messages[c.msg].unordered = messages[s.inflight[tsn].msg].unordered
    IN  /\ \A t \in a.first .. a.last : Same(s.inflight[t])
        /\ \A t \in a.first + 1 .. a.last : ~ beginning_fragment(s.inflight[t])
        /\ a.pending => HasPending(s) /\ ~ beginning_fragment(peek(s)) /\ Same(peek(s))

\* unretransmittable_messages: the messages in flight, in TSN order.
unretransmittable_messages(s) ==
    LET in == s.inflight
        lasts == {t \in DOMAIN in : ending_fragment(in[t]) \/ t = s.my_next_tsn - 1}
        First(last) == Max({t \in s.cumulative + 1 .. last :
                               t = s.cumulative + 1 \/ (t - 1) \in lasts})
        exhausted == {last \in lasts : \E t \in First(last) .. last :
                         is_outstanding(in[t]) /\ retransmission_policy_exhausted(in[t], TRUE)}
        ranges == [last \in exhausted |->
                      ToAbandon(First(last), last, ~ ending_fragment(in[last]))]
    IN  [i \in 1 .. Cardinality(exhausted) |-> ranges[SetToSortSeq(exhausted, <)[i]]]

\* pending_message_to_abandon: the message at the front of the pending queue.
pending_message_to_abandon(s) ==
    LET in == s.inflight
        ends == {t \in DOMAIN in : ending_fragment(in[t])}
        first == Max({s.cumulative + 1} \cup {t + 1 : t \in ends})
    IN  IF beginning_fragment(peek(s)) \/ first = s.my_next_tsn
        THEN ToAbandon(0, 0, TRUE)
        ELSE ToAbandon(first, s.my_next_tsn - 1, TRUE)

\* PendingQueue::drain_message takes the rest of the message at the front; it refuses a
\* rest without an end, or a front that is no message's beginning and of no selected one.
RestLen(s) == Min({i \in DOMAIN s[Queue(s)] : ending_fragment(s[Queue(s)][i])})
Rest(s) == SubSeq(s[Queue(s)], 1, RestLen(s))
drain_message(s) == [s EXCEPT ![Queue(s)] = SubSeq(@, RestLen(s) + 1, Len(@)), !.selected = "none"]
Drainable(s) ==
    /\ s.selected = "none" => beginning_fragment(peek(s))
    /\ \E i \in DOMAIN s[Queue(s)] :
          /\ ending_fragment(s[Queue(s)][i])
          /\ \A j \in 1 .. i : s[Queue(s)][j].msg = peek(s).msg

\* abandon_message: what is pending of the message gets TSNs, unless it is an unordered one
\* of which nothing was sent; then every chunk in the range is marked, and its payload
\* released unless it already is.
WithTail(s, a) ==
    IF a.first = 0 /\ beginning_fragment(peek(s)) /\ messages[peek(s).msg].unordered
    THEN Release(drain_message(s), ToSet(Rest(s)))
    ELSE FoldLeft(LAMBDA t, c : Push(t, Sent(c, 0)), drain_message(s), Rest(s))

Marked(s, range) ==
    [s EXCEPT !.inflight =
        [t \in range |-> [s.inflight[t] EXCEPT !.abandoned = TRUE, !.retransmit = FALSE,
                                               !.held = FALSE]] @@ @]

Abandon(s, range) ==
    [Release(Marked(s, range), {s.inflight[t] : t \in {t \in range : s.inflight[t].held}})
        EXCEPT !.given_up = @ \cup {s.inflight[t].msg : t \in range}]
AbandonFrom(s, first, last, next) ==
    Abandon(s, first .. (IF s.my_next_tsn > next THEN s.my_next_tsn - 1 ELSE last))
abandon_message(s, a) ==
    LET first == IF a.first = 0 THEN s.my_next_tsn ELSE a.first
    IN  IF ~ (a.pending /\ HasPending(s)) THEN Abandon(s, first .. a.last)
        ELSE IF ~ Drainable(s) THEN [s EXCEPT !.failed = TRUE]
        ELSE [AbandonFrom(WithTail(s, a), first, a.last, s.my_next_tsn)
                 EXCEPT !.given_up = @ \cup {peek(s).msg}]

\* note_abandoned_for_forward_tsn: the greatest SSN of a stream, the first of equal ones.
Greatest(set) == CHOOSE m \in set : \A k \in set : ssn(k) < ssn(m) \/ (ssn(k) = ssn(m) /\ m <= k)

\* advance_peer_ack_point: over the chunks that are abandoned, with the greatest SSN of each
\* ordered stream.
advance_peer_ack_point(s) ==
    LET run == {t \in s.advanced + 1 .. s.my_next_tsn - 1 :
                   \A u \in s.advanced + 1 .. t :
                      u \in DOMAIN s.inflight /\ s.inflight[u].abandoned}
        point == Max(run \cup {s.advanced})
        Noted(si) == {s.inflight[t].msg : t \in {t \in run :
                         /\ messages[s.inflight[t].msg].si = si
                         /\ ~ messages[s.inflight[t].msg].unordered}} \cup s.fwd_map[si]
    IN  [s EXCEPT !.advanced = point,
                  !.will_send_forward_tsn = @ \/ point > s.cumulative,
                  !.fwd_map = [si \in Streams |->
                      IF point > s.cumulative /\ Noted(si) # {} THEN {Greatest(Noted(si))} ELSE {}]]

\* on_messages_abandoned.
StartsT3(s) == [s EXCEPT !.t3 = @ \/ s.advanced > s.cumulative]
on_messages_abandoned(s) == StartsT3(advance_peer_ack_point(s))

\* The retries of candidates, in TSN order, up to a place where the window or the packet is
\* full: a candidate whose policy is exhausted has its message abandoned instead.
Step(s, tsn) ==
    IF s.failed \/ ~ is_outstanding(s.inflight[tsn])
          \/ ~ retransmission_policy_exhausted(s.inflight[tsn], TRUE)
    THEN s
    ELSE IF ~ Consistent(s, tsn) THEN [s EXCEPT !.failed = TRUE]
    ELSE on_messages_abandoned(abandon_message(s, retransmit_message_to_abandon(s, tsn)))

\* nsent, which is not told apart above the limit.
Again(c) == IF c.nsent > messages[c.msg].max_retransmits + 1 THEN c ELSE [c EXCEPT !.nsent = @ + 1]
Resend(s, candidates) ==
    LET again == {t \in candidates : ~ s.inflight[t].abandoned}
    IN  [s EXCEPT !.inflight =
            [t \in again |-> [Again(s.inflight[t]) EXCEPT !.retransmit = FALSE]] @@ @]
Retry(s, candidates) ==
    LET scan[t \in s.cumulative .. s.my_next_tsn - 1] ==
            IF t = s.cumulative THEN s
            ELSE IF t \in candidates THEN Step(scan[t - 1], t) ELSE scan[t - 1]
    IN  IF candidates = {} THEN s ELSE Resend(scan[s.my_next_tsn - 1], candidates)

----------------------------------------------------------------------------
(* The sender. *)

\* Stream::write_source and packetize.
write(m) ==
    /\ ~ snd.failed /\ m = snd.written + 1
    /\ snd.generation[messages[m].si] = messages[m].generation
    /\ LET q == IF messages[m].unordered THEN "unordered" ELSE "ordered"
           chunks == [f \in 1 .. messages[m].frags |-> [msg |-> m, frag |-> f]]
       IN  snd' = [snd EXCEPT !.written = m, ![q] = @ \o chunks,
                              !.buffered_amount[messages[m].si] = @ + messages[m].frags]
    /\ UNCHANGED <<messages, rcv, expired, net>>

\* The lifetime of a written message runs out.
Expire(m) ==
    /\ m \notin expired /\ m <= snd.written /\ messages[m].policy = "Timed"
    /\ expired' = expired \cup {m}
    /\ UNCHANGED <<messages, snd, rcv, net>>

\* get_data_packets_to_retransmit: the chunks T3 has marked, up to one.
MarkedToRetransmit(s) == {t \in DOMAIN s.inflight : s.t3_retransmit_pending /\ s.inflight[t].retransmit}
get_data_packets_to_retransmit(s, upto) ==
    [Retry(s, {t \in MarkedToRetransmit(s) : t <= upto}) EXCEPT
        !.t3_retransmit_pending = \E t \in MarkedToRetransmit(s) : t > upto]

\* pending_message_expired: an ordered message that was never sent is sent first.
pending_message_expired(c) ==
    /\ ~ beginning_fragment(c) \/ messages[c.msg].unordered
    /\ messages[c.msg].policy = "Timed" /\ c.msg \in expired

\* pop_pending_data_chunks_to_send, with room for n chunks: what has expired makes way.
pop_pending_data_chunks_to_send(s, n) ==
    LET One(t, i) ==
            IF t.failed \/ ~ HasPending(t) THEN t
            ELSE IF pending_message_expired(peek(t))
            THEN on_messages_abandoned(abandon_message(t, pending_message_to_abandon(t)))
            ELSE IF t.my_next_tsn >= s.my_next_tsn + n THEN t
            ELSE [Push(pop(t), Sent(peek(t), 1)) EXCEPT !.t3 = TRUE]
    IN  FoldLeft(One, s, [i \in 1 .. Len(s.ordered) + Len(s.unordered) |-> i])

\* gather_outbound_fast_retransmission_packets: the chunks reported missing, once.
Missing(s) == {t \in DOMAIN s.inflight :
                  /\ is_outstanding(s.inflight[t]) /\ s.inflight[t].nsent = 1
                  /\ \E u \in DOMAIN s.inflight : u > t /\ s.inflight[u].acknowledged}
gather_outbound_fast_retransmission_packets(s, upto) == Retry(s, {t \in Missing(s) : t <= upto})

Data(s, t) == [type |-> "DATA", tsn |-> t, msg |-> s.inflight[t].msg, frag |-> s.inflight[t].frag]

ForwardTsn(s) == [type |-> "FORWARD_TSN", new_cumulative_tsn |-> s.advanced,
                  streams |-> s.fwd_map]

\* gather_outbound: what T3 marked, new data, fast retransmissions, and the FORWARD-TSN.
gather_outbound ==
    /\ ~ snd.failed
    /\ \E upto \in {0} \cup MarkedToRetransmit(snd), fast \in {0} \cup Missing(snd), n \in 0 .. 2 :
       \E s1 \in {get_data_packets_to_retransmit(snd, upto)} :
       \E s2 \in {pop_pending_data_chunks_to_send(s1, n)} :
       \E s3 \in {gather_outbound_fast_retransmission_packets(s2, fast)} :
          LET tsns == {t \in MarkedToRetransmit(snd) : t <= upto /\ ~ s1.inflight[t].abandoned}
                 \cup {t \in DOMAIN s2.inflight \ DOMAIN s1.inflight : s2.inflight[t].nsent = 1}
                 \cup {t \in Missing(s2) : t <= fast /\ ~ s3.inflight[t].abandoned}
              forward == s3.will_send_forward_tsn /\ s3.advanced > s3.cumulative
          IN  /\ s3 # snd \/ forward
              /\ snd' = [s3 EXCEPT !.will_send_forward_tsn = FALSE]
              /\ net' = IF s3.failed THEN net
                        ELSE net \cup {Data(s3, t) : t \in tsns}
                                 \cup (IF forward THEN {ForwardTsn(s3)} ELSE {})
              /\ Cardinality(net') <= NetBound
    /\ UNCHANGED <<messages, rcv, expired>>

mark_all_to_retrasmit(in) ==
    [t \in {t \in DOMAIN in : is_outstanding(in[t])} |-> [in[t] EXCEPT !.retransmit = TRUE]] @@ in

\* Timer::T3RTX expires.
T3Timeout ==
    /\ ~ snd.failed /\ snd.t3
    /\ \E exhausted \in {unretransmittable_messages(snd)} :
       \E s \in {FoldLeft(abandon_message, snd, exhausted)} :
          snd' = IF s.failed THEN s
                 ELSE [advance_peer_ack_point(IF exhausted = Empty THEN s ELSE on_messages_abandoned(s))
                          EXCEPT !.inflight = mark_all_to_retrasmit(@), !.t3_retransmit_pending = TRUE]
    /\ UNCHANGED <<messages, rcv, expired, net>>

\* handle_sack; process_selective_ack refuses a TSN that is not in flight.
C1(s) == IF s.advanced < s.cumulative
         THEN [s EXCEPT !.advanced = s.cumulative, !.fwd_map = [si \in Streams |-> {}]]
         ELSE s
handle_sack(p) ==
    /\ ~ snd.failed /\ p.cumulative >= snd.cumulative
    /\ LET cumulated == snd.cumulative + 1 .. p.cumulative
           left == DOMAIN snd.inflight \ cumulated
           released == {t \in cumulated \cup p.gaps : snd.inflight[t].held}
           s1 == [snd EXCEPT !.cumulative = p.cumulative,
                             !.inflight = [t \in p.gaps |-> [@[t] EXCEPT
                                    !.acknowledged = TRUE, !.retransmit = FALSE, !.held = FALSE]]
                                 @@ Restrict(@, left)]
           s2 == Release(s1, {snd.inflight[t] : t \in released})
           s3 == advance_peer_ack_point(C1(s2))
       IN  snd' = IF cumulated \cup p.gaps \subseteq DOMAIN snd.inflight
                  THEN [s3 EXCEPT !.t3 = left # {} \/ (@ /\ cumulated = {})]
                  ELSE [snd EXCEPT !.failed = TRUE]
    /\ UNCHANGED <<messages, rcv, expired, net>>

----------------------------------------------------------------------------
(* The receiver. *)

\* A fragment that arrived: its TSN beside its chunk.
Of(p) == [tsn |-> p.tsn, msg |-> p.msg, frag |-> p.frag]
StreamOf(c) == messages[c.msg].si

\* Chunks::is_complete: from a beginning to an end, the TSNs without a gap.
is_complete(set) ==
    /\ set # {}
    /\ LET tsns == {c.tsn : c \in set}
       IN  /\ \E c \in set : c.tsn = Min(tsns) /\ beginning_fragment(c)
           /\ \E c \in set : c.tsn = Max(tsns) /\ ending_fragment(c)
           /\ tsns = Min(tsns) .. Max(tsns)

\* The ordered set of a stream with a sequence number.
OrderedSet(r, si, n) == {c \in r.ordered : StreamOf(c) = si /\ ssn(c.msg) = n}

\* find_complete_unordered_chunk_set: of the chunks of its stream, those from the last
\* beginning at or before the new chunk to the first end at or after it.
CompleteWith(r, c) ==
    LET mine == {d \in r.unordered_chunks : StreamOf(d) = StreamOf(c)}
        starts == {d.tsn : d \in {d \in mine : beginning_fragment(d) /\ d.tsn <= c.tsn}}
        ends == {d.tsn : d \in {d \in mine : ending_fragment(d) /\ d.tsn >= c.tsn}}
    IN  IF starts = {} \/ ends = {} THEN {}
        ELSE {d \in mine : d.tsn \in Max(starts) .. Min(ends)}

\* ReassemblyQueue::push.
Reassemble(r, c) ==
    IF messages[c.msg].unordered
    THEN LET r1 == [r EXCEPT !.unordered_chunks = @ \cup {c}]
             set == CompleteWith(r1, c)
         IN  IF is_complete(set)
             THEN [r1 EXCEPT !.unordered_chunks = @ \ set, !.unordered = @ \cup {set}]
             ELSE r1
    ELSE IF ssn(c.msg) < r.next_ssn[StreamOf(c)] THEN r
    ELSE [r EXCEPT !.ordered = @ \cup {c}]

\* handle_peer_last_tsn_and_acknowledgement.
handle_peer_last_tsn(r) ==
    LET to == Max({r.peer_last_tsn} \cup {t \in r.payload_queue :
                     r.peer_last_tsn + 1 .. t \subseteq r.payload_queue})
    IN  [r EXCEPT !.peer_last_tsn = to, !.payload_queue = {t \in @ : t > to}, !.ack = TRUE]

handle_data(p) ==
    LET can_push == p.tsn \notin rcv.payload_queue /\ p.tsn > rcv.peer_last_tsn
        r1 == [rcv EXCEPT !.payload_queue = @ \cup {p.tsn}, !.streams = @ \cup {StreamOf(p)}]
    IN  /\ rcv' = handle_peer_last_tsn(IF can_push THEN Reassemble(r1, Of(p)) ELSE rcv)
        /\ UNCHANGED <<messages, snd, expired, net>>

\* forward_tsn_for_ordered: the incomplete sets are removed and next_ssn is moved on.
SsnAfter_past(last) == last + 2                  \* mutant: one too far
SsnAfter(last) == last + 1
forward_tsn_for_ordered(r, si, last) ==
    [r EXCEPT !.ordered = {c \in @ : \/ StreamOf(c) # si \/ ssn(c.msg) > last
                                     \/ is_complete(OrderedSet(r, si, ssn(c.msg)))},
              !.next_ssn[si] = Max({@, SsnAfter(last)})]

\* handle_forward_tsn: an old one only has a SACK sent.
Purged(r, new) == [r EXCEPT !.unordered_chunks =
                      {c \in @ : StreamOf(c) \notin Unordered \/ c.tsn > new}]
Forwarded(r, new) == [r EXCEPT !.peer_last_tsn = new, !.payload_queue = {t \in @ : t > new}]
handle_forward_tsn(p) ==
    LET new == p.new_cumulative_tsn
        r1 == Forwarded(rcv, new)
        named == {si \in rcv.streams \ Unordered : p.streams[si] # {}}
        Named(si) == CHOOSE m \in p.streams[si] : TRUE
        r2 == FoldSet(LAMBDA si, r : forward_tsn_for_ordered(r, si, ssn(Named(si))), r1, named)
        misled == {<<si, snd.generation[si]>> : si \in
                      {si \in named : messages[Named(si)].generation # snd.generation[si]}}
    IN  /\ rcv' = IF new <= rcv.peer_last_tsn THEN [rcv EXCEPT !.ack = TRUE]
                  ELSE [handle_peer_last_tsn(Purged(r2, new)) EXCEPT !.misled = @ \cup misled]
        /\ UNCHANGED <<messages, snd, expired, net>>

Receive(p) == CASE p.type = "DATA"        -> handle_data(p)
                [] p.type = "FORWARD_TSN" -> handle_forward_tsn(p)
                [] p.type = "SACK"        -> handle_sack(p)

\* gather_outbound_sack_packets.
SendSack ==
    /\ rcv.ack
    /\ rcv' = [rcv EXCEPT !.ack = FALSE]
    /\ net' = net \cup {[type |-> "SACK", cumulative |-> rcv.peer_last_tsn,
                         gaps |-> rcv.payload_queue]}
    /\ Cardinality(net') <= NetBound
    /\ UNCHANGED <<messages, snd, expired>>

\* ReassemblyQueue::read: which of an ordered and an unordered message that are ready is
\* taken first is left open.
readable(r, si) ==
    LET ssns == {ssn(c.msg) : c \in {c \in r.ordered : StreamOf(c) = si}}
    IN  IF ssns = {} \/ ~ is_complete(OrderedSet(r, si, Min(ssns))) \/ Min(ssns) > r.next_ssn[si]
        THEN {} ELSE {OrderedSet(r, si, Min(ssns))}
read(si) ==
    \/ \E set \in readable(rcv, si) :
          LET n == ssn((CHOOSE c \in set : TRUE).msg)
          IN  rcv' = [rcv EXCEPT !.ordered = @ \ set,
                                 !.next_ssn[si] = IF n = @ THEN @ + 1 ELSE @,
                                 !.read = Append(@, set)]
    \/ \E set \in rcv.unordered :
          /\ \A c \in set : StreamOf(c) = si
          /\ rcv' = [rcv EXCEPT !.unordered = @ \ {set}, !.read = Append(@, set)]

Read(si) == read(si) /\ UNCHANGED <<messages, snd, expired, net>>

\* Both sides have reset the stream, by RE-CONFIG chunks that only need the receiver's
\* cumulative TSN to have reached what was sent and the application to have read it, and
\* the application has opened it again: SSNs restart.
Reset(si) ==
    /\ ~ snd.failed
    /\ snd.written < Len(messages)
    /\ messages[snd.written + 1].si = si
    /\ messages[snd.written + 1].generation > snd.generation[si]
    /\ \A q \in {"ordered", "unordered"} : \A i \in DOMAIN snd[q] : StreamOf(snd[q][i]) # si
    /\ rcv.peer_last_tsn >= snd.my_next_tsn - 1
    /\ readable(rcv, si) = {} /\ \A set \in rcv.unordered : \A c \in set : StreamOf(c) # si
    /\ snd' = [snd EXCEPT !.generation[si] = @ + 1, !.buffered_amount[si] = 0]
    /\ rcv' = [rcv EXCEPT !.next_ssn[si] = 0,
                          !.streams = (@ \ {si}) \cup (Opened \cap {si}),
                          !.ordered = {c \in @ : StreamOf(c) # si},
                          !.unordered_chunks = {c \in @ : StreamOf(c) # si}]
    /\ UNCHANGED <<messages, expired, net>>

Lose == \E p \in net : net' = net \ {p} /\ UNCHANGED <<messages, snd, rcv, expired>>

Next ==
    \/ \E m \in M : write(m) \/ Expire(m)
    \/ gather_outbound
    \/ T3Timeout
    \/ \E p \in net : Receive(p)
    \/ SendSack
    \/ \E si \in Streams : Read(si) \/ Reset(si)
    \/ Lose

Spec == Init /\ [][Next]_vars

----------------------------------------------------------------------------

Tsns == 1 .. Count
\* Types; the three ack points of the sender are in order.
TypeOK ==
    /\ snd.written \in 0 .. Len(messages)
    /\ \A q \in {"ordered", "unordered"} : snd[q] \in Seq(Chunks)
    /\ DOMAIN snd.inflight = snd.cumulative + 1 .. snd.my_next_tsn - 1
    /\ snd.my_next_tsn \in 1 .. Count + 1
    /\ snd.advanced \in snd.cumulative .. snd.my_next_tsn - 1
    /\ \A si \in Streams : Cardinality(snd.fwd_map[si]) <= 1
    /\ rcv.payload_queue \subseteq Tsns
    /\ rcv.peer_last_tsn \in 0 .. Count

\* fail_message_queue is never called, and no SACK names a chunk that is not in flight:
\* abandonment never makes the queues of the sender, or those of the two sides, disagree.
NeverFails == ~ snd.failed

\* The bytes a stream counts as buffered are those of its messages whose payload the
\* association still holds: each is released once, and none by an earlier incarnation of
\* the stream.
BufferedExact ==
    \A si \in Streams : snd.buffered_amount[si] =
        Cardinality({c \in ToSet(snd.ordered) \cup ToSet(snd.unordered) \cup
                          {[msg |-> snd.inflight[t].msg, frag |-> snd.inflight[t].frag] : t \in
                              {t \in DOMAIN snd.inflight : snd.inflight[t].held}} :
                        StreamOf(c) = si /\ is_current_stream_data(snd, c)})

\* abandon_message: "abandon a complete message".  No fragment of an abandoned message stays
\* in flight unmarked or can still be sent for the first time.
WholeMessages ==
    \A m \in snd.given_up :
       /\ \A t \in DOMAIN snd.inflight : snd.inflight[t].msg = m => snd.inflight[t].abandoned
       /\ \A c \in ToSet(snd.ordered) \cup ToSet(snd.unordered) : c.msg # m

Read_ == UNION ToSet(rcv.read)
Accepted == {[msg |-> c.msg, frag |-> c.frag] : c \in
                rcv.ordered \cup rcv.unordered_chunks \cup UNION rcv.unordered \cup Read_}
\* The sender has let go of the message: all its fragments were in flight and no longer are.
Settled(m) == /\ m <= snd.written
              /\ \A c \in ToSet(snd.ordered) \cup ToSet(snd.unordered) : c.msg # m
              /\ \A t \in DOMAIN snd.inflight : snd.inflight[t].msg # m

\* A message that was not abandoned leaves the sender's queue only when the receiver holds
\* or has read all of it: no FORWARD-TSN skips one, and neither does the SSN it carries unless
\* that was recorded for an earlier incarnation of the stream (the map of SSNs is kept while
\* the cumulative TSN lags behind, also when the stream is reset and opened again).
NothingSkipped ==
    \A m \in M : LET stream == <<messages[m].si, messages[m].generation>>
                 IN  /\ Settled(m) /\ m \notin snd.given_up
                     /\ messages[m].generation = snd.generation[messages[m].si]
                     /\ stream \notin rcv.misled
                     => Fragments(m) \subseteq Accepted

\* The ordered messages of a stream are read in the order they were written, and nothing is
\* read twice.
InOrder ==
    \A i, j \in DOMAIN rcv.read : i < j =>
       LET m == (CHOOSE c \in rcv.read[i] : TRUE).msg
           k == (CHOOSE c \in rcv.read[j] : TRUE).msg
       IN  m # k /\ (SameStream(m, k) /\ ~ messages[m].unordered /\ ~ messages[k].unordered => m < k)

\* What is read is a message: all of its fragments and of no other.
ReadWhole ==
    \A i \in DOMAIN rcv.read :
       \E m \in M : {[msg |-> c.msg, frag |-> c.frag] : c \in rcv.read[i]} = Fragments(m)

\* on_messages_abandoned: "recovery must continue even with no DATA left to retry".  While
\* the peer has to be moved forward the timer that repeats the FORWARD-TSN runs.
ForwardCovered == ~ snd.failed /\ snd.advanced > snd.cumulative => snd.t3

\* The fragments of a message that can no longer be completed do not stay in the receive
\* buffer.
NoLeftovers ==
    \A c \in rcv.ordered \cup rcv.unordered_chunks :
       \/ is_complete(OrderedSet(rcv, StreamOf(c), ssn(c.msg)))
       \/ \E t \in DOMAIN snd.inflight : snd.inflight[t].msg = c.msg /\ t > rcv.peer_last_tsn
       \/ \E d \in ToSet(snd.ordered) \cup ToSet(snd.unordered) : d.msg = c.msg

\* An ordered message that is complete waits only for messages of its stream that may still
\* arrive or be given up.
NotBlocked ==
    \A c \in rcv.ordered :
       LET m == c.msg
           before == {k \in 1 .. m - 1 : SameStream(k, m) /\ ~ messages[k].unordered}
       IN  is_complete(OrderedSet(rcv, StreamOf(c), ssn(m))) /\ ssn(m) > rcv.next_ssn[StreamOf(c)]
           => \E k \in before : ~ Settled(k) \/ \E d \in rcv.ordered : d.msg = k
============================================================================
