---------------------------- MODULE SctpHandler -----------------------------
(***************************************************************************)
(* The SCTP handler of a peer connection                                   *)
(* (peer_connection/handler/sctp.rs) over the streams of its association,  *)
(* at both ends: what is read from the reassembly queues, and when, under  *)
(* the bound on messages that the application has not taken.               *)
(***************************************************************************)
EXTENDS Naturals, Sequences, FiniteSetsExt, SequencesExt, Functions

(***************************************************************************)
(* The streams of an established association and their reset (RFC 6525):   *)
(* association/mod.rs and association/stream.rs.  The operators take an    *)
(* association `a', a record, and return the association the method        *)
(* leaves behind; the handler below makes actions of them.                  *)
(*                                                                         *)
(* Messages are ordered, reliable and of one fragment, and the windows are *)
(* open (SctpTransfer and SctpPartial have the rest).  A request and its   *)
(* retransmissions are the same packet, as they are in the code.           *)
(***************************************************************************)

CONSTANT MaxReconfig          \* max_reconfig_retrans

\* StreamState::new.  RecvSendState is the set of the directions that are open.
NewStream == [state |-> {"read", "write"}, queue |-> {}, next_ssn |-> 0, sequence_number |-> 0]

NewAssociation ==
    [handshake_completed |-> TRUE,
     streams |-> <<>>,                  \* from stream identifiers to StreamState
     pending_queue |-> <<>>, my_next_tsn |-> 1,
     peer_last_tsn |-> 0, payload_queue |-> {},
     my_next_rsn |-> 1, reconfigs |-> {}, reconfig_requests |-> {},
     will_retransmit_reconfig |-> FALSE, timer |-> FALSE, retrans |-> 0,
     control_queue |-> {}, events |-> <<>>,
     dropped |-> {}]                    \* history: received, and never to be read

Request(rsn, tsn, ids) == [type |-> "REQUEST", rsn |-> rsn, sender_last_tsn |-> tsn, ids |-> ids]
\* The result, which the sender of the request does not look at, is left out.
Response(rsn) == [type |-> "RESPONSE", rsn |-> rsn]

Ids(a) == DOMAIN a.streams
CanRead(a, id) == id \in Ids(a) /\ "read" \in a.streams[id].state
CanWrite(a, id) == id \in Ids(a) /\ "write" \in a.streams[id].state

----------------------------------------------------------------------------
(* The application's calls. *)

create_stream(a, id) == [a EXCEPT !.streams = (id :> NewStream) @@ @]

\* write_source and packetize, of a message n.
write_source(a, id, n) ==
    [a EXCEPT !.pending_queue = Append(@, [id |-> id, ssn |-> a.streams[id].sequence_number, n |-> n]),
              !.streams[id].sequence_number = @ + 1]

\* The chunk without user data that marks the end of a stream in the pending queue.
Eos(id) == [id |-> id, ssn |-> 0, n |-> 0]

\* close: finish, and stop, which asks for the reset unless reading was stopped before.
close(a, id) ==
    [a EXCEPT !.streams[id].state = {},
              !.pending_queue = IF CanRead(a, id) THEN Append(@, Eos(id)) ELSE @]

----------------------------------------------------------------------------
(* Resets that the peer asks for. *)

\* ReassemblyQueue::is_readable: an ordered message is next.
is_readable(s) == \E c \in s.queue : c.ssn = s.next_ssn

unregister_stream(a, id) ==
    [a EXCEPT !.streams = Restrict(@, DOMAIN @ \ {id}),
              !.events = Append(@, [type |-> "AssociationLost", id |-> id]),
              !.dropped = @ \cup IF CanRead(a, id) THEN a.streams[id].queue ELSE {}]

streams_awaiting_drain_none(a, p) == {}            \* mutant
streams_awaiting_drain(a, p) == {id \in p.ids \cap Ids(a) : is_readable(a.streams[id])}

reset_streams_if_any(a, p, respond) ==
    LET ready == p.sender_last_tsn <= a.peer_last_tsn
        draining == streams_awaiting_drain(a, p)
        gone == IF ready THEN (p.ids \cap Ids(a)) \ draining ELSE {}
        echo == IF respond /\ gone # {} THEN {Request(a.my_next_rsn, a.my_next_tsn - 1, gone)} ELSE {}
    IN  [FoldSet(LAMBDA id, b : unregister_stream(b, id), a, gone) EXCEPT
            !.reconfig_requests = {q \in @ : ready /\ draining = {} => q.rsn # p.rsn},
            !.my_next_rsn = @ + Cardinality(echo),
            !.reconfigs = @ \cup echo,
            !.control_queue = @ \cup echo \cup {Response(p.rsn)}]

retry_deferred_resets(a, id) ==
    FoldSet(LAMBDA p, b : reset_streams_if_any(b, p, TRUE), a,
            {p \in a.reconfig_requests : id \in p.ids})

\* Stream::read_sctp on a stream open for reading, n times: a read that leaves nothing
\* readable retries what waited for that.
Retried(a, id) == IF is_readable(a.streams[id]) THEN a ELSE retry_deferred_resets(a, id)
read_sctp(a, id, n) ==
    Retried([a EXCEPT !.streams[id].queue = {c \in @ : c.ssn >= a.streams[id].next_ssn + n},
                      !.streams[id].next_ssn = @ + n], id)

handle_reconfig_param(a, p) ==
    IF p.type = "REQUEST"
    THEN reset_streams_if_any([a EXCEPT !.reconfig_requests = {q \in @ : q.rsn # p.rsn} \cup {p}],
                              p, TRUE)
    ELSE LET left == {q \in a.reconfigs : q.rsn # p.rsn}
         IN  [a EXCEPT !.reconfigs = left, !.timer = @ /\ left # {},
                       !.retrans = IF left = {} THEN 0 ELSE @]

\* handle_peer_last_tsn_and_acknowledgement: every request is tried again for each TSN that
\* the point advances by.
advance(a) ==
    LET a1 == [a EXCEPT !.peer_last_tsn = @ + 1, !.payload_queue = @ \ {a.peer_last_tsn + 1}]
    IN  FoldSet(LAMBDA p, b : reset_streams_if_any(b, p, FALSE), a1, a1.reconfig_requests)
handle_peer_last_tsn(a) ==
    LET to == Max({a.peer_last_tsn} \cup
                  {t \in a.payload_queue : a.peer_last_tsn + 1 .. t \subseteq a.payload_queue})
        after[t \in a.peer_last_tsn .. to] == IF t = a.peer_last_tsn THEN a ELSE advance(after[t - 1])
    IN  after[to]

\* A chunk below next_ssn is refused by the reassembly queue after its TSN was taken.
handle_data(a, p) ==
    LET a1 == IF p.id \in Ids(a) THEN a ELSE create_stream(a, p.id)
        c == [id |-> p.id, ssn |-> p.ssn, n |-> p.n]
        s == [a1.streams[p.id] EXCEPT !.queue = @ \cup {c}]
        fits == p.ssn >= s.next_ssn
        a2 == [a1 EXCEPT !.payload_queue = @ \cup {p.tsn},
                         !.streams[p.id] = IF fits THEN s ELSE @,
                         !.events = IF fits /\ is_readable(s)
                                    THEN Append(@, [type |-> "Readable", id |-> p.id]) ELSE @,
                         !.dropped = IF fits THEN @ ELSE @ \cup {c}]
    IN  handle_peer_last_tsn(IF p.tsn > a.peer_last_tsn /\ p.tsn \notin a.payload_queue THEN a2 ELSE a)

\* handle_cookie_ack.
handle_cookie_ack(a) == [a EXCEPT !.handshake_completed = TRUE,
                                  !.events = Append(@, [type |-> "Connected", id |-> 0])]

handle_chunk(a, p) == CASE p.type = "DATA"       -> handle_data(a, p)
                        [] p.type = "COOKIE_ACK" -> handle_cookie_ack(a)
                        [] OTHER                 -> handle_reconfig_param(a, p)

----------------------------------------------------------------------------
(* Sending. *)

\* The parts of the pending queue that a full window may leave behind: the marks of an end
\* of stream need no window.
Stops(a) == {k \in 0 .. Len(a.pending_queue) : k = Len(a.pending_queue) \/ a.pending_queue[k + 1].n # 0}

Data(tsn, c) == [type |-> "DATA", tsn |-> tsn, id |-> c.id, ssn |-> c.ssn, n |-> c.n]

\* gather_outbound: the control queue, the first k pending chunks, the requests to repeat
\* and one for the streams that end.
Sends(a, k) ==
    LET popped == SubSeq(a.pending_queue, 1, k)
        chunks == SelectSeq(popped, LAMBDA c : c.n # 0)
        data == {Data(a.my_next_tsn + i - 1, chunks[i]) : i \in DOMAIN chunks}
        ends == {c.id : c \in {c \in ToSet(popped) : c.n = 0}}
        tsn == a.my_next_tsn + Len(chunks)
        new == IF ends = {} THEN {} ELSE {Request(a.my_next_rsn, tsn - 1, ends)}
        reconfigs == a.reconfigs \cup new
    IN  [packets |-> a.control_queue \cup data \cup new
                        \cup (IF a.will_retransmit_reconfig THEN a.reconfigs ELSE {}),
         next |-> [a EXCEPT !.control_queue = {}, !.pending_queue = SubSeq(@, k + 1, Len(@)),
                            !.my_next_tsn = tsn,
                            !.my_next_rsn = @ + Cardinality(new), !.reconfigs = reconfigs,
                            !.will_retransmit_reconfig = FALSE,
                            !.timer = @ \/ ((new # {} \/ a.will_retransmit_reconfig)
                                               /\ reconfigs # {})]]

\* Timer::Reconfig expires: past its limit it stays stopped.
ReconfigTimeout(a) ==
    LET failure == a.retrans >= MaxReconfig
    IN  [a EXCEPT !.retrans = Min({@ + 1, MaxReconfig + 1}), !.timer = ~ failure,
                  !.will_retransmit_reconfig = @ \/ ~ failure]

-----------------------------------------------------------------------------
CONSTANTS
    Sides,          \* the two ends
    Streams,        \* the stream identifiers
    Plans,          \* what the applications may do: [writes, closes, handshaking], the number of
                    \* messages of each end, the streams each closes, and the ends whose
                    \* COOKIE-ACK is still on its way
    Sizes,          \* the size of each message
    Backlog,        \* SCTP_PIPELINE_READ_BACKLOG_LIMIT
    BacklogBytes,   \* read_backlog_bytes
    MaxMessage,     \* local_max_message_size, which the peer has been told
    NetBound        \* bound of the model: packets in transit

VARIABLES
    plan,       \* the one of Plans that this behaviour follows
    assoc,      \* the association of each end
    hnd,        \* what the handler of each end holds
    written,    \* messages written by each application
    closed,     \* the streams each application has closed
    net         \* packets in transit, with their receiver

vars == <<plan, assoc, hnd, written, closed, net>>

Peer(x) == CHOOSE y \in Sides : y # x

\* The two applications have opened the streams that both will use, except at an end that is
\* still handshaking: there the peer's data opens them.
Init ==
    /\ plan \in Plans
    /\ assoc = [x \in Sides |-> IF x \in plan.handshaking
                                THEN [NewAssociation EXCEPT !.handshake_completed = FALSE]
                                ELSE [NewAssociation EXCEPT !.streams = [id \in Streams |-> NewStream]]]
    /\ hnd = [x \in Sides |-> [pending_readable |-> {}, outs |-> <<>>, flush_dirty |-> FALSE,
                              lost |-> {}]]      \* history: read, and dropped by a failing call
    /\ written = [x \in Sides |-> 0]
    /\ closed = [x \in Sides |-> {}]
    /\ net = {[to |-> x, packet |-> [type |-> "COOKIE_ACK"]] : x \in plan.handshaking}

----------------------------------------------------------------------------
(* Reading. A call in progress is a record: the association, the parked     *)
(* streams, the messages read, the budget left, and whether it has failed.  *)

\* Both budgets saturate at zero.
Less(m, n) == IF m > n THEN m - n ELSE 0
Bytes(messages) == FoldLeft(LAMBDA n, c : n + Sizes[c.n], 0, messages)
read_budget(outs) == [messages |-> Less(Backlog, Len(outs)), bytes |-> Less(BacklogBytes, Bytes(outs))]
exhausted(b) == b.messages = 0 \/ b.bytes = 0
consume(b, size) == [messages |-> b.messages - 1, bytes |-> Less(b.bytes, size)]

Parks(c, id) == [c EXCEPT !.pending = @ \cup {id}]
Fails(c) == [c EXCEPT !.failed = TRUE]

\* One message is read; what is longer than the maximum is refused after it was taken.
Next_(a, id) == CHOOSE m \in a.streams[id].queue : m.ssn = a.streams[id].next_ssn
Takes(c, id, m) ==
    IF Sizes[m.n] > MaxMessage THEN Fails([c EXCEPT !.a = read_sctp(@, id, 1)])
    ELSE [c EXCEPT !.a = read_sctp(@, id, 1), !.budget = consume(@, Sizes[m.n]),
                   !.messages = Append(@, m)]

\* drain_stream: the budget is looked at before each read.  A stream that is gone, or closed
\* for reading, ends the call with an error; the read that finds nothing is a read too.
drain_stream(c, id) ==
    LET RECURSIVE loop(_)
        loop(d) == IF d.failed THEN d
                   ELSE IF exhausted(d.budget) THEN Parks(d, id)
                   ELSE IF ~ CanRead(d.a, id) THEN Fails(d)
                   ELSE IF is_readable(d.a.streams[id]) THEN loop(Takes(d, id, Next_(d.a, id)))
                   ELSE [d EXCEPT !.a = read_sctp(@, id, 0), !.pending = @ \ {id}]
    IN  IF ~ c.a.handshake_completed THEN Parks(c, id)
        ELSE IF id \notin Ids(c.a) THEN Fails(c)
        ELSE loop(c)

Call(a, h) == [a |-> a, pending |-> h.pending_readable, messages |-> <<>>, lost |-> h.lost,
               budget |-> read_budget(h.outs), failed |-> FALSE]

Polled(c) == IF c.failed THEN c ELSE [c EXCEPT !.a.events = <<>>]
\* The events of the association, in order, until one fails; what is left is kept.
Events(c) ==
    LET events == c.a.events
        Handle(d, i) ==
            IF d.failed THEN d
            ELSE LET e == [d EXCEPT !.a.events = Tail(@)]
                 IN  IF events[i].type = "Readable" THEN drain_stream(e, events[i].id) ELSE e
    IN  \* events that a drain adds are polled by the same loop: none of them is Readable
        Polled(FoldLeft(Handle, c, [i \in DOMAIN events |-> i]))

\* resume_pending_reads: the parked streams by identifier, until one fails. What was read of
\* the ones before is kept, what was read of it is lost.
Kept(c, n) == IF c.failed
              THEN [c EXCEPT !.messages = SubSeq(@, 1, n),
                             !.lost = @ \cup ToSet(SubSeq(c.messages, n + 1, Len(c.messages)))]
              ELSE c
resume_pending_reads(c) ==
    LET One(d, id) ==
            IF d.failed \/ exhausted(d.budget) THEN d
            ELSE Kept(drain_stream(d, id), Len(d.messages))
    IN  FoldLeft(One, c, SetToSortSeq(c.pending, <))

After(h, c) == [h EXCEPT !.pending_readable = c.pending, !.outs = @ \o c.messages, !.lost = c.lost]

\* The write side is flushed again when the call succeeds, and always or if it has read.
Resumes(x, a, h, always) ==
    \E c \in {resume_pending_reads(Call(a, h))} :
       /\ assoc' = [assoc EXCEPT ![x] = c.a]
       /\ hnd' = [hnd EXCEPT ![x] = [After(h, c) EXCEPT
                    !.flush_dirty = @ \/ (~ c.failed /\ (always \/ c.messages # <<>>))]]

\* handle_read of the handler.
handle_read(x, p) ==
    /\ \E c \in {Events(Call(handle_chunk(assoc[x], p), hnd[x]))} :
          IF c.failed
          THEN /\ assoc' = [assoc EXCEPT ![x] = c.a]
               /\ hnd' = [hnd EXCEPT ![x].pending_readable = c.pending,
                                     ![x].lost = @ \cup ToSet(c.messages)]
          ELSE Resumes(x, c.a, After(hnd[x], c), TRUE)
    /\ UNCHANGED <<plan, written, closed>>

\* poll_read of the handler, when the application has taken messages.
poll_read(x) ==
    /\ hnd[x].pending_readable # {} /\ ~ exhausted(read_budget(hnd[x].outs))
    /\ Resumes(x, assoc[x], hnd[x], FALSE)
    /\ UNCHANGED <<plan, written, closed, net>>

\* The application takes a message.
Take(x) ==
    /\ hnd[x].outs # <<>>
    /\ hnd' = [hnd EXCEPT ![x].outs = Tail(@)]
    /\ UNCHANGED <<plan, assoc, written, closed, net>>

----------------------------------------------------------------------------
(* Writing. *)

\* handle_write of a message, which is refused if it is longer than the peer takes and dropped
\* unless the stream is writable.
Write(x, id) ==
    /\ written[x] < plan.writes[x] /\ Sizes[written[x] + 1] <= MaxMessage
    /\ CanWrite(assoc[x], id)
    /\ written' = [written EXCEPT ![x] = @ + 1]
    /\ assoc' = [assoc EXCEPT ![x] = write_source(@, id, written[x] + 1)]
    /\ hnd' = [hnd EXCEPT ![x].flush_dirty = TRUE]
    /\ UNCHANGED <<plan, closed, net>>

\* handle_write of DATA_CHANNEL_CLOSE.
Close(x, id) ==
    /\ <<x, id>> \in plan.closes /\ id \in Ids(assoc[x]) /\ id \notin closed[x]
    /\ closed' = [closed EXCEPT ![x] = @ \cup {id}]
    /\ assoc' = [assoc EXCEPT ![x] = close(@, id)]
    /\ hnd' = [hnd EXCEPT ![x].flush_dirty = TRUE]
    /\ UNCHANGED <<plan, written, net>>

Sealed(x, packets) == {[to |-> Peer(x), packet |-> p] : p \in packets}

\* poll_write: flush_transmits. A window that was full opens with a SACK, whose handle_read
\* is not a packet of this model.
poll_write(x) ==
    /\ hnd[x].flush_dirty
    /\ \E k \in Stops(assoc[x]) :
          LET out == Sends(assoc[x], k)
          IN  /\ assoc' = [assoc EXCEPT ![x] = out.next]
              /\ hnd' = [hnd EXCEPT ![x].flush_dirty = k < Len(assoc[x].pending_queue)]
              /\ net' = net \cup Sealed(x, out.packets)
              /\ Cardinality(net') <= NetBound
    /\ UNCHANGED <<plan, written, closed>>

handle_timeout(x) ==
    /\ assoc[x].timer
    /\ assoc' = [assoc EXCEPT ![x] = ReconfigTimeout(@)]
    /\ hnd' = [hnd EXCEPT ![x].flush_dirty = TRUE]
    /\ UNCHANGED <<plan, written, closed, net>>

Receive == \E m \in net : handle_read(m.to, m.packet) /\ net' = net \ {m}

\* DATA that is lost is sent again by T3, and COOKIE-ACK by T1: they are late.
Lose == /\ \E m \in net : m.packet.type \notin {"DATA", "COOKIE_ACK"} /\ net' = net \ {m}
        /\ UNCHANGED <<plan, assoc, hnd, written, closed>>

Next ==
    \/ \E x \in Sides : \/ poll_read(x) \/ Take(x) \/ poll_write(x)
                        \/ handle_timeout(x)
                        \/ \E id \in Streams : Write(x, id) \/ Close(x, id)
    \/ Receive
    \/ Lose

Spec == Init /\ [][Next]_vars

----------------------------------------------------------------------------

\* Types; the receiver's points and the requests it holds never run ahead of what the sender
\* has numbered, and the reset timer never counts past its limit.
TypeOK ==
    \A x \in Sides :
       LET a == assoc[x]
       IN  /\ Ids(a) \subseteq Streams
           /\ \A id \in Ids(a) : a.streams[id].state \in SUBSET {"read", "write"}
           /\ a.peer_last_tsn < assoc[Peer(x)].my_next_tsn
           /\ \A q \in a.reconfig_requests : q.sender_last_tsn < assoc[Peer(x)].my_next_tsn
           /\ a.retrans \in 0 .. MaxReconfig + 1

\* A message that has been received and acknowledged is not thrown away by a reset of its
\* stream: the reset waits until the application's side, unless that has closed the stream,
\* has read it.
ReadBeforeReset == \A x \in Sides : \A c \in assoc[x].dropped : c.id \in closed[x]

\* A reset that was put off waits for a TSN that has not arrived or for a stream that still
\* has something to read, and for nothing else: whatever ends the wait performs the reset.
DeferredWaits ==
    \A x \in Sides : \A p \in assoc[x].reconfig_requests :
       \/ p.sender_last_tsn > assoc[x].peer_last_tsn
       \/ \E id \in p.ids \cap Ids(assoc[x]) : is_readable(assoc[x].streams[id])

\* No message is left where nothing will fetch it: when the application has taken all that it
\* is owed, the next resume_pending_reads reads everything that is readable, but for a stream
\* whose event is still to be polled or whose association is still handshaking.  The code
\* makes one exception: a stream that was reset or closed while it was parked stays parked,
\* every resume fails there, and the parked streams with higher identifiers are not reached.
Readable(a, id) == CanRead(a, id) /\ is_readable(a.streams[id])
Fetched(x) == resume_pending_reads([Call(assoc[x], hnd[x]) EXCEPT !.budget =
                                        [messages |-> plan.writes[Peer(x)] + 1,
                                         bytes |-> plan.writes[Peer(x)] * MaxMessage + 1]])
NothingStranded ==
    \A x \in Sides : \E c \in {Fetched(x)} : \A id \in Ids(c.a) :
       Readable(c.a, id) =>
          \/ [type |-> "Readable", id |-> id] \in ToSet(c.a.events)
          \/ ~ c.a.handshake_completed /\ id \in c.pending
          \/ \E k \in c.pending : k < id /\ ~ CanRead(c.a, k)

\* The application is never owed more messages than the bound, nor more bytes than the bound
\* and one message.
BacklogBounded ==
    \A x \in Sides : /\ Len(hnd[x].outs) <= Backlog
                     /\ Bytes(hnd[x].outs) < BacklogBytes + MaxMessage

=============================================================================
