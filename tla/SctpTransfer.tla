--------------------------- MODULE SctpTransfer ----------------------------
(***************************************************************************)
(* Data transfer of an established rtc-sctp association: one association   *)
(* sends the messages of one reliable ordered stream, the other receives   *)
(* them (association/mod.rs, queue/payload_queue.rs).                      *)
(*                                                                         *)
(* A DATA chunk is named by its TSN; chunk 1 is the first one after the    *)
(* handshake.  TSNs are natural numbers here: their wrap at 2^32 is not    *)
(* modelled.  Ends is the set of chunks with the ending_fragment bit: it   *)
(* cuts the chunks into messages.                                          *)
(*                                                                         *)
(* A chunk fills a packet, and bytes are counted in chunks: mtu = 1.       *)
(* The network is the packets in transit; Receive leaves a packet there    *)
(* when Duplicates is TRUE, and Lose removes one.                          *)
(***************************************************************************)
EXTENDS Naturals, FiniteSets

CONSTANTS
    LastChunk,        \* the application writes the chunks 1 .. LastChunk
    Ends,             \* the chunks that end a message
    BufferSize,       \* max_receive_buffer_size of the receiver
    InitialCwnd,      \* the congestion window an association starts with
    Limited,          \* max_t3_rtx_retrans is finite
    MaxT3,            \* max_t3_rtx_retrans, when it is
    SackBound,        \* bound of the model: SACKs in transit
    Duplicates        \* the network may deliver a packet again

ASSUME TransferAssumption ==
    /\ LastChunk \in Nat \ {0}
    /\ Ends \subseteq 1 .. LastChunk /\ LastChunk \in Ends
    /\ BufferSize \in Nat \ {0}
    /\ InitialCwnd \in Nat \ {0}
    /\ MaxT3 \in Nat /\ SackBound \in Nat \ {0}
    /\ Limited \in BOOLEAN /\ Duplicates \in BOOLEAN

Chunks == 1 .. LastChunk
mtu == 1

VARIABLES
    \* the sender
    written,                    \* the last chunk the application has handed over
    my_next_tsn,
    cumulative_tsn_ack_point,
    inflight_queue,             \* the chunks in flight, by TSN
    rwnd, cwnd, ssthresh, partial_bytes_acked,
    in_fast_recovery, fast_recover_exit_point,
    will_retransmit_fast,
    t3_retransmit_pending,
    t3,                         \* Timer::T3RTX is armed
    retrans_t3,                 \* its expirations since new data was acknowledged
    error,                      \* a SACK was refused: the association is closed
    \* the receiver
    peer_last_tsn,
    payload_queue,              \* the TSNs received beyond peer_last_tsn
    reassembly_queue,           \* the chunks received and not yet read
    read_tsn,                   \* the last chunk the application has read
    ack_state,
    \* the network
    data,                       \* DATA chunks in transit
    sacks                       \* SACKs in transit

congestionVars == <<cwnd, ssthresh, partial_bytes_acked, in_fast_recovery,
                    fast_recover_exit_point>>
timerVars == <<t3, retrans_t3>>
senderVars == <<written, my_next_tsn, cumulative_tsn_ack_point, inflight_queue, rwnd,
                congestionVars, will_retransmit_fast, t3_retransmit_pending, timerVars, error>>
receiverVars == <<peer_last_tsn, payload_queue, reassembly_queue, read_tsn, ack_state>>
vars == <<senderVars, receiverVars, data, sacks>>

\* ChunkPayloadData, the fields the sender keeps.  nsent is 1 or "more than 1".
InFlightChunk == [nsent : 1 .. 2, acknowledged : BOOLEAN, retransmit : BOOLEAN,
                  miss_indicator : 0 .. 3]
AckStates == {"Idle", "Delay", "Immediate"}

Init ==
    /\ written = 0
    /\ my_next_tsn = 1
    /\ cumulative_tsn_ack_point = 0
    /\ inflight_queue = <<>>
    /\ rwnd = BufferSize
    /\ cwnd = InitialCwnd
    /\ ssthresh = BufferSize
    /\ partial_bytes_acked = 0
    /\ in_fast_recovery = FALSE
    /\ fast_recover_exit_point = 0
    /\ will_retransmit_fast = FALSE
    /\ t3_retransmit_pending = FALSE
    /\ t3 = FALSE
    /\ retrans_t3 = 0
    /\ error = FALSE
    /\ peer_last_tsn = 0
    /\ payload_queue = {}
    /\ reassembly_queue = {}
    /\ read_tsn = 0
    /\ ack_state = "Idle"
    /\ data = {}
    /\ sacks = {}

Consume(net, m) == IF Duplicates THEN net ELSE net \ {m}
MinOf(a, b) == IF a < b THEN a ELSE b
MaxOf(a, b) == IF a > b THEN a ELSE b

----------------------------------------------------------------------------
(* The sender. *)

InFlight == DOMAIN inflight_queue
Outstanding(q) == {t \in DOMAIN q : ~ q[t].acknowledged}
\* An acknowledged chunk's payload has been released.
NumBytes(q) == Cardinality(Outstanding(q))
Pending == my_next_tsn .. written

\* Stream::write and Association::send_payload_data: the message's chunks are pending.
write ==
    /\ ~ error
    /\ \E e \in Ends :
          /\ e > written
          /\ \A f \in Ends : f > written => e <= f
          /\ written' = e
    /\ UNCHANGED <<my_next_tsn, cumulative_tsn_ack_point, inflight_queue, rwnd, congestionVars,
                   will_retransmit_fast, t3_retransmit_pending, timerVars, error,
                   receiverVars, data, sacks>>

\* get_data_packets_to_retransmit: of the chunks T3 has marked, in TSN order, as many
\* as the window holds; with the peer's window closed, the first one as a probe.
Marked == {t \in InFlight : inflight_queue[t].retransmit}
ZeroWindowProbe == cumulative_tsn_ack_point + 1 \in Marked /\ rwnd < 1
ToRetransmit ==
    IF ~ t3_retransmit_pending THEN {}
    ELSE IF ZeroWindowProbe THEN {cumulative_tsn_ack_point + 1}
    ELSE {t \in Marked : Cardinality({u \in Marked : u <= t}) <= MinOf(cwnd, rwnd)}
MarkedRemain == t3_retransmit_pending /\ (ZeroWindowProbe \/ ToRetransmit # Marked)

\* pop_pending_data_chunks_to_send: the pending chunks the two windows admit, and one
\* as a probe when nothing is in flight.
NumNew ==
    LET flight == NumBytes(inflight_queue)
        pending == written + 1 - my_next_tsn
        admitted == MinOf(MinOf(IF cwnd > flight THEN cwnd - flight ELSE 0, rwnd), pending)
    IN  IF admitted = 0 /\ InFlight = {} /\ pending > 0 THEN 1 ELSE admitted
NewChunks == my_next_tsn .. my_next_tsn + NumNew - 1
\* The probe is not charged to the peer's window.
Charged == IF rwnd = 0 THEN 0 ELSE NumNew

\* What the sender does to a chunk in flight.
New == [nsent |-> 1, acknowledged |-> FALSE, retransmit |-> FALSE, miss_indicator |-> 0]
ResendFast(c) == [c EXCEPT !.nsent = 2]
Resend(c) == ResendFast([c EXCEPT !.retransmit = FALSE])
MarkToRetransmit(c) == IF c.acknowledged THEN c ELSE [c EXCEPT !.retransmit = TRUE]
Acknowledge(c) == [c EXCEPT !.acknowledged = TRUE, !.retransmit = FALSE]
Miss(c) == [c EXCEPT !.miss_indicator = @ + 1]

\* gather_outbound_fast_retransmission_packets: the first chunk three SACKs have
\* reported missing and that was sent once; one packet, whatever the window.
FastRetransmit(q) ==
    LET candidates == {t \in Outstanding(q) : q[t].nsent = 1 /\ q[t].miss_indicator >= 3}
    IN  {t \in candidates : will_retransmit_fast /\ \A u \in candidates : t <= u}

\* Association::poll_transmit of the sender: gather_outbound in Established.
gather_outbound ==
    LET sent == [t \in InFlight \cup NewChunks |->
                    IF t \in ToRetransmit THEN Resend(inflight_queue[t])
                    ELSE IF t \in InFlight THEN inflight_queue[t] ELSE New]
        fast == FastRetransmit(sent)
    IN  /\ ~ error
        /\ t3_retransmit_pending \/ NumNew > 0 \/ will_retransmit_fast
        /\ inflight_queue' = [t \in DOMAIN sent |->
                                  IF t \in fast THEN ResendFast(sent[t]) ELSE sent[t]]
        /\ t3_retransmit_pending' = MarkedRemain
        /\ my_next_tsn' = my_next_tsn + NumNew
        /\ rwnd' = rwnd - Charged
        /\ t3' = (t3 \/ NumNew > 0)
        /\ will_retransmit_fast' = FALSE
        /\ data' = data \cup ToRetransmit \cup NewChunks \cup fast
    /\ UNCHANGED <<written, cumulative_tsn_ack_point, congestionVars, retrans_t3, error,
                    receiverVars, sacks>>

\* Timer::T3RTX expires: everything outstanding is marked, unless the limit is passed.
T3Timeout ==
    /\ t3 /\ ~ error
    /\ retrans_t3' = IF Limited THEN MinOf(retrans_t3 + 1, MaxT3 + 1) ELSE 0
    /\ IF retrans_t3' > MaxT3
       THEN /\ t3' = FALSE
            /\ UNCHANGED <<inflight_queue, cwnd, ssthresh, t3_retransmit_pending>>
       ELSE /\ ssthresh' = MaxOf(cwnd \div 2, 4 * mtu)
            /\ cwnd' = mtu
            /\ inflight_queue' = [t \in InFlight |-> MarkToRetransmit(inflight_queue[t])]
            /\ t3_retransmit_pending' = TRUE
            /\ UNCHANGED t3
    /\ UNCHANGED <<written, my_next_tsn, cumulative_tsn_ack_point, rwnd, partial_bytes_acked,
                   in_fast_recovery, fast_recover_exit_point, will_retransmit_fast, error,
                   receiverVars, data, sacks>>

\* A SACK: the cumulative ack, the window, and the TSNs its gap ack blocks cover.
SACK(cum, credit, gaps) == [cumulative_tsn_ack |-> cum, a_rwnd |-> credit, gaps |-> gaps]

\* process_selective_ack asks for every TSN the SACK names; one that is not in flight
\* is an error, and handle_event closes the association on it.
Acceptable(d) ==
    /\ \A t \in cumulative_tsn_ack_point + 1 .. d.cumulative_tsn_ack : t \in InFlight
    /\ d.gaps \subseteq {t \in InFlight : t > d.cumulative_tsn_ack}

NewlyAcked(d) ==
    {t \in InFlight : /\ ~ inflight_queue[t].acknowledged
                      /\ t <= d.cumulative_tsn_ack \/ t \in d.gaps}
\* Mutant of AckedQueue: a gap ack block also covers the gap before it.
AckedQueue_with_gap(d) ==
    [t \in {u \in InFlight : u > d.cumulative_tsn_ack} |->
        IF \E g \in d.gaps : t <= g THEN Acknowledge(inflight_queue[t]) ELSE inflight_queue[t]]
\* The queue after the SACK: what it acknowledges cumulatively is popped.
AckedQueue(d) ==
    [t \in {u \in InFlight : u > d.cumulative_tsn_ack} |->
        IF t \in d.gaps THEN Acknowledge(inflight_queue[t]) ELSE inflight_queue[t]]
Advances(d) == cumulative_tsn_ack_point < d.cumulative_tsn_ack
\* The highest TSN newly acknowledged.
htna(d) ==
    LET acked == {d.cumulative_tsn_ack} \cup (NewlyAcked(d) \cap d.gaps)
    IN  CHOOSE t \in acked : \A u \in acked : t >= u
StillInFastRecovery(d) ==
    in_fast_recovery /\ fast_recover_exit_point \notin
                           cumulative_tsn_ack_point + 1 .. d.cumulative_tsn_ack

\* on_cumulative_tsn_ack_point_advanced: slow start or congestion avoidance, while
\* there is more to send.
GrownWindow(d) ==
    LET acked == Cardinality(NewlyAcked(d))
        same == [cwnd |-> cwnd, partial |-> partial_bytes_acked]
    IN  IF ~ Advances(d) THEN same
        ELSE IF cwnd <= ssthresh
        THEN IF ~ StillInFastRecovery(d) /\ Pending # {}
             THEN [same EXCEPT !.cwnd = cwnd + MinOf(acked, cwnd)] ELSE same
        ELSE IF partial_bytes_acked + acked >= cwnd /\ Pending # {}
             THEN [cwnd |-> cwnd + mtu, partial |-> partial_bytes_acked + acked - cwnd]
             ELSE [same EXCEPT !.partial = partial_bytes_acked + acked]

\* process_fast_retransmission: the chunks this SACK reports missing.
Missed(d) ==
    LET q == AckedQueue(d)
        limit == IF ~ StillInFastRecovery(d) THEN htna(d)
                 ELSE d.cumulative_tsn_ack + Cardinality(DOMAIN q) + 1
    IN  IF StillInFastRecovery(d) /\ ~ Advances(d) THEN {}
        ELSE {t \in Outstanding(q) : t < limit /\ q[t].miss_indicator < 3}
EntersFastRecovery(d) ==
    ~ StillInFastRecovery(d) /\ \E t \in Missed(d) : inflight_queue[t].miss_indicator = 2

\* The peer's window less what is still outstanding.
NewRwnd_unreduced(d) == d.a_rwnd    \* mutant: the whole window
NewRwnd(d) ==
    IF NumBytes(AckedQueue(d)) >= d.a_rwnd THEN 0 ELSE d.a_rwnd - NumBytes(AckedQueue(d))

\* process_selective_ack stops T3 when the earliest outstanding chunk is acknowledged;
\* postprocess_sack starts it again while anything is in flight.
T3Runs_stopped(d) == ~ Advances(d) /\ t3    \* mutant: an advance stops it for good
T3Runs(d) == DOMAIN AckedQueue(d) # {}

\* A SACK older than the ack point is dropped.
OutOfOrder(d) == cumulative_tsn_ack_point > d.cumulative_tsn_ack

handle_sack(d) ==
    /\ d \in sacks /\ ~ error
    /\ sacks' = Consume(sacks, d)
    /\ ~ OutOfOrder(d)
    /\ IF ~ Acceptable(d)
       THEN /\ error' = TRUE
            /\ UNCHANGED <<cumulative_tsn_ack_point, inflight_queue, rwnd, congestionVars,
                           will_retransmit_fast, timerVars>>
       ELSE LET q == AckedQueue(d)
                grown == GrownWindow(d)
                enters == EntersFastRecovery(d)
            IN  /\ cumulative_tsn_ack_point' = d.cumulative_tsn_ack
                /\ inflight_queue' = [t \in DOMAIN q |->
                       IF t \in Missed(d) THEN Miss(q[t]) ELSE q[t]]
                /\ rwnd' = NewRwnd(d)
                /\ in_fast_recovery' = (StillInFastRecovery(d) \/ enters)
                /\ fast_recover_exit_point' = IF enters THEN htna(d) ELSE fast_recover_exit_point
                /\ ssthresh' = IF enters THEN MaxOf(grown.cwnd \div 2, 4 * mtu) ELSE ssthresh
                /\ cwnd' = IF enters THEN ssthresh' ELSE grown.cwnd
                /\ partial_bytes_acked' = IF enters THEN 0 ELSE grown.partial
                /\ will_retransmit_fast' =
                       (will_retransmit_fast \/ enters \/ (in_fast_recovery' /\ Advances(d)))
                /\ t3' = T3Runs(d)
                /\ retrans_t3' = IF NewlyAcked(d) # {} THEN 0 ELSE retrans_t3
                /\ UNCHANGED error
    /\ UNCHANGED <<written, my_next_tsn, t3_retransmit_pending, receiverVars, data>>

----------------------------------------------------------------------------
(* The receiver. *)

credit == IF Cardinality(reassembly_queue) < BufferSize
          THEN BufferSize - Cardinality(reassembly_queue) ELSE 0

\* The next message in stream order, complete and not yet read.
Readable(e) ==
    /\ e \in Ends /\ e > read_tsn
    /\ read_tsn + 1 .. e \subseteq reassembly_queue
    /\ \A f \in Ends : f > read_tsn => e <= f
has_readable_data == \E e \in Ends : Readable(e)

\* A full buffer still takes a chunk that fills a gap, and the next chunk in
\* sequence when there is nothing the application could read to make room.
fills_gap(t) == \E u \in payload_queue : t < u
unblocks_reassembly_dropped(t) == FALSE    \* mutant: a full buffer drops it
unblocks_reassembly(t) == t = peer_last_tsn + 1 /\ ~ has_readable_data
Accepts(t) ==
    /\ t \notin payload_queue /\ t > peer_last_tsn
    /\ credit > 0 \/ fills_gap(t) \/ unblocks_reassembly(t)

\* handle_data, handle_peer_last_tsn_and_acknowledgement and handle_chunk_end.
handle_data(t) ==
    LET received == IF Accepts(t) THEN payload_queue \cup {t} ELSE payload_queue
    IN  /\ t \in data
        /\ data' = Consume(data, t)
        /\ reassembly_queue' = IF Accepts(t) THEN reassembly_queue \cup {t} ELSE reassembly_queue
        /\ \E last \in {peer_last_tsn} \cup received :
              /\ peer_last_tsn + 1 .. last \subseteq received
              /\ last + 1 \notin received
              /\ peer_last_tsn' = last
              /\ payload_queue' = {u \in received : u > last}
        /\ ack_state' = IF payload_queue' = {} /\ ack_state = "Idle" THEN "Delay" ELSE "Immediate"
        /\ UNCHANGED <<senderVars, read_tsn, sacks>>

\* Timer::Ack, armed exactly while the state is Delay.
AckTimeout ==
    /\ ack_state = "Delay"
    /\ ack_state' = "Immediate"
    /\ UNCHANGED <<senderVars, peer_last_tsn, payload_queue, reassembly_queue, read_tsn, data, sacks>>

\* gather_outbound_sack_packets and create_selective_ack_chunk.
gather_outbound_sack ==
    LET sack == SACK(peer_last_tsn, credit, payload_queue)
    IN  /\ ack_state = "Immediate"
        /\ Cardinality(sacks \cup {sack}) <= SackBound
        /\ sacks' = sacks \cup {sack}
        /\ ack_state' = "Idle"
        /\ UNCHANGED <<senderVars, peer_last_tsn, payload_queue, reassembly_queue, read_tsn, data>>

\* Stream::read_sctp: the application takes the next message.  No SACK tells the peer.
read_sctp ==
    /\ \E e \in Ends :
          /\ Readable(e)
          /\ reassembly_queue' = reassembly_queue \ (read_tsn + 1 .. e)
          /\ read_tsn' = e
    /\ UNCHANGED <<senderVars, peer_last_tsn, payload_queue, ack_state, data, sacks>>

----------------------------------------------------------------------------

LoseData == \E t \in data : data' = data \ {t} /\ UNCHANGED <<senderVars, receiverVars, sacks>>
LoseSack == \E d \in sacks : sacks' = sacks \ {d} /\ UNCHANGED <<senderVars, receiverVars, data>>

Next ==
    \/ write
    \/ gather_outbound
    \/ T3Timeout
    \/ \E d \in sacks : handle_sack(d)
    \/ \E t \in data : handle_data(t)
    \/ AckTimeout
    \/ gather_outbound_sack
    \/ read_sctp
    \/ LoseData
    \/ LoseSack

\* The drivers poll for transmissions and timeouts, both applications go on, and of
\* infinitely many copies of a packet infinitely many arrive.
Fairness ==
    /\ WF_vars(write)
    /\ WF_vars(gather_outbound)
    /\ WF_vars(T3Timeout)
    /\ WF_vars(AckTimeout)
    /\ WF_vars(gather_outbound_sack)
    /\ WF_vars(read_sctp)
    /\ \A t \in Chunks : SF_vars(handle_data(t))
    /\ SF_vars(\E d \in sacks : handle_sack(d))

Spec == Init /\ [][Next]_vars /\ Fairness

----------------------------------------------------------------------------

SackSet == [cumulative_tsn_ack : 0 .. LastChunk, a_rwnd : 0 .. BufferSize, gaps : SUBSET Chunks]

SenderTypeOK ==
    /\ written \in 0 .. LastChunk
    /\ my_next_tsn \in 1 .. LastChunk + 1
    /\ cumulative_tsn_ack_point \in 0 .. LastChunk
    /\ inflight_queue \in [cumulative_tsn_ack_point + 1 .. my_next_tsn - 1 -> InFlightChunk]
    /\ rwnd \in 0 .. BufferSize

CongestionTypeOK ==
    /\ cwnd \in Nat \ {0} /\ ssthresh \in Nat /\ partial_bytes_acked \in Nat
    /\ in_fast_recovery \in BOOLEAN /\ fast_recover_exit_point \in 0 .. LastChunk
    /\ will_retransmit_fast \in BOOLEAN

TimerTypeOK ==
    /\ t3_retransmit_pending \in BOOLEAN
    /\ t3 \in BOOLEAN /\ retrans_t3 \in 0 .. MaxT3 + 1
    /\ error \in BOOLEAN

ReceiverTypeOK ==
    /\ peer_last_tsn \in 0 .. LastChunk
    /\ payload_queue \subseteq Chunks
    /\ reassembly_queue \subseteq Chunks
    /\ read_tsn \in Ends \cup {0}
    /\ ack_state \in AckStates

NetworkTypeOK == data \subseteq Chunks /\ sacks \subseteq SackSet

\* The type invariant: the queue of chunks in flight holds exactly the TSNs from the
\* ack point to the next one, and no window or counter leaves its range.
TypeOK == SenderTypeOK /\ CongestionTypeOK /\ TimerTypeOK /\ ReceiverTypeOK /\ NetworkTypeOK

\* No SACK of a well-behaved peer, however late, repeated or out of order, makes
\* process_selective_ack or process_fast_retransmission ask for a TSN that is not in
\* flight: the association is never closed by its own bookkeeping.
SacksAccepted == ~ error

\* What the sender has dropped or released, the receiver holds or has delivered:
\* a payload is gone from the sender only when its copy is safe.
NothingReleasedEarly ==
    /\ cumulative_tsn_ack_point <= peer_last_tsn
    /\ \A t \in InFlight :
          inflight_queue[t].acknowledged => t <= peer_last_tsn \/ t \in payload_queue
    /\ \A t \in 1 .. peer_last_tsn : t <= read_tsn \/ t \in reassembly_queue

\* The retransmission timer runs whenever data is in flight, until it gives up.
T3Armed == InFlight # {} /\ ~ error => t3 \/ retrans_t3 > MaxT3

\* TransportConfig: the receive buffer size bounds "how much unacknowledged data a
\* peer may have in flight".  Late and reordered SACKs do not widen it.
FlowControlled == NumBytes(inflight_queue) + rwnd <= BufferSize

\* Fast recovery can always be left: the TSN that ends it is still in flight.
FastRecoveryEnds == in_fast_recovery /\ ~ error => fast_recover_exit_point \in InFlight

\* Everything that is written is read in the end, however often packets are lost and
\* however small the buffer, when T3 does not give up.
Delivered == [](\A e \in Ends : written >= e => <>(read_tsn >= e))

----------------------------------------------------------------------------
(* The inductive invariant behind the safety properties. *)

Received == 1 .. peer_last_tsn \cup payload_queue

SenderOK == /\ my_next_tsn <= written + 1
            /\ cumulative_tsn_ack_point < my_next_tsn
            /\ ~ Limited => retrans_t3 = 0

ReceiverOK ==
    /\ peer_last_tsn < my_next_tsn
    /\ \A t \in payload_queue : peer_last_tsn + 1 < t /\ t < my_next_tsn
    /\ payload_queue \subseteq reassembly_queue
    /\ reassembly_queue \subseteq Received
    /\ \A t \in reassembly_queue : t > read_tsn
    /\ read_tsn <= peer_last_tsn

\* What is in transit was true of its sender once, and both only move forward.
NetworkOK ==
    /\ \A t \in data : t < my_next_tsn
    /\ \A d \in sacks : /\ d.cumulative_tsn_ack <= peer_last_tsn
                        /\ d.gaps \subseteq Received
                        /\ \A t \in d.gaps : t > d.cumulative_tsn_ack

IInv == /\ TypeOK /\ SenderOK /\ ReceiverOK /\ NetworkOK
        /\ SacksAccepted /\ NothingReleasedEarly /\ T3Armed /\ FlowControlled /\ FastRecoveryEnds
============================================================================
