------------------------- MODULE SctpTransferProofs -------------------------
(***************************************************************************)
(* Proofs about SctpTransfer, for any number of chunks, any cut into       *)
(* messages, any buffer, windows and limits.  IInv is inductive: each      *)
(* action preserves it, one lemma for each.                                *)
(***************************************************************************)
EXTENDS SctpTransfer, FiniteSetTheorems, WellFoundedInduction, TLAPS

----------------------------------------------------------------------------
(* Operators. *)

\* The bytes in flight are counted by a natural number, and a queue with fewer
\* outstanding chunks has no more of them.
LEMMA NumBytesBound ==
    ASSUME NEW q, IsFiniteSet(DOMAIN q), NEW r, Outstanding(r) \subseteq Outstanding(q)
    PROVE  NumBytes(q) \in Nat /\ NumBytes(r) \in Nat /\ NumBytes(r) <= NumBytes(q)
<1>1. IsFiniteSet(Outstanding(q)) BY FS_Subset, Zenon DEF Outstanding
<1>2. IsFiniteSet(Outstanding(r)) /\ Cardinality(Outstanding(r)) <= Cardinality(Outstanding(q))
      BY <1>1, FS_Subset, Zenon
<1> QED BY <1>1, <1>2, FS_CardinalityType, Zenon DEF NumBytes

\* The operations on a chunk keep its type and, but for Acknowledge, its acknowledgement.
LEMMA ChunkOperations ==
    ASSUME NEW c \in InFlightChunk
    PROVE  /\ New \in InFlightChunk /\ ~ New.acknowledged
           /\ Resend(c) \in InFlightChunk /\ Resend(c).acknowledged = c.acknowledged
           /\ ResendFast(c) \in InFlightChunk /\ ResendFast(c).acknowledged = c.acknowledged
           /\ MarkToRetransmit(c) \in InFlightChunk
           /\ MarkToRetransmit(c).acknowledged = c.acknowledged
           /\ Acknowledge(c) \in InFlightChunk /\ Acknowledge(c).acknowledged
           /\ c.miss_indicator < 3 => Miss(c) \in InFlightChunk
           /\ Miss(c).acknowledged = c.acknowledged
<1> USE DEF InFlightChunk
<1>1. New \in InFlightChunk /\ ~ New.acknowledged BY DEF New
<1>3. \A e \in InFlightChunk :
         ResendFast(e) \in InFlightChunk /\ ResendFast(e).acknowledged = e.acknowledged
      BY DEF ResendFast
<1>2. Resend(c) \in InFlightChunk /\ Resend(c).acknowledged = c.acknowledged
  <2> DEFINE e == [c EXCEPT !.retransmit = FALSE]
  <2>1. e \in InFlightChunk /\ e.acknowledged = c.acknowledged BY Zenon
  <2> QED BY <1>3, <2>1, Zenon DEF Resend
<1>4. MarkToRetransmit(c) \in InFlightChunk /\ MarkToRetransmit(c).acknowledged = c.acknowledged
      BY Zenon DEF MarkToRetransmit
<1>5. Acknowledge(c) \in InFlightChunk /\ Acknowledge(c).acknowledged BY Zenon DEF Acknowledge
<1>6. ASSUME c.miss_indicator < 3 PROVE Miss(c) \in InFlightChunk BY <1>6 DEF Miss
<1>7. Miss(c).acknowledged = c.acknowledged BY Zenon DEF Miss
<1> QED BY <1>1, <1>2, <1>3, <1>4, <1>5, <1>6, <1>7, Zenon

\* The queue of chunks in flight is finite, so its bytes can be counted.
LEMMA QueueFinite ==
    ASSUME TypeOK
    PROVE  /\ InFlight = cumulative_tsn_ack_point + 1 .. my_next_tsn - 1
           /\ IsFiniteSet(InFlight)
           /\ NumBytes(inflight_queue) \in Nat
<1>1. InFlight = cumulative_tsn_ack_point + 1 .. my_next_tsn - 1 BY Zenon DEF TypeOK, SenderTypeOK, InFlight
<1>2. IsFiniteSet(InFlight) BY <1>1, FS_Interval DEF TypeOK, SenderTypeOK
<1> QED BY <1>1, <1>2, NumBytesBound, Zenon DEF InFlight

\* pop_pending_data_chunks_to_send takes chunks that are pending, and no more than the
\* peer's window; a probe beyond the window goes out only when nothing is in flight.
LEMMA NumNewBound ==
    ASSUME TypeOK, SenderOK
    PROVE  /\ NumNew \in Nat
           /\ my_next_tsn + NumNew <= written + 1
           /\ Charged \in Nat /\ Charged <= rwnd /\ Charged <= NumNew
           /\ NumNew > Charged => Charged = 0 /\ NumNew = 1 /\ InFlight = {} /\ rwnd = 0
<1> DEFINE flight == NumBytes(inflight_queue)
           room == IF cwnd > flight THEN cwnd - flight ELSE 0
           pending == written + 1 - my_next_tsn
<1>1. flight \in Nat /\ room \in Nat BY QueueFinite DEF TypeOK, CongestionTypeOK
<1>2. pending \in Nat BY TransferAssumption DEF TypeOK, SenderTypeOK, SenderOK
<1> HIDE DEF flight, room, pending
<1>3. MinOf(MinOf(room, rwnd), pending) \in Nat /\ MinOf(MinOf(room, rwnd), pending) <= rwnd
      /\ MinOf(MinOf(room, rwnd), pending) <= pending
      BY <1>1, <1>2, TransferAssumption DEF MinOf, TypeOK, SenderTypeOK
<1>4. NumNew = IF MinOf(MinOf(room, rwnd), pending) = 0 /\ InFlight = {} /\ pending > 0
               THEN 1 ELSE MinOf(MinOf(room, rwnd), pending)
      BY Zenon DEF NumNew, flight, room, pending
<1>5. rwnd \in Nat /\ my_next_tsn \in Nat /\ written \in Nat
      BY TransferAssumption DEF TypeOK, SenderTypeOK
<1>6. NumNew \in Nat /\ NumNew <= pending
      BY <1>2, <1>3, <1>4
<1>7. NumNew <= rwnd \/ (NumNew = 1 /\ InFlight = {})
      BY <1>2, <1>3, <1>4, Zenon
<1>8. my_next_tsn + NumNew <= written + 1 BY <1>5, <1>6 DEF pending
<1> QED BY <1>5, <1>6, <1>7, <1>8 DEF Charged

\* htna is one of the TSNs the SACK acknowledges.
LEMMA HtnaAcked ==
    ASSUME TypeOK, NEW d \in sacks
    PROVE  htna(d) \in {d.cumulative_tsn_ack} \cup (NewlyAcked(d) \cap d.gaps)
<1> DEFINE acked == {d.cumulative_tsn_ack} \cup (NewlyAcked(d) \cap d.gaps)
<1>1. acked \subseteq 0 .. LastChunk /\ acked # {} /\ LastChunk \in Nat
      BY TransferAssumption DEF TypeOK, NetworkTypeOK, SackSet, Chunks
<1>2. \E t \in acked : \A u \in acked : t >= u
  <2> DEFINE R == OpToRel(<, Nat)
             T == {LastChunk - t : t \in acked}
  <2>1. T \subseteq Nat /\ T # {} BY <1>1
  <2>2. PICK x \in T : \A y \in T : <<y, x>> \notin R
        BY <2>1, NatLessThanWellFounded, WFMin
  <2>3. PICK t \in acked : x = LastChunk - t BY Zenon
  <2>4. ASSUME NEW u \in acked PROVE t >= u
    <3>1. LastChunk - u \in T /\ LastChunk - u \in Nat /\ x \in Nat BY <1>1, <2>1, Zenon
    <3>2. ~ (LastChunk - u < x) BY <3>1, <2>2, Zenon DEF OpToRel
    <3> QED BY <1>1, <2>3, <3>2
  <2> QED BY <2>4, Zenon
<1> QED BY <1>2, Zenon DEF htna

----------------------------------------------------------------------------
(* The inductive invariant. *)

\* The invariant holds when the association is established.
LEMMA InitIInv == Init => IInv
<1> SUFFICES ASSUME Init PROVE IInv BY Zenon
<1> USE TransferAssumption DEF Init, Chunks
<1>1. InFlight = {} /\ Outstanding(inflight_queue) = {} BY DEF InFlight, Outstanding
<1>2. NumBytes(inflight_queue) = 0 BY <1>1, FS_EmptySet, Zenon DEF NumBytes
<1>3. inflight_queue \in [cumulative_tsn_ack_point + 1 .. my_next_tsn - 1 -> InFlightChunk]
  <2>1. cumulative_tsn_ack_point + 1 .. my_next_tsn - 1 = {} OBVIOUS
  <2>2. \A f : DOMAIN f = {} /\ f = [x \in {} |-> f[x]] => f \in [{} -> InFlightChunk] BY Zenon
  <2>3. inflight_queue = [x \in {} |-> inflight_queue[x]] /\ DOMAIN inflight_queue = {} OBVIOUS
  <2> QED BY <2>1, <2>2, <2>3, Zenon
<1>4. TypeOK
  <2>1. SenderTypeOK BY <1>3 DEF SenderTypeOK
  <2>a. /\ cwnd \in Nat \ {0} /\ ssthresh \in Nat /\ partial_bytes_acked \in Nat
        /\ fast_recover_exit_point \in 0 .. LastChunk /\ retrans_t3 \in 0 .. MaxT3 + 1
        OBVIOUS
  <2>2. CongestionTypeOK BY <2>a, Zenon DEF CongestionTypeOK
  <2>3. TimerTypeOK BY <2>a, Zenon DEF TimerTypeOK
  <2>4. ReceiverTypeOK /\ NetworkTypeOK BY DEF ReceiverTypeOK, NetworkTypeOK, AckStates
  <2> QED BY <2>1, <2>2, <2>3, <2>4, Zenon DEF TypeOK
<1>5. SenderOK /\ ReceiverOK /\ NetworkOK BY DEF SenderOK, ReceiverOK, NetworkOK, Received
<1>6. SacksAccepted /\ T3Armed /\ FastRecoveryEnds
      BY <1>1, Zenon DEF SacksAccepted, T3Armed, FastRecoveryEnds
<1>7. FlowControlled BY <1>2 DEF FlowControlled
<1>8. NothingReleasedEarly BY <1>1 DEF NothingReleasedEarly
<1> QED BY <1>4, <1>5, <1>6, <1>7, <1>8, Zenon DEF IInv

\* An action that leaves the sender alone can disturb what concerns the receiver only.
LEMMA SenderUnchanged ==
    ASSUME IInv, UNCHANGED senderVars
    PROVE  /\ SenderOK' /\ SacksAccepted' /\ T3Armed' /\ FlowControlled' /\ FastRecoveryEnds'
           /\ InFlight' = InFlight
<1> USE DEF IInv, senderVars, congestionVars, timerVars
<1>1. InFlight' = InFlight BY Zenon DEF InFlight
<1>2. SenderOK' /\ SacksAccepted' BY Zenon DEF SenderOK, SacksAccepted
<1>3. T3Armed' /\ FastRecoveryEnds' BY <1>1, Zenon DEF T3Armed, FastRecoveryEnds
<1>4. FlowControlled' BY Zenon DEF FlowControlled, NumBytes, Outstanding
<1> QED BY <1>1, <1>2, <1>3, <1>4, Zenon

\* The application writes.
LEMMA WriteStep == IInv /\ write => IInv'
<1> SUFFICES ASSUME IInv, write PROVE IInv' BY Zenon
<1> USE TransferAssumption DEF IInv
<1>1. PICK e \in Ends : e > written /\ written' = e BY Zenon DEF write
<1>2. UNCHANGED <<my_next_tsn, cumulative_tsn_ack_point, inflight_queue, rwnd, congestionVars,
                  will_retransmit_fast, t3_retransmit_pending, timerVars, error,
                  receiverVars, data, sacks>>
      BY Zenon DEF write
<1> USE <1>2 DEF congestionVars, timerVars, receiverVars
<1>3. written' \in 0 .. LastChunk /\ written' > written BY <1>1 DEF TypeOK, SenderTypeOK
<1>4. TypeOK'
  <2>1. SenderTypeOK' BY <1>3, Zenon DEF TypeOK, SenderTypeOK
  <2>2. CongestionTypeOK' /\ TimerTypeOK' BY Zenon DEF TypeOK, CongestionTypeOK, TimerTypeOK
  <2>3. ReceiverTypeOK' /\ NetworkTypeOK' BY Zenon DEF TypeOK, ReceiverTypeOK, NetworkTypeOK
  <2> QED BY <2>1, <2>2, <2>3, Zenon DEF TypeOK
<1>5. SenderOK'
  <2>1. my_next_tsn' <= written' + 1
    <3>1. my_next_tsn \in Nat /\ written \in Nat /\ my_next_tsn <= written + 1
          BY DEF SenderOK, TypeOK, SenderTypeOK
    <3>2. my_next_tsn' = my_next_tsn /\ written' \in Nat BY <1>3
    <3>3. \A a, b, c \in Nat : a <= b + 1 /\ c > b => a <= c + 1 OBVIOUS
    <3> QED BY <1>3, <3>1, <3>2, <3>3, Zenon
  <2> QED BY <2>1, Zenon DEF SenderOK
<1>6. ReceiverOK' /\ NetworkOK' BY Zenon DEF ReceiverOK, NetworkOK, Received
<1>7. InFlight' = InFlight BY Zenon DEF InFlight
<1>8. SacksAccepted' /\ NothingReleasedEarly' /\ T3Armed' /\ FastRecoveryEnds'
      BY <1>7, Zenon DEF SacksAccepted, NothingReleasedEarly, T3Armed, FastRecoveryEnds
<1>9. FlowControlled' BY Zenon DEF FlowControlled, NumBytes, Outstanding
<1> QED BY <1>4, <1>5, <1>6, <1>8, <1>9, Zenon

\* New chunks and retransmissions are sent, as the windows allow (gather_outbound).
LEMMA GatherOutboundStep == IInv /\ gather_outbound => IInv'
<1> SUFFICES ASSUME IInv, gather_outbound PROVE IInv' BY Zenon
<1> USE TransferAssumption DEF IInv
<1> DEFINE sent == [t \in InFlight \cup NewChunks |->
                       IF t \in ToRetransmit THEN Resend(inflight_queue[t])
                       ELSE IF t \in InFlight THEN inflight_queue[t] ELSE New]
           fast == FastRetransmit(sent)
<1>1. /\ inflight_queue' = [t \in DOMAIN sent |->
                                IF t \in fast THEN ResendFast(sent[t]) ELSE sent[t]]
      /\ t3_retransmit_pending' = MarkedRemain
      /\ my_next_tsn' = my_next_tsn + NumNew
      /\ rwnd' = rwnd - Charged
      /\ t3' = (t3 \/ NumNew > 0)
      /\ will_retransmit_fast' = FALSE
      /\ data' = data \cup ToRetransmit \cup NewChunks \cup fast
      /\ UNCHANGED <<written, cumulative_tsn_ack_point, congestionVars, retrans_t3, error,
                     receiverVars, sacks>>
      BY Zenon DEF gather_outbound
<1>2. /\ NumNew \in Nat /\ my_next_tsn + NumNew <= written + 1
      /\ Charged \in Nat /\ Charged <= rwnd /\ Charged <= NumNew
      /\ NumNew > Charged => Charged = 0 /\ NumNew = 1 /\ InFlight = {} /\ rwnd = 0
      BY NumNewBound, Zenon
<1>3. /\ InFlight = cumulative_tsn_ack_point + 1 .. my_next_tsn - 1
      /\ IsFiniteSet(InFlight) /\ NumBytes(inflight_queue) \in Nat
      BY QueueFinite, Zenon
<1>4. /\ written \in Nat /\ my_next_tsn \in Nat /\ cumulative_tsn_ack_point \in Nat
      /\ rwnd \in Nat /\ cumulative_tsn_ack_point < my_next_tsn /\ written <= LastChunk
      /\ my_next_tsn > 0 /\ rwnd <= BufferSize
      BY DEF TypeOK, SenderTypeOK, SenderOK
<1>5. InFlight \cup NewChunks = cumulative_tsn_ack_point + 1 .. my_next_tsn' - 1
  <2>1. my_next_tsn' = my_next_tsn + NumNew BY <1>1, Zenon
  <2>2. NewChunks = my_next_tsn .. my_next_tsn + NumNew - 1 BY Zenon DEF NewChunks
  <2>3. ASSUME NEW c \in Nat, NEW n \in Nat, NEW k \in Nat, c < n
        PROVE  (c + 1 .. n - 1) \cup (n .. n + k - 1) = c + 1 .. n + k - 1
        BY <2>3
  <2> QED BY <1>2, <1>3, <1>4, <2>1, <2>2, <2>3
<1>6. ToRetransmit \subseteq InFlight
  <2>1. Marked \subseteq InFlight BY Zenon DEF Marked
  <2> QED BY <2>1, Zenon DEF ToRetransmit, ZeroWindowProbe
<1>7. fast \subseteq InFlight \cup NewChunks BY Zenon DEF FastRetransmit, Outstanding
<1>8. \A t \in InFlight : inflight_queue[t] \in InFlightChunk
      BY <1>3, Zenon DEF TypeOK, SenderTypeOK
<1>9. New \in InFlightChunk BY DEF New, InFlightChunk
<1>10. sent \in [InFlight \cup NewChunks -> InFlightChunk]
       BY <1>6, <1>8, <1>9, ChunkOperations, Zenon
<1>12. /\ \A t \in InFlight : sent[t].acknowledged = inflight_queue[t].acknowledged
       /\ \A t \in NewChunks \ InFlight : ~ sent[t].acknowledged
  <2>1. ASSUME NEW t \in InFlight PROVE sent[t].acknowledged = inflight_queue[t].acknowledged
        BY <1>8, ChunkOperations, Zenon
  <2>2. ASSUME NEW t \in NewChunks \ InFlight PROVE ~ sent[t].acknowledged
        BY <1>6, Zenon DEF New
  <2> QED BY <2>1, <2>2, Zenon
<1> HIDE DEF sent, fast
<1>13. /\ inflight_queue' \in [InFlight \cup NewChunks -> InFlightChunk]
       /\ \A t \in InFlight \cup NewChunks :
             inflight_queue'[t].acknowledged = sent[t].acknowledged
       BY <1>1, <1>10, ChunkOperations, Zenon
<1>14. InFlight' = InFlight \cup NewChunks BY <1>13, Zenon DEF InFlight
<1>15. MarkedRemain \in BOOLEAN /\ t3' \in BOOLEAN BY <1>1, Zenon DEF MarkedRemain, TypeOK, TimerTypeOK
<1>16. data' \subseteq 1 .. my_next_tsn' - 1
  <2>1. data \subseteq 1 .. my_next_tsn - 1
        BY <1>4 DEF NetworkOK, TypeOK, NetworkTypeOK, Chunks
  <2>2. data \subseteq 1 .. my_next_tsn' - 1 BY <1>1, <1>2, <1>4, <2>1
  <2>3. InFlight \cup NewChunks \subseteq 1 .. my_next_tsn' - 1 BY <1>1, <1>2, <1>4, <1>5
  <2> QED BY <1>1, <1>6, <1>7, <2>2, <2>3, Zenon
<1>17. TypeOK'
  <2>1. my_next_tsn' \in 1 .. LastChunk + 1 BY <1>1, <1>2, <1>4
  <2>2. rwnd' \in 0 .. BufferSize BY <1>1, <1>2, <1>4
  <2>3. data' \subseteq Chunks
    <3>1. \A n \in 1 .. LastChunk + 1 : 1 .. n - 1 \subseteq 1 .. LastChunk OBVIOUS
    <3>2. 1 .. my_next_tsn' - 1 \subseteq Chunks BY <2>1, <3>1, Zenon DEF Chunks
    <3> QED BY <1>16, <3>2, Zenon
  <2>4. inflight_queue' \in [cumulative_tsn_ack_point' + 1 .. my_next_tsn' - 1 -> InFlightChunk]
        BY <1>1, <1>5, <1>13, Zenon
  <2>5. SenderTypeOK' BY <1>1, <2>1, <2>2, <2>4, Zenon DEF TypeOK, SenderTypeOK
  <2>6. CongestionTypeOK' BY <1>1, Zenon DEF TypeOK, CongestionTypeOK, congestionVars
  <2>7. TimerTypeOK' BY <1>1, <1>15, Zenon DEF TypeOK, TimerTypeOK
  <2>8. ReceiverTypeOK' BY <1>1, Zenon DEF TypeOK, ReceiverTypeOK, receiverVars
  <2>9. NetworkTypeOK' BY <1>1, <2>3, Zenon DEF TypeOK, NetworkTypeOK
  <2> QED BY <2>5, <2>6, <2>7, <2>8, <2>9, Zenon DEF TypeOK
<1>18. SenderOK' BY <1>1, <1>2, <1>4 DEF SenderOK
<1>19. ReceiverOK' BY <1>1, <1>2, <1>4 DEF ReceiverOK, Received, receiverVars, TypeOK, ReceiverTypeOK, Chunks
<1>20. NetworkOK'
  <2>1. \A t \in data' : t < my_next_tsn' BY <1>1, <1>2, <1>4, <1>16
  <2> QED BY <1>1, <2>1, Zenon DEF NetworkOK, Received, receiverVars
<1>21. SacksAccepted' BY <1>1, Zenon DEF SacksAccepted
<1>22. NothingReleasedEarly'
  <2>1. \A t \in InFlight' : inflight_queue'[t].acknowledged =>
           t \in InFlight /\ inflight_queue[t].acknowledged
        BY <1>12, <1>13, <1>14, Zenon
  <2> QED BY <1>1, <2>1, Zenon DEF NothingReleasedEarly, receiverVars
<1>23. T3Armed'
  <2>1. NumNew = 0 => NewChunks = {} BY <1>4 DEF NewChunks
  <2>2. CASE NumNew = 0 BY <1>1, <1>14, <2>1, <2>2, Zenon DEF T3Armed
  <2>3. CASE NumNew > 0 BY <1>1, <2>3, Zenon DEF T3Armed
  <2> QED BY <1>2, <2>2, <2>3
<1>24. FlowControlled'
  <2>1. Outstanding(inflight_queue') \subseteq Outstanding(inflight_queue) \cup NewChunks
        BY <1>12, <1>13, <1>14, Zenon DEF Outstanding, InFlight
  <2>2. IsFiniteSet(Outstanding(inflight_queue)) /\ IsFiniteSet(NewChunks)
        /\ Cardinality(NewChunks) = NumNew
    <3>1. IsFiniteSet(Outstanding(inflight_queue))
          BY <1>3, FS_Subset, Zenon DEF Outstanding, InFlight
    <3>2. IsFiniteSet(NewChunks) /\ Cardinality(NewChunks) = NumNew
          BY <1>2, <1>4, FS_Interval DEF NewChunks
    <3> QED BY <3>1, <3>2, Zenon
  <2>3. IsFiniteSet(Outstanding(inflight_queue) \cup NewChunks)
        /\ Cardinality(Outstanding(inflight_queue) \cup NewChunks)
              <= Cardinality(Outstanding(inflight_queue)) + NumNew
    <3>1. IsFiniteSet(Outstanding(inflight_queue) \cap NewChunks)
          BY <2>2, FS_Intersection, Zenon
    <3>2. /\ Cardinality(Outstanding(inflight_queue)) \in Nat
          /\ Cardinality(Outstanding(inflight_queue) \cap NewChunks) \in Nat
          BY <2>2, <3>1, FS_CardinalityType, Zenon
    <3> QED BY <1>2, <2>2, <3>2, FS_Union, SMTT(30)
  <2>4. NumBytes(inflight_queue') \in Nat
        /\ NumBytes(inflight_queue') <= NumBytes(inflight_queue) + NumNew
    <3>1. /\ IsFiniteSet(Outstanding(inflight_queue'))
          /\ Cardinality(Outstanding(inflight_queue')) <=
                Cardinality(Outstanding(inflight_queue) \cup NewChunks)
          BY <2>1, <2>3, FS_Subset, Zenon
    <3>2. Cardinality(Outstanding(inflight_queue')) \in Nat
          /\ Cardinality(Outstanding(inflight_queue) \cup NewChunks) \in Nat
          BY <2>3, <3>1, FS_CardinalityType, Zenon
    <3> QED BY <1>2, <1>3, <2>3, <3>1, <3>2 DEF NumBytes
  <2>5. CASE NumNew > Charged
    <3>1. Outstanding(inflight_queue) = {} BY <1>2, <2>5, Zenon DEF Outstanding, InFlight
    <3>2. NumBytes(inflight_queue) = 0 BY <3>1, FS_EmptySet, Zenon DEF NumBytes
    <3> QED BY <1>1, <1>2, <1>4, <2>4, <2>5, <3>2 DEF FlowControlled
  <2>6. CASE NumNew = Charged
        BY <1>1, <1>2, <1>3, <1>4, <2>4, <2>6 DEF FlowControlled
  <2> QED BY <1>2, <2>5, <2>6
<1>25. FastRecoveryEnds' BY <1>1, <1>14, Zenon DEF FastRecoveryEnds, congestionVars
<1> QED BY <1>17, <1>18, <1>19, <1>20, <1>21, <1>22, <1>23, <1>24, <1>25, Zenon

\* T3 expires: everything outstanding is marked, or the timer gives up.
LEMMA T3TimeoutStep == IInv /\ T3Timeout => IInv'
<1> SUFFICES ASSUME IInv, T3Timeout PROVE IInv' BY Zenon
<1> USE TransferAssumption DEF IInv
<1>1. UNCHANGED <<written, my_next_tsn, cumulative_tsn_ack_point, rwnd, partial_bytes_acked,
                  in_fast_recovery, fast_recover_exit_point, will_retransmit_fast, error,
                  receiverVars, data, sacks>>
      BY Zenon DEF T3Timeout
<1>2. retrans_t3' \in 0 .. MaxT3 + 1 /\ (~ Limited => retrans_t3' = 0)
  <2>1. retrans_t3' = IF Limited THEN MinOf(retrans_t3 + 1, MaxT3 + 1) ELSE 0 BY Zenon DEF T3Timeout
  <2>2. MinOf(retrans_t3 + 1, MaxT3 + 1) \in 0 .. MaxT3 + 1
        BY DEF MinOf, TypeOK, TimerTypeOK
  <2> QED BY <2>1, <2>2
<1>3. CASE retrans_t3' > MaxT3
  <2>1. t3' = FALSE /\ UNCHANGED <<inflight_queue, cwnd, ssthresh, t3_retransmit_pending>>
        BY <1>3, Zenon DEF T3Timeout
  <2>2. InFlight' = InFlight BY <2>1, Zenon DEF InFlight
  <2>3. TypeOK'
    <3>1. SenderTypeOK' BY <1>1, <2>1, Zenon DEF TypeOK, SenderTypeOK
    <3>2. CongestionTypeOK' BY <1>1, <2>1, Zenon DEF TypeOK, CongestionTypeOK
    <3>3. TimerTypeOK' BY <1>1, <1>2, <2>1, Zenon DEF TypeOK, TimerTypeOK
    <3>4. ReceiverTypeOK' BY <1>1, Zenon DEF TypeOK, ReceiverTypeOK, receiverVars
    <3>5. NetworkTypeOK' BY <1>1, Zenon DEF TypeOK, NetworkTypeOK
    <3> QED BY <3>1, <3>2, <3>3, <3>4, <3>5, Zenon DEF TypeOK
  <2>4. SenderOK' BY <1>1, <1>2, Zenon DEF SenderOK
  <2>5. ReceiverOK' /\ NetworkOK' BY <1>1, Zenon DEF ReceiverOK, NetworkOK, Received, receiverVars
  <2>6. SacksAccepted' /\ NothingReleasedEarly' /\ FastRecoveryEnds'
        BY <1>1, <2>1, <2>2, Zenon
        DEF SacksAccepted, NothingReleasedEarly, FastRecoveryEnds, receiverVars
  <2>7. T3Armed' BY <1>3, Zenon DEF T3Armed
  <2>8. FlowControlled' BY <1>1, <2>1, Zenon DEF FlowControlled, NumBytes, Outstanding
  <2> QED BY <2>3, <2>4, <2>5, <2>6, <2>7, <2>8, Zenon
<1>4. CASE ~ (retrans_t3' > MaxT3)
  <2>1. /\ ssthresh' = MaxOf(cwnd \div 2, 4 * mtu)
        /\ cwnd' = mtu
        /\ inflight_queue' = [t \in InFlight |-> MarkToRetransmit(inflight_queue[t])]
        /\ t3_retransmit_pending' = TRUE
        /\ t3' = t3 /\ t3
        BY <1>4, Zenon DEF T3Timeout
  <2>2. InFlight' = InFlight BY <2>1, Zenon DEF InFlight
  <2>3. \A t \in InFlight : inflight_queue[t] \in InFlightChunk
        BY QueueFinite, Zenon DEF TypeOK, SenderTypeOK
  <2>4. inflight_queue' \in [InFlight -> InFlightChunk]
        BY <2>1, <2>3, ChunkOperations, Zenon
  <2>5. \A t \in InFlight : inflight_queue'[t].acknowledged = inflight_queue[t].acknowledged
        BY <2>1, <2>3, ChunkOperations, Zenon
  <2>6. TypeOK'
    <3>1. SenderTypeOK' BY <1>1, <2>4, QueueFinite, Zenon DEF TypeOK, SenderTypeOK
    <3>a. ssthresh' \in Nat /\ cwnd' \in Nat \ {0}
          BY <2>1 DEF TypeOK, CongestionTypeOK, MaxOf, mtu
    <3>2. CongestionTypeOK' BY <1>1, <3>a, Zenon DEF TypeOK, CongestionTypeOK
    <3>3. TimerTypeOK' BY <1>1, <1>2, <2>1, Zenon DEF TypeOK, TimerTypeOK
    <3>4. ReceiverTypeOK' BY <1>1, Zenon DEF TypeOK, ReceiverTypeOK, receiverVars
    <3>5. NetworkTypeOK' BY <1>1, Zenon DEF TypeOK, NetworkTypeOK
    <3> QED BY <3>1, <3>2, <3>3, <3>4, <3>5, Zenon DEF TypeOK
  <2>7. SenderOK' BY <1>1, <1>2, Zenon DEF SenderOK
  <2>8. ReceiverOK' /\ NetworkOK' BY <1>1, Zenon DEF ReceiverOK, NetworkOK, Received, receiverVars
  <2>9. SacksAccepted' /\ NothingReleasedEarly' /\ FastRecoveryEnds'
        BY <1>1, <2>2, <2>5, Zenon
        DEF SacksAccepted, NothingReleasedEarly, FastRecoveryEnds, receiverVars
  <2>10. T3Armed' BY <2>1, Zenon DEF T3Armed
  <2>11. FlowControlled'
    <3>1. Outstanding(inflight_queue') = Outstanding(inflight_queue)
          BY <2>2, <2>5, Zenon DEF Outstanding, InFlight
    <3> QED BY <1>1, <3>1, Zenon DEF FlowControlled, NumBytes
  <2> QED BY <2>6, <2>7, <2>8, <2>9, <2>10, <2>11, Zenon
<1> QED BY <1>3, <1>4, Zenon

\* A SACK that is not older than the ack point names chunks in flight only.
LEMMA SackAcceptable ==
    ASSUME IInv, NEW d \in sacks, ~ OutOfOrder(d)
    PROVE  /\ Acceptable(d)
           /\ d.cumulative_tsn_ack \in 0 .. LastChunk /\ d.a_rwnd \in 0 .. BufferSize
           /\ cumulative_tsn_ack_point <= d.cumulative_tsn_ack
           /\ d.cumulative_tsn_ack <= peer_last_tsn
           /\ d.cumulative_tsn_ack < my_next_tsn
<1> USE TransferAssumption DEF IInv
<1>1. d.cumulative_tsn_ack \in 0 .. LastChunk /\ d.a_rwnd \in 0 .. BufferSize
      /\ d.gaps \subseteq Chunks
      BY Zenon DEF TypeOK, NetworkTypeOK, SackSet
<1>2. /\ cumulative_tsn_ack_point \in Nat /\ my_next_tsn \in Nat /\ peer_last_tsn \in Nat
      BY DEF TypeOK, SenderTypeOK, ReceiverTypeOK
<1>3. /\ d.cumulative_tsn_ack <= peer_last_tsn /\ peer_last_tsn < my_next_tsn
      /\ \A t \in d.gaps : t > d.cumulative_tsn_ack /\ t \in Received
      BY Zenon DEF NetworkOK, ReceiverOK
<1>4. cumulative_tsn_ack_point <= d.cumulative_tsn_ack
      BY <1>1, <1>2 DEF OutOfOrder
<1>5. InFlight = cumulative_tsn_ack_point + 1 .. my_next_tsn - 1 BY QueueFinite, Zenon
<1>6. \A t \in cumulative_tsn_ack_point + 1 .. d.cumulative_tsn_ack : t \in InFlight
      BY <1>1, <1>2, <1>3, <1>5
<1>7. ASSUME NEW t \in d.gaps PROVE t \in InFlight /\ t > d.cumulative_tsn_ack
  <2>1. t \in Nat BY <1>1 DEF Chunks
  <2>2. t < my_next_tsn
        BY <1>2, <1>3, <2>1 DEF Received, ReceiverOK
  <2> QED BY <1>1, <1>2, <1>3, <1>4, <1>5, <2>1, <2>2
<1>8. Acceptable(d) BY <1>6, <1>7, Zenon DEF Acceptable
<1> QED BY <1>1, <1>2, <1>3, <1>4, <1>8

\* The queue after a SACK: the TSNs beyond its cumulative ack, with the ones it covers
\* acknowledged.
LEMMA AckedQueueShape ==
    ASSUME IInv, NEW d \in sacks, ~ OutOfOrder(d)
    PROVE  /\ DOMAIN AckedQueue(d) = d.cumulative_tsn_ack + 1 .. my_next_tsn - 1
           /\ DOMAIN AckedQueue(d) \subseteq InFlight
           /\ AckedQueue(d) \in [DOMAIN AckedQueue(d) -> InFlightChunk]
           /\ \A t \in DOMAIN AckedQueue(d) :
                 AckedQueue(d)[t].acknowledged <=>
                    inflight_queue[t].acknowledged \/ t \in d.gaps
<1> USE TransferAssumption
<1>1. InFlight = cumulative_tsn_ack_point + 1 .. my_next_tsn - 1
      BY QueueFinite, Zenon DEF IInv
<1>2. /\ cumulative_tsn_ack_point \in Nat /\ my_next_tsn \in Nat
      /\ d.cumulative_tsn_ack \in Nat /\ cumulative_tsn_ack_point <= d.cumulative_tsn_ack
      BY SackAcceptable DEF IInv, TypeOK, SenderTypeOK
<1>3. \A t \in InFlight : inflight_queue[t] \in InFlightChunk
      BY <1>1, Zenon DEF IInv, TypeOK, SenderTypeOK
<1>4. DOMAIN AckedQueue(d) = {u \in InFlight : u > d.cumulative_tsn_ack} BY Zenon DEF AckedQueue
<1>5. {u \in InFlight : u > d.cumulative_tsn_ack} = d.cumulative_tsn_ack + 1 .. my_next_tsn - 1
      BY <1>1, <1>2
<1>6. AckedQueue(d) \in [DOMAIN AckedQueue(d) -> InFlightChunk]
      BY <1>3, <1>4, ChunkOperations, Zenon DEF AckedQueue
<1>7. ASSUME NEW t \in DOMAIN AckedQueue(d)
      PROVE  AckedQueue(d)[t].acknowledged <=> inflight_queue[t].acknowledged \/ t \in d.gaps
  <2>1. t \in InFlight /\ t > d.cumulative_tsn_ack BY <1>4, Zenon
  <2>2. CASE t \in d.gaps BY <1>3, <1>4, <2>1, <2>2, ChunkOperations, Zenon DEF AckedQueue
  <2>3. CASE t \notin d.gaps BY <1>4, <2>1, <2>3, Zenon DEF AckedQueue
  <2> QED BY <2>2, <2>3, Zenon
<1> QED BY <1>4, <1>5, <1>6, <1>7, Zenon

\* on_cumulative_tsn_ack_point_advanced never shrinks the congestion window.
LEMMA GrownWindowType ==
    ASSUME IInv, NEW d
    PROVE  GrownWindow(d).cwnd \in Nat \ {0} /\ GrownWindow(d).partial \in Nat
<1> DEFINE acked == Cardinality(NewlyAcked(d))
           same == [cwnd |-> cwnd, partial |-> partial_bytes_acked]
<1>1. acked \in Nat
      BY QueueFinite, FS_Subset, FS_CardinalityType, Zenon DEF IInv, NewlyAcked
<1>2. cwnd \in Nat \ {0} /\ partial_bytes_acked \in Nat
      BY Zenon DEF IInv, TypeOK, CongestionTypeOK
<1> HIDE DEF acked
<1>3. MinOf(acked, cwnd) \in Nat BY <1>1, <1>2, Zenon DEF MinOf
<1>4. GrownWindow(d) \in {same, [same EXCEPT !.cwnd = cwnd + MinOf(acked, cwnd)],
                          [same EXCEPT !.partial = partial_bytes_acked + acked]}
      \/ /\ partial_bytes_acked + acked >= cwnd
         /\ GrownWindow(d) = [cwnd |-> cwnd + mtu, partial |-> partial_bytes_acked + acked - cwnd]
      BY Zenon DEF GrownWindow, acked
<1> QED BY <1>1, <1>2, <1>3, <1>4 DEF mtu


\* A SACK of any age is processed (handle_sack).
LEMMA HandleSackStep ==
    ASSUME IInv, NEW d \in sacks, handle_sack(d)
    PROVE  IInv'
<1> USE TransferAssumption
<1> DEFINE q == AckedQueue(d)
           grown == GrownWindow(d)
           enters == EntersFastRecovery(d)
<1>1. ~ OutOfOrder(d) BY Zenon DEF handle_sack
<1>2. /\ Acceptable(d)
      /\ d.cumulative_tsn_ack \in 0 .. LastChunk /\ d.a_rwnd \in 0 .. BufferSize
      /\ cumulative_tsn_ack_point <= d.cumulative_tsn_ack
      /\ d.cumulative_tsn_ack <= peer_last_tsn
      /\ d.cumulative_tsn_ack < my_next_tsn
      BY <1>1, SackAcceptable, Zenon
<1>3. /\ cumulative_tsn_ack_point' = d.cumulative_tsn_ack
      /\ inflight_queue' = [t \in DOMAIN q |-> IF t \in Missed(d) THEN Miss(q[t]) ELSE q[t]]
      /\ rwnd' = NewRwnd(d)
      /\ in_fast_recovery' = (StillInFastRecovery(d) \/ enters)
      /\ fast_recover_exit_point' = IF enters THEN htna(d) ELSE fast_recover_exit_point
      /\ ssthresh' = IF enters THEN MaxOf(grown.cwnd \div 2, 4 * mtu) ELSE ssthresh
      /\ cwnd' = IF enters THEN ssthresh' ELSE grown.cwnd
      /\ partial_bytes_acked' = IF enters THEN 0 ELSE grown.partial
      /\ will_retransmit_fast' =
             (will_retransmit_fast \/ enters \/ (in_fast_recovery' /\ Advances(d)))
      /\ t3' = T3Runs(d)
      /\ retrans_t3' = IF NewlyAcked(d) # {} THEN 0 ELSE retrans_t3
      /\ error' = error
      BY <1>2, Zenon DEF handle_sack
<1>4. UNCHANGED <<written, my_next_tsn, t3_retransmit_pending, receiverVars, data>>
      /\ sacks' \subseteq sacks
      BY Zenon DEF handle_sack, Consume
<1>5. /\ DOMAIN q = d.cumulative_tsn_ack + 1 .. my_next_tsn - 1
      /\ DOMAIN q \subseteq InFlight
      /\ q \in [DOMAIN q -> InFlightChunk]
      /\ \A t \in DOMAIN q : q[t].acknowledged <=> inflight_queue[t].acknowledged \/ t \in d.gaps
      BY <1>1, AckedQueueShape, Zenon
<1>6. InFlight = cumulative_tsn_ack_point + 1 .. my_next_tsn - 1 /\ IsFiniteSet(InFlight)
      /\ NumBytes(inflight_queue) \in Nat
      BY QueueFinite, Zenon DEF IInv
<1>7. htna(d) \in {d.cumulative_tsn_ack} \cup (NewlyAcked(d) \cap d.gaps)
      BY HtnaAcked, Zenon DEF IInv
<1>8. grown.cwnd \in Nat \ {0} /\ grown.partial \in Nat BY GrownWindowType, Zenon
<1> HIDE DEF q, grown, enters
<1>9. \A t \in Missed(d) : t \in DOMAIN q /\ q[t].miss_indicator < 3
      BY Zenon DEF Missed, Outstanding, q
<1>10. /\ InFlight' = DOMAIN q
       /\ inflight_queue' \in [DOMAIN q -> InFlightChunk]
       /\ \A t \in DOMAIN q : inflight_queue'[t].acknowledged = q[t].acknowledged
       BY <1>3, <1>5, <1>9, ChunkOperations, Zenon DEF InFlight
<1>11. Outstanding(inflight_queue') = Outstanding(q)
       BY <1>10, Zenon DEF Outstanding, InFlight
<1>12. /\ NumBytes(q) \in Nat
       /\ NumBytes(inflight_queue') = NumBytes(q)
       /\ NumBytes(q) <= NumBytes(inflight_queue)
  <2>1. Outstanding(q) \subseteq Outstanding(inflight_queue)
        BY <1>5, Zenon DEF Outstanding, InFlight
  <2> QED BY <1>6, <1>11, <2>1, NumBytesBound, Zenon DEF NumBytes, InFlight
<1>13. rwnd' \in 0 .. BufferSize /\ NumBytes(inflight_queue') + rwnd' <= BufferSize
  <2>1. NumBytes(inflight_queue) + rwnd <= BufferSize /\ rwnd \in Nat
        BY DEF IInv, FlowControlled, TypeOK, SenderTypeOK
  <2>2. rwnd' = IF NumBytes(q) >= d.a_rwnd THEN 0 ELSE d.a_rwnd - NumBytes(q)
        BY <1>3, Zenon DEF NewRwnd, q
  <2> QED BY <1>2, <1>6, <1>12, <2>1, <2>2
<1>14. enters => htna(d) \in DOMAIN q
  <2> SUFFICES ASSUME enters PROVE htna(d) \in DOMAIN q BY Zenon
  <2>1. PICK t \in Missed(d) : t < htna(d)
        BY Zenon DEF enters, EntersFastRecovery, Missed
  <2>2. t \in DOMAIN q BY <1>9, Zenon
  <2>3. htna(d) # d.cumulative_tsn_ack BY <1>2, <1>5, <2>1, <2>2
  <2>4. htna(d) \in d.gaps /\ htna(d) \in InFlight /\ htna(d) > d.cumulative_tsn_ack
        BY <1>2, <1>7, <2>3, Zenon DEF Acceptable
  <2> QED BY <1>2, <1>5, <1>6, <2>4
<1>15. CongestionTypeOK'
  <2>1. /\ ssthresh \in Nat /\ fast_recover_exit_point \in 0 .. LastChunk
        BY Zenon DEF IInv, TypeOK, CongestionTypeOK
  <2>2. htna(d) \in 0 .. LastChunk
        BY <1>2, <1>7 DEF IInv, TypeOK, NetworkTypeOK, SackSet, Chunks
  <2>3. fast_recover_exit_point' \in 0 .. LastChunk BY <1>3, <2>1, <2>2, Zenon
  <2>4. MaxOf(grown.cwnd \div 2, 4 * mtu) \in Nat \ {0} BY <1>8 DEF MaxOf, mtu
  <2>5. ssthresh' \in Nat /\ cwnd' \in Nat \ {0} /\ partial_bytes_acked' \in Nat
        BY <1>3, <1>8, <2>1, <2>4, Zenon
  <2>6. will_retransmit_fast' \in BOOLEAN /\ in_fast_recovery' \in BOOLEAN
        BY <1>3, Zenon DEF IInv, TypeOK, CongestionTypeOK
  <2> QED BY <2>3, <2>5, <2>6, Zenon DEF CongestionTypeOK
<1>16. /\ written \in 0 .. LastChunk /\ my_next_tsn \in 1 .. LastChunk + 1
       /\ retrans_t3 \in 0 .. MaxT3 + 1
       BY Zenon DEF IInv, TypeOK, SenderTypeOK, TimerTypeOK
<1>17. TypeOK'
  <2>1. SenderTypeOK' BY <1>2, <1>3, <1>4, <1>5, <1>10, <1>13, <1>16, Zenon DEF SenderTypeOK
  <2>2. retrans_t3' \in 0 .. MaxT3 + 1 BY <1>3, <1>16
  <2>3. TimerTypeOK' BY <1>3, <1>4, <2>2, Zenon DEF IInv, TypeOK, TimerTypeOK, T3Runs
  <2>4. ReceiverTypeOK' BY <1>4, Zenon DEF IInv, TypeOK, ReceiverTypeOK, receiverVars
  <2>5. NetworkTypeOK' BY <1>4, Zenon DEF IInv, TypeOK, NetworkTypeOK
  <2> QED BY <1>15, <2>1, <2>3, <2>4, <2>5, Zenon DEF TypeOK
<1>18. SenderOK' BY <1>2, <1>3, <1>4, Zenon DEF IInv, SenderOK
<1>19. ReceiverOK' /\ NetworkOK'
       BY <1>4, Zenon DEF IInv, ReceiverOK, NetworkOK, Received, receiverVars
<1>20. SacksAccepted' BY <1>3, Zenon DEF IInv, SacksAccepted
<1>21. NothingReleasedEarly'
  <2>1. cumulative_tsn_ack_point' <= peer_last_tsn' BY <1>2, <1>3, <1>4, Zenon DEF receiverVars
  <2>2. ASSUME NEW t \in InFlight', inflight_queue'[t].acknowledged
        PROVE  t <= peer_last_tsn' \/ t \in payload_queue'
    <3>1. t \in InFlight /\ (inflight_queue[t].acknowledged \/ t \in d.gaps)
          BY <1>5, <1>10, <2>2, Zenon
    <3>2. t \in d.gaps => t <= peer_last_tsn \/ t \in payload_queue
          BY DEF IInv, NetworkOK, Received, TypeOK, ReceiverTypeOK
    <3> QED BY <1>4, <3>1, <3>2, Zenon DEF IInv, NothingReleasedEarly, receiverVars
  <2> QED BY <1>4, <2>1, <2>2, Zenon DEF IInv, NothingReleasedEarly, receiverVars
<1>22. T3Armed' BY <1>3, <1>10, Zenon DEF T3Armed, T3Runs, q
<1>23. FlowControlled' BY <1>13, Zenon DEF FlowControlled
<1>24. FastRecoveryEnds'
  <2>1. ASSUME StillInFastRecovery(d), ~ enters, ~ error
        PROVE  fast_recover_exit_point \in DOMAIN q
    <3>1. fast_recover_exit_point \in InFlight
          BY <2>1, Zenon DEF IInv, FastRecoveryEnds, StillInFastRecovery
    <3>2. fast_recover_exit_point \notin cumulative_tsn_ack_point + 1 .. d.cumulative_tsn_ack
          BY <2>1, Zenon DEF StillInFastRecovery
    <3> QED BY <1>2, <1>5, <1>6, <1>16, <3>1, <3>2, SMTT(30)
  <2> QED BY <1>3, <1>10, <1>14, <2>1, Zenon DEF FastRecoveryEnds
<1> QED BY <1>17, <1>18, <1>19, <1>20, <1>21, <1>22, <1>23, <1>24, Zenon DEF IInv


\* A chunk arrives, new or old, in order or not (handle_data).
LEMMA HandleDataStep ==
    ASSUME IInv, NEW t \in data, handle_data(t)
    PROVE  IInv'
<1> USE TransferAssumption
<1> DEFINE received == IF Accepts(t) THEN payload_queue \cup {t} ELSE payload_queue
<1>1. PICK last \in {peer_last_tsn} \cup received :
         /\ peer_last_tsn + 1 .. last \subseteq received
         /\ last + 1 \notin received
         /\ peer_last_tsn' = last
         /\ payload_queue' = {u \in received : u > last}
      BY Zenon DEF handle_data
<1>2. /\ data' \subseteq data
      /\ reassembly_queue' = IF Accepts(t) THEN reassembly_queue \cup {t} ELSE reassembly_queue
      /\ ack_state' \in AckStates
      /\ UNCHANGED <<senderVars, read_tsn, sacks>>
      BY Zenon DEF handle_data, Consume, AckStates
<1>3. /\ SenderOK' /\ SacksAccepted' /\ T3Armed' /\ FlowControlled' /\ FastRecoveryEnds'
      /\ InFlight' = InFlight
      BY <1>2, SenderUnchanged, Zenon
<1>4. /\ peer_last_tsn \in Nat /\ my_next_tsn \in Nat /\ read_tsn \in Nat /\ t \in Nat
      /\ my_next_tsn <= LastChunk + 1 /\ t < my_next_tsn /\ t > 0
      /\ peer_last_tsn < my_next_tsn /\ read_tsn <= peer_last_tsn
      /\ cumulative_tsn_ack_point \in Nat
  <2>1. SenderTypeOK /\ ReceiverTypeOK /\ NetworkTypeOK /\ ReceiverOK /\ NetworkOK BY Zenon DEF IInv, TypeOK
  <2>2. t \in Nat /\ t > 0 /\ t < my_next_tsn BY <2>1 DEF NetworkTypeOK, NetworkOK, Chunks
  <2>3. my_next_tsn \in Nat /\ my_next_tsn <= LastChunk + 1 /\ cumulative_tsn_ack_point \in Nat
        BY <2>1 DEF SenderTypeOK
  <2>4. peer_last_tsn \in Nat /\ read_tsn \in Nat BY <2>1 DEF ReceiverTypeOK, Chunks
  <2>5. peer_last_tsn < my_next_tsn /\ read_tsn <= peer_last_tsn BY <2>1, Zenon DEF ReceiverOK
  <2> QED BY <2>2, <2>3, <2>4, <2>5, Zenon
<1>5. \A u \in received : /\ u \in Nat /\ u > peer_last_tsn /\ u < my_next_tsn
                          /\ u \in reassembly_queue'
      BY <1>2, <1>4
      DEF IInv, TypeOK, ReceiverTypeOK, ReceiverOK, Chunks, Accepts
<1>6. last \in Nat /\ peer_last_tsn <= last /\ last < my_next_tsn BY <1>1, <1>4, <1>5
<1> HIDE DEF received
<1>7. ReceiverTypeOK'
  <2>1. peer_last_tsn' \in 0 .. LastChunk BY <1>1, <1>4, <1>6
  <2>2. payload_queue' \subseteq Chunks BY <1>1, <1>4, <1>5 DEF Chunks
  <2>3. reassembly_queue' \subseteq Chunks
        BY <1>2, <1>4 DEF IInv, TypeOK, ReceiverTypeOK, Chunks
  <2> QED BY <1>2, <2>1, <2>2, <2>3, Zenon DEF IInv, TypeOK, ReceiverTypeOK
<1>8. TypeOK'
  <2>1. SenderTypeOK' BY <1>2, Zenon DEF IInv, TypeOK, SenderTypeOK, senderVars
  <2>2. CongestionTypeOK' BY <1>2, Zenon DEF IInv, TypeOK, CongestionTypeOK, senderVars, congestionVars
  <2>3. TimerTypeOK' BY <1>2, Zenon DEF IInv, TypeOK, TimerTypeOK, senderVars, timerVars
  <2>4. NetworkTypeOK' BY <1>2, Zenon DEF IInv, TypeOK, NetworkTypeOK
  <2> QED BY <1>7, <2>1, <2>2, <2>3, <2>4, Zenon DEF TypeOK
\* The receiver has at least what it had.
<1>9. received \subseteq 1 .. last \cup payload_queue'
  <2> SUFFICES ASSUME NEW u \in received, u \notin payload_queue' PROVE u \in 1 .. last
      BY Zenon
  <2>1. u <= last BY <1>1, <1>5, <1>6
  <2> QED BY <1>4, <1>5, <1>6, <2>1
<1>10. Received \subseteq Received'
  <2>1. 1 .. peer_last_tsn \subseteq 1 .. last BY <1>4, <1>6
  <2>2. payload_queue \subseteq received BY Zenon DEF received
  <2> QED BY <1>1, <1>9, <2>1, <2>2, Zenon DEF Received
<1>11. ReceiverOK'
  <2>1. my_next_tsn' = my_next_tsn /\ read_tsn' = read_tsn BY <1>2, Zenon DEF senderVars
  <2>2. peer_last_tsn' < my_next_tsn' /\ read_tsn' <= peer_last_tsn' BY <1>1, <1>4, <1>6, <2>1
  <2>3. ASSUME NEW u \in payload_queue'
        PROVE  peer_last_tsn' + 1 < u /\ u < my_next_tsn' /\ u \in reassembly_queue'
    <3>1. u \in received /\ u > last BY <1>1, Zenon
    <3>2. u # last + 1 BY <1>1, <3>1, Zenon
    <3> QED BY <1>1, <1>5, <1>6, <2>1, <3>1, <3>2
  <2>4. ASSUME NEW u \in reassembly_queue'
        PROVE  u \in Received' /\ u > read_tsn'
    <3>1. CASE u \in reassembly_queue
          BY <1>10, <2>1, <3>1, Zenon DEF IInv, ReceiverOK
    <3>2. CASE u \notin reassembly_queue
      <4>1. Accepts(t) /\ u = t /\ u \in received BY <1>2, <3>2, Zenon DEF received
      <4>2. u > read_tsn BY <1>4, <1>5, <4>1
      <4> QED BY <1>1, <1>9, <2>1, <4>1, <4>2, Zenon DEF Received
    <3> QED BY <3>1, <3>2, Zenon
  <2> QED BY <2>2, <2>3, <2>4, Zenon DEF ReceiverOK
<1>12. NetworkOK'
  <2>1. my_next_tsn' = my_next_tsn /\ sacks' = sacks BY <1>2, Zenon DEF senderVars
  <2>2. \A u \in data' : u < my_next_tsn' BY <1>2, <2>1, Zenon DEF IInv, NetworkOK
  <2>3. ASSUME NEW d \in sacks'
        PROVE  /\ d.cumulative_tsn_ack <= peer_last_tsn'
               /\ d.gaps \subseteq Received'
               /\ \A u \in d.gaps : u > d.cumulative_tsn_ack
    <3>1. d.cumulative_tsn_ack \in Nat /\ d.cumulative_tsn_ack <= peer_last_tsn
          /\ d.gaps \subseteq Received /\ \A u \in d.gaps : u > d.cumulative_tsn_ack
          BY <2>1 DEF IInv, NetworkOK, TypeOK, NetworkTypeOK, SackSet
    <3> QED BY <1>1, <1>4, <1>6, <1>10, <3>1
  <2> QED BY <2>2, <2>3, Zenon DEF NetworkOK
<1>13. NothingReleasedEarly'
  <2>1. UNCHANGED <<inflight_queue, cumulative_tsn_ack_point, read_tsn>>
        BY <1>2, Zenon DEF senderVars
  <2>2. cumulative_tsn_ack_point' <= peer_last_tsn'
        BY <1>1, <1>4, <1>6, <2>1 DEF IInv, NothingReleasedEarly
  <2>3. ASSUME NEW u \in InFlight', inflight_queue'[u].acknowledged
        PROVE  u <= peer_last_tsn' \/ u \in payload_queue'
    <3>1. u \in Nat /\ u > 0
          BY <1>3, <1>4, QueueFinite DEF IInv
    <3>2. u \in Received
          BY <1>3, <1>4, <2>1, <2>3, <3>1 DEF IInv, NothingReleasedEarly, Received
    <3> QED BY <1>1, <1>6, <1>10, <3>1, <3>2 DEF Received
  <2>4. ASSUME NEW u \in 1 .. peer_last_tsn'
        PROVE  u <= read_tsn' \/ u \in reassembly_queue'
    <3>1. CASE u <= peer_last_tsn
          BY <1>2, <1>4, <1>6, <1>1, <2>1, <2>4, <3>1 DEF IInv, NothingReleasedEarly
    <3>2. CASE u > peer_last_tsn
          BY <1>1, <1>4, <1>5, <1>6, <2>4, <3>2
    <3> QED BY <1>1, <1>4, <1>6, <2>4, <3>1, <3>2
  <2> QED BY <2>2, <2>3, <2>4, Zenon DEF NothingReleasedEarly
<1> QED BY <1>3, <1>8, <1>11, <1>12, <1>13, Zenon DEF IInv

\* The delayed acknowledgement falls due.
LEMMA AckTimeoutStep == IInv /\ AckTimeout => IInv'
<1> SUFFICES ASSUME IInv, AckTimeout PROVE IInv' BY Zenon
<1>1. /\ ack_state' = "Immediate"
      /\ UNCHANGED <<senderVars, peer_last_tsn, payload_queue, reassembly_queue, read_tsn,
                     data, sacks>>
      BY Zenon DEF AckTimeout
<1>2. /\ SenderOK' /\ SacksAccepted' /\ T3Armed' /\ FlowControlled' /\ FastRecoveryEnds'
      /\ InFlight' = InFlight
      BY <1>1, SenderUnchanged, Zenon
<1>3. TypeOK'
  <2>1. SenderTypeOK' BY <1>1, Zenon DEF IInv, TypeOK, SenderTypeOK, senderVars
  <2>2. CongestionTypeOK' BY <1>1, Zenon DEF IInv, TypeOK, CongestionTypeOK, senderVars, congestionVars
  <2>3. TimerTypeOK' BY <1>1, Zenon DEF IInv, TypeOK, TimerTypeOK, senderVars, timerVars
  <2>4. ReceiverTypeOK' BY <1>1, Zenon DEF IInv, TypeOK, ReceiverTypeOK, AckStates
  <2>5. NetworkTypeOK' BY <1>1, Zenon DEF IInv, TypeOK, NetworkTypeOK
  <2> QED BY <2>1, <2>2, <2>3, <2>4, <2>5, Zenon DEF TypeOK
<1>4. ReceiverOK' /\ NetworkOK'
      BY <1>1, Zenon DEF IInv, ReceiverOK, NetworkOK, Received, senderVars
<1>5. NothingReleasedEarly' BY <1>1, <1>2, Zenon DEF IInv, NothingReleasedEarly, senderVars
<1> QED BY <1>2, <1>3, <1>4, <1>5, Zenon DEF IInv

\* The receiver sends a SACK (gather_outbound).
LEMMA GatherOutboundSackStep == IInv /\ gather_outbound_sack => IInv'
<1> SUFFICES ASSUME IInv, gather_outbound_sack PROVE IInv' BY Zenon
<1> USE TransferAssumption
<1> DEFINE sack == SACK(peer_last_tsn, credit, payload_queue)
<1>1. /\ ack_state' = "Idle" /\ sacks' = sacks \cup {sack}
      /\ UNCHANGED <<senderVars, peer_last_tsn, payload_queue, reassembly_queue, read_tsn, data>>
      BY Zenon DEF gather_outbound_sack
<1>2. /\ SenderOK' /\ SacksAccepted' /\ T3Armed' /\ FlowControlled' /\ FastRecoveryEnds'
      /\ InFlight' = InFlight
      BY <1>1, SenderUnchanged, Zenon
<1>3. credit \in 0 .. BufferSize
  <2>1. IsFiniteSet(Chunks) BY FS_Interval DEF Chunks
  <2>2. IsFiniteSet(reassembly_queue)
        BY <2>1, FS_Subset, Zenon DEF IInv, TypeOK, ReceiverTypeOK
  <2>3. Cardinality(reassembly_queue) \in Nat BY <2>2, FS_CardinalityType, Zenon
  <2> QED BY <2>3 DEF credit
<1>4. sack \in SackSet
      BY <1>3, Zenon DEF SACK, SackSet, IInv, TypeOK, ReceiverTypeOK
<1>5. /\ sack.cumulative_tsn_ack = peer_last_tsn /\ sack.gaps = payload_queue
      BY Zenon DEF SACK
<1> HIDE DEF sack
<1>6. TypeOK'
  <2>1. SenderTypeOK' BY <1>1, Zenon DEF IInv, TypeOK, SenderTypeOK, senderVars
  <2>2. CongestionTypeOK' BY <1>1, Zenon DEF IInv, TypeOK, CongestionTypeOK, senderVars, congestionVars
  <2>3. TimerTypeOK' BY <1>1, Zenon DEF IInv, TypeOK, TimerTypeOK, senderVars, timerVars
  <2>4. ReceiverTypeOK' BY <1>1, Zenon DEF IInv, TypeOK, ReceiverTypeOK, AckStates
  <2>5. NetworkTypeOK' BY <1>1, <1>4, Zenon DEF IInv, TypeOK, NetworkTypeOK
  <2> QED BY <2>1, <2>2, <2>3, <2>4, <2>5, Zenon DEF TypeOK
<1>7. ReceiverOK' BY <1>1, Zenon DEF IInv, ReceiverOK, Received, senderVars
<1>8. NetworkOK'
  <2>1. \A t \in payload_queue : t > peer_last_tsn
        BY DEF IInv, ReceiverOK, TypeOK, ReceiverTypeOK, Chunks
  <2>2. peer_last_tsn <= peer_last_tsn BY DEF IInv, TypeOK, ReceiverTypeOK
  <2>3. Received' = Received BY <1>1, Zenon DEF Received
  <2>4. ASSUME NEW d \in sacks'
        PROVE  /\ d.cumulative_tsn_ack <= peer_last_tsn'
               /\ d.gaps \subseteq Received'
               /\ \A t \in d.gaps : t > d.cumulative_tsn_ack
    <3>1. CASE d \in sacks BY <1>1, <2>3, <3>1, Zenon DEF IInv, NetworkOK
    <3>2. CASE d = sack BY <1>1, <1>5, <2>1, <2>2, <2>3, <3>2, Zenon DEF Received
    <3> QED BY <1>1, <3>1, <3>2, Zenon
  <2>5. \A t \in data' : t < my_next_tsn' BY <1>1, Zenon DEF IInv, NetworkOK, senderVars
  <2> QED BY <2>4, <2>5, Zenon DEF NetworkOK
<1>9. NothingReleasedEarly' BY <1>1, <1>2, Zenon DEF IInv, NothingReleasedEarly, senderVars
<1> QED BY <1>2, <1>6, <1>7, <1>8, <1>9, Zenon DEF IInv

\* The application reads a message, and the window reopens (read_sctp).
LEMMA ReadStep == IInv /\ read_sctp => IInv'
<1> SUFFICES ASSUME IInv, read_sctp PROVE IInv' BY Zenon
<1> USE TransferAssumption
<1>1. PICK e \in Ends : /\ Readable(e)
                        /\ reassembly_queue' = reassembly_queue \ (read_tsn + 1 .. e)
                        /\ read_tsn' = e
      BY Zenon DEF read_sctp
<1>2. UNCHANGED <<senderVars, peer_last_tsn, payload_queue, ack_state, data, sacks>>
      BY Zenon DEF read_sctp
<1>3. /\ SenderOK' /\ SacksAccepted' /\ T3Armed' /\ FlowControlled' /\ FastRecoveryEnds'
      /\ InFlight' = InFlight
      BY <1>2, SenderUnchanged, Zenon
<1>4. /\ read_tsn \in Nat /\ e \in Nat /\ peer_last_tsn \in Nat /\ read_tsn < e
      /\ read_tsn <= peer_last_tsn /\ read_tsn + 1 .. e \subseteq reassembly_queue
      BY <1>1 DEF IInv, TypeOK, ReceiverTypeOK, ReceiverOK, Readable
\* The message lies below the first gap.
<1>5. e <= peer_last_tsn
  <2> SUFFICES ASSUME e > peer_last_tsn PROVE FALSE BY <1>4
  <2>1. peer_last_tsn + 1 \in reassembly_queue BY <1>4
  <2>2. peer_last_tsn + 1 \in payload_queue
        BY <1>4, <2>1 DEF IInv, ReceiverOK, Received
  <2> QED BY <1>4, <2>2 DEF IInv, ReceiverOK
<1>6. TypeOK'
  <2>1. SenderTypeOK' BY <1>2, Zenon DEF IInv, TypeOK, SenderTypeOK, senderVars
  <2>2. CongestionTypeOK' BY <1>2, Zenon DEF IInv, TypeOK, CongestionTypeOK, senderVars, congestionVars
  <2>3. TimerTypeOK' BY <1>2, Zenon DEF IInv, TypeOK, TimerTypeOK, senderVars, timerVars
  <2>4. ReceiverTypeOK' BY <1>1, <1>2, Zenon DEF IInv, TypeOK, ReceiverTypeOK
  <2>5. NetworkTypeOK' BY <1>2, Zenon DEF IInv, TypeOK, NetworkTypeOK
  <2> QED BY <2>1, <2>2, <2>3, <2>4, <2>5, Zenon DEF TypeOK
<1>7. ReceiverOK'
  <2>1. \A t \in payload_queue : t \in reassembly_queue /\ t \in Nat /\ t > peer_last_tsn + 1
        BY DEF IInv, TypeOK, ReceiverTypeOK, ReceiverOK, Chunks
  <2>2. payload_queue' \subseteq reassembly_queue' BY <1>1, <1>2, <1>4, <1>5, <2>1
  <2>3. \A t \in reassembly_queue : t \in Nat /\ t > read_tsn
        BY DEF IInv, TypeOK, ReceiverTypeOK, ReceiverOK, Chunks
  <2>4. \A t \in reassembly_queue' : t \in reassembly_queue /\ t > e BY <1>1, <1>4, <2>3
  <2>5. Received' = Received BY <1>2, Zenon DEF Received
  <2> QED BY <1>1, <1>2, <1>5, <2>2, <2>4, <2>5, Zenon DEF IInv, ReceiverOK, senderVars
<1>8. NetworkOK' BY <1>2, Zenon DEF IInv, NetworkOK, Received, senderVars
<1>9. NothingReleasedEarly'
  <2>1. ASSUME NEW t \in 1 .. peer_last_tsn
        PROVE  t <= e \/ t \in reassembly_queue'
        BY <1>1, <1>4, <2>1 DEF IInv, NothingReleasedEarly
  <2> QED BY <1>1, <1>2, <1>3, <2>1, Zenon DEF IInv, NothingReleasedEarly, senderVars
<1> QED BY <1>3, <1>6, <1>7, <1>8, <1>9, Zenon DEF IInv

\* The network loses a packet.
LEMMA LoseStep ==
    ASSUME IInv, data' \subseteq data, sacks' \subseteq sacks, UNCHANGED <<senderVars, receiverVars>>
    PROVE  IInv'
<1>1. /\ SenderOK' /\ SacksAccepted' /\ T3Armed' /\ FlowControlled' /\ FastRecoveryEnds'
      /\ InFlight' = InFlight
      BY SenderUnchanged, Zenon
<1>2. TypeOK'
  <2>1. SenderTypeOK' BY Zenon DEF IInv, TypeOK, SenderTypeOK, senderVars
  <2>2. CongestionTypeOK' BY Zenon DEF IInv, TypeOK, CongestionTypeOK, senderVars, congestionVars
  <2>3. TimerTypeOK' BY Zenon DEF IInv, TypeOK, TimerTypeOK, senderVars, timerVars
  <2>4. ReceiverTypeOK' BY Zenon DEF IInv, TypeOK, ReceiverTypeOK, receiverVars
  <2>5. NetworkTypeOK' BY Zenon DEF IInv, TypeOK, NetworkTypeOK
  <2> QED BY <2>1, <2>2, <2>3, <2>4, <2>5, Zenon DEF TypeOK
<1>3. ReceiverOK' /\ NetworkOK'
      BY Zenon DEF IInv, ReceiverOK, NetworkOK, Received, senderVars, receiverVars
<1>4. NothingReleasedEarly' BY <1>1, Zenon DEF IInv, NothingReleasedEarly, senderVars, receiverVars
<1> QED BY <1>1, <1>2, <1>3, <1>4, Zenon DEF IInv

\* Every step preserves the invariant: one lemma above for each action.
LEMMA NextIInv == IInv /\ [Next]_vars => IInv'
<1> SUFFICES ASSUME IInv, [Next]_vars PROVE IInv' BY Zenon
<1>1. CASE write BY <1>1, WriteStep, Zenon
<1>2. CASE gather_outbound BY <1>2, GatherOutboundStep, Zenon
<1>3. CASE T3Timeout BY <1>3, T3TimeoutStep, Zenon
<1>4. CASE \E d \in sacks : handle_sack(d) BY <1>4, HandleSackStep, Zenon
<1>5. CASE \E t \in data : handle_data(t) BY <1>5, HandleDataStep, Zenon
<1>6. CASE AckTimeout BY <1>6, AckTimeoutStep, Zenon
<1>7. CASE gather_outbound_sack BY <1>7, GatherOutboundSackStep, Zenon
<1>8. CASE read_sctp BY <1>8, ReadStep, Zenon
<1>9. CASE LoseData
  <2>1. data' \subseteq data /\ sacks' \subseteq sacks /\ UNCHANGED <<senderVars, receiverVars>>
        BY <1>9, Zenon DEF LoseData
  <2> QED BY <2>1, LoseStep, Zenon
<1>10. CASE LoseSack
  <2>1. data' \subseteq data /\ sacks' \subseteq sacks /\ UNCHANGED <<senderVars, receiverVars>>
        BY <1>10, Zenon DEF LoseSack
  <2> QED BY <2>1, LoseStep, Zenon
<1>11. CASE UNCHANGED vars
  <2>1. data' \subseteq data /\ sacks' \subseteq sacks /\ UNCHANGED <<senderVars, receiverVars>>
        BY <1>11, Zenon DEF vars
  <2> QED BY <2>1, LoseStep, Zenon
<1> QED BY <1>1, <1>2, <1>3, <1>4, <1>5, <1>6, <1>7, <1>8, <1>9, <1>10, <1>11, Zenon DEF Next

----------------------------------------------------------------------------
(* The theorems. *)

\* IInv holds in every reachable state.
THEOREM Invariance == Spec => []IInv
<1>1. Init => IInv BY InitIInv, Zenon
<1>2. IInv /\ [Next]_vars => IInv' BY NextIInv, Zenon
<1> QED BY <1>1, <1>2, PTL DEF Spec

\* The queue of chunks in flight has no holes, and windows and counters stay in range.
THEOREM TypeCorrect == Spec => []TypeOK
<1>1. IInv => TypeOK BY Zenon DEF IInv
<1> QED BY <1>1, Invariance, PTL

\* handle_sack accepts every SACK the peer sends, however late, repeated or reordered.
THEOREM SacksNeverRefused == Spec => []SacksAccepted
<1>1. IInv => SacksAccepted BY Zenon DEF IInv
<1> QED BY <1>1, Invariance, PTL

\* The sender forgets a chunk only after the receiver has it.
THEOREM NoEarlyRelease == Spec => []NothingReleasedEarly
<1>1. IInv => NothingReleasedEarly BY Zenon DEF IInv
<1> QED BY <1>1, Invariance, PTL

\* Data in flight is covered by T3, until T3 has given up.
THEOREM T3Covers == Spec => []T3Armed
<1>1. IInv => T3Armed BY Zenon DEF IInv
<1> QED BY <1>1, Invariance, PTL

\* The data in flight and the window together never exceed the receiver's buffer.
THEOREM FlowControl == Spec => []FlowControlled
<1>1. IInv => FlowControlled BY Zenon DEF IInv
<1> QED BY <1>1, Invariance, PTL

\* Fast recovery ends at a TSN that can still be acknowledged.
THEOREM FastRecoveryExit == Spec => []FastRecoveryEnds
<1>1. IInv => FastRecoveryEnds BY Zenon DEF IInv
<1> QED BY <1>1, Invariance, PTL

============================================================================
