------------------------- MODULE SctpShutdownProofs ------------------------
(***************************************************************************)
(* Proofs about SctpShutdown, for any limit of T2 and any number of packets *)
(* in transit.  Each action preserves the inductive invariant IInv, of      *)
(* which the three safety properties are conjuncts.                         *)
(***************************************************************************)
EXTENDS SctpShutdown, FiniteSetTheorems, TLAPS

\* Each association has one peer, whose peer it is.
LEMMA PeerIsOther ==
    ASSUME NEW x \in Assocs
    PROVE  Peer(x) \in Assocs /\ Peer(x) # x /\ Peer(Peer(x)) = x
<1>1. IsFiniteSet(Assocs \ {x}) /\ Cardinality(Assocs \ {x}) = 1
      BY ShutdownAssumption, FS_RemoveElement
<1>2. PICK y : Assocs \ {x} = {y} BY <1>1, FS_Singleton, Zenon
<1>3. Assocs = {x, y} /\ y # x BY <1>2, Zenon
<1> QED BY <1>3, Zenon DEF Peer

\* A packet is told apart by its destination and its type.
LEMMA PacketFields ==
    ASSUME NEW x, NEW type
    PROVE  To(x, type).to = x /\ To(x, type).type = type
BY Zenon DEF To

\* The invariant holds when both associations are established.
LEMMA InitIInv == Init => IInv
<1> SUFFICES ASSUME Init PROVE IInv BY Zenon
<1> USE DEF Init
<1>1. TypeOK
  <2>1. 0 \in 0 .. MaxT2 + 1 BY ShutdownAssumption
  <2> QED BY <2>1, Zenon DEF TypeOK, ShutdownStates, Kinds
<1>2. CompletionsOK /\ InitiatorsOK BY Zenon DEF CompletionsOK, InitiatorsOK
<1>3. ClosedAgree /\ ResponderDrained /\ T2Covers
      BY PeerIsOther, Zenon DEF ClosedAgree, ResponderDrained, T2Covers
<1> QED BY <1>1, <1>2, <1>3, Zenon DEF IInv

\* shutdown: SHUTDOWN is to be sent.
LEMMA ShutdownStep == ASSUME NEW x \in Assocs, IInv, shutdown(x) PROVE IInv'
<1> USE DEF shutdown, inflight_queue_length
<1>1. TypeOK'
  <2>1. state' \in [Assocs -> ShutdownStates] /\ will_send' \in [Assocs -> SUBSET Kinds]
        BY DEF IInv, TypeOK, ShutdownStates, Kinds
  <2>2. initiated' \in [Assocs -> BOOLEAN] BY Zenon DEF IInv, TypeOK
  <2> QED BY <2>1, <2>2, Zenon DEF IInv, TypeOK, timerVars
<1>2. CompletionsOK' BY PeerIsOther DEF IInv, CompletionsOK, FinalStates, TypeOK
<1>3. InitiatorsOK' BY Zenon DEF IInv, InitiatorsOK, TypeOK
<1>4. ClosedAgree' BY PeerIsOther, Zenon DEF IInv, ClosedAgree, TypeOK
<1>5. ResponderDrained' BY Zenon DEF IInv, ResponderDrained, TypeOK
<1>6. T2Covers'
  <2>1. will_send'[x] # {} BY SMTT(30) DEF IInv, TypeOK
  <2>2. \A y \in Assocs \ {x} : state'[y] = state[y] /\ will_send'[y] = will_send[y]
        BY Zenon DEF IInv, TypeOK
  <2> QED BY <2>1, <2>2, Zenon DEF IInv, T2Covers, timerVars
<1> QED BY <1>1, <1>2, <1>3, <1>4, <1>5, <1>6, Zenon DEF IInv

\* handle_shutdown: SHUTDOWN-ACK is to be sent, now or when the data is acknowledged.
LEMMA HandleShutdown == ASSUME NEW x \in Assocs, IInv, handle_shutdown(x) PROVE IInv'
<1> USE DEF handle_shutdown
<1>1. TypeOK'
  <2>1. state' \in [Assocs -> ShutdownStates] /\ will_send' \in [Assocs -> SUBSET Kinds]
        BY DEF IInv, TypeOK, ShutdownStates, Kinds
  <2>2. /\ t2' \in [Assocs -> BOOLEAN] /\ inflight' \in [Assocs -> BOOLEAN]
        /\ ack_owed' \in [Assocs -> BOOLEAN]
        BY Zenon DEF IInv, TypeOK, timerVars
  <2>3. retrans_t2' \in [Assocs -> 0 .. MaxT2 + 1]
        BY ShutdownAssumption, Zenon DEF IInv, TypeOK, timerVars
  <2> QED BY <2>1, <2>2, <2>3, Zenon DEF IInv, TypeOK, timerVars, history
<1>2. CompletionsOK' BY PeerIsOther, PacketFields DEF IInv, CompletionsOK, FinalStates, TypeOK
<1>3. InitiatorsOK' BY Zenon DEF IInv, InitiatorsOK, TypeOK, history
<1>4. ClosedAgree' BY PeerIsOther DEF IInv, ClosedAgree, TypeOK, CompletionsOK, FinalStates
<1>5. ResponderDrained' BY Zenon DEF IInv, ResponderDrained, InitiatorsOK, TypeOK, history
<1>6. T2Covers'
  <2>1. \A y \in Assocs \ {x} : /\ state'[y] = state[y] /\ will_send'[y] = will_send[y]
                                  /\ t2'[y] = t2[y] /\ retrans_t2'[y] = retrans_t2[y]
        BY Zenon DEF IInv, TypeOK, timerVars
  <2>2. state'[x] = "ShutdownReceived" \/ will_send'[x] # {} BY ZenonT(60) DEF IInv, TypeOK
  <2> QED BY <2>1, <2>2, Zenon DEF IInv, T2Covers, history
<1> QED BY <1>1, <1>2, <1>3, <1>4, <1>5, <1>6, Zenon DEF IInv

\* handle_shutdown_ack: SHUTDOWN-COMPLETE is to be sent.
LEMMA HandleShutdownAck == ASSUME NEW x \in Assocs, IInv, handle_shutdown_ack(x) PROVE IInv'
<1> USE DEF handle_shutdown_ack
<1>1. TypeOK'
  <2>1. state' \in [Assocs -> ShutdownStates] /\ will_send' \in [Assocs -> SUBSET Kinds]
        BY Zenon DEF IInv, TypeOK, ShutdownStates, Kinds
  <2>2. /\ t2' \in [Assocs -> BOOLEAN] /\ inflight' \in [Assocs -> BOOLEAN]
        /\ ack_owed' \in [Assocs -> BOOLEAN]
        BY Zenon DEF IInv, TypeOK, timerVars
  <2>3. retrans_t2' \in [Assocs -> 0 .. MaxT2 + 1]
        BY ShutdownAssumption DEF IInv, TypeOK, timerVars
  <2> QED BY <2>1, <2>2, <2>3, Zenon DEF IInv, TypeOK, timerVars, history
<1>2. CompletionsOK' BY PeerIsOther, PacketFields DEF IInv, CompletionsOK, FinalStates, TypeOK
<1>3. InitiatorsOK' BY Zenon DEF IInv, InitiatorsOK, TypeOK, history
<1>4. ClosedAgree' BY PeerIsOther, Zenon DEF IInv, ClosedAgree, TypeOK, CompletionsOK, FinalStates
<1>5. ResponderDrained' BY Zenon DEF IInv, ResponderDrained, InitiatorsOK, TypeOK, history
<1>6. T2Covers'
  <2>1. \A y \in Assocs \ {x} : /\ state'[y] = state[y] /\ will_send'[y] = will_send[y]
                                  /\ t2'[y] = t2[y] /\ retrans_t2'[y] = retrans_t2[y]
        BY Zenon DEF IInv, TypeOK, timerVars
  <2>2. will_send'[x] # {} BY Zenon DEF IInv, TypeOK
  <2> QED BY <2>1, <2>2, Zenon DEF IInv, T2Covers, history
<1> QED BY <1>1, <1>2, <1>3, <1>4, <1>5, <1>6, Zenon DEF IInv

\* handle_shutdown_complete: the peer that completes is past its data.
LEMMA HandleShutdownComplete == ASSUME NEW x \in Assocs, IInv, handle_shutdown_complete(x), To(x, "SHUTDOWN_COMPLETE") \in net
    PROVE IInv'
<1> USE DEF handle_shutdown_complete
<1>1. TypeOK'
  <2>1. state' \in [Assocs -> ShutdownStates] /\ will_send' \in [Assocs -> SUBSET Kinds]
        BY Zenon DEF IInv, TypeOK, ShutdownStates, Kinds
  <2>2. /\ t2' \in [Assocs -> BOOLEAN] /\ inflight' \in [Assocs -> BOOLEAN]
        /\ ack_owed' \in [Assocs -> BOOLEAN]
        BY Zenon DEF IInv, TypeOK, timerVars
  <2>3. retrans_t2' \in [Assocs -> 0 .. MaxT2 + 1]
        BY ShutdownAssumption DEF IInv, TypeOK, timerVars
  <2> QED BY <2>1, <2>2, <2>3, Zenon DEF IInv, TypeOK, timerVars, history
<1>2. CompletionsOK' BY PeerIsOther, PacketFields, Zenon DEF IInv, CompletionsOK, FinalStates, TypeOK
<1>3. InitiatorsOK' BY Zenon DEF IInv, InitiatorsOK, TypeOK, history
<1>4. ClosedAgree' BY PeerIsOther, Zenon DEF IInv, ClosedAgree, TypeOK, CompletionsOK, FinalStates
<1>5. ResponderDrained' BY Zenon DEF IInv, ResponderDrained, InitiatorsOK, TypeOK, history
<1>6. T2Covers'
  <2>1. \A y \in Assocs \ {x} : /\ state'[y] = state[y] /\ will_send'[y] = will_send[y]
                                  /\ t2'[y] = t2[y] /\ retrans_t2'[y] = retrans_t2[y]
        BY Zenon DEF IInv, TypeOK, timerVars
  <2>2. state'[x] = "Closed" BY Zenon DEF IInv, TypeOK
  <2> QED BY <2>1, <2>2, Zenon DEF IInv, T2Covers, history
<1> QED BY <1>1, <1>2, <1>3, <1>4, <1>5, <1>6, Zenon DEF IInv

\* handle_data.
LEMMA HandleData == ASSUME NEW x \in Assocs, IInv, handle_data(x) PROVE IInv'
<1> USE DEF handle_data
<1>1. TypeOK'
  <2>1. state' \in [Assocs -> ShutdownStates] /\ will_send' \in [Assocs -> SUBSET Kinds]
        BY Zenon DEF IInv, TypeOK, ShutdownStates, Kinds
  <2>2. /\ t2' \in [Assocs -> BOOLEAN] /\ inflight' \in [Assocs -> BOOLEAN]
        /\ ack_owed' \in [Assocs -> BOOLEAN]
        BY Zenon DEF IInv, TypeOK, timerVars
  <2>3. retrans_t2' \in [Assocs -> 0 .. MaxT2 + 1]
        BY ShutdownAssumption, Zenon DEF IInv, TypeOK, timerVars
  <2> QED BY <2>1, <2>2, <2>3, Zenon DEF IInv, TypeOK, timerVars, history
<1>2. CompletionsOK' BY PeerIsOther, PacketFields, Zenon DEF IInv, CompletionsOK, FinalStates, TypeOK
<1>3. InitiatorsOK' BY Zenon DEF IInv, InitiatorsOK, TypeOK, history
<1>4. ClosedAgree' BY PeerIsOther, Zenon DEF IInv, ClosedAgree, TypeOK, CompletionsOK, FinalStates
<1>5. ResponderDrained' BY Zenon DEF IInv, ResponderDrained, InitiatorsOK, TypeOK, history
<1>6. T2Covers'
  <2>1. \A y \in Assocs \ {x} : /\ state'[y] = state[y] /\ will_send'[y] = will_send[y]
                                  /\ t2'[y] = t2[y] /\ retrans_t2'[y] = retrans_t2[y]
        BY Zenon DEF IInv, TypeOK, timerVars
  <2>2. /\ state'[x] = state[x] /\ will_send'[x] = will_send[x]
        /\ t2'[x] = t2[x] /\ retrans_t2'[x] = retrans_t2[x]
        BY Zenon DEF timerVars
  <2> QED BY <2>1, <2>2, Zenon DEF IInv, T2Covers, history
<1> QED BY <1>1, <1>2, <1>3, <1>4, <1>5, <1>6, Zenon DEF IInv

\* handle_sack: what waited for the queue to empty goes on.
LEMMA HandleSack == ASSUME NEW x \in Assocs, IInv, handle_sack(x) PROVE IInv'
<1> USE DEF handle_sack
<1>1. TypeOK'
  <2>1. state' \in [Assocs -> ShutdownStates] /\ will_send' \in [Assocs -> SUBSET Kinds]
        BY Zenon DEF IInv, TypeOK, ShutdownStates, Kinds
  <2>2. /\ t2' \in [Assocs -> BOOLEAN] /\ inflight' \in [Assocs -> BOOLEAN]
        /\ ack_owed' \in [Assocs -> BOOLEAN]
        BY Zenon DEF IInv, TypeOK, timerVars
  <2>3. retrans_t2' \in [Assocs -> 0 .. MaxT2 + 1]
        BY ShutdownAssumption, Zenon DEF IInv, TypeOK, timerVars
  <2> QED BY <2>1, <2>2, <2>3, Zenon DEF IInv, TypeOK, timerVars, history
<1>2. CompletionsOK' BY PeerIsOther, PacketFields, Zenon DEF IInv, CompletionsOK, FinalStates, TypeOK
<1>3. InitiatorsOK' BY Zenon DEF IInv, InitiatorsOK, TypeOK, history
<1>4. ClosedAgree' BY PeerIsOther, Zenon DEF IInv, ClosedAgree, TypeOK, CompletionsOK, FinalStates
<1>5. ResponderDrained' BY Zenon DEF IInv, ResponderDrained, InitiatorsOK, TypeOK, history
<1>6. T2Covers'
  <2>1. \A y \in Assocs \ {x} : /\ state'[y] = state[y] /\ will_send'[y] = will_send[y]
                                  /\ t2'[y] = t2[y] /\ retrans_t2'[y] = retrans_t2[y]
        BY Zenon DEF IInv, TypeOK, timerVars
  <2>2. state'[x] \notin {"ShutdownSent", "ShutdownAckSent"} \/ will_send'[x] # {} BY Zenon DEF IInv, TypeOK
  <2> QED BY <2>1, <2>2, Zenon DEF IInv, T2Covers, history
<1> QED BY <1>1, <1>2, <1>3, <1>4, <1>5, <1>6, Zenon DEF IInv

\* T2 expires: the packet is to be sent again, unless the limit is passed.
LEMMA T2Step == ASSUME NEW x \in Assocs, IInv, T2Timeout(x) PROVE IInv'
<1> USE DEF T2Timeout
<1>1. TypeOK'
  <2>1. state' \in [Assocs -> ShutdownStates] /\ will_send' \in [Assocs -> SUBSET Kinds]
        BY DEF IInv, TypeOK, ShutdownStates, Kinds
  <2>2. /\ t2' \in [Assocs -> BOOLEAN] /\ inflight' \in [Assocs -> BOOLEAN]
        /\ ack_owed' \in [Assocs -> BOOLEAN]
        BY Zenon DEF IInv, TypeOK, timerVars
  <2>3. retrans_t2' \in [Assocs -> 0 .. MaxT2 + 1]
        BY ShutdownAssumption DEF IInv, TypeOK, timerVars
  <2> QED BY <2>1, <2>2, <2>3, Zenon DEF IInv, TypeOK, timerVars, history
<1>2. CompletionsOK' BY PeerIsOther, PacketFields DEF IInv, CompletionsOK, FinalStates, TypeOK
<1>3. InitiatorsOK' BY Zenon DEF IInv, InitiatorsOK, TypeOK, history
<1>4. ClosedAgree' BY PeerIsOther, Zenon DEF IInv, ClosedAgree, TypeOK, CompletionsOK, FinalStates
<1>5. ResponderDrained' BY Zenon DEF IInv, ResponderDrained, InitiatorsOK, TypeOK, history
<1>6. T2Covers'
  <2>1. \A y \in Assocs \ {x} : /\ state'[y] = state[y] /\ will_send'[y] = will_send[y]
                                  /\ t2'[y] = t2[y] /\ retrans_t2'[y] = retrans_t2[y]
        BY Zenon DEF IInv, TypeOK, timerVars
  <2>2. t2'[x] \/ retrans_t2'[x] > MaxT2
        BY ShutdownAssumption, Zenon DEF IInv, TypeOK
  <2> QED BY <2>1, <2>2, Zenon DEF IInv, T2Covers, history
<1> QED BY <1>1, <1>2, <1>3, <1>4, <1>5, <1>6, Zenon DEF IInv

\* gather_outbound: SHUTDOWN and SHUTDOWN-ACK arm T2, SHUTDOWN-COMPLETE goes out last and
\* from an association past its data.
LEMMA GatherStep == ASSUME NEW x \in Assocs, IInv, gather_outbound(x) PROVE IInv'
<1> DEFINE kinds == IF Closes(x) THEN gather_outbound_shutdown_packets(x) ELSE {}
<1>1. PICK again \in SUBSET {"DATA", "SACK"} :
         /\ net' = net \cup {To(Peer(x), type) : type \in again \cup kinds}
         /\ ack_owed' = [ack_owed EXCEPT ![x] = @ /\ "SACK" \notin again]
         /\ will_send' = [will_send EXCEPT ![x] = @ \ kinds]
         /\ t2' = [t2 EXCEPT ![x] = @ \/ \E k \in kinds : ArmsT2(k)]
         /\ completed' = [completed EXCEPT ![x] = @ \/ "SHUTDOWN_COMPLETE" \in kinds]
         /\ UNCHANGED <<state, inflight, retrans_t2, removed, initiated>>
      BY Zenon DEF gather_outbound
<1>2. /\ kinds \subseteq will_send[x] /\ kinds \subseteq Kinds
      /\ state[x] \in {"ShutdownSent", "ShutdownAckSent"} /\ will_send[x] # {} => kinds # {}
      BY Zenon DEF Closes, IInv, TypeOK, Kinds, gather_outbound_shutdown_packets
<1> HIDE DEF kinds
<1>3. TypeOK'
  <2>1. net' \subseteq Packets
    <3>1. \A type \in again \cup kinds : To(Peer(x), type) \in Packets
          BY <1>2, PeerIsOther, Zenon DEF Packets, To
    <3> QED BY <1>1, <3>1, Zenon DEF IInv, TypeOK
  <2>2. will_send' \in [Assocs -> SUBSET Kinds] BY <1>1, Zenon DEF IInv, TypeOK
  <2>3. /\ ack_owed' \in [Assocs -> BOOLEAN] /\ t2' \in [Assocs -> BOOLEAN]
        /\ completed' \in [Assocs -> BOOLEAN]
        BY <1>1, Zenon DEF IInv, TypeOK
  <2> QED BY <1>1, <2>1, <2>2, <2>3, Zenon DEF IInv, TypeOK
<1>4. CompletionsOK'
  <2> SUFFICES ASSUME NEW y \in Assocs,
                      "SHUTDOWN_COMPLETE" \in will_send'[y] \/ To(Peer(y), "SHUTDOWN_COMPLETE") \in net'
               PROVE  state[y] \in FinalStates
      BY <1>1, Zenon DEF CompletionsOK
  <2>1. will_send'[y] \subseteq will_send[y] BY <1>1, Zenon DEF IInv, TypeOK
  <2>2. CASE "SHUTDOWN_COMPLETE" \in will_send[y] \/ To(Peer(y), "SHUTDOWN_COMPLETE") \in net
        BY <2>2, Zenon DEF IInv, CompletionsOK
  <2>3. CASE To(Peer(y), "SHUTDOWN_COMPLETE") \in net' /\ To(Peer(y), "SHUTDOWN_COMPLETE") \notin net
    <3>1. PICK type \in again \cup kinds : To(Peer(y), "SHUTDOWN_COMPLETE") = To(Peer(x), type)
          BY <1>1, <2>3, Zenon
    <3>2. type = "SHUTDOWN_COMPLETE" /\ Peer(y) = Peer(x) BY <3>1, PacketFields
    <3>3. y = x BY <3>2, PeerIsOther, Zenon
    <3>4. "SHUTDOWN_COMPLETE" \in will_send[x] BY <1>2, <3>2, Zenon
    <3> QED BY <3>3, <3>4, Zenon DEF IInv, CompletionsOK
  <2> QED BY <2>1, <2>2, <2>3, Zenon
<1>5. InitiatorsOK' /\ ClosedAgree' /\ ResponderDrained'
      BY <1>1, Zenon DEF IInv, InitiatorsOK, ClosedAgree, ResponderDrained
<1>6. T2Covers'
  <2> SUFFICES ASSUME NEW y \in Assocs, ~ removed[y], state[y] \in {"ShutdownSent", "ShutdownAckSent"}
               PROVE  t2'[y] \/ retrans_t2[y] > MaxT2 \/ will_send'[y] # {} \/ completed'[y]
      BY <1>1, Zenon DEF T2Covers
  <2>1. t2[y] \/ retrans_t2[y] > MaxT2 \/ will_send[y] # {} \/ completed[y]
        BY Zenon DEF IInv, T2Covers
  <2>2. (t2[y] => t2'[y]) /\ (completed[y] => completed'[y]) BY <1>1, Zenon DEF IInv, TypeOK
  <2>3. y # x => will_send'[y] = will_send[y] BY <1>1, Zenon DEF IInv, TypeOK
  <2>4. ASSUME y = x, will_send[x] # {} PROVE t2'[x] \/ completed'[x]
    <3>1. PICK k \in kinds : TRUE BY <1>2, <2>4, Zenon
    <3>2. CASE k = "SHUTDOWN_COMPLETE"
      <4>1. "SHUTDOWN_COMPLETE" \in kinds BY <3>1, <3>2, Zenon
      <4>2. DOMAIN completed = Assocs BY Zenon DEF IInv, TypeOK
      <4>3. completed'[x] = (completed[x] \/ "SHUTDOWN_COMPLETE" \in kinds) BY <1>1, <4>2, Zenon
      <4> QED BY <4>1, <4>3, Zenon
    <3>3. CASE k # "SHUTDOWN_COMPLETE"
      <4>1. ArmsT2(k) BY <3>3, Zenon DEF ArmsT2
      <4> QED BY <1>1, <3>1, <4>1, Zenon DEF IInv, TypeOK
    <3> QED BY <3>2, <3>3, Zenon
  <2> QED BY <2>1, <2>2, <2>3, <2>4, Zenon
<1> QED BY <1>3, <1>4, <1>5, <1>6, Zenon DEF IInv

\* A packet is received.
LEMMA ReceiveStep == ASSUME IInv, NEW p \in net, Receive(p) PROVE IInv'
<1>1. p \in Packets BY Zenon DEF IInv, TypeOK
<1>2. p.to \in Assocs /\ p = To(p.to, p.type) BY <1>1, Zenon DEF Packets, To
<1>3. CASE p.type = "SHUTDOWN" BY <1>2, <1>3, HandleShutdown, Zenon DEF Receive
<1>4. CASE p.type = "SHUTDOWN_ACK" BY <1>2, <1>4, HandleShutdownAck, Zenon DEF Receive
<1>5. CASE p.type = "SHUTDOWN_COMPLETE" BY <1>2, <1>5, HandleShutdownComplete, Zenon DEF Receive
<1>6. CASE p.type = "DATA" BY <1>2, <1>6, HandleData, Zenon DEF Receive
<1>7. CASE p.type = "SACK" BY <1>2, <1>7, HandleSack, Zenon DEF Receive
<1> QED BY <1>1, <1>3, <1>4, <1>5, <1>6, <1>7, Zenon DEF Packets, Kinds

\* The driver drops an association: what it had to send is on its way, and nothing is left of
\* its timers.
LEMMA RemoveStep == ASSUME NEW x \in Assocs, IInv, Remove(x) PROVE IInv'
<1> DEFINE kinds == IF Closes(x) THEN will_send[x] ELSE {}
<1>1. PICK again \in SUBSET {"DATA", "SACK"} :
         /\ net' = net \cup {To(Peer(x), type) : type \in again \cup kinds}
         /\ completed' = [completed EXCEPT ![x] = @ \/ "SHUTDOWN_COMPLETE" \in kinds]
      BY Zenon DEF Remove
<1>2. /\ removed' = [removed EXCEPT ![x] = TRUE]
      /\ inflight' = [inflight EXCEPT ![x] = FALSE]
      /\ ack_owed' = [ack_owed EXCEPT ![x] = FALSE]
      /\ will_send' = [will_send EXCEPT ![x] = {}]
      /\ t2' = [t2 EXCEPT ![x] = FALSE]
      /\ retrans_t2' = [retrans_t2 EXCEPT ![x] = 0]
      /\ UNCHANGED <<state, initiated>>
      BY Zenon DEF Remove
<1>3. kinds \subseteq will_send[x] /\ kinds \subseteq Kinds BY Zenon DEF IInv, TypeOK
<1> HIDE DEF kinds
<1>4. TypeOK'
  <2>1. net' \subseteq Packets
    <3>1. \A type \in again \cup kinds : To(Peer(x), type) \in Packets
          BY <1>3, PeerIsOther, Zenon DEF Packets, To
    <3> QED BY <1>1, <3>1, Zenon DEF IInv, TypeOK
  <2>2. will_send' \in [Assocs -> SUBSET Kinds] BY <1>2, Zenon DEF IInv, TypeOK
  <2>3. /\ removed' \in [Assocs -> BOOLEAN] /\ inflight' \in [Assocs -> BOOLEAN]
        /\ ack_owed' \in [Assocs -> BOOLEAN] /\ t2' \in [Assocs -> BOOLEAN]
        /\ completed' \in [Assocs -> BOOLEAN]
        BY <1>1, <1>2, Zenon DEF IInv, TypeOK
  <2>4. retrans_t2' \in [Assocs -> 0 .. MaxT2 + 1] BY <1>2, ShutdownAssumption DEF IInv, TypeOK
  <2> QED BY <1>2, <2>1, <2>2, <2>3, <2>4, Zenon DEF IInv, TypeOK
<1>5. CompletionsOK'
  <2> SUFFICES ASSUME NEW y \in Assocs,
                      "SHUTDOWN_COMPLETE" \in will_send'[y] \/ To(Peer(y), "SHUTDOWN_COMPLETE") \in net'
               PROVE  state[y] \in FinalStates
      BY <1>2, Zenon DEF CompletionsOK
  <2>1. will_send'[y] \subseteq will_send[y] BY <1>2, Zenon DEF IInv, TypeOK
  <2>2. CASE "SHUTDOWN_COMPLETE" \in will_send[y] \/ To(Peer(y), "SHUTDOWN_COMPLETE") \in net
        BY <2>2, Zenon DEF IInv, CompletionsOK
  <2>3. CASE To(Peer(y), "SHUTDOWN_COMPLETE") \in net' /\ To(Peer(y), "SHUTDOWN_COMPLETE") \notin net
    <3>1. PICK type \in again \cup kinds : To(Peer(y), "SHUTDOWN_COMPLETE") = To(Peer(x), type)
          BY <1>1, <2>3, Zenon
    <3>2. type = "SHUTDOWN_COMPLETE" /\ Peer(y) = Peer(x) BY <3>1, PacketFields
    <3>3. y = x BY <3>2, PeerIsOther, Zenon
    <3>4. "SHUTDOWN_COMPLETE" \in will_send[x] BY <1>3, <3>2, Zenon
    <3> QED BY <3>3, <3>4, Zenon DEF IInv, CompletionsOK
  <2> QED BY <2>1, <2>2, <2>3, Zenon
<1>6. InitiatorsOK' /\ ClosedAgree' BY <1>2, Zenon DEF IInv, InitiatorsOK, ClosedAgree
<1>7. ResponderDrained' BY <1>2, Zenon DEF IInv, TypeOK, ResponderDrained
<1>8. T2Covers'
  <2> SUFFICES ASSUME NEW y \in Assocs, ~ removed'[y], state[y] \in {"ShutdownSent", "ShutdownAckSent"}
               PROVE  t2'[y] \/ retrans_t2'[y] > MaxT2 \/ will_send'[y] # {} \/ completed'[y]
      BY <1>2, Zenon DEF T2Covers
  <2>1. y # x BY <1>2, Zenon DEF IInv, TypeOK
  <2>2. /\ ~ removed[y] /\ t2'[y] = t2[y] /\ retrans_t2'[y] = retrans_t2[y]
        /\ will_send'[y] = will_send[y] /\ completed'[y] = completed[y]
        BY <1>1, <1>2, <2>1, Zenon DEF IInv, TypeOK
  <2> QED BY <2>2, Zenon DEF IInv, T2Covers
<1> QED BY <1>4, <1>5, <1>6, <1>7, <1>8, Zenon DEF IInv

\* The network loses a packet: only the channel gets smaller.
LEMMA LoseStep == ASSUME IInv, Lose PROVE IInv'
<1>1. net' \subseteq net /\ UNCHANGED <<state, inflight, ack_owed, will_send, timerVars, removed, history>>
      BY Zenon DEF Lose
<1>2. TypeOK' BY <1>1, Zenon DEF IInv, TypeOK, timerVars, history
<1>3. CompletionsOK' BY <1>1, Zenon DEF IInv, CompletionsOK
<1> QED BY <1>1, <1>2, <1>3, Zenon DEF IInv, timerVars, history, InitiatorsOK, ClosedAgree,
                                ResponderDrained, T2Covers

\* No step breaks the invariant.
LEMMA NextIInv == IInv /\ [Next]_vars => IInv'
<1> SUFFICES ASSUME IInv, [Next]_vars PROVE IInv' BY Zenon
<1>1. CASE \E x \in Assocs : shutdown(x) \/ gather_outbound(x) \/ T2Timeout(x) \/ Remove(x)
      BY <1>1, ShutdownStep, GatherStep, T2Step, RemoveStep, Zenon
<1>2. CASE \E p \in net : Receive(p) BY <1>2, ReceiveStep, Zenon
<1>3. CASE Lose BY <1>3, LoseStep, Zenon
<1>4. CASE UNCHANGED vars
      BY <1>4, Zenon DEF IInv, vars, timerVars, history, TypeOK, CompletionsOK, InitiatorsOK, ClosedAgree,
                  ResponderDrained, T2Covers
<1> QED BY <1>1, <1>2, <1>3, <1>4, Zenon DEF Next

\* The inductive invariant, which has the types.
LEMMA Inductive == Spec => []IInv
BY InitIInv, NextIInv, PTL DEF Spec

\* An association closes (handle_shutdown_complete) only when its peer is past the exchange
\* of data, however SHUTDOWN, SHUTDOWN-ACK and SHUTDOWN-COMPLETE are lost, repeated and
\* reordered, and whoever calls shutdown.
THEOREM ClosesTogether == Spec => []ClosedAgree
<1>1. IInv => ClosedAgree BY Zenon DEF IInv
<1> QED BY <1>1, Inductive, PTL

\* The side that is asked to shut down (handle_shutdown, handle_sack) acknowledges only when
\* all it has sent is acknowledged.
THEOREM ResponderDrains == Spec => []ResponderDrained
<1>1. IInv => ResponderDrained BY Zenon DEF IInv
<1> QED BY <1>1, Inductive, PTL

\* As long as the driver keeps the association, the repetition of SHUTDOWN and SHUTDOWN-ACK ends
\* only by a packet of the peer or by the limit of T2 (gather_outbound,
\* on_retransmission_timeout); the driver drops only an association that called shutdown.
THEOREM T2Repeats == Spec => []T2Covers
<1>1. IInv => T2Covers BY Zenon DEF IInv
<1> QED BY <1>1, Inductive, PTL
=============================================================================
