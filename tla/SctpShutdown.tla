--------------------------- MODULE SctpShutdown ----------------------------
(***************************************************************************)
(* The shutdown of an established association: shutdown, the SHUTDOWN      *)
(* handlers, T2, and the removal of the association by its driver          *)
(* (association/mod.rs, handler/sctp.rs).                                  *)
(*                                                                         *)
(* The data each side has outstanding is one chunk or none; SctpTransfer   *)
(* has the transfer itself.  A packet stays in the network until it is     *)
(* lost, so it may be delivered late and more than once.                   *)
(***************************************************************************)
EXTENDS Naturals, FiniteSets

CONSTANTS
    MaxT2,       \* max_t2_shutdown_retrans
    Assocs,      \* the two associations
    NetBound     \* bound of the model: packets in transit

ASSUME ShutdownAssumption ==
    /\ MaxT2 \in Nat /\ NetBound \in Nat \ {0}
    /\ IsFiniteSet(Assocs) /\ Cardinality(Assocs) = 2

Peer(x) == CHOOSE y \in Assocs : y # x

VARIABLES
    state,        \* AssociationState
    inflight,     \* the inflight_queue is not empty
    ack_owed,     \* a SACK is to be sent
    will_send,    \* will_send_shutdown, will_send_shutdown_ack, will_send_shutdown_complete
    t2,           \* Timer::T2Shutdown is armed
    retrans_t2,
    removed,      \* the driver has dropped the association
    initiated,    \* shutdown was called, and has queued EndpointEventInner::Drained
    completed,    \* SHUTDOWN-COMPLETE was sent: history
    net           \* packets in transit, by destination

timerVars == <<t2, retrans_t2>>
history == <<initiated, completed>>
vars == <<state, inflight, ack_owed, will_send, timerVars, removed, history, net>>

ShutdownStates == {"Established", "ShutdownPending", "ShutdownSent", "ShutdownReceived",
                   "ShutdownAckSent", "Closed"}
Kinds == {"SHUTDOWN", "SHUTDOWN_ACK", "SHUTDOWN_COMPLETE"}
Packets == [to : Assocs, type : Kinds \cup {"DATA", "SACK"}]
To(x, type) == [to |-> x, type |-> type]

Init ==
    /\ state = [x \in Assocs |-> "Established"]
    /\ inflight \in [Assocs -> BOOLEAN]
    /\ ack_owed = [x \in Assocs |-> FALSE]
    /\ will_send = [x \in Assocs |-> {}]
    /\ t2 = [x \in Assocs |-> FALSE]
    /\ retrans_t2 = [x \in Assocs |-> 0]
    /\ removed = [x \in Assocs |-> FALSE]
    /\ initiated = [x \in Assocs |-> FALSE]
    /\ completed = [x \in Assocs |-> FALSE]
    /\ net = {}

----------------------------------------------------------------------------

\* The field inflight_queue_length is 0 from the start: nothing ever updates it.
inflight_queue_length(x) == 0

shutdown(x) ==
    /\ ~ removed[x] /\ state[x] = "Established"
    /\ IF inflight_queue_length(x) = 0
       THEN /\ will_send' = [will_send EXCEPT ![x] = @ \cup {"SHUTDOWN"}]
            /\ state' = [state EXCEPT ![x] = "ShutdownSent"]
       ELSE /\ state' = [state EXCEPT ![x] = "ShutdownPending"]
            /\ UNCHANGED will_send
    /\ initiated' = [initiated EXCEPT ![x] = TRUE]
    /\ UNCHANGED <<inflight, ack_owed, timerVars, removed, completed, net>>

\* Mutant of handle_shutdown: data in flight is not waited for.
handle_shutdown_at_once(x) ==
    /\ will_send' = [will_send EXCEPT ![x] = @ \cup {"SHUTDOWN_ACK"}]
    /\ state' = [state EXCEPT ![x] = "ShutdownAckSent"]
    /\ state[x] \in {"Established", "ShutdownSent"}
    /\ UNCHANGED <<inflight, ack_owed, timerVars, removed, history, net>>
handle_shutdown(x) ==
    /\ state[x] \in {"Established", "ShutdownSent"}
    /\ IF state[x] = "Established" /\ inflight[x]
       THEN /\ state' = [state EXCEPT ![x] = "ShutdownReceived"]
            /\ UNCHANGED will_send
       ELSE /\ will_send' = [will_send EXCEPT ![x] = @ \cup {"SHUTDOWN_ACK"}]
            /\ state' = [state EXCEPT ![x] = "ShutdownAckSent"]
    /\ UNCHANGED <<inflight, ack_owed, timerVars, removed, history, net>>

handle_shutdown_ack(x) ==
    /\ state[x] \in {"ShutdownSent", "ShutdownAckSent"}
    /\ t2' = [t2 EXCEPT ![x] = FALSE]
    /\ retrans_t2' = [retrans_t2 EXCEPT ![x] = 0]
    /\ will_send' = [will_send EXCEPT ![x] = @ \cup {"SHUTDOWN_COMPLETE"}]
    /\ UNCHANGED <<state, inflight, ack_owed, removed, history, net>>

\* Association::close stops every timer.
handle_shutdown_complete(x) ==
    /\ state[x] = "ShutdownAckSent"
    /\ state' = [state EXCEPT ![x] = "Closed"]
    /\ t2' = [t2 EXCEPT ![x] = FALSE]
    /\ retrans_t2' = [retrans_t2 EXCEPT ![x] = 0]
    /\ UNCHANGED <<inflight, ack_owed, will_send, removed, history, net>>

\* handle_data looks at no state.
handle_data(x) ==
    /\ ack_owed' = [ack_owed EXCEPT ![x] = TRUE]
    /\ UNCHANGED <<state, inflight, will_send, timerVars, removed, history, net>>

\* handle_sack and postprocess_sack: what waited for the queue to empty goes on.
handle_sack(x) ==
    /\ state[x] \in {"Established", "ShutdownPending", "ShutdownReceived"}
    /\ inflight' = [inflight EXCEPT ![x] = FALSE]
    /\ state' = [state EXCEPT ![x] = CASE @ = "ShutdownPending"  -> "ShutdownSent"
                                       [] @ = "ShutdownReceived" -> "ShutdownAckSent"
                                       [] OTHER                  -> @]
    /\ will_send' = [will_send EXCEPT ![x] = @ \cup
           CASE state[x] = "ShutdownPending"  -> {"SHUTDOWN"}
             [] state[x] = "ShutdownReceived" -> {"SHUTDOWN_ACK"}
             [] OTHER                         -> {}]
    /\ UNCHANGED <<ack_owed, timerVars, removed, history, net>>

Receive(p) ==
    /\ ~ removed[p.to]
    /\ CASE p.type = "SHUTDOWN"          -> handle_shutdown(p.to)
         [] p.type = "SHUTDOWN_ACK"      -> handle_shutdown_ack(p.to)
         [] p.type = "SHUTDOWN_COMPLETE" -> handle_shutdown_complete(p.to)
         [] p.type = "DATA"              -> handle_data(p.to)
         [] p.type = "SACK"              -> handle_sack(p.to)

\* SHUTDOWN-COMPLETE arms no timer.
ArmsT2_shutdown_only(k) == k = "SHUTDOWN"    \* mutant
ArmsT2(k) == k # "SHUTDOWN_COMPLETE"

\* At most one of the packets to send, in this order.
gather_outbound_shutdown_packets(x) ==
    IF "SHUTDOWN" \in will_send[x] THEN {"SHUTDOWN"} ELSE
    IF "SHUTDOWN_ACK" \in will_send[x] THEN {"SHUTDOWN_ACK"} ELSE will_send[x]

\* Which of the data that T3 or the fast retransmission repeats, and of the SACK that is owed
\* (now, or after the delay), a packet may carry.
Repeats(x, again) ==
    /\ again # {} => state[x] \in {"Established", "ShutdownPending", "ShutdownSent", "ShutdownReceived"}
    /\ "DATA" \in again => inflight[x]
    /\ "SACK" \in again => ack_owed[x]
Closes(x) == state[x] \in {"ShutdownPending", "ShutdownSent", "ShutdownReceived", "ShutdownAckSent"}

\* Data and SACK, and a shutdown packet.  poll_transmit drops gather_outbound's answer that
\* the association should be closed.
gather_outbound(x) ==
    /\ ~ removed[x]
    /\ \E again \in SUBSET {"DATA", "SACK"} :
          LET kinds == IF Closes(x) THEN gather_outbound_shutdown_packets(x) ELSE {}
          IN  /\ Repeats(x, again)
              /\ again \cup kinds # {}
              /\ net' = net \cup {To(Peer(x), type) : type \in again \cup kinds}
              /\ Cardinality(net') <= NetBound
              /\ ack_owed' = [ack_owed EXCEPT ![x] = @ /\ "SACK" \notin again]
              /\ will_send' = [will_send EXCEPT ![x] = @ \ kinds]
              /\ t2' = [t2 EXCEPT ![x] = @ \/ \E k \in kinds : ArmsT2(k)]
              /\ completed' = [completed EXCEPT ![x] = @ \/ "SHUTDOWN_COMPLETE" \in kinds]
    /\ UNCHANGED <<state, inflight, retrans_t2, removed, initiated>>

\* Mutant of T2Timeout: past the limit the association is closed.
T2Timeout_closes(x) ==
    /\ t2[x] /\ ~ removed[x]
    /\ t2' = [t2 EXCEPT ![x] = FALSE]
    /\ state' = [state EXCEPT ![x] = "Closed"]
    /\ UNCHANGED <<inflight, ack_owed, will_send, retrans_t2, removed, history, net>>
\* Timer::T2Shutdown expires; past its limit it is only logged.
T2Timeout(x) ==
    /\ t2[x] /\ ~ removed[x]
    /\ retrans_t2' = [retrans_t2 EXCEPT ![x] = IF @ > MaxT2 THEN @ ELSE @ + 1]
    /\ IF retrans_t2[x] + 1 > MaxT2
       THEN t2' = [t2 EXCEPT ![x] = FALSE] /\ UNCHANGED will_send
       ELSE /\ will_send' = [will_send EXCEPT ![x] = @ \cup
                   CASE state[x] = "ShutdownSent"    -> {"SHUTDOWN"}
                     [] state[x] = "ShutdownAckSent" -> {"SHUTDOWN_ACK"}
                     [] OTHER                        -> {}]
            /\ UNCHANGED t2
    /\ UNCHANGED <<state, inflight, ack_owed, removed, history, net>>

\* The driver handles the Drained event, which shutdown has queued: it sends what the
\* association still has to send, once, and drops it with its queues and timers (the state is
\* the last one it was in).  The handler of the peer connection does so in the next
\* handle_read or handle_timeout; the driver of an association used alone, at any time.
Remove(x) ==
    /\ initiated[x] /\ ~ removed[x]
    /\ \E again \in SUBSET {"DATA", "SACK"} :
          LET kinds == IF Closes(x) THEN will_send[x] ELSE {}
          IN  /\ Repeats(x, again)
              /\ net' = net \cup {To(Peer(x), type) : type \in again \cup kinds}
              /\ Cardinality(net') <= NetBound
              /\ completed' = [completed EXCEPT ![x] = @ \/ "SHUTDOWN_COMPLETE" \in kinds]
    /\ removed' = [removed EXCEPT ![x] = TRUE]
    /\ inflight' = [inflight EXCEPT ![x] = FALSE]
    /\ ack_owed' = [ack_owed EXCEPT ![x] = FALSE]
    /\ will_send' = [will_send EXCEPT ![x] = {}]
    /\ t2' = [t2 EXCEPT ![x] = FALSE]
    /\ retrans_t2' = [retrans_t2 EXCEPT ![x] = 0]
    /\ UNCHANGED <<state, initiated>>

Lose == \E p \in net : /\ net' = net \ {p}
                       /\ UNCHANGED <<state, inflight, ack_owed, will_send, timerVars, removed,
                                      history>>

Next ==
    \/ \E x \in Assocs : \/ shutdown(x)
                         \/ gather_outbound(x)
                         \/ T2Timeout(x)
                         \/ Remove(x)
    \/ \E p \in net : Receive(p)
    \/ Lose

Spec == Init /\ [][Next]_vars

----------------------------------------------------------------------------

\* Types; T2 never counts past the expiration that exceeds its limit.
TypeOK ==
    /\ state \in [Assocs -> ShutdownStates]
    /\ inflight \in [Assocs -> BOOLEAN] /\ ack_owed \in [Assocs -> BOOLEAN]
    /\ will_send \in [Assocs -> SUBSET Kinds]
    /\ t2 \in [Assocs -> BOOLEAN]
    /\ retrans_t2 \in [Assocs -> 0 .. MaxT2 + 1]
    /\ removed \in [Assocs -> BOOLEAN]
    /\ initiated \in [Assocs -> BOOLEAN] /\ completed \in [Assocs -> BOOLEAN]
    /\ net \subseteq Packets

\* An association that closes leaves no peer that still believes it is established or
\* that has data of its own to wait for.
ClosedAgree ==
    \A x \in Assocs : state[x] = "Closed" => state[Peer(x)] \in {"ShutdownSent", "ShutdownAckSent", "Closed"}

\* The side that is asked to shut down acknowledges the shutdown only when all it has
\* sent is acknowledged.
ResponderDrained ==
    \A x \in Assocs : state[x] = "ShutdownAckSent" /\ ~ initiated[x] => ~ inflight[x]

\* As long as the association is there, nothing but a packet of the peer or the timer's limit
\* ends the repetition of SHUTDOWN and SHUTDOWN-ACK.  The side that called shutdown is dropped
\* with its T2 at its driver's next call (Remove), so this covers it only until then; the
\* side that answers is not dropped.
T2Covers ==
    \A x \in Assocs :
       ~ removed[x] /\ state[x] \in {"ShutdownSent", "ShutdownAckSent"} =>
          \/ t2[x] \/ retrans_t2[x] > MaxT2
          \/ will_send[x] # {} \/ completed[x]

\* What the proofs add.  Only an association past the exchange of data completes the
\* shutdown, and it does not go back; shutdown alone leads to the states in which an
\* association waits to send SHUTDOWN or has sent it.
FinalStates == {"ShutdownSent", "ShutdownAckSent", "Closed"}
CompletionsOK ==
    \A x \in Assocs :
       "SHUTDOWN_COMPLETE" \in will_send[x] \/ To(Peer(x), "SHUTDOWN_COMPLETE") \in net
       => state[x] \in FinalStates
InitiatorsOK ==
    \A x \in Assocs : state[x] \in {"ShutdownPending", "ShutdownSent"} => initiated[x]

IInv == /\ TypeOK /\ CompletionsOK /\ InitiatorsOK
        /\ ClosedAgree /\ ResponderDrained /\ T2Covers

============================================================================
