------------------------------- MODULE MCSctp -------------------------------
(***************************************************************************)
(* The parts of the SCTP association and of its handler that are too small *)
(* for a run of their own: the shutdown (SctpShutdown), partially reliable *)
(* delivery (SctpPartial) and the reset of streams (SctpHandler).  They    *)
(* share no state: a behaviour is a behaviour of one of them, component    *)
(* says which, and the variables of the others stay where they are.        *)
(***************************************************************************)
EXTENDS SctpShutdown, Sequences, TLC

CONSTANT Components     \* the parts that a run covers

VARIABLES
    component,
    messages, snd, rcv, expired, partial_net,            \* of SctpPartial
    plan, assoc, hnd, written, closed, handler_net       \* of SctpHandler

\* The two associations of SctpShutdown are interchangeable.
Symmetry == Permutations(Assocs)

----------------------------------------------------------------------------
\* Partially reliable messages.

Message(si, generation, unordered, frags, policy, n) ==
    [si |-> si, generation |-> generation, unordered |-> unordered, frags |-> frags,
     policy |-> policy, max_retransmits |-> n]

\* An ordered stream: a message of two fragments with a limit of retries, a reliable one.
OrderedMessages == <<Message(1, 1, FALSE, 2, "Rexmit", 0), Message(1, 1, FALSE, 1, "Reliable", 0)>>
\* ... with a lifetime.
TimedMessages == <<Message(1, 1, FALSE, 2, "Timed", 0), Message(1, 1, FALSE, 1, "Reliable", 0)>>
\* An unordered stream.
UnorderedMessages == <<Message(1, 1, TRUE, 2, "Rexmit", 0), Message(1, 1, TRUE, 2, "Rexmit", 0)>>
\* A stream that is reset and opened again: the first incarnation is still in flight.
ReusedMessages == <<Message(1, 1, FALSE, 2, "Rexmit", 0), Message(1, 2, FALSE, 1, "Reliable", 0)>>

\* ... and a message of another stream is abandoned after the reset, before the SACK of the
\* FORWARD-TSN that covers the first incarnation has come back.
ReopenedMessages == <<Message(1, 1, FALSE, 1, "Rexmit", 0), Message(2, 1, FALSE, 1, "Rexmit", 0),
                      Message(1, 2, FALSE, 1, "Reliable", 0)>>

Partial == INSTANCE SctpPartial WITH
    Plans <- {OrderedMessages, TimedMessages, UnorderedMessages, ReusedMessages,
              ReopenedMessages},
    Opened <- {1}, NetBound <- 2, net <- partial_net

PartialIdle == /\ messages = "-" /\ snd = "-" /\ rcv = "-" /\ expired = "-"
               /\ partial_net = "-"

\* The receiver reads whole messages, in order, and misses none that the sender has not
\* abandoned; what it holds back is counted exactly.  A move of the cumulative TSN over
\* abandoned chunks is always covered by T3, so the receiver is not left waiting for them
\* and keeps none of their fragments, and the sender's association never fails on them
\* (create_forward_tsn, handle_forward_tsn, the reassembly queue).
PartialDelivery ==
    component = "partial" =>
       /\ Partial!WholeMessages /\ Partial!NothingSkipped /\ Partial!InOrder /\ Partial!ReadWhole
       /\ Partial!ForwardCovered /\ Partial!NotBlocked /\ Partial!NoLeftovers
       /\ Partial!BufferedExact /\ Partial!NeverFails

----------------------------------------------------------------------------
\* Streams that are reset.

Ends == {"alice", "bob"}
Closing(m, n, closes, handshaking) ==
    [writes |-> ("alice" :> m @@ "bob" :> n), closes |-> closes, handshaking |-> handshaking]

\* Two streams, and the writer closes the first; the reader may still be handshaking.  The
\* first message fills the budget of messages, the second overshoots that of bytes.
Handler == INSTANCE SctpHandler WITH
    Sides <- Ends, Streams <- {1, 2}, MaxReconfig <- 1, NetBound <- 2,
    Sizes <- <<1, 2, 1>>, Backlog <- 2, BacklogBytes <- 2, MaxMessage <- 2,
    Plans <- {Closing(2, 0, {<<"alice", 1>>}, {}), Closing(2, 0, {<<"alice", 1>>}, {"bob"})},
    net <- handler_net

\* One stream, which both ends close.
Crossing == INSTANCE SctpHandler WITH
    Sides <- Ends, Streams <- {1}, MaxReconfig <- 1, NetBound <- 2,
    Sizes <- <<1>>, Backlog <- 1, BacklogBytes <- 2, MaxMessage <- 2,
    Plans <- {Closing(1, 0, Ends \X {1}, {})}, net <- handler_net

HandlerIdle == /\ plan = "-" /\ assoc = "-" /\ hnd = "-" /\ written = "-" /\ closed = "-"
               /\ handler_net = "-"

\* A stream is reset only after the application has read what arrived on it: a reset that
\* comes too early waits for the data, is retried when it is read, and a message is left where
\* nothing will fetch it only behind a parked stream that was reset or closed, however full
\* the handler's queue is (try_reset_incoming, retry_deferred_resets, the handler's read
\* budget).
ResetsOrdered ==
    /\ component = "handler" =>
          /\ Handler!ReadBeforeReset /\ Handler!DeferredWaits
          /\ Handler!NothingStranded /\ Handler!BacklogBounded
    /\ component = "crossing" =>
          /\ Crossing!ReadBeforeReset /\ Crossing!DeferredWaits
          /\ Crossing!NothingStranded /\ Crossing!BacklogBounded

----------------------------------------------------------------------------
partialVars == <<messages, snd, rcv, expired, partial_net>>
handlerVars == <<plan, assoc, hnd, written, closed, handler_net>>
sctpVars == <<component, vars, partialVars, handlerVars>>

ShutdownIdle == Init /\ inflight = [x \in Assocs |-> FALSE]

SctpInit ==
    /\ component \in Components
    /\ IF component = "shutdown" THEN Init ELSE ShutdownIdle
    /\ IF component = "partial" THEN Partial!Init ELSE PartialIdle
    /\ IF component = "handler" THEN Handler!Init
       ELSE IF component = "crossing" THEN Crossing!Init ELSE HandlerIdle

SctpNext ==
    \/ component = "shutdown" /\ Next /\ UNCHANGED <<component, partialVars, handlerVars>>
    \/ component = "partial" /\ Partial!Next /\ UNCHANGED <<component, vars, handlerVars>>
    \/ component = "handler" /\ Handler!Next /\ UNCHANGED <<component, vars, partialVars>>
    \/ component = "crossing" /\ Crossing!Next /\ UNCHANGED <<component, vars, partialVars>>

SctpSpec == SctpInit /\ [][SctpNext]_sctpVars
=============================================================================
