------------------------------ MODULE Pipeline ------------------------------
(***************************************************************************)
(* The handler pipeline of one peer connection: what a call of handle_read,*)
(* poll_read, handle_write, poll_write, poll_event, handle_timeout or close*)
(* moves between the demuxer, ICE, DTLS, SRTP and interceptor handlers and *)
(* the application's queues (peer_connection/handler).                     *)
(*                                                                         *)
(* The protocols themselves are the subject of other modules.  Here the ICE*)
(* agent is the state it is in, whether a pair is selected and the events  *)
(* it has queued; DTLS is a handshake of Flights inbound datagrams and a   *)
(* timer that repeats the last flight; SCTP and the data channels pass a   *)
(* message through; the interceptor chain either passes a packet on or,    *)
(* with a jitter buffer, holds it until a timeout.  Arrivals are numbered, *)
(* and the number is the instant `now`.                                    *)
(***************************************************************************)
EXTENDS Integers, Sequences, SequencesExt

CONSTANTS
    Flights,        \* inbound handshake datagrams that complete the handshake
    Retransmits,    \* maximum_retransmit_number
    Buffered,       \* a jitter buffer is in the chain
    Roles,          \* the DTLS roles start may derive
    Arrivals,       \* bound on datagrams handled
    Written,        \* bound on messages the application writes
    Turns           \* bound on steps the ICE agent takes by itself

VARIABLES
    role,           \* dtls_transport.dtls_role
    agent,          \* [state, selected, events] of the ICE agent
    ice_state,      \* ice_transport.ice_connection_state
    dtls,           \* the transport's state and config; its endpoint: datagrams seen, flights
                    \* held, the retransmit timer, tries, failed; the handler: events, transmits
    complete,       \* the SRTP contexts and is_dtls_handshake_complete are set
    state,          \* peer_connection_state
    event_outs,     \* connection events ready for the application
    chain,          \* [held, ready]: packets inside the interceptor chain
    media_read_outs,
    data_read_outs,
    endpoint_outs,  \* the endpoint handler's write_outs
    write_outs,
    now, writes, turns,
    told            \* the last connection state the application read

vars == <<role, agent, ice_state, dtls, complete, state, event_outs, chain,
          media_read_outs, data_read_outs, endpoint_outs, write_outs, now,
          writes, turns, told>>

reads == <<chain, media_read_outs, data_read_outs>>
outs == <<endpoint_outs, write_outs, writes>>
conn == <<role, agent, ice_state, dtls, complete, state, event_outs, told>>

Init ==
    /\ role = "auto"
    /\ agent = [state |-> "new", selected |-> FALSE, events |-> <<>>]
    /\ ice_state = "new"
    /\ dtls = [state |-> "new", config |-> FALSE, seen |-> 0, held |-> 0, timer |-> FALSE,
               tries |-> 0, failed |-> FALSE, events |-> <<>>, transmits |-> 0]
    /\ complete = FALSE
    /\ state = "new" /\ told = "new" /\ event_outs = <<>>
    /\ chain = [held |-> <<>>, ready |-> <<>>]
    /\ media_read_outs = <<>> /\ data_read_outs = <<>>
    /\ endpoint_outs = <<>> /\ write_outs = <<>>
    /\ now = 0 /\ writes = 0 /\ turns = 0

-----------------------------------------------------------------------------
(* The connection state the transports' states amount to, asked in the     *)
(* order update_connection_state asks it.                                  *)
ConnectionState(is_closed, ice, tls) ==
    IF is_closed THEN "closed"
    ELSE IF ice \in {"failed", "disconnected"} THEN ice
    ELSE IF ice = "new" /\ tls \in {"new", "closed"} THEN "new"
    ELSE IF ice \in {"new", "checking"} \/ tls \in {"new", "connecting"} THEN "connecting"
    ELSE "connected"

(* update_connection_state: the state and the events it leaves.  Closed is *)
(* terminal, and an unchanged state is not announced.                      *)
update_connection_state(is_closed, ice, tls, st, outs_) ==
    LET new == ConnectionState(is_closed, ice, tls)
    IN  IF (st = "closed" /\ ~is_closed) \/ new = st
        THEN [state |-> st, outs |-> outs_]
        ELSE [state |-> new, outs |-> Append(outs_, [of |-> "connection", state |-> new])]

-----------------------------------------------------------------------------
(* start_transports: the ICE agent starts checking, the DTLS transport     *)
(* derives its role and is armed; a client keeps its configuration until a *)
(* pair is selected.  Both transports refuse a second start.               *)
StartTransports(r) ==
    /\ agent.state = "new" /\ dtls.state = "new" /\ state # "closed"
    /\ role' = r
    /\ agent' = [agent EXCEPT !.state = "checking", !.events = Append(@, "checking")]
    /\ dtls' = [dtls EXCEPT !.state = "connecting", !.config = (r = "client")]
    /\ LET told_ == update_connection_state(FALSE, ice_state, "connecting", state, event_outs)
       IN  state' = told_.state /\ event_outs' = told_.outs
    /\ UNCHANGED <<ice_state, complete, told, now, turns, reads, outs>>

(* update_connection_state of the agent: a changed state is queued as an   *)
(* event, and a failure gives up the selected pair.                        *)
Moved(a, st) ==
    IF a.state = st THEN a
    ELSE [state |-> st, selected |-> a.selected /\ st # "failed",
          events |-> Append(a.events, st)]

(* set_selected_pair *)
Selected(a) ==
    LET b == Moved([a EXCEPT !.selected = TRUE], "connected")
    IN  [b EXCEPT !.events = Append(@, "selected")]

(* What the agent may do on a STUN message or a timeout (the IceAgent      *)
(* module has the conditions): select a pair, lose and regain the peer,    *)
(* fail, exchange roles.                                                   *)
AgentSteps ==
    (IF agent.state \in {"checking", "connected", "disconnected"} THEN {Selected(agent)} ELSE {})
    \cup (IF agent.state = "connected" THEN {Moved(agent, "disconnected")} ELSE {})
    \cup (IF agent.state = "disconnected"
          THEN {Moved(agent, "failed"), Moved(agent, "connected")} ELSE {})
    \cup (IF agent.state = "checking"
          THEN {Moved(agent, "failed"),
                [agent EXCEPT !.events = Append(@, "role")]} ELSE {})

(* apply_restart: the pair is given up and checking starts again. *)
RestartIce ==
    /\ agent.state \in {"connected", "disconnected", "failed"} /\ turns < Turns
    /\ turns' = turns + 1
    /\ agent' = Moved([agent EXCEPT !.selected = FALSE], "checking")
    /\ UNCHANGED <<role, ice_state, dtls, complete, state, event_outs, told, now, reads, outs>>

-----------------------------------------------------------------------------
(* match_dtls and match_srtp: everything else is taken for STUN. *)
Demuxed(first) ==
    CASE first \in 20..63 -> "dtls"
      [] first \in 128..191 -> "rtp"
      [] OTHER -> "stun"

(* What the interceptor chain gives back at once, and what it keeps. *)
Intercepted(c, packet) ==
    IF Buffered THEN [c EXCEPT !.held = Append(@, packet)]
    ELSE [c EXCEPT !.ready = Append(@, packet)]

(* The end of traverse_read: what the interceptor handler's poll_read      *)
(* yields reaches the endpoint handler and the application's queue.        *)
Traversed(c) ==
    /\ chain' = [c EXCEPT !.ready = <<>>]
    /\ media_read_outs' = media_read_outs \o c.ready

(* A STUN message goes to the agent and no further. *)
ReadStun ==
    /\ turns < Turns /\ turns' = turns + 1
    /\ \E a \in AgentSteps : agent' = a
    /\ Traversed(chain)
    /\ UNCHANGED <<role, ice_state, dtls, complete, state, event_outs, told, data_read_outs, outs>>

(* poll_transmit of the endpoint, until it is empty: the flights it holds  *)
(* become the handler's to write.                                          *)
Polled(d) == [d EXCEPT !.transmits = @ + d.held, !.held = 0]

(* A handshake datagram: the next flight, and its timer, unless it was the *)
(* last, which moves the transport to connected and queues the event that  *)
(* carries the SRTP contexts.  A client that has not connected yet knows   *)
(* no connection the datagram could belong to, and an endpoint that failed *)
(* refuses it; the walk goes on all the same.                              *)
ReadDtls ==
    LET last == dtls.seen + 1 = Flights
        taken == agent.selected /\ dtls.state = "connecting" /\ ~dtls.config /\ ~dtls.failed
    IN  /\ dtls.seen < Flights
        /\ dtls' = IF ~taken THEN dtls
                   ELSE Polled([dtls EXCEPT
                                  !.seen = @ + 1, !.tries = 0, !.timer = ~last,
                                  !.held = IF last /\ role = "client" THEN @ ELSE @ + 1,
                                  !.state = IF last THEN "connected" ELSE @,
                                  !.events = IF last THEN Append(@, "complete") ELSE @])
        /\ Traversed(chain)
        /\ UNCHANGED <<role, agent, ice_state, complete, state, event_outs, told, turns,
                       data_read_outs, outs>>

(* An application record: SCTP and the data channels hand it on. *)
ReadData ==
    /\ agent.selected /\ dtls.seen = Flights
    /\ data_read_outs' = Append(data_read_outs, now + 1)
    /\ Traversed(chain)
    /\ UNCHANGED <<conn, turns, outs>>

(* An RTP packet: dropped by the ICE handler without a selected pair and   *)
(* by the SRTP handler until it has a context; the walk goes on all the    *)
(* same.                                                                   *)
ReadRtp ==
    /\ Traversed(IF agent.selected /\ complete THEN Intercepted(chain, now + 1) ELSE chain)
    /\ UNCHANGED <<conn, turns, data_read_outs, outs>>

(* handle_read of the peer connection: one walk of every handler. *)
HandleRead(first) ==
    /\ now < Arrivals /\ now' = now + 1
    /\ CASE Demuxed(first) = "stun" -> ReadStun
         [] Demuxed(first) = "dtls" -> ReadDtls \/ ReadData
         [] Demuxed(first) = "rtp" -> ReadRtp

-----------------------------------------------------------------------------
(* poll_read: the older of the two queues' heads.  Parked streams, which   *)
(* would make it walk the handlers again, belong to the SctpHandler module.*)
PollRead ==
    /\ IF data_read_outs # <<>> /\ (media_read_outs = <<>> \/ data_read_outs[1] <= media_read_outs[1])
       THEN data_read_outs' = Tail(data_read_outs) /\ UNCHANGED media_read_outs
       ELSE /\ media_read_outs # <<>>
            /\ media_read_outs' = Tail(media_read_outs) /\ UNCHANGED data_read_outs
    /\ UNCHANGED <<conn, chain, outs, now, turns>>

(* handle_write: only the endpoint handler sees it. *)
HandleWrite(what) ==
    /\ writes < Written /\ writes' = writes + 1
    /\ endpoint_outs' = Append(endpoint_outs, what)
    /\ UNCHANGED <<conn, reads, write_outs, now, turns>>

(* What the SRTP and DTLS handlers make of one message on its way out:     *)
(* media needs a context, a record needs a started endpoint and waits in   *)
(* it for the handshake; ICE drops everything without a selected pair.     *)
Protected(what) ==
    IF (what = "media" /\ complete) \/ (what = "data" /\ dtls.seen = Flights)
    THEN <<what>> ELSE <<>>

(* poll_write: what an earlier walk left goes first; otherwise one reverse *)
(* walk moves everything the handlers hold.                                *)
Walked ==
    IF agent.selected
    THEN FlattenSeq([i \in 1..Len(endpoint_outs) |-> Protected(endpoint_outs[i])])
         \o [i \in 1..dtls.transmits |-> "flight"]
    ELSE <<>>

PollWrite ==
    /\ IF write_outs # <<>>
       THEN /\ write_outs' = Tail(write_outs)
            /\ UNCHANGED <<endpoint_outs, dtls>>
       ELSE /\ endpoint_outs # <<>> \/ dtls.transmits > 0
            /\ endpoint_outs' = <<>> /\ dtls' = [dtls EXCEPT !.transmits = 0]
            /\ write_outs' = IF Walked = <<>> THEN <<>> ELSE Tail(Walked)
    /\ UNCHANGED <<role, agent, ice_state, complete, state, event_outs, told, reads, now, writes, turns>>

-----------------------------------------------------------------------------
(* The ICE handler's poll_event is asked until it yields nothing, and a    *)
(* role change yields nothing: the events behind it wait for another walk. *)
Yielded ==
    LET role_at == SelectInSeq(agent.events, LAMBDA e : e = "role")
    IN  IF role_at = 0 THEN Len(agent.events) ELSE role_at

(* ice_connection_state follows the state changes among them. *)
FollowedState(events) ==
    LET states == SelectSeq(events, LAMBDA e : e \notin {"selected", "role"})
    IN  IF states = <<>> THEN ice_state ELSE states[Len(states)]

(* What the end of the walk does with the events that come through: a      *)
(* state change or the handshake's end re-evaluates the connection state,  *)
(* and a state change is told to the application as well.                  *)
EventsTold_deaf(events, ice, tls) ==  (* mutant: the end of the handshake re-evaluates nothing *)
    FoldLeft(LAMBDA s, e :
                IF e = "complete" THEN s
                ELSE LET u == update_connection_state(FALSE, ice, tls, s.state, s.outs)
                     IN  [u EXCEPT !.outs = Append(@, [of |-> "ice", state |-> e])],
             [state |-> state, outs |-> <<>>], events)
EventsTold(events, ice, tls) ==
    FoldLeft(LAMBDA s, e :
                LET u == update_connection_state(FALSE, ice, tls, s.state, s.outs)
                IN  IF e = "complete" THEN u
                    ELSE [u EXCEPT !.outs = Append(@, [of |-> "ice", state |-> e])],
             [state |-> state, outs |-> <<>>], events)

(* One walk of poll_event through the handlers.  The DTLS handler keeps    *)
(* the selected pair to itself: a client connects on it, once, and leaves  *)
(* its first flight in the endpoint.                                       *)
EventWalk ==
    LET fetched == SubSeq(agent.events, 1, Yielded)
        connects == role = "client" /\ dtls.config /\ Contains(fetched, "selected")
        forwarded == SelectSeq(fetched, LAMBDA e : e \notin {"selected", "role"})
        through == dtls.events \o forwarded
        end == EventsTold(through, FollowedState(fetched), dtls.state)
    IN  /\ agent.events # <<>> \/ dtls.events # <<>>
        /\ agent' = [agent EXCEPT !.events = SubSeq(@, Yielded + 1, Len(@))]
        /\ ice_state' = FollowedState(fetched)
        /\ dtls' = [dtls EXCEPT !.events = <<>>,
                                !.config = @ /\ ~connects,
                                !.timer = @ \/ connects,
                                !.held = IF connects THEN @ + 1 ELSE @]
        /\ complete' = (complete \/ Contains(dtls.events, "complete"))
        /\ state' = end.state
        /\ event_outs' = IF end.outs = <<>> THEN <<>> ELSE Tail(end.outs)
        /\ told' = IF end.outs # <<>> /\ end.outs[1].of = "connection" THEN end.outs[1].state ELSE told

(* poll_event: what is queued goes first, without another walk. *)
PollEvent ==
    /\ IF event_outs # <<>>
       THEN /\ event_outs' = Tail(event_outs)
            /\ told' = IF event_outs[1].of = "connection" THEN event_outs[1].state ELSE told
            /\ UNCHANGED <<agent, ice_state, dtls, complete, state>>
       ELSE EventWalk
    /\ UNCHANGED <<role, reads, outs, now, turns>>

(* handle_timeout of the DTLS endpoint (the Dtls module has the flights):  *)
(* a timer that is due repeats the flight, or ends the handshake with an   *)
(* error once every retransmission has been made.                          *)
DtlsTimeouts ==
    {dtls} \cup
    (IF ~dtls.timer THEN {}
     ELSE IF dtls.tries < Retransmits
     THEN {[dtls EXCEPT !.tries = @ + 1, !.held = @ + 1]}
     ELSE {[dtls EXCEPT !.timer = FALSE, !.failed = TRUE]})

(* handle_timeout: the agent, DTLS and the interceptors act on the time, in*)
(* this order; the endpoint's flights, old and new, become the handler's,  *)
(* and what the chain releases waits inside it.  An error of DTLS ends the *)
(* round there.                                                            *)
HandleTimeout ==
    \E a \in AgentSteps \cup {agent}, d \in DtlsTimeouts :
        /\ IF a = agent /\ d = dtls THEN UNCHANGED turns
           ELSE turns < Turns /\ turns' = turns + 1
        /\ agent' = a
        /\ IF d.failed # dtls.failed THEN dtls' = d /\ UNCHANGED chain
           ELSE /\ dtls' = Polled(d)
                /\ chain' = [held |-> <<>>, ready |-> chain.ready \o chain.held]
        /\ UNCHANGED <<role, ice_state, complete, state, event_outs, told,
                       media_read_outs, data_read_outs, outs, now>>

(* close: the agent gives up its pair without an event, the DTLS transport *)
(* is closed, and the connection's state is the last thing told.           *)
Close ==
    /\ state # "closed"
    /\ agent' = [agent EXCEPT !.state = "closed", !.selected = FALSE]
    /\ dtls' = [dtls EXCEPT !.state = "closed"]
    /\ LET told_ == update_connection_state(TRUE, ice_state, "closed", state, event_outs)
       IN  state' = told_.state /\ event_outs' = told_.outs
    /\ UNCHANGED <<role, ice_state, complete, told, now, turns, reads, outs>>

Next ==
    \/ \E r \in Roles : StartTransports(r)
    \/ \E first \in {0, 63, 128} : HandleRead(first)
    \/ RestartIce \/ PollRead \/ PollWrite \/ PollEvent \/ HandleTimeout \/ Close
    \/ \E what \in {"media", "data"} : HandleWrite(what)

Spec == Init /\ [][Next]_vars

-----------------------------------------------------------------------------
(* Once the application has read every event, the state it was told last   *)
(* is the connection's, and it is what the transports' own states amount   *)
(* to: no change of the agent or of DTLS was missed on its way through the *)
(* handlers, in whatever batches they were polled, and nothing is told     *)
(* after closed.  (Events behind a role change of the agent need one more  *)
(* poll: the ICE handler answers nothing for the role change itself.)      *)
StateTold ==
    (agent.events = <<>> /\ dtls.events = <<>> /\ event_outs = <<>>) =>
        told = IF state = "closed" THEN "closed"
               ELSE ConnectionState(FALSE, agent.state, dtls.state)

(* A handshake flight never waits for a call that nothing will cause: while*)
(* one is still inside the endpoint, as a client's first is after          *)
(* poll_event, the retransmit timer runs, so that poll_timeout asks for the*)
(* handle_timeout that fetches it.                                         *)
FlightsFetched == dtls.held > 0 => dtls.timer

=============================================================================
