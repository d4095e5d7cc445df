------------------------------ MODULE Binding ------------------------------
(***************************************************************************)
(* How an inbound RTP packet finds its track: the streams a remote         *)
(* description announces (start_rtp), the binding of a stream to the       *)
(* interceptor chain on its first packet (handler/interceptor.rs), and the *)
(* dispatch of what the chain lets through (handler/endpoint.rs).          *)
(*                                                                         *)
(* A stream is announced by its SSRC, by the rids of a simulcast section,  *)
(* or not at all when there is only one section; its retransmissions come  *)
(* on an SSRC of their own, announced or named by the packet's rrid.  The  *)
(* packets of a plan arrive in any order and any of them may be lost.  The *)
(* chain remembers, for each stream bound to it, the sequence numbers it   *)
(* has seen since the bind - what the NACK generator's receive log, the    *)
(* report and feedback logs hold.                                          *)
(***************************************************************************)
EXTENDS Integers, Sequences, FiniteSets, SequencesExt

CONSTANTS
    Plans,      \* sets of sections, packets and calls, one chosen at the start
    Codecs      \* the codec preferences of every receiver, in their order

VARIABLES
    plan,
    transceivers,   \* each with its receiver's codings and its track's codings
    bound,          \* SSRCs bound to the interceptor chain
    seen,           \* the chain's record of a bound stream
    opened,         \* the OnOpen events fired
    delivered,      \* what the application was handed
    arrived, renegotiated,
    recent,         \* history: what arrived since start_rtp ran last
    forgotten       \* history: SSRCs bound before start_rtp ran last, and not since

vars == <<plan, transceivers, bound, seen, opened, delivered, arrived, renegotiated, recent,
          forgotten>>

None == 0           \* no SSRC
NoRid == ""
NoCodec == [mime |-> "", fmtp |-> ""]  \* the default codec of a track that has not been heard

-----------------------------------------------------------------------------
(* What start_rtp writes into the receiver of a section: one coding for    *)
(* each rid, one for a declared SSRC with its repair flows, or none.  The  *)
(* track's codings are the same, with a codec still to be learnt.          *)
Coding(rid, ssrc, rtx, fec) == [rid |-> rid, ssrc |-> ssrc, rtx |-> rtx, fec |-> fec]

Announced(section) ==
    IF section.rids # <<>>
    THEN [i \in DOMAIN section.rids |-> Coding(section.rids[i], None, None, None)]
    ELSE IF section.ssrc # None
    THEN <<Coding(NoRid, section.ssrc, section.rtx, section.fec)>>
    ELSE <<>>

Started(section) ==
    [mid |-> section.mid, track |-> section.track, stopped |-> FALSE,
     receive_codings |-> Announced(section),
     codings |-> [i \in DOMAIN Announced(section) |-> [of |-> Announced(section)[i], codec |-> NoCodec]]]

Init ==
    /\ plan \in Plans
    /\ transceivers = [i \in DOMAIN plan.sections |-> Started(plan.sections[i])]
    /\ bound = {} /\ seen = [s \in plan.ssrcs |-> {}]
    /\ opened = <<>> /\ delivered = {} /\ arrived = {} /\ renegotiated = 0
    /\ recent = {} /\ forgotten = {}

-----------------------------------------------------------------------------
(* The first index of a sequence whose element satisfies a set of indices; *)
(* 0 when there is none (Rust's iter().find).                              *)
FirstOf(indices) == IF indices = {} THEN 0 ELSE CHOOSE i \in indices : \A j \in indices : i <= j

CodecAt(pt) == FirstOf({i \in DOMAIN Codecs : Codecs[i].payload_type = pt})

(* codec_parameters_fuzzy_search: by mime type and fmtp, then by mime type *)
codec_parameters_fuzzy_search(codec) ==
    LET exact == FirstOf({i \in DOMAIN Codecs : Codecs[i].codec = codec})
    IN  IF exact # 0 THEN exact
        ELSE FirstOf({i \in DOMAIN Codecs : Codecs[i].codec.mime = codec.mime})

find_rtx_payload_type(pt) ==
    LET at == FirstOf({i \in DOMAIN Codecs : Codecs[i].apt = pt})
    IN  IF at = 0 THEN None ELSE Codecs[at].payload_type

find_fec_payload_type ==
    LET at == FirstOf({i \in DOMAIN Codecs : Codecs[i].codec.mime = "flexfec"})
    IN  IF at = 0 THEN None ELSE Codecs[at].payload_type

(* get_coding_parameter_mut_by_rid, and the coding that owns an SSRC *)
ByRid(t, rid) == FirstOf({i \in DOMAIN t.receive_codings : t.receive_codings[i].rid = rid})
BySsrc(t, ssrc) == FirstOf({i \in DOMAIN t.receive_codings : t.receive_codings[i].ssrc = ssrc})
TrackByRid(t, rid) == FirstOf({i \in DOMAIN t.codings : t.codings[i].of.rid = rid})
TrackBySsrc(t, ssrc) == FirstOf({i \in DOMAIN t.codings : t.codings[i].of.ssrc = ssrc})

ByMid(ts, mid) == FirstOf({i \in DOMAIN ts : ts[i].mid = mid})
Owner(ts, ssrc) == FirstOf({i \in DOMAIN ts : BySsrc(ts[i], ssrc) # 0})

(* resolve_rtx_primary over the receivers in turn: the stream an RTX       *)
(* packet repairs, by the coding its SSRC is paired with, and the payload  *)
(* type its own payload type stands for.                                   *)
PairedAt(t, ssrc) ==
    FirstOf({k \in DOMAIN t.receive_codings :
               t.receive_codings[k].rtx = ssrc /\ t.receive_codings[k].ssrc # None})

resolve_rtx_primary(ts, ssrc, pt) ==
    LET i == FirstOf({i \in DOMAIN ts : PairedAt(ts[i], ssrc) # 0})
        c == CodecAt(pt)
    IN  IF i = 0 \/ c = 0 \/ Codecs[c].apt = None THEN [ssrc |-> None, pt |-> None]
        ELSE [ssrc |-> ts[i].receive_codings[PairedAt(ts[i], ssrc)].ssrc, pt |-> Codecs[c].apt]

-----------------------------------------------------------------------------
(* What establishing a stream changes. *)
State(ts, b, s, o, f) == [ts |-> ts, bound |-> b, seen |-> s, opened |-> o, forgotten |-> f]

(* interceptor_remote_stream_op, binding: an interceptor starts its record *)
(* of the stream afresh.                                                   *)
Bound(st, ssrcs) ==
    LET real == ssrcs \ {None}
    IN  [st EXCEPT !.bound = @ \cup real, !.forgotten = @ \ real,
                   !.seen = [s \in DOMAIN @ |-> IF s \in real THEN {} ELSE @[s]]]

(* The repair flows of a coding that can be bound: both halves or neither. *)
RepairFlows(coding, pt) ==
    {IF find_rtx_payload_type(pt) # None THEN coding.rtx ELSE None,
     IF find_fec_payload_type # None THEN coding.fec ELSE None}

(* mutant: the pairing waits for the layer's first packet *)
pair_rrid_repair_stream_late(ts, p) ==
    LET i == ByMid(ts, p.mid)
        k == IF i = 0 THEN 0 ELSE ByRid(ts[i], p.rrid)
    IN  IF p.mid = NoRid \/ p.rrid = NoRid \/ k = 0 THEN ts
        ELSE IF ts[i].receive_codings[k].rtx # None \/ ts[i].receive_codings[k].ssrc = None THEN ts
        ELSE [ts EXCEPT ![i].receive_codings[k].rtx = p.ssrc,
                        ![i].codings[TrackByRid(ts[i], p.rrid)].of.rtx = p.ssrc]

(* pair_rrid_repair_stream: a repair stream names its layer by rrid; the   *)
(* first pairing is kept, on the receiver's coding and on the track's.     *)
pair_rrid_repair_stream(ts, p) ==
    LET i == ByMid(ts, p.mid)
        k == IF i = 0 THEN 0 ELSE ByRid(ts[i], p.rrid)
    IN  IF p.mid = NoRid \/ p.rrid = NoRid \/ k = 0 THEN ts
        ELSE IF ts[i].receive_codings[k].rtx # None THEN ts
        ELSE [ts EXCEPT ![i].receive_codings[k].rtx = p.ssrc,
                        ![i].codings[TrackByRid(ts[i], p.rrid)].of.rtx = p.ssrc]

(* bind_rrid_repair_stream: the layer is bound already, so only its repair *)
(* flow is; the layer itself is left alone.                                *)
bind_rrid_repair_stream(st, primary, rtx_ssrc) ==
    IF Owner(st.ts, primary.ssrc) = 0 \/ find_rtx_payload_type(primary.pt) = None THEN st
    ELSE Bound(st, {rtx_ssrc})

(* bind_declared_ssrc: an SSRC some receiver owns is settled here, and     *)
(* bound when its track has no codec yet and the payload type names one.   *)
Declared(st, ssrc) ==
    /\ Owner(st.ts, ssrc) # 0
    /\ TrackBySsrc(st.ts[Owner(st.ts, ssrc)], ssrc) # 0

bind_declared_ssrc(st, ssrc, pt) ==
    LET i == Owner(st.ts, ssrc)
        k == TrackBySsrc(st.ts[i], ssrc)
        coding == st.ts[i].receive_codings[BySsrc(st.ts[i], ssrc)]
    IN  IF st.ts[i].codings[k].codec # NoCodec \/ CodecAt(pt) = 0 THEN st
        ELSE [Bound(st, {ssrc} \cup RepairFlows(coding, pt)) EXCEPT
                !.ts[i].codings[k].codec = Codecs[CodecAt(pt)].codec,
                !.opened = Append(@, [track |-> st.ts[i].track, ssrc |-> ssrc, rid |-> NoRid])]

(* bind_undeclared_ssrc: with one section, and nothing known of it, the    *)
(* packet can belong nowhere else.                                         *)
Undeclared(st, pt) ==
    Len(st.ts) = 1 /\ st.ts[1].codings = <<>> /\ CodecAt(pt) # 0

bind_undeclared_ssrc(st, ssrc, pt) ==
    LET coding == Coding(NoRid, ssrc, None, None)
    IN  [Bound(st, {ssrc}) EXCEPT
           !.ts[1].receive_codings = <<coding>>,
           !.ts[1].codings = <<[of |-> coding, codec |-> Codecs[CodecAt(pt)].codec]>>,
           !.opened = Append(@, [track |-> st.ts[1].track, ssrc |-> ssrc, rid |-> NoRid])]

(* bind_by_rid: the section by the packet's mid, the layer by its rid; a   *)
(* repair stream is no layer of its own.                                   *)
Layered(st, p, pt) ==
    /\ p.mid # NoRid /\ p.rid # NoRid /\ p.rrid = NoRid
    /\ ByMid(st.ts, p.mid) # 0 /\ CodecAt(pt) # 0
    /\ ByRid(st.ts[ByMid(st.ts, p.mid)], p.rid) # 0

bind_by_rid(st, p, ssrc, pt) ==
    LET i == ByMid(st.ts, p.mid)
        k == ByRid(st.ts[i], p.rid)
        track_k == TrackByRid(st.ts[i], p.rid)
        coding == st.ts[i].receive_codings[k]
    IN  IF coding.ssrc = ssrc THEN st
        ELSE [Bound(st, {ssrc} \cup RepairFlows(coding, pt)) EXCEPT
                !.ts[i].receive_codings[k].ssrc = ssrc,
                !.ts[i].codings[track_k].of.ssrc = ssrc,
                !.ts[i].codings[track_k].codec = Codecs[CodecAt(pt)].codec,
                !.opened = Append(@, [track |-> st.ts[i].track, ssrc |-> ssrc, rid |-> p.rid])]

(* ensure_remote_stream_bound: the pairing first, then the stream the      *)
(* packet stands for, then the ladder of declared, undeclared and rid.     *)
Laddered(st, p, ssrc, pt) ==
    IF Declared(st, ssrc) THEN bind_declared_ssrc(st, ssrc, pt)
    ELSE IF Undeclared(st, pt) THEN bind_undeclared_ssrc(st, ssrc, pt)
    ELSE IF Layered(st, p, pt) THEN bind_by_rid(st, p, ssrc, pt)
    ELSE st

Established(st, p, primary, paired_now) ==
    IF primary.ssrc = None THEN Laddered(st, p, p.ssrc, p.pt)
    ELSE Laddered(IF paired_now THEN bind_rrid_repair_stream(st, primary, p.ssrc) ELSE st,
                  p, primary.ssrc, primary.pt)

ensure_remote_stream_bound(st, p) ==
    LET ts == pair_rrid_repair_stream(st.ts, p)
    IN  Established([st EXCEPT !.ts = ts], p, resolve_rtx_primary(ts, p.ssrc, p.pt), ts # st.ts)

-----------------------------------------------------------------------------
(* The endpoint handler: an RTX packet becomes the packet it repairs, if   *)
(* it carries one, and goes to the track that owns its SSRC.               *)
deencapsulate_rtx(p, primary) ==
    [ssrc |-> primary.ssrc, pt |-> primary.pt, seq |-> p.osn]

find_track_id(ts, ssrc) == FirstOf({i \in DOMAIN ts : TrackBySsrc(ts[i], ssrc) # 0})

handle_rtp_message(ts, p) ==
    LET primary == resolve_rtx_primary(ts, p.ssrc, p.pt)
        packet == IF primary.ssrc = None THEN [ssrc |-> p.ssrc, pt |-> p.pt, seq |-> p.seq]
                  ELSE deencapsulate_rtx(p, primary)
        i == find_track_id(ts, packet.ssrc)
    IN  IF i = 0 \/ (primary.ssrc # None /\ ~p.carries) THEN {}
        ELSE {[track |-> ts[i].track, packet |-> packet]}

(* handle_read of the interceptor and endpoint handlers on one packet *)
Arrive(p) ==
    LET st == ensure_remote_stream_bound(State(transceivers, bound, seen, opened, forgotten), p)
    IN  /\ p \notin arrived /\ arrived' = arrived \cup {p} /\ recent' = recent \cup {p}
        /\ forgotten' = st.forgotten
        /\ transceivers' = st.ts /\ bound' = st.bound /\ opened' = st.opened
        /\ seen' = IF p.ssrc \in st.bound THEN [st.seen EXCEPT ![p.ssrc] = @ \cup {p.seq}] ELSE st.seen
        /\ delivered' = delivered \cup
             {[track |-> d.track, packet |-> d.packet, from |-> p,
              known |-> p.ssrc \in st.bound \/ transceivers[p.section].stopped] :
                d \in handle_rtp_message(st.ts, p)}
        /\ UNCHANGED <<plan, renegotiated>>

(* A further offer and answer: start_rtp runs over the sections that still *)
(* receive again.                                                          *)
StartRtp ==
    /\ renegotiated < plan.renegotiations /\ renegotiated' = renegotiated + 1
    /\ transceivers' = [i \in DOMAIN transceivers |->
                          IF transceivers[i].stopped THEN transceivers[i]
                          ELSE Started(plan.sections[i])]
    /\ recent' = {} /\ forgotten' = bound
    /\ UNCHANGED <<plan, bound, seen, opened, delivered, arrived>>

(* stop of a transceiver's receiver: every flow of every coding whose      *)
(* codec is known is unbound.                                              *)
Flows(coding) ==
    {coding.of.ssrc} \cup RepairFlows(coding.of, Codecs[codec_parameters_fuzzy_search(coding.codec)].payload_type)

Unbindable(t) ==
    UNION {Flows(t.codings[k]) : k \in {k \in DOMAIN t.codings :
              t.codings[k].of.ssrc # None /\ codec_parameters_fuzzy_search(t.codings[k].codec) # 0}}

Stop(i) ==
    /\ i \in plan.stops /\ ~transceivers[i].stopped
    /\ transceivers' = [transceivers EXCEPT ![i].stopped = TRUE]
    /\ bound' = bound \ Unbindable(transceivers[i])
    /\ seen' = [s \in DOMAIN seen |-> IF s \in Unbindable(transceivers[i]) THEN {} ELSE seen[s]]
    /\ UNCHANGED <<plan, opened, delivered, arrived, renegotiated, recent, forgotten>>

Next ==
    \/ \E p \in plan.packets : Arrive(p)
    \/ StartRtp
    \/ \E i \in DOMAIN transceivers : Stop(i)

Spec == Init /\ [][Next]_vars

-----------------------------------------------------------------------------
(* The packet the sender meant: its own, or the one an RTX packet repeats. *)
Meant(p) == [ssrc |-> p.original, pt |-> p.original_pt, seq |-> IF p.kind = "rtx" THEN p.osn ELSE p.seq]

(* Every packet the application is handed comes under the track of the     *)
(* section that sent it, as the packet that was sent, and the chain had    *)
(* been told of the stream it came on before it saw it - the first packet  *)
(* and the first retransmission included, in whatever order they came (a   *)
(* stopped receiver's stream is no longer the chain's).                    *)
RoutedRight ==
    \A d \in delivered :
        /\ d.track = plan.sections[d.from.section].track
        /\ d.packet = Meant(d.from)
        /\ d.known

(* A packet whose stream the receiver can know: announced, the only one    *)
(* there is, or named by a header extension of this packet or of one that  *)
(* came since the last exchange: start_rtp forgets what a rid had named.   *)
Named(p) ==
    LET section == plan.sections[p.section]
        told(q, r) == q.ssrc = p.ssrc /\ r # NoRid
    IN  \/ section.rids = <<>>
        \/ \E q \in recent \cup {p} : told(q, q.rid) \/ told(q, q.rrid)

Identified(p) ==
    /\ Named(p)
    /\ \/ p.kind = "media"
       \/ /\ p.kind = "rtx" /\ p.carries
          /\ plan.sections[p.section].rids = <<>> \/ \E q \in recent : q.ssrc = p.original /\ q.rid # NoRid

(* A packet whose stream can be known is handed to the application: no     *)
(* order of first packets, pairings and retransmissions leaves a stream    *)
(* unheard.  And stopping a transceiver leaves none of its flows bound to  *)
(* the chain: what was bound on a first packet or on a late pairing is all *)
(* unbound - except a flow bound before the last exchange that no packet   *)
(* has bound again: start_rtp reset the codec the unbinding goes by.       *)
(* Every step keeps RoutedRight.                                           *)
HeardStep ==
    /\ \A p \in arrived' \ arrived : Identified(p) => \E d \in delivered' : d.from = p
    /\ \A i \in DOMAIN transceivers :
          transceivers'[i].stopped /\ ~transceivers[i].stopped =>
             bound' \cap plan.flows[i] \subseteq forgotten
    /\ RoutedRight'
=============================================================================
