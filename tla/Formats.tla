------------------------------ MODULE Formats ------------------------------
(***************************************************************************)
(* What two peers agree to send: the codecs, payload types, feedback and    *)
(* header extensions of each media section.  The media engine of a peer     *)
(* holds what the application registered and, kind by kind, what the first  *)
(* remote section of that kind left of it; a transceiver's preferences are  *)
(* rewritten from every remote section; a sender keeps the parameters it    *)
(* was last asked for, and is bound under them when an exchange completes.  *)
(*                                                                          *)
(* A codec is its name, its format parameters (pairs of a key and a number, *)
(* a profile-level-id as 256 * profile + level), the set of its feedback    *)
(* mechanisms and its payload type.  The kinds have their own lists, so the *)
(* name stands for the whole MIME type.  Clock rates and channels are left  *)
(* out: no code compares them.                                              *)
(***************************************************************************)
EXTENDS Integers, Sequences, SequencesExt, FiniteSets

CONSTANTS Plans         \* what the peers registered and what their applications do

VARIABLES plan,         \* the plan of this behaviour
          peer,         \* the two peer connections
          todo,         \* what is left of each application's plan
          wire,         \* the description under way
          rounds,       \* offers made
          exchange,     \* the last offer and the answer to it
          agreed        \* header extension ids, as answered so far

vars == <<plan, peer, todo, wire, rounds, exchange, agreed>>

Peers == {"a", "b"}
Other(p) == IF p = "a" THEN "b" ELSE "a"
Kinds == {"audio", "video"}

HasSend(d) == d \in {"sendrecv", "sendonly"}
HasRecv(d) == d \in {"sendrecv", "recvonly"}

(***************************************************************************)
(* Comparing codecs.                                                        *)
(***************************************************************************)
NoCodec == [mime |-> "", fmtp |-> {}, fb |-> {}, pt |-> -1]

parameter(c, key) == {x[2] : x \in {y \in c.fmtp : y[1] = key}}

fmtp_consist(a, b) == \A x \in a, y \in b : x[1] = y[1] => x[2] = y[2]

\* the two octets of the profile agree; the level may differ
profile_level_id_matches(a, b) == a \div 256 = b \div 256

match_h264(a, b) ==
    \E m \in parameter(a, "packetization-mode"), n \in parameter(b, "packetization-mode") :
        /\ m = n
        /\ \E x \in parameter(a, "profile-level-id"), y \in parameter(b, "profile-level-id") :
               profile_level_id_matches(x, y)

match_fmtp(a, b) ==
    /\ a.mime = b.mime
    /\ IF a.mime = "h264" THEN match_h264(a, b) ELSE fmtp_consist(a.fmtp, b.fmtp)

Lowest(S) == CHOOSE i \in S : \A j \in S : i <= j
Highest(S) == CHOOSE i \in S : \A j \in S : i >= j

None == 0
Partial == 1
Exact == 2

FuzzyPick(hay, exact, same) ==
    IF exact # {} THEN [codec |-> hay[Lowest(exact)], match |-> Exact]
    ELSE IF same # {} THEN [codec |-> hay[Lowest(same)], match |-> Partial]
    ELSE [codec |-> NoCodec, match |-> None]

codec_parameters_fuzzy_search(c, hay) ==
    FuzzyPick(hay, {i \in DOMAIN hay : match_fmtp(c, hay[i])},
              {i \in DOMAIN hay : hay[i].mime = c.mime})

parse_rtx_apt(c) == parameter(c, "apt")

is_repair_codec(c) == c.mime \in {"rtx", "ulpfec", "red", "flexfec-03"}

HasPt(seq, pt) == \E i \in DOMAIN seq : seq[i].pt = pt

\* the retransmission payload type of pt, none or one
find_rtx_payload_type(pt, hay) ==
    LET at == {i \in DOMAIN hay : pt \in parse_rtx_apt(hay[i])}
    IN  IF at = {} THEN {} ELSE {hay[Lowest(at)].pt}

find_fec_payload_type(hay) ==
    LET at == {i \in DOMAIN hay : hay[i].mime = "flexfec-03"}
    IN  IF at = {} THEN {} ELSE {hay[Lowest(at)].pt}

rtcp_feedback_intersection(a, b) == a \cap b

(***************************************************************************)
(* The media engine.                                                        *)
(***************************************************************************)
VALID_EXT_IDS == 1 .. 14

MediaEngine(codecs, exts) ==
    [registered |-> codecs, header_extensions |-> exts,
     negotiated |-> [k \in Kinds |-> FALSE], negotiated_codecs |-> [k \in Kinds |-> <<>>],
     negotiated_ext |-> << >>]

add_codec(codecs, c) ==
    IF \E i \in DOMAIN codecs : codecs[i].mime = c.mime /\ codecs[i].pt = c.pt
    THEN codecs ELSE Append(codecs, c)

push_codecs(codecs, more) == FoldLeft(add_codec, codecs, more)

get_codecs_by_kind(e, kind) ==
    IF e.negotiated[kind] THEN e.negotiated_codecs[kind] ELSE e.registered[kind]

is_rtx_enabled(e, kind) ==
    \E i \in DOMAIN get_codecs_by_kind(e, kind) : get_codecs_by_kind(e, kind)[i].mime = "rtx"

is_matching_direction(x, dir) ==
    \/ x.dir = ""
    \/ HasSend(x.dir) /\ HasSend(dir)
    \/ HasRecv(x.dir) /\ HasRecv(dir)

OfKind(x, kind) == IF kind = "audio" THEN x.audio ELSE x.video

\* a repair codec is looked for under the local payload type of what it repairs
Retargeted(c, pt, local) ==
    [c EXCEPT !.fmtp = {x \in @ : x[1] # "apt"} \cup
                       {<<"apt", IF local.match # None /\ local.same THEN local.codec.pt ELSE pt>>}]

\* codec: the accepted codec the repaired payload type names; its match
AptMatch(pt, exact, partial) ==
    IF HasPt(exact, pt)
    THEN [codec |-> exact[Lowest({i \in DOMAIN exact : exact[i].pt = pt})], match |-> Exact]
    ELSE IF HasPt(partial, pt)
    THEN [codec |-> partial[Lowest({i \in DOMAIN partial : partial[i].pt = pt})], match |-> Partial]
    ELSE [codec |-> NoCodec, match |-> None]

Capped(found, apt_match) ==
    IF found.match = Exact /\ apt_match = Partial THEN [found EXCEPT !.match = Partial] ELSE found

RepairMatch(c, pt, local, apt) ==
    IF apt.match = None THEN [codec |-> NoCodec, match |-> None]
    ELSE LET found == codec_parameters_fuzzy_search(apt.codec, local)
         IN  Capped(codec_parameters_fuzzy_search(
                        Retargeted(c, pt, [codec |-> found.codec, match |-> found.match,
                                           same |-> found.match = apt.match]), local),
                    apt.match)

match_remote_codec(c, local, exact, partial) ==
    IF parse_rtx_apt(c) = {} THEN codec_parameters_fuzzy_search(c, local)
    ELSE RepairMatch(c, Lowest(parse_rtx_apt(c)), local,
                     AptMatch(Lowest(parse_rtx_apt(c)), exact, partial))

add_if_new(codecs, c) == IF HasPt(codecs, c.pt) THEN codecs ELSE Append(codecs, c)

Taken(acc, c, found) ==
    LET r == [c EXCEPT !.fb = rtcp_feedback_intersection(found.codec.fb, @)]
    IN  [acc EXCEPT !.codecs = Append(@, r),
                    !.exact = IF found.match = Exact THEN add_if_new(@, r) ELSE @,
                    !.partial = IF found.match = Partial THEN add_if_new(@, r) ELSE @]

\* one pass over the remote codecs, against the local ones
MatchPass(acc, local) ==
    FoldLeft(LAMBDA s, c : Taken(s, c, match_remote_codec(c, local, s.exact, s.partial)),
             [acc EXCEPT !.codecs = <<>>], acc.codecs)

\* two passes: a repair codec may be listed before what it repairs
RemoteMatches(remote, local) ==
    MatchPass(MatchPass([codecs |-> remote, exact |-> <<>>, partial |-> <<>>], local), local)

\* the section's extensions that are registered, under the ids the section gives
update_header_extension(e, s) ==
    LET known == {x \in s.exts : \E i \in DOMAIN e.header_extensions :
                                     e.header_extensions[i].uri = x.uri}
        ids == {x.id : x \in known}
        Local(id) == LET x == CHOOSE x \in known : x.id = id
                     IN  e.header_extensions[CHOOSE i \in DOMAIN e.header_extensions :
                                                 e.header_extensions[i].uri = x.uri]
        Allowed(id, kind) == OfKind(Local(id), kind) /\ s.kind = kind
    IN  [e EXCEPT !.negotiated_ext =
            [id \in DOMAIN @ \cup ids |->
                IF id \notin DOMAIN @
                THEN [uri |-> Local(id).uri, dir |-> Local(id).dir,
                      audio |-> Allowed(id, "audio"), video |-> Allowed(id, "video")]
                ELSE IF id \notin ids THEN @[id]
                ELSE [@[id] EXCEPT !.audio = @ \/ Allowed(id, "audio"),
                                   !.video = @ \/ Allowed(id, "video")]]]

NegotiateKind(e, s, m) ==
    LET use == IF m.exact # <<>> THEN m.exact ELSE m.partial
        marked == [e EXCEPT !.negotiated[s.kind] = TRUE]
    IN  IF use = <<>> THEN marked
        ELSE update_header_extension(
                 [marked EXCEPT !.negotiated_codecs[s.kind] = push_codecs(@, use)], s)

\* only the first section of a kind is asked for its codecs
update_from_remote_description(e, sections) ==
    FoldLeft(LAMBDA x, s : IF x.negotiated[s.kind] THEN update_header_extension(x, s)
                           ELSE NegotiateKind(x, s, RemoteMatches(s.codecs, x.registered[s.kind])),
             e, sections)

FreeId(acc, x, e, free) ==
    IF free = {} THEN acc ELSE acc \cup {[id |-> Lowest(free), ext |-> x]}

AssignId_blind(acc, x, e) ==  (* mutant: ids the peer gave out count as free *)
    LET at == {id \in DOMAIN e.negotiated_ext : e.negotiated_ext[id].uri = x.uri}
    IN  IF at # {} THEN acc \cup {[id |-> Lowest(at), ext |-> x]}
        ELSE FreeId(acc, x, e, VALID_EXT_IDS \ {y.id : y \in acc})

AssignId(acc, x, e) ==
    LET at == {id \in DOMAIN e.negotiated_ext : e.negotiated_ext[id].uri = x.uri}
    IN  IF at # {} THEN acc \cup {[id |-> Lowest(at), ext |-> x]}
        ELSE FreeId(acc, x, e, VALID_EXT_IDS \ ({y.id : y \in acc} \cup DOMAIN e.negotiated_ext))

\* the header extensions of get_rtp_parameters_by_kind
get_rtp_parameters_by_kind(e, kind, dir) ==
    LET all == IF e.negotiated[kind]
               THEN {[id |-> id, ext |-> e.negotiated_ext[id]] : id \in DOMAIN e.negotiated_ext}
               ELSE FoldLeft(LAMBDA acc, x : AssignId(acc, x, e), {}, e.header_extensions)
    IN  {[id |-> x.id, uri |-> x.ext.uri] :
            x \in {y \in all : is_matching_direction(y.ext, dir) /\ OfKind(y.ext, kind)}}

(***************************************************************************)
(* Transceivers and senders.                                                *)
(***************************************************************************)
NoParameters == [on |-> FALSE, codecs |-> <<>>, exts |-> {}]

NewSender(track) ==
    [on |-> TRUE, track |-> track, codecs |-> <<>>, cached |-> NoParameters,
     rtx |-> FALSE, negotiated |-> FALSE, sent |-> FALSE, bound |-> {},
     renumbered |-> FALSE]      \* history: bound under a payload type of the application's own

NoSender == [NewSender(NoCodec) EXCEPT !.on = FALSE]

NewTransceiver(kind, dir, sender) ==
    [mid |-> -1, kind |-> kind, dir |-> dir, preferred |-> <<>>, chosen |-> FALSE,
     stopped |-> FALSE, sender |-> sender]

WithRepair(filtered, all) ==
    FoldLeft(LAMBDA acc, c :
                 IF \/ ~is_repair_codec(c)
                    \/ HasPt(acc, c.pt)
                    \/ parse_rtx_apt(c) # {} /\ ~HasPt(acc, Lowest(parse_rtx_apt(c)))
                 THEN acc ELSE Append(acc, c),
             filtered, all)

Supported(codecs, all) ==
    SelectSeq([i \in DOMAIN codecs |-> codec_parameters_fuzzy_search(codecs[i], all).codec],
              LAMBDA c : c # NoCodec)

get_codecs(preferred, all) ==
    IF preferred = <<>> THEN all ELSE WithRepair(Supported(preferred, all), all)

sender_set_codec_preferences(s, codecs) ==
    [s EXCEPT !.codecs = codecs, !.cached = NoParameters]

set_codec_preferences(t, codecs) ==
    [t EXCEPT !.preferred = codecs, !.sender = sender_set_codec_preferences(@, codecs)]

\* filter_by_match: the remote codecs from the last to the first
FilterStep(c, acc, found, match) ==
    IF c.mime = "rtx" \/ found.match # match THEN [acc EXCEPT !.rest = <<c>> \o @]
    ELSE LET same == {i \in DOMAIN acc.left : match_fmtp(found.codec, acc.left[i])}
         IN  [acc EXCEPT !.filtered = <<[c EXCEPT !.pt = found.codec.pt]>> \o @,
                         !.mapping = <<<<c.pt, found.codec.pt>>>> \o @,
                         !.left = IF same = {} THEN @ ELSE RemoveAt(@, Highest(same))]

filter_by_match(remote, left, match) ==
    FoldRight(LAMBDA c, acc : FilterStep(c, acc, codec_parameters_fuzzy_search(c, acc.left), match),
              remote, [rest |-> <<>>, left |-> left, filtered |-> <<>>, mapping |-> <<>>])

\* the local retransmission codec of a mapped payload type, when the remote has one too
RtxFor(map, remote, left) ==
    IF find_rtx_payload_type(map[1], remote) = {} THEN <<>>
    ELSE LET at == {i \in DOMAIN left : left[i].pt \in find_rtx_payload_type(map[2], left)}
         IN  IF at = {} THEN <<>> ELSE <<left[Lowest(at)]>>

Filtered(exact, partial) ==
    FoldLeft(LAMBDA acc, map : acc \o RtxFor(map, partial.rest, partial.left),
             exact.filtered \o partial.filtered, exact.mapping \o partial.mapping)

RemoteCodecs(exact) == Filtered(exact, filter_by_match(exact.rest, exact.left, Partial))

set_codec_preferences_from_remote_description(t, s, e) ==
    [set_codec_preferences(t, RemoteCodecs(filter_by_match(s.codecs, get_codecs_by_kind(e, t.kind),
                                                           Exact)))
         EXCEPT !.chosen = FALSE]

get_parameters(s, kind, e) ==
    IF s.cached.on THEN s
    ELSE [s EXCEPT !.cached = [on |-> TRUE, codecs |-> s.codecs,
                               exts |-> get_rtp_parameters_by_kind(e, kind, "sendonly")]]

configure_rtx_and_fec(t, e) ==
    [t EXCEPT !.sender.rtx = @ /\ is_rtx_enabled(e, t.kind)]

StreamInfo(found, params) ==
    IF found.match = None THEN {}
    ELSE {[pt |-> found.codec.pt, mime |-> found.codec.mime,
           rtx |-> find_rtx_payload_type(found.codec.pt, params.codecs),
           fec |-> find_fec_payload_type(params.codecs), exts |-> params.exts]}

interceptor_local_streams_op(s) ==
    StreamInfo(codec_parameters_fuzzy_search(s.track, s.cached.codecs), s.cached)

\* start_rtp_senders: every negotiated sender that does not send yet is bound
StartSender(s, kind, e, chosen) ==
    IF ~(s.on /\ s.negotiated /\ ~s.sent) THEN s
    ELSE LET q == get_parameters(s, kind, e)
             to == interceptor_local_streams_op(q)
         IN  [q EXCEPT !.bound = to, !.sent = TRUE,
                       !.renumbered = chosen /\ \E b \in to : ~HasPt(get_codecs_by_kind(e, kind), b.pt)]

start_rtp_senders(p) ==
    [p EXCEPT !.trs = [i \in DOMAIN @ |->
        [@[i] EXCEPT !.sender = StartSender(@, p.trs[i].kind, p.engine, p.trs[i].chosen)]]]

sender_stop(s) == [s EXCEPT !.bound = {}, !.negotiated = FALSE, !.sent = FALSE]

stop(t) ==
    IF t.stopped THEN t
    ELSE [t EXCEPT !.stopped = TRUE, !.dir = "inactive", !.sender = sender_stop(@)]

(***************************************************************************)
(* What the application does.                                               *)
(***************************************************************************)
\* the one codec of the track, as the engine knows it
codec_preferences_from_encodings(e, kind, track) ==
    codec_parameters_fuzzy_search(track, get_codecs_by_kind(e, kind))

AttachTrack(p, i, s, pref) ==
    LET preferred == IF p.trs[i].preferred = <<>> THEN <<pref>> ELSE p.trs[i].preferred
    IN  [p EXCEPT !.trs[i].preferred = preferred,
                  !.trs[i].sender = sender_set_codec_preferences(s, preferred),
                  !.trs[i].dir = IF HasRecv(@) THEN "sendrecv" ELSE "sendonly"]

add_track(p, kind, track, found) ==
    LET free == {i \in DOMAIN p.trs : /\ ~p.trs[i].stopped /\ p.trs[i].kind = kind
                                      /\ ~p.trs[i].sender.on}
        s == [NewSender(track) EXCEPT !.rtx = is_rtx_enabled(p.engine, kind)]
    IN  IF found.match = None THEN p          \* ErrRTPTransceiverCodecUnsupported
        ELSE IF free # {} THEN AttachTrack(p, Lowest(free), s, found.codec)
        ELSE [p EXCEPT !.trs = Append(@, set_codec_preferences(NewTransceiver(kind, "sendrecv", s),
                                                              <<found.codec>>))]

add_transceiver_from_kind(p, kind) ==
    [p EXCEPT !.trs = Append(@, NewTransceiver(kind, "recvonly", NoSender))]

\* a codec no list of the engine holds refuses the whole list
SetPreferences(p, i, codecs) ==
    IF \E j \in DOMAIN codecs :
           codec_parameters_fuzzy_search(codecs[j],
               get_codecs_by_kind(p.engine, p.trs[i].kind)).match = None
    THEN p ELSE [p EXCEPT !.trs[i] = [set_codec_preferences(@, codecs) EXCEPT !.chosen = TRUE]]

AskParameters(p, i) ==
    IF ~p.trs[i].sender.on THEN p
    ELSE [p EXCEPT !.trs[i].sender = get_parameters(@, p.trs[i].kind, p.engine)]

(***************************************************************************)
(* Descriptions.                                                            *)
(***************************************************************************)
RejectedSection(t) == [mid |-> t.mid, kind |-> t.kind, dir |-> "none", codecs |-> <<>>, exts |-> {}]

OfferedSection(t, codecs, exts, match) ==
    [mid |-> t.mid, kind |-> t.kind, dir |-> t.dir, codecs |-> codecs,
     exts |-> {x \in exts : match # {} => \E y \in match : y.uri = x.uri}]

SectionOf(t, e, match, codecs) ==
    IF codecs = <<>> THEN RejectedSection(t)
    ELSE OfferedSection(t, codecs, get_rtp_parameters_by_kind(e, t.kind, t.dir), match)

add_transceiver_sdp(t, e, match) ==
    SectionOf(t, e, match, get_codecs(t.preferred, get_codecs_by_kind(e, t.kind)))

\* a sender with no codec left fails the whole description
ErrSenderWithNoCodecs(trs, sections) ==
    \E i \in DOMAIN sections, j \in DOMAIN trs :
        trs[j].mid = sections[i].mid /\ trs[j].sender.on /\ sections[i].codecs = <<>>

IndexOfMid(trs, mid) == {i \in DOMAIN trs : trs[i].mid = mid}

\* writing a section asks its sender for its parameters, and counts it negotiated
Described(p, sections) ==
    [p EXCEPT !.trs = [i \in DOMAIN @ |->
        IF /\ \E j \in DOMAIN sections : sections[j].mid = p.trs[i].mid
           /\ p.trs[i].sender.on
        THEN [@[i] EXCEPT !.sender = [get_parameters(@, p.trs[i].kind, p.engine)
                                          EXCEPT !.negotiated = TRUE]]
        ELSE @[i]]]

\* the sections that answer the remote ones; one without a direction is passed over
MatchedSections(p) ==
    LET heard == SelectSeq(p.remote, LAMBDA s : s.dir # "none")
    IN  [i \in DOMAIN heard |->
            add_transceiver_sdp(p.trs[Lowest(IndexOfMid(p.trs, heard[i].mid))], p.engine,
                                heard[i].exts)]

\* sections of its own for the transceivers the remote does not know
UnmatchedSections(p) ==
    LET own == SelectSeq(p.trs, LAMBDA t : \A i \in DOMAIN p.remote :
                                               p.remote[i].dir # "none" => p.remote[i].mid # t.mid)
    IN  [i \in DOMAIN own |-> add_transceiver_sdp(own[i], p.engine, {})]

\* mids for the transceivers that have none, in their order
WithMid(p, i) ==
    IF p.trs[i].mid # -1
    THEN [p EXCEPT !.greater_mid = Highest({@, p.trs[i].mid})]
    ELSE [p EXCEPT !.greater_mid = @ + 1, !.trs[i].mid = p.greater_mid + 1]

AssignMids(p) ==
    FoldLeft(WithMid,
             [p EXCEPT !.greater_mid = Highest({@} \cup {p.remote[i].mid : i \in DOMAIN p.remote})],
             [i \in DOMAIN p.trs |-> i])

(***************************************************************************)
(* Applying a remote offer or answer.                                       *)
(***************************************************************************)
Suits(dir) ==
    CASE dir = "sendrecv" -> <<"recvonly", "sendrecv">>
      [] dir = "sendonly" -> <<"recvonly">>
      [] dir = "recvonly" -> <<"sendonly", "sendrecv">>
      [] OTHER -> <<>>

\* the first free transceiver of the kind, by the most preferred direction
satisfy_type_and_direction(trs, s) ==
    LET At(d) == {i \in DOMAIN trs : trs[i].mid = -1 /\ trs[i].kind = s.kind /\ trs[i].dir = d}
        fit == {n \in DOMAIN Suits(s.dir) : At(Suits(s.dir)[n]) # {}}
    IN  IF fit = {} THEN {} ELSE {Lowest(At(Suits(s.dir)[Lowest(fit)]))}

DirectionFor(own, remote) ==
    CASE remote = "recvonly" /\ own = "sendrecv" -> "sendonly"
      [] remote = "recvonly" /\ own = "recvonly" -> "inactive"
      [] remote = "sendrecv" /\ own = "sendonly" -> "sendrecv"
      [] remote \in {"sendrecv", "sendonly"} /\ own = "inactive" -> "recvonly"
      [] OTHER -> own

Associate(t, s, e) ==
    [set_codec_preferences_from_remote_description(
         [t EXCEPT !.dir = DirectionFor(@, s.dir)], s, e) EXCEPT !.mid = s.mid]

OfferedTransceiver(trs, s, e, known, fit) ==
    IF known # {}
    THEN [trs EXCEPT ![Lowest(known)] =
             Associate(IF s.dir = "inactive" THEN stop(@) ELSE @, s, e)]
    ELSE IF fit # {} THEN [trs EXCEPT ![Lowest(fit)] = Associate(@, s, e)]
    ELSE Append(trs, Associate(NewTransceiver(s.kind,
                                              IF s.dir = "recvonly" THEN "sendonly" ELSE "recvonly",
                                              NoSender), s, e))

ApplyOffer(p, sections) ==
    [p EXCEPT !.trs = FoldLeft(LAMBDA trs, s :
                          IF s.dir = "none" THEN trs
                          ELSE OfferedTransceiver(trs, s, p.engine, IndexOfMid(trs, s.mid),
                                                  satisfy_type_and_direction(trs, s)),
                      @, sections)]

ApplyAnswer(p, sections) ==
    [p EXCEPT !.trs = FoldLeft(LAMBDA trs, s :
                          IF s.dir = "none" THEN trs
                          ELSE [trs EXCEPT ![Lowest(IndexOfMid(trs, s.mid))] =
                                   set_codec_preferences_from_remote_description(@, s, p.engine)],
                      @, sections)]

Heard(p, sections) ==
    LET q == [p EXCEPT !.engine = update_from_remote_description(@, sections),
                       !.remote = sections]
    IN  [q EXCEPT !.trs = [i \in DOMAIN @ |-> configure_rtx_and_fec(@[i], q.engine)]]

(***************************************************************************)
(* The two connections.                                                     *)
(***************************************************************************)
NoWire == [type |-> "none", to |-> "a", sections |-> <<>>]
NoExchange == [offer |-> <<>>, answer |-> <<>>, chosen |-> {}]

NewPeer(codecs, exts) ==
    [engine |-> MediaEngine(codecs, exts), trs |-> <<>>, remote |-> <<>>, sig |-> "stable",
     greater_mid |-> -1]

Init ==
    /\ plan \in Plans
    /\ peer = [p \in Peers |-> NewPeer(plan.codecs[p], plan.exts[p])]
    /\ todo = plan.todo
    /\ wire = NoWire
    /\ rounds = 0
    /\ exchange = NoExchange
    /\ agreed = {}

\* the application's next step, whatever the state of the negotiation
Act(p) ==
    /\ todo[p] # <<>>
    /\ LET op == Head(todo[p])
       IN  /\ op.op \in {"prefer", "parameters"} => op.at \in DOMAIN peer[p].trs
           /\ peer' = [peer EXCEPT ![p] =
                  CASE op.op = "track" ->
                         add_track(@, op.kind, op.codec,
                                   codec_preferences_from_encodings(@.engine, op.kind, op.codec))
                    [] op.op = "recv" -> add_transceiver_from_kind(@, op.kind)
                    [] op.op = "prefer" -> SetPreferences(@, op.at, op.codecs)
                    [] op.op = "parameters" -> AskParameters(@, op.at)]
    /\ todo' = [todo EXCEPT ![p] = Tail(@)]
    /\ UNCHANGED <<plan, wire, rounds, exchange, agreed>>

\* create_offer and set_local_description
Offer(p) ==
    /\ wire = NoWire /\ rounds < plan.rounds
    /\ \A q \in Peers : peer[q].sig = "stable"
    /\ peer[p].trs # <<>>
    /\ LET x == AssignMids(peer[p])
           sections == IF x.remote = <<>> THEN UnmatchedSections(x)
                       ELSE MatchedSections(x) \o UnmatchedSections(x)
       IN  IF ErrSenderWithNoCodecs(x.trs, sections)
           THEN peer' = [peer EXCEPT ![p] = x] /\ UNCHANGED wire
           ELSE /\ peer' = [peer EXCEPT ![p] = [Described(x, sections) EXCEPT !.sig = "offered"]]
                /\ wire' = [type |-> "offer", to |-> Other(p), sections |-> sections]
    /\ rounds' = rounds + 1
    /\ UNCHANGED <<plan, todo, exchange, agreed>>

\* set_remote_description with an offer
TakeOffer(p) ==
    /\ wire.type = "offer" /\ wire.to = p
    /\ peer' = [peer EXCEPT ![p] =
                   [ApplyOffer(Heard(@, wire.sections), wire.sections) EXCEPT !.sig = "asked"]]
    /\ exchange' = [NoExchange EXCEPT !.offer = wire.sections]
    /\ wire' = NoWire
    /\ UNCHANGED <<plan, todo, rounds, agreed>>

\* create_answer and set_local_description; an answer that cannot be made leaves
\* the offer unanswered
Answer(p) ==
    /\ peer[p].sig = "asked"
    /\ LET sections == MatchedSections(peer[p])
       IN  /\ ~ErrSenderWithNoCodecs(peer[p].trs, sections)
           /\ peer' = [peer EXCEPT ![p] = start_rtp_senders(
                          [Described(@, sections) EXCEPT !.sig = "stable"])]
           /\ wire' = [type |-> "answer", to |-> Other(p), sections |-> sections]
           /\ exchange' = [exchange EXCEPT
                  !.answer = sections,
                  !.chosen = {peer[p].trs[i].mid : i \in {j \in DOMAIN peer[p].trs :
                                                              peer[p].trs[j].chosen}}]
           /\ agreed' = agreed \cup UNION {sections[i].exts : i \in DOMAIN sections}
    /\ UNCHANGED <<plan, todo, rounds>>

\* set_remote_description with an answer
TakeAnswer(p) ==
    /\ wire.type = "answer" /\ wire.to = p
    /\ peer' = [peer EXCEPT ![p] = start_rtp_senders(
                   [ApplyAnswer(Heard(@, wire.sections), wire.sections) EXCEPT !.sig = "stable"])]
    /\ wire' = NoWire
    /\ UNCHANGED <<plan, todo, rounds, exchange, agreed>>

Next == \E p \in Peers : Act(p) \/ Offer(p) \/ TakeOffer(p) \/ Answer(p) \/ TakeAnswer(p)

Spec == Init /\ [][Next]_vars

(***************************************************************************)
(* Properties.                                                              *)
(***************************************************************************)
Primary(codecs) == SelectSeq(codecs, LAMBDA c : ~is_repair_codec(c))

IsIn(c, codecs) == \E i \in DOMAIN codecs : codecs[i].pt = c.pt /\ codecs[i].mime = c.mime

Fits(o, a, ordered) ==
    /\ o.kind = a.kind
    /\ a.exts \subseteq o.exts
    /\ \A i, j \in DOMAIN a.codecs : a.codecs[i].pt = a.codecs[j].pt => i = j
    /\ \A i \in DOMAIN a.codecs : \E j \in DOMAIN o.codecs :
           /\ a.codecs[i].pt = o.codecs[j].pt
           /\ a.codecs[i].mime = o.codecs[j].mime
           /\ a.codecs[i].fmtp = o.codecs[j].fmtp
           /\ a.codecs[i].fb \subseteq o.codecs[j].fb
    /\ \A i \in DOMAIN a.codecs : parse_rtx_apt(a.codecs[i]) \subseteq {a.codecs[j].pt : j \in DOMAIN a.codecs}
    /\ ordered => LET offered == SelectSeq(Primary(o.codecs), LAMBDA c : IsIn(c, a.codecs))
                  IN  [i \in DOMAIN offered |-> offered[i].pt]
                          = [i \in DOMAIN Primary(a.codecs) |-> Primary(a.codecs)[i].pt]

(* An answer picks from the offer it answers: every format of a section was  *)
(* offered for that section under the same payload type with the same        *)
(* parameters, each once; a retransmission format comes with what it         *)
(* repairs; feedback and header extensions are no more than was offered; and *)
(* unless the application chose otherwise the offered order is kept.         *)
AnswersFit ==
    \A i \in DOMAIN exchange.answer : \E j \in DOMAIN exchange.offer :
        /\ exchange.offer[j].mid = exchange.answer[i].mid
        /\ Fits(exchange.offer[j], exchange.answer[i],
                exchange.answer[i].mid \notin exchange.chosen)

(* An id names one header extension, and an extension has one id, over all   *)
(* the sections of all the answers of a connection, whichever side offered.  *)
ExtensionIds ==
    \A x, y \in agreed \cup UNION {wire.sections[i].exts : i \in DOMAIN wire.sections} :
        x.id = y.id <=> x.uri = y.uri

Understood(b, t, e) ==
    /\ \E i \in DOMAIN get_codecs(t.preferred, get_codecs_by_kind(e, t.kind)) :
           LET c == get_codecs(t.preferred, get_codecs_by_kind(e, t.kind))[i]
           IN  c.pt = b.pt /\ c.mime = b.mime
    /\ \A pt \in b.rtx : \E i \in DOMAIN get_codecs_by_kind(e, t.kind) :
           LET c == get_codecs_by_kind(e, t.kind)[i]
           IN  c.pt = pt /\ c.mime = "rtx" /\ b.pt \in parse_rtx_apt(c)
    /\ \A x \in b.exts : x.id \in DOMAIN e.negotiated_ext /\ e.negotiated_ext[x.id].uri = x.uri

(* Between exchanges, what a sender was bound to send is what the other side *)
(* takes it for: the payload type, the retransmission payload type and the   *)
(* header extension ids mean the same on both sides, however old the         *)
(* parameters the sender was asked for.  Excepted is a sender whose payload  *)
(* type comes from preferences that the application set between an offer and *)
(* its answer and that number a codec in a way neither description does: the *)
(* answer has the engine's number, the sender the application's.             *)
SentUnderstood ==
    (wire = NoWire /\ \A p \in Peers : peer[p].sig = "stable") =>
        \A p \in Peers : \A i \in DOMAIN peer[p].trs : \A b \in peer[p].trs[i].sender.bound :
            ~peer[p].trs[i].sender.renumbered =>
            LET at == IndexOfMid(peer[Other(p)].trs, peer[p].trs[i].mid)
            IN  /\ at # {}
                /\ Understood(b, peer[Other(p)].trs[Lowest(at)], peer[Other(p)].engine)
============================================================================
