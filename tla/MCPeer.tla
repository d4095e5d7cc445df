------------------------------- MODULE MCPeer -------------------------------
(*****************************************************************************)
(* The peer connection: DTLS (DtlsHandshake), data channels (DataChannels),  *)
(* the exchange of descriptions (Negotiation) and of formats (Formats),      *)
(* incoming streams (Binding), and the handlers between them (Pipeline).     *)
(* They share no state here: a behaviour is a behaviour of one of them,      *)
(* component says which, and the variables of the others stay where they     *)
(* are.                                                                      *)
(*****************************************************************************)
EXTENDS Integers, Sequences, TLC

CONSTANT Components     \* the parts that a run covers

VARIABLES
    component,
    \* of DtlsHandshake
    dtls_plan, conn, dtls_net, lost, duplicated, dtls_written, got, reported,
    \* of DataChannels
    channels_plan, ends, channels_wire,
    \* of Negotiation
    peer, todo, made, wire, offers,
    \* of Pipeline
    role, agent, ice_state, dtls, complete, state, event_outs, chain, media_read_outs,
    data_read_outs, endpoint_outs, write_outs, now, pipeline_writes, turns, told,
    \* of Binding
    binding_plan, transceivers, bound, seen, opened, delivered, arrived, renegotiated,
    recent, forgotten,
    \* of Formats
    formats_plan, formats_peer, formats_todo, formats_wire, rounds, exchange, agreed

-----------------------------------------------------------------------------
\* DTLS.

Dtls0 == INSTANCE DtlsHandshake WITH
    Plans <- {}, Size <- <<>>, Mtu <- 0, MaxRetransmit <- 0, MaxPending <- 0, MaxAhead <- 0,
    plan <- dtls_plan, net <- dtls_net, written <- dtls_written

Sizes == [t \in {"ClientHello", "HelloVerifyRequest", "ServerHello", "ServerKeyExchange",
                 "CertificateRequest", "ClientKeyExchange", "CertificateVerify", "Finished"} |-> 1]
         @@ [t \in {"Certificate"} |-> 7] @@ [t \in {"ServerHelloDone"} |-> 0]

\* What prepare_transport of the peer connection configures, and departures from it.
WebRtc == [suites |-> <<"ec1", "ec2">>, psk |-> Dtls0!None, hint |-> FALSE, srtp |-> <<"srtp1">>,
           ems |-> "Require", auth |-> "RequireAny", cert |-> TRUE, trusts |-> TRUE]
Psk(k, hint) == [WebRtc EXCEPT !.suites = <<"psk1">>, !.psk = k, !.hint = hint, !.srtp = <<>>,
                               !.auth = "No", !.cert = FALSE]
Mixed == [WebRtc EXCEPT !.suites = <<"ec1", "psk1">>, !.psk = "k", !.srtp = <<>>]
DtlsPlan(c, s, loss, dup, writes, patient) ==
    [client |-> c, server |-> s, loss |-> loss, dup |-> dup, writes |-> writes,
     patient |-> patient]
Undisturbed(c, s) == DtlsPlan(c, s, 0, 0, 0, TRUE)

DtlsPlans ==
    {DtlsPlan(WebRtc, WebRtc, 1, 1, 0, TRUE),
     DtlsPlan(WebRtc, WebRtc, 0, 1, 1, TRUE),
     DtlsPlan(Psk("k", TRUE), Psk("k", FALSE), 1, 1, 1, TRUE),
     DtlsPlan(Psk("k", TRUE), Psk("k", TRUE), 0, 0, 0, FALSE),
     Undisturbed(Psk("k", TRUE), Psk("other", TRUE)),
     Undisturbed([WebRtc EXCEPT !.ems = "Request"], [WebRtc EXCEPT !.ems = "Disable"]),
     Undisturbed(WebRtc, [WebRtc EXCEPT !.ems = "Disable"]),
     Undisturbed([WebRtc EXCEPT !.ems = "Disable"], WebRtc),
     Undisturbed([WebRtc EXCEPT !.suites = <<"ec2", "ec3">>], WebRtc),
     Undisturbed([WebRtc EXCEPT !.suites = <<"ec3">>], WebRtc),
     Undisturbed([WebRtc EXCEPT !.srtp = <<"srtp2">>], WebRtc),
     Undisturbed([WebRtc EXCEPT !.srtp = <<"srtp2">>], [WebRtc EXCEPT !.srtp = <<>>]),
     Undisturbed([WebRtc EXCEPT !.cert = FALSE], WebRtc),
     Undisturbed([WebRtc EXCEPT !.cert = FALSE], [WebRtc EXCEPT !.auth = "VerifyIfGiven"]),
     Undisturbed(WebRtc, [WebRtc EXCEPT !.auth = "RequireAndVerify"]),
     Undisturbed([WebRtc EXCEPT !.trusts = FALSE], WebRtc),
     Undisturbed(WebRtc, [WebRtc EXCEPT !.trusts = FALSE]),
     Undisturbed([WebRtc EXCEPT !.srtp = <<>>], Mixed),
     Undisturbed(Psk("k", TRUE), Mixed)}

Dtls == INSTANCE DtlsHandshake WITH
    Plans <- DtlsPlans, Size <- Sizes, Mtu <- 6, MaxRetransmit <- 1, MaxPending <- 3,
    MaxAhead <- 16, plan <- dtls_plan, net <- dtls_net, written <- dtls_written

dtlsVars == <<dtls_plan, conn, dtls_net, lost, duplicated, dtls_written, got, reported>>
DtlsIdle == /\ dtls_plan = "-" /\ conn = "-" /\ dtls_net = "-" /\ lost = "-"
            /\ duplicated = "-" /\ dtls_written = "-" /\ got = "-" /\ reported = "-"

\* A client that completed the handshake did so after the server, with the same parameters
\* and secret, and only when both configurations allow it; a message sequence number names
\* one message; application data is handed over once; and over a network that loses nothing
\* the handshake never comes to rest unfinished (the flights, handshaker.rs, conn/mod.rs).
DtlsAgree ==
    component = "dtls" =>
       Dtls!DtlsAgree /\ Dtls!DtlsConsistent /\ Dtls!DtlsDelivers /\ Dtls!DtlsNotStuck

-----------------------------------------------------------------------------
\* Data channels.

Chan(neg, unord, when) == [neg |-> neg, unord |-> unord, when |-> when]
AtEnds(c, d) == [x \in {"client", "server"} |-> IF x = "client" THEN c ELSE d]

ChannelPlan(cc, sc, cs, ss, ccl, scl) ==
  [create |-> AtEnds(cc, sc), sends |-> AtEnds(cs, ss), closes |-> AtEnds(ccl, scl),
   early |-> FALSE, timeouts |-> FALSE, prompt |-> FALSE, max |-> 4]

InBand == Chan(-1, FALSE, "any")
Loose == Chan(-1, TRUE, "any")
Fixed(i) == Chan(i, FALSE, "before")
Again == Chan(-1, FALSE, "reuse")
(* A channel with traffic both ways that its opener closes; one that may     *)
(* time out and that both may close; one from each side at once; an          *)
(* unordered one used before it is open; a negotiated one next to an in-band *)
(* one; more channels than streams; a channel after one that either closed,  *)
(* on the same stream.                                                       *)
ChannelPlans == {
  ChannelPlan(<<InBand>>, <<>>, 2, 1, 1, 0),
  [ChannelPlan(<<InBand>>, <<>>, 1, 0, 1, 1) EXCEPT !.timeouts = TRUE, !.early = TRUE, !.prompt = TRUE],
  ChannelPlan(<<InBand>>, <<InBand>>, 1, 1, 0, 0),
  [ChannelPlan(<<Loose>>, <<>>, 2, 0, 0, 0) EXCEPT !.early = TRUE],
  ChannelPlan(<<Fixed(0), InBand>>, <<Fixed(0)>>, 2, 0, 0, 0),
  ChannelPlan(<<InBand, InBand, InBand>>, <<>>, 0, 0, 0, 0),
  ChannelPlan(<<InBand, Again>>, <<>>, 2, 0, 1, 0),
  ChannelPlan(<<InBand, Again>>, <<>>, 1, 1, 0, 1)
  }

Channels == INSTANCE DataChannels WITH
    Plans <- ChannelPlans, AllLabels <- {0, 1, 2, 10, 50, 100}, plan <- channels_plan,
    s <- ends, wire <- channels_wire

channelsVars == <<channels_plan, ends, channels_wire>>
ChannelsIdle == /\ channels_plan = "-" /\ ends = "-" /\ channels_wire = "-"

\* The two peers implement the channel service of Channel.tla: every channel opens once, only
\* after it was created, hands messages over only while open, in order and without gaps when
\* it is ordered, and closes for good, whatever the order in which reads, events, writes and
\* timeouts are polled, unless the registry gave it a stream that another channel has not
\* left at both ends (handler/datachannel.rs, assign_stream_ids).
ImplementsChannel ==
    [][component = "channels" =>
          (Channels!Init => Channels!ChannelInit) /\ Channels!ChannelStep]_channelsVars

\* Streams and channels are inverse to each other, the outstanding bytes are exact, and once
\* everything has been polled no channel is open at one end alone, with the same exception
\* (registry.rs, handler/datachannel.rs).
ChannelsSettle ==
    component = "channels" =>
       Channels!ChannelsSettle /\ Channels!StreamsRegistered /\ Channels!OutstandingExact

-----------------------------------------------------------------------------
\* The negotiation: the plans of the two applications.

Track(kind, n)      == [op |-> "track", kind |-> kind, arg |-> n, dir |-> ""]
Add(kind, n, dir)   == [op |-> "add", kind |-> kind, arg |-> n, dir |-> dir]
Untrack(i)           == [op |-> "remove", kind |-> "", arg |-> i, dir |-> ""]
Direction(i, dir)   == [op |-> "dir", kind |-> "", arg |-> i, dir |-> dir]
Stop(i)             == [op |-> "stop", kind |-> "", arg |-> i, dir |-> ""]
Plain(op)           == [op |-> op, kind |-> "", arg |-> 0, dir |-> ""]

NegotiationPlan(a, b) == [a |-> a, b |-> b]

NegotiationPlans ==
    { \* glare over transceivers of different kinds, then an ICE restart
      NegotiationPlan(<<Track("audio", 1), Plain("restart")>>, <<Track("video", 2)>>),
      \* a data channel and media from both sides
      NegotiationPlan(<<Plain("channel"), Track("audio", 1)>>, <<Track("audio", 2), Plain("channel")>>),
      \* both sides restart ICE
      NegotiationPlan(<<Add("audio", 0, "recvonly"), Plain("restart")>>, <<Plain("restart")>>),
      \* directions change on both sides, a track is removed and another added
      NegotiationPlan(<<Track("audio", 1), Direction(1, "recvonly")>>,
           <<Track("audio", 2), Direction(1, "sendonly")>>),
      NegotiationPlan(<<Track("audio", 1), Untrack(1), Track("audio", 4)>>, <<Track("audio", 2)>>),
      \* a section rejected with inactive, a transceiver stopped, a track on a
      \* transceiver the other side created
      NegotiationPlan(<<Add("audio", 1, "sendonly"), Direction(1, "inactive"), Track("video", 3)>>,
           <<Track("audio", 2)>>),
      NegotiationPlan(<<Track("audio", 1), Stop(1), Track("video", 3)>>, <<Add("video", 2, "sendonly")>>),
      \* a provisional answer, and an offer refused by rollback
      NegotiationPlan(<<Track("audio", 1), Track("video", 3)>>, <<Track("audio", 2), Plain("pranswer")>>),
      NegotiationPlan(<<Track("audio", 1), Track("video", 3)>>, <<Plain("decline"), Track("video", 2)>>),
      \* both offer, and change their minds
      NegotiationPlan(<<Track("audio", 1)>>, <<Track("audio", 2), Direction(1, "recvonly")>>) }

Signalling == INSTANCE Negotiation WITH
    Plans <- NegotiationPlans, MaxOffers <- 6

signallingVars == <<peer, todo, made, wire, offers>>
SignallingIdle == /\ peer = "-" /\ todo = "-" /\ made = "-" /\ wire = "-" /\ offers = "-"

\* No call of a well-behaved application fails, the descriptions of an exchange fit, and once
\* nothing is under way the peers agree on descriptions, credentials and roles, what is sent
\* is received, and no change that needs an offer was forgotten (set_description,
\* generate_matched_sdp, start_transports, trigger_negotiation_needed).  Excepted are runs in
\* which an offer was created and dropped, and the mid or the ICE restart it left behind took
\* effect in the exchange that came instead.
PeersAgree ==
    component = "negotiation" =>
       /\ Signalling!CallsSucceed /\ Signalling!SectionsFit /\ Signalling!PeersAgree
       /\ Signalling!SendersHeard /\ Signalling!NegotiationNotLost

-----------------------------------------------------------------------------
\* The handlers of the peer connection.

Handlers == INSTANCE Pipeline WITH
    Flights <- 2, Retransmits <- 1, Buffered <- TRUE, Roles <- {"client", "server"}, Arrivals <- 3,
    Written <- 1, Turns <- 3, writes <- pipeline_writes

handlersVars == <<role, agent, ice_state, dtls, complete, state, event_outs, chain,
                  media_read_outs, data_read_outs, endpoint_outs, write_outs, now,
                  pipeline_writes, turns, told>>
HandlersIdle == /\ role = "-" /\ agent = "-" /\ ice_state = "-" /\ dtls = "-"
                /\ complete = "-" /\ state = "-" /\ event_outs = "-" /\ chain = "-"
                /\ media_read_outs = "-" /\ data_read_outs = "-" /\ endpoint_outs = "-"
                /\ write_outs = "-" /\ now = "-" /\ pipeline_writes = "-" /\ turns = "-"
                /\ told = "-"

\* Once the application has read every event, the state it was told last is the connection's
\* and what the transports' own states amount to; and no handshake flight is left inside
\* DTLS without a timer that fetches it (handler/mod.rs and the handlers it polls).
StateTold == component = "pipeline" => Handlers!StateTold /\ Handlers!FlightsFetched

-----------------------------------------------------------------------------
\* Incoming streams: declared, undeclared and simulcast sections.

BindingCodecs ==
    <<[payload_type |-> 96, apt |-> 0, codec |-> [mime |-> "vp8", fmtp |-> ""]],
      [payload_type |-> 97, apt |-> 96, codec |-> [mime |-> "rtx", fmtp |-> "apt=96"]],
      [payload_type |-> 102, apt |-> 0, codec |-> [mime |-> "h264", fmtp |-> "42e01f"]],
      [payload_type |-> 103, apt |-> 102, codec |-> [mime |-> "rtx", fmtp |-> "apt=102"]],
      [payload_type |-> 118, apt |-> 0, codec |-> [mime |-> "flexfec", fmtp |-> ""]]>>

MediaPacket(section, ssrc, pt, seq, mid, rid) ==
    [section |-> section, kind |-> "media", ssrc |-> ssrc, pt |-> pt, seq |-> seq, mid |-> mid,
     rid |-> rid, rrid |-> "", osn |-> 0, carries |-> FALSE, original |-> ssrc, original_pt |-> pt]
RtxPacket(section, ssrc, pt, seq, mid, rrid, primary, primary_pt, osn) ==
    [section |-> section, kind |-> "rtx", ssrc |-> ssrc, pt |-> pt, seq |-> seq, mid |-> mid,
     rid |-> "", rrid |-> rrid, osn |-> osn, carries |-> osn # 0, original |-> primary,
     original_pt |-> primary_pt]
FecPacket(section, ssrc, seq) ==
    [section |-> section, kind |-> "fec", ssrc |-> ssrc, pt |-> 118, seq |-> seq, mid |-> "",
     rid |-> "", rrid |-> "", osn |-> 0, carries |-> FALSE, original |-> ssrc, original_pt |-> 118]

Section(mid, track, rids, ssrc, rtx, fec) ==
    [mid |-> mid, track |-> track, rids |-> rids, ssrc |-> ssrc, rtx |-> rtx, fec |-> fec]

(* Two sections with declared streams, one with both repair flows; the     *)
(* sender changes its codec midway.                                        *)
DeclaredPackets ==
    {MediaPacket(1, 11, 96, 1, "", ""), MediaPacket(1, 11, 102, 2, "", ""),
     RtxPacket(1, 12, 97, 1, "", "", 11, 96, 2), RtxPacket(1, 12, 97, 2, "", "", 11, 96, 0), FecPacket(1, 13, 1),
     MediaPacket(2, 21, 102, 1, "", "")}
DeclaredSections == <<Section("0", "a", <<>>, 11, 12, 13), Section("1", "b", <<>>, 21, 0, 0)>>
DeclaredPlan ==
    [sections |-> DeclaredSections, packets |-> DeclaredPackets, ssrcs |-> {11, 12, 13, 21},
     flows |-> <<{11, 12, 13}, {21}>>, renegotiations |-> 1, stops |-> {1}]

(* One section whose stream is not declared. *)
UndeclaredPlan ==
    [sections |-> <<Section("0", "a", <<>>, 0, 0, 0)>>,
     packets |-> {MediaPacket(1, 31, 96, 1, "", ""), MediaPacket(1, 31, 96, 2, "", ""), MediaPacket(1, 31, 102, 3, "", "")},
     ssrcs |-> {31}, flows |-> <<{31}>>, renegotiations |-> 1, stops |-> {1}]

(* Two simulcast sections that use the same rid; the layers' repair flows  *)
(* are named by rrid, once before and once without any further name.  A    *)
(* further exchange comes in the plan of the first layer alone.            *)
HighLayer == {MediaPacket(1, 41, 96, 1, "0", "h"), MediaPacket(1, 41, 96, 3, "", ""),
              RtxPacket(1, 43, 97, 1, "0", "h", 41, 96, 4), RtxPacket(1, 43, 97, 2, "", "", 41, 96, 5)}
OtherLayers == {MediaPacket(1, 42, 96, 1, "0", "l"), RtxPacket(1, 44, 97, 1, "0", "l", 42, 96, 6),
                MediaPacket(2, 51, 102, 1, "1", "h"), RtxPacket(2, 52, 103, 1, "1", "h", 51, 102, 7)}
SimulcastPlan(packets, renegotiations) ==
    [sections |-> <<Section("0", "a", <<"h", "l">>, 0, 0, 0), Section("1", "b", <<"h">>, 0, 0, 0)>>,
     packets |-> packets, ssrcs |-> {41, 42, 43, 44, 51, 52},
     flows |-> <<{41, 42, 43, 44}, {51, 52}>>, renegotiations |-> renegotiations, stops |-> {1}]

BindingPlans == {DeclaredPlan, UndeclaredPlan, SimulcastPlan(HighLayer \cup OtherLayers, 0),
                 SimulcastPlan(HighLayer \cup {MediaPacket(1, 41, 96, 6, "0", "h")}, 1)}

Streams == INSTANCE Binding WITH
    Plans <- BindingPlans, Codecs <- BindingCodecs, plan <- binding_plan

streamsVars == <<binding_plan, transceivers, bound, seen, opened, delivered, arrived,
                 renegotiated, recent, forgotten>>
StreamsIdle == /\ binding_plan = "-" /\ transceivers = "-" /\ bound = "-" /\ seen = "-"
               /\ opened = "-" /\ delivered = "-" /\ arrived = "-" /\ renegotiated = "-"
               /\ recent = "-" /\ forgotten = "-"

\* Every packet whose stream can be known is handed to the application, under the track of
\* the section that sent it and as the packet that was sent, in whatever order first packets,
\* pairings and retransmissions come, before and after another exchange, which a stream
\* named only by rid has to name itself anew after; and stopping a transceiver leaves no flow
\* bound that a packet bound since the last exchange (ensure_remote_stream_bound, start_rtp,
\* the interceptor's binding of streams).
StreamsHeard == [][component = "binding" => Streams!HeardStep]_streamsVars

-----------------------------------------------------------------------------
\* Formats: two peers whose registrations overlap under different payload types, with
\* different feedback, levels and header extensions.

Formats0 == INSTANCE Formats WITH
    Plans <- {}, plan <- formats_plan, peer <- formats_peer, todo <- formats_todo, wire <- formats_wire

Format(mime, pt, fmtp, fb) == [mime |-> mime, pt |-> pt, fmtp |-> fmtp, fb |-> fb]
RtxFormat(pt, apt) == Format("rtx", pt, {<<"apt", apt>>}, {})
H264(pt, mode, profile, level) ==
    Format("h264", pt, {<<"packetization-mode", mode>>,
                       <<"profile-level-id", 256 * profile + level>>}, {"nack", "pli"})

VP8 == Format("vp8", 96, {}, {"nack", "pli", "remb"})
OPUS == Format("opus", 111, {<<"minptime", 10>>}, {"twcc"})
HIGH == H264(102, 1, 2, 31)

\* "a" lists a retransmission codec before what it repairs
VideoA == <<VP8, RtxFormat(103, 102), RtxFormat(97, 96), HIGH, H264(104, 0, 2, 31), Format("flexfec-03", 49, {}, {})>>
VideoB == <<H264(125, 1, 2, 52), RtxFormat(107, 125), Format("vp8", 100, {}, {"nack", "fir"}), RtxFormat(101, 100),
            Format("vp9", 96, {<<"profile-id", 0>>}, {})>>
AudioA == <<OPUS, Format("pcmu", 0, {}, {})>>
AudioB == <<Format("pcmu", 0, {}, {}), Format("opus", 109, {}, {"twcc"})>>

Ext(uri, audio, video, dir) == [uri |-> uri, audio |-> audio, video |-> video, dir |-> dir]
ExtsA == <<Ext("mid", TRUE, TRUE, ""), Ext("rid", FALSE, TRUE, ""), Ext("twcc", TRUE, TRUE, "")>>
ExtsB == <<Ext("twcc", TRUE, TRUE, ""), Ext("level", TRUE, FALSE, "sendrecv"), Ext("orient", FALSE, TRUE, ""),
           Ext("mid", TRUE, TRUE, "")>>

SendTrack(kind, codec) == [op |-> "track", kind |-> kind, codec |-> codec, at |-> 0, codecs |-> <<>>]
Recv(kind) == [SendTrack(kind, Formats0!NoCodec) EXCEPT !.op = "recv"]
Prefer(at, codecs) == [SendTrack("video", Formats0!NoCodec) EXCEPT !.op = "prefer", !.at = at, !.codecs = codecs]
Parameters(at) == [SendTrack("video", Formats0!NoCodec) EXCEPT !.op = "parameters", !.at = at]

FormatPlan(a, b, n) ==
    [codecs |-> [a |-> [audio |-> AudioA, video |-> VideoA], b |-> [audio |-> AudioB, video |-> VideoB]],
     exts |-> [a |-> ExtsA, b |-> ExtsB],
     todo |-> [a |-> a, b |-> b], rounds |-> n]

FormatPlans ==
    { FormatPlan(<<Recv("video"), SendTrack("audio", OPUS), Parameters(2), SendTrack("video", VP8)>>,
           <<SendTrack("audio", OPUS), Parameters(1), SendTrack("video", VP8)>>, 3),
      FormatPlan(<<SendTrack("video", HIGH), Parameters(1), Prefer(1, <<HIGH, VP8>>)>>,
           <<Recv("video"), Prefer(1, <<VP8, HIGH>>), SendTrack("audio", OPUS)>>, 3),
      FormatPlan(<<Recv("audio"), SendTrack("video", VP8), Recv("video")>>,
           <<SendTrack("video", HIGH), SendTrack("audio", OPUS)>>, 3) }

\* two tracks with a codec each
TwoCodecs == {FormatPlan(<<SendTrack("video", VP8), SendTrack("video", HIGH)>>, <<>>, 1)}

Codecs == INSTANCE Formats WITH
    Plans <- FormatPlans \cup TwoCodecs, plan <- formats_plan, peer <- formats_peer,
    todo <- formats_todo, wire <- formats_wire

codecsVars == <<formats_plan, formats_peer, formats_todo, formats_wire, rounds, exchange,
                agreed>>
CodecsIdle == /\ formats_plan = "-" /\ formats_peer = "-" /\ formats_todo = "-"
              /\ formats_wire = "-" /\ rounds = "-" /\ exchange = "-" /\ agreed = "-"

\* An answer picks from the offer it answers, format by format and extension by extension, an
\* id names one extension for good, and what a sender was bound to the peer understands,
\* unless its payload type is one the application set between an offer and its answer
\* (media_engine.rs, rtp_transceiver/internal.rs).
FormatsAgree ==
    component = "formats" => Codecs!AnswersFit /\ Codecs!ExtensionIds /\ Codecs!SentUnderstood

\* "Explicitly reject track if we don't have the codec": every format of an answered section
\* was offered for that section, also when two sections offer different codecs.
AnswersFit == component = "two_codecs" => Codecs!AnswersFit

-----------------------------------------------------------------------------
peerVars == <<component, dtlsVars, channelsVars, signallingVars, handlersVars, streamsVars,
              codecsVars>>

Init ==
    /\ component \in Components
    /\ IF component = "dtls" THEN Dtls!Init ELSE DtlsIdle
    /\ IF component = "channels" THEN Channels!Init ELSE ChannelsIdle
    /\ IF component = "negotiation" THEN Signalling!Init ELSE SignallingIdle
    /\ IF component = "pipeline" THEN Handlers!Init ELSE HandlersIdle
    /\ IF component = "binding" THEN Streams!Init ELSE StreamsIdle
    /\ IF component \in {"formats", "two_codecs"}
       THEN /\ Codecs!Init
            /\ formats_plan \in IF component = "formats" THEN FormatPlans ELSE TwoCodecs
       ELSE CodecsIdle

Next ==
    \/ component = "dtls" /\ Dtls!Next
       /\ UNCHANGED <<component, channelsVars, signallingVars, handlersVars, streamsVars,
                      codecsVars>>
    \/ component = "channels" /\ Channels!Next
       /\ UNCHANGED <<component, dtlsVars, signallingVars, handlersVars, streamsVars,
                      codecsVars>>
    \/ component = "negotiation" /\ Signalling!Next
       /\ UNCHANGED <<component, dtlsVars, channelsVars, handlersVars, streamsVars,
                      codecsVars>>
    \/ component = "pipeline" /\ Handlers!Next
       /\ UNCHANGED <<component, dtlsVars, channelsVars, signallingVars, streamsVars,
                      codecsVars>>
    \/ component = "binding" /\ Streams!Next
       /\ UNCHANGED <<component, dtlsVars, channelsVars, signallingVars, handlersVars,
                      codecsVars>>
    \/ component \in {"formats", "two_codecs"} /\ Codecs!Next
       /\ UNCHANGED <<component, dtlsVars, channelsVars, signallingVars, handlersVars,
                      streamsVars>>

Spec == Init /\ [][Next]_peerVars
=============================================================================
