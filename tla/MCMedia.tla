------------------------------- MODULE MCMedia ------------------------------
(*****************************************************************************)
(* What is carried: SRTP and SRTCP (Srtp), recordings (MediaPath), samples   *)
(* (SampleBuilder), the octets of every protocol (Datagram) and the text of  *)
(* descriptions (Sdp).  They share no state: a behaviour is a behaviour of   *)
(* one of them, component says which, and the variables of the others stay   *)
(* where they are.                                                           *)
(*****************************************************************************)
EXTENDS Srtp, Sequences, TLC

CONSTANT Components     \* the parts that a run covers

VARIABLES
    component,
    \* of MediaPath
    plan, left, packer, wire, writer, files_seen, files_read,
    \* of SampleBuilder
    stream, copies, sb, popped,
    \* of Datagram
    protocol, sent, octets, whole, got,
    \* of Sdp
    menu, doc, parse

-----------------------------------------------------------------------------
\* The layouts of the stack, of which samples are made.

Codecs == INSTANCE Datagram WITH
    Samples <- <<>>, Followers <- <<>>, MaxMessages <- 0, codec <- protocol

-----------------------------------------------------------------------------
\* Recordings: frames of each codec, cut at several MTUs.

Body(n, k) == [i \in 1 .. n |-> 16 + ((7 * i + k) % 200)]
APlan(codec, mtu, frames, expect) ==
    [codec |-> codec, mtu |-> mtu + 12, frames |-> frames, expect |-> expect, samples |-> 90, abs |-> FALSE, cap |-> 16,
     pid |-> 5, first |-> 65533]

\* a key frame (even first octet) and an inter frame
Vp8Frames(n, m) == <<<<16>> \o Body(n - 1, 3), <<17>> \o Body(m - 1, 8)>>
\* the last packet of a frame may be shorter than the depacketizer accepts
Vp8Plans ==
    {APlan("vp8", mtu, Vp8Frames(n, m), Vp8Frames(n, m)) : mtu \in {4, 5, 8}, n \in 1 .. 9, m \in 2 .. 6}
Vp8IdPlans ==
    {[APlan("vp8_id", 8, Vp8Frames(n, 7), Vp8Frames(n, 7)) EXCEPT !.pid = pid, !.abs = TRUE] :
        n \in 1 .. 9, pid \in {0, 126, 127, 300, 32767}}
Vp9Plans ==
    {[APlan("vp9", mtu, <<Body(n, 1), Body(m, 4)>>, <<Body(n, 1), Body(m, 4)>>) EXCEPT !.pid = 32767] :
        mtu \in {4, 5, 7}, n \in 1 .. 6, m \in {1, 4}}

\* H.264 units and a byte stream of them, with start codes of either length
Unit(h, n) == <<h>> \o Body(n, h)
ByteStream(code, nals) == Codecs!Media!Joined([i \in 1 .. Len(nals) |-> code \o nals[i]])
Kept264(nals) == SelectSeq(nals, LAMBDA n : n[1] % 32 \notin {6, 9, 12})
H264Plan(mtu, cap, code, nals) ==
    [APlan("h264", mtu, <<ByteStream(code, nals), ByteStream(code, <<Unit(65, 4)>>)>>, Kept264(nals) \o <<Unit(65, 4)>>) EXCEPT !.cap = cap]
\* the parameter sets and their aggregation header take 12 octets
H264Plans ==
    {H264Plan(x[1], x[2], x[3], <<Unit(9, 1), Unit(103, 3), Unit(104, 2), Unit(6, 3), Unit(101, x[4]), Unit(65, 5)>>) :
        x \in {11, 12, 13, 16} \X {1, 4, 7, 64} \X {<<0, 0, 1>>, <<0, 0, 0, 1>>} \X {2, 9, 11, 12, 25}}
Unit265(type, n) == <<2 * type, 1>> \o Body(n, type)
H265Plan(mtu, cap, code, nals) ==
    [APlan("h265", mtu, <<ByteStream(code, nals), ByteStream(code, <<Unit265(1, 4)>>)>>, nals \o <<Unit265(1, 4)>>) EXCEPT !.cap = cap]
H265Plans ==
    {H265Plan(x[1], x[2], x[3], <<Unit265(32, 1), Unit265(33, 2), Unit265(34, 1), Unit265(19, x[4]), Unit265(1, 3)>>) :
        x \in {6, 9, 14, 20} \X {1, 5} \X {<<0, 0, 1>>, <<0, 0, 0, 1>>} \X {1, 4, 7, 8, 18}}

\* AV1 units with and without an extension octet, and the frame a reader gets for them
AnObu(type, ext, n) == Codecs!Media!Obu(8 * type + 2 + IF ext THEN 4 ELSE 0, 9, Body(n, type))
Sized(o) == <<o.header>> \o (IF Codecs!Media!obu_has_extension(o.header) THEN <<o.ext>> ELSE <<>>) \o Codecs!Media!put_leb128(Len(o.payload)) \o o.payload
TemporalUnit(obus) == Codecs!Media!Joined([i \in 1 .. Len(obus) |-> Sized(obus[i])])
Av1Plan(mtu, obus) ==
    APlan("av1", mtu, <<<<18, 0>> \o TemporalUnit(obus), TemporalUnit(<<AnObu(6, FALSE, 3)>>)>>,
          <<<<18, 0>> \o TemporalUnit(obus), <<18, 0>> \o TemporalUnit(<<AnObu(6, FALSE, 3)>>)>>)
Av1Plans ==
    {Av1Plan(x[1], <<AnObu(1, FALSE, 2), AnObu(3, TRUE, x[2]), AnObu(4, FALSE, x[3]), AnObu(4, TRUE, 1), AnObu(5, FALSE, x[4])>>) :
        x \in {3, 4, 6, 9, 13, 20} \X {0, 1, 5} \X {0, 3, 8} \X {0, 2, 7}}
      \cup {Av1Plan(mtu, <<AnObu(1, FALSE, 1), AnObu(6, FALSE, 130)>>) : mtu \in {60, 131, 132, 133, 140}}

OpusPlans == {APlan("opus", 20, <<Body(n, 1), Body(m, 2)>>, <<>>) : n \in {1, 30}, m \in {1, 255, 256}}

FilePlans == Vp8Plans \cup Vp8IdPlans \cup Vp9Plans \cup H264Plans \cup H265Plans \cup Av1Plans \cup OpusPlans

Files == INSTANCE MediaPath WITH
    Plans <- FilePlans, seen <- files_seen, read <- files_read

filesVars == <<plan, left, packer, wire, writer, files_seen, files_read>>
FilesIdle == /\ plan = "-" /\ left = "-" /\ packer = "-" /\ wire = "-" /\ writer = "-"
             /\ files_seen = "-" /\ files_read = "-"

\* What is packetized, sent, depacketized, written to a file and read back is what was there,
\* no packet exceeds the MTU, and timestamps and markers say which packets belong together
\* (the packetizer, the payloaders and depacketizers, the file writers and readers). Only VP8
\* packets of fewer than four octets are refused by the writer, and an H.264 stream whose
\* parameter sets do not fit in one packet leaves an empty file.
Recorded == component = "files" => Files!Recovered /\ Files!FitsMtu /\ Files!Framed /\ Files!Accepted

-----------------------------------------------------------------------------
\* Samples: streams around the wrap of a sequence of 32 numbers (2^16 in the code).

FrameSizes(f) == [i \in 1 .. Len(f) |-> [size |-> f[i], pad |-> 0]]
AStream(frames, max_late, late) ==
    [frames |-> FrameSizes(frames), first |-> 29, max_late |-> max_late, late_timestamp |-> 0, max_len |-> 10, late |-> late,
     copies |-> 1, lost |-> {}, malformed |-> {}, punctual |-> late < max_late]
SampleStreams ==
    {AStream(f, m, 5) : f \in {<<1, 1, 1, 1, 1>>, <<2, 1, 2>>, <<1, 2, 2>>}, m \in {2, 3, 6}}
    \cup {[AStream(f, m, 4) EXCEPT !.copies = 2] : f \in {<<1, 1, 1, 1>>, <<2, 2>>}, m \in {2, 3}}
    \cup {[AStream(<<1, 1, 1, 1, 1, 1>>, 3, 0) EXCEPT !.max_len = n, !.punctual = FALSE] : n \in {1, 2, 10}}
    \cup {[AStream(f, m, 0) EXCEPT !.punctual = FALSE, !.malformed = d] :
              f \in {<<2, 2, 2>>, <<3, 2, 1, 2>>, <<1, 2, 3, 1>>}, m \in {2, 3}, d \in {{}, {3}}}
    \cup {[AStream(f, m, 0) EXCEPT !.punctual = FALSE, !.frames[1].pad = 2] : f \in {<<2, 1, 2>>, <<1, 2, 2>>}, m \in {2, 4}}
    \cup {[AStream(f, 4, 5) EXCEPT !.late_timestamp = 10, !.punctual = FALSE] : f \in {<<1, 1, 1, 1, 1>>, <<2, 2>>, <<2, 1, 2>>}}
    \cup {[AStream(f, 6, 3) EXCEPT !.frames[1].pad = 2] : f \in {<<1, 1, 1>>, <<2, 2>>, <<2, 1>>}}
    \cup {[AStream(f, 3, 3) EXCEPT !.malformed = {3}, !.punctual = FALSE] : f \in {<<1, 1, 1, 1, 1>>, <<2, 2, 1>>, <<2, 1, 2>>}}
    \cup {[AStream([i \in 1 .. 12 |-> 1], m, 2) EXCEPT !.lost = 4 .. l] : m \in {2, 5}, l \in {7, 8}}

Builder == INSTANCE SampleBuilder WITH
    Seqs <- 32, MinPacketSlots <- 2, Streams <- SampleStreams

builderVars == <<stream, copies, sb, popped>>
BuilderIdle == /\ stream = "-" /\ copies = "-" /\ sb = "-" /\ popped = "-"

\* A sample is all the packets of one frame, in order; the ring of slots holds what a table of
\* all sequence numbers would; every packet dropped between two samples of a stream in order is
\* counted, until purge_buffers gives up a partition without its head; and when
\* everything has arrived nothing complete is withheld (SampleBuilder::push, pop, build_sample).
SamplesWhole ==
    component = "samples" =>
       Builder!SamplesWhole /\ Builder!RingAsTable /\ Builder!DropsAccounted /\ Builder!NothingWithheld

-----------------------------------------------------------------------------
\* Datagrams: messages of every protocol, with the values at the edges of their fields.

Report(n) == [ssrc |-> n, fraction_lost |-> 255, total_lost |-> 2 ^ 24 - 1, last_sequence_number |-> n,
              jitter |-> 2 ^ 30, last_sender_report |-> 0, delay |-> 7]
Item(t, s) == [sdes_type |-> t, text |-> s]
Ntp == <<1, 2, 3, 4, 5, 6, 7, 255>>
RunChunk(s, n) == [t |-> "run", symbol |-> s, run_length |-> n]
Vector1(s) == [t |-> "vector", size |-> 0, symbols |-> s]
Vector2(s) == [t |-> "vector", size |-> 1, symbols |-> s]
Delta(s, d) == [symbol |-> s, delta |-> d]
Tcc(n, cs, ds) ==
    [kind |-> "tcc", sender_ssrc |-> 1, media_ssrc |-> 2, base_sequence_number |-> 65535,
     packet_status_count |-> n, reference_time |-> 2 ^ 24 - 1, fb_pkt_count |-> 255,
     packet_chunks |-> cs, recv_deltas |-> ds]
Metric(e, o) == [received |-> 1, ecn |-> e, arrival_time_offset |-> o]
MetricLost == [received |-> 0, ecn |-> 0, arrival_time_offset |-> 0]
Rle(k, cs) == [kind |-> k, t |-> 15, ssrc |-> 1, begin_seq |-> 65535, end_seq |-> 3, chunks |-> cs]
XrBlocks ==
    { Rle("loss_rle", <<>>), Rle("duplicate_rle", << [chunk |-> 16384], [chunk |-> 0] >>),
      [kind |-> "prt", t |-> 3, ssrc |-> 9, begin_seq |-> 1, end_seq |-> 3,
       receipt_time |-> << [time |-> 5], [time |-> 6] >>],
      [kind |-> "rrt", ntp_timestamp |-> Ntp],
      [kind |-> "dlrr", reports |-> << [ssrc |-> 1, last_rr |-> 2, dlrr |-> 3], [ssrc |-> 4, last_rr |-> 5, dlrr |-> 6] >>],
      [kind |-> "ssr", loss_reports |-> 1, duplicate_reports |-> 0, jitter_reports |-> 1, ttl_or_hop_limit |-> 2,
       ssrc |-> 1, begin_seq |-> 2, end_seq |-> 3, lost_packets |-> 4, dup_packets |-> 5, min_jitter |-> 6,
       max_jitter |-> 7, mean_jitter |-> 8, dev_jitter |-> 9, min_ttl_or_hl |-> 10, max_ttl_or_hl |-> 11,
       mean_ttl_or_hl |-> 12, dev_ttl_or_hl |-> 13],
      [kind |-> "vm", ssrc |-> 1, loss_rate |-> 2, discard_rate |-> 3, burst_density |-> 4, gap_density |-> 5,
       burst_duration |-> 6, gap_duration |-> 7, round_trip_delay |-> 8, end_system_delay |-> 9,
       signal_level |-> 10, noise_level |-> 11, rerl |-> 12, gmin |-> 13, rfactor |-> 14, ext_rfactor |-> 15,
       mos_lq |-> 16, mos_cq |-> 17, rx_config |-> 18, reserved |-> 19, jb_nominal |-> 20, jb_maximum |-> 21,
       jb_abs_max |-> 65535],
      [kind |-> "unknown", bytes |-> <<1, 2, 3, 4>>] }

RtcpSamples ==
    { [kind |-> "sr", ssrc |-> 1, ntp_time |-> Ntp, rtp_time |-> 2 ^ 30, packet_count |-> 3, octet_count |-> 4,
       reports |-> rs, profile_extensions |-> e] :
         rs \in {<<>>, <<Report(1), Report(2)>>}, e \in {<<>>, <<9, 0, 0, 1>>} }
    \cup { [kind |-> "rr", ssrc |-> 1, reports |-> rs, profile_extensions |-> <<>>] :
             rs \in {<<>>, <<Report(5)>>, [i \in 1 .. 32 |-> Report(i)], << [Report(1) EXCEPT !.total_lost = 2 ^ 25] >>} }
    \cup { [kind |-> "sdes", chunks |-> cs] :
             cs \in { <<>>, << [source |-> 1, items |-> <<>>] >>,
                      << [source |-> 1, items |-> <<Item(1, <<97>>), Item(8, <<>>)>>],
                         [source |-> 2, items |-> <<Item(2, <<97, 98, 99>>)>>] >>,
                      << [source |-> 1, items |-> <<Item(0, <<97>>)>>] >> } }
    \cup { [kind |-> "bye", sources |-> ss, reason |-> r] :
             ss \in {<<>>, << [ssrc |-> 1] >>, << [ssrc |-> 1], [ssrc |-> 2] >>}, r \in {<<>>, <<97, 98, 99>>, <<97, 98>>} }
    \cup { [kind |-> "nack", sender_ssrc |-> 1, media_ssrc |-> 2, nacks |-> ns] :
             ns \in { << [packet_id |-> 65535, lost_packets |-> 32768] >>,
                      << [packet_id |-> 1, lost_packets |-> 0], [packet_id |-> 40, lost_packets |-> 1] >> } }
    \cup { [kind |-> k, sender_ssrc |-> 1, media_ssrc |-> 2] : k \in {"rrr", "pli"} }
    \cup { [kind |-> "fir", sender_ssrc |-> 1, media_ssrc |-> 2, fir |-> fs] :
             fs \in { << [ssrc |-> 1, sequence_number |-> 255] >>,
                      << [ssrc |-> 1, sequence_number |-> 0], [ssrc |-> 2, sequence_number |-> 1] >> } }
    \cup { [kind |-> "remb", sender_ssrc |-> 1, ssrcs |-> ss, bitrate |-> b] :
             ss \in {<<>>, << [ssrc |-> 1], [ssrc |-> 2] >>}, b \in {1, 2 ^ 18 - 1, 2 ^ 18, (2 ^ 18 - 1) * 2 ^ 12} }
    \cup { Tcc(5, <<RunChunk(1, 5)>>, [i \in 1 .. 5 |-> Delta(1, 250 * 51 * i)]),
           Tcc(2, <<RunChunk(2, 2)>>, <<Delta(2, -250 * 32768), Delta(2, 250 * 32767)>>),
           Tcc(1, <<RunChunk(1, 1)>>, <<Delta(1, 250 * 256)>>),
           Tcc(14, <<Vector1(<<0, 1, 0, 0, 0, 0, 0, 0, 0, 0, 0, 0, 0, 1>>)>>, <<Delta(1, 0), Delta(1, 250 * 255)>>),
           Tcc(27, <<RunChunk(0, 20), Vector2(<<1, 2, 0, 3, 0, 0, 2>>)>>, <<Delta(1, 500), Delta(2, -250), Delta(2, 250)>>) }
    \cup { [kind |-> "ccfb", sender_ssrc |-> 1, report_blocks |-> bs, report_timestamp |-> 9] :
             bs \in { <<>>, << [media_ssrc |-> 3, begin_sequence |-> 65535, metric_blocks |-> <<Metric(3, 8191)>>] >>,
                      << [media_ssrc |-> 3, begin_sequence |-> 0, metric_blocks |-> <<Metric(1, 0), MetricLost>>],
                         [media_ssrc |-> 4, begin_sequence |-> 7, metric_blocks |-> <<>>] >> } }
    \cup { [kind |-> "xr", sender_ssrc |-> 1, reports |-> <<b>>] : b \in XrBlocks }
    \cup { [kind |-> "xr", sender_ssrc |-> 1, reports |-> <<b, [kind |-> "rrt", ntp_timestamp |-> Ntp]>>] : b \in XrBlocks }
    \cup { [kind |-> "raw", bytes |-> <<128, 204, 0, 1, 1, 2, 3, 4>>] }

SliSamples ==
    { [kind |-> "sli", sender_ssrc |-> 1, media_ssrc |-> 2, sli_entries |-> es] :
        es \in {<<>>, << [first |-> 8191, number |-> 0, picture |-> 63], [first |-> 0, number |-> 8191, picture |-> 1] >>} }
Kinds(k) == { m \in RtcpSamples : m.kind = k }
CompoundSamples ==
    { [packets |-> ps] : ps \in {<<>>} \cup {<<a, d>> : a \in Kinds("sr") \cup Kinds("pli"), d \in Kinds("sdes")}
                              \cup {<<a, a, d>> : a \in {m \in Kinds("rr") : Len(m.reports) < 2}, d \in Kinds("sdes") \cup Kinds("bye")} }

Gap(s, e) == [start |-> s, end |-> e]
Sack(g, d) == [kind |-> "sack", cumulative_tsn_ack |-> 2 ^ 30, advertised_receiver_window_credit |-> 1500,
               gap_ack_blocks |-> g, duplicate_tsn |-> d]
Data(t, n, d) == [kind |-> "data", immediate_sack |-> 1, unordered |-> 0, beginning_fragment |-> 1, ending_fragment |-> 0,
                  tsn |-> t, stream_identifier |-> 65535, stream_sequence_number |-> n, payload_type |-> 51, user_data |-> d]
Init_(k, ps) == [kind |-> k, initiate_tag |-> 7, advertised_receiver_window_credit |-> 1500, num_outbound_streams |-> 65535,
                num_inbound_streams |-> 1, initial_tsn |-> 5, params |-> ps]
Extensions == [kind |-> "supported_ext", chunk_types |-> <<130, 192>>]
HeartbeatInfo == [kind |-> "heartbeat_info", heartbeat_information |-> <<1, 2, 3>>]
ResetRequest(ids) == [kind |-> "out_ssn_reset_req", reconfig_request_sequence_number |-> 1,
                      reconfig_response_sequence_number |-> 2, sender_last_tsn |-> 3,
                      stream_identifiers |-> [i \in 1 .. Len(ids) |-> [id |-> ids[i]]]]
ResetResponse(r) == [kind |-> "reconfig_resp", reconfig_response_sequence_number |-> 1, result |-> r]
Cause(n) == [code |-> 13, raw |-> [i \in 1 .. n |-> 9]]
SctpChunks ==
    { <<Data(1, 2, <<>>)>>, <<Data(1, 2, <<1, 2, 3, 4, 5>>), Data(2, 2, <<9>>)>>,
      << [Data(1, 0, <<0>>) EXCEPT !.immediate_sack = 0, !.unordered = 1, !.ending_fragment = 1, !.payload_type = 58] >>,
      <<Init_("init_ack", <<[kind |-> "state_cookie", cookie |-> <<1, 2, 3>>], Extensions>>)>>,
      <<Init_("init_ack", <<[kind |-> "forward_tsn_supp"], [kind |-> "random", random_data |-> <<1>>],
                            [kind |-> "chunk_list", chunk_types |-> <<0, 3>>],
                            [kind |-> "req_hmac_algo", available_algorithms |-> << [algorithm |-> 3], [algorithm |-> 1] >>],
                            [kind |-> "unknown", typ |-> 32773, value |-> <<7>>]>>)>>,
      <<Sack(<<>>, <<>>)>>, <<Sack(<<Gap(2, 3), Gap(5, 65535)>>, << [tsn |-> 4] >>)>>,
      <<Sack(<<>>, << [tsn |-> 4], [tsn |-> 5] >>), [kind |-> "shutdown", cumulative_tsn_ack |-> 8]>>,
      << [kind |-> "heartbeat", params |-> <<HeartbeatInfo>>] >>,
      << [kind |-> "heartbeat_ack", params |-> <<>>] >>,
      << [kind |-> "abort", error_causes |-> <<>>] >>,
      << [kind |-> "abort", error_causes |-> <<Cause(0), Cause(5)>>] >>,
      << [kind |-> "error", error_causes |-> <<Cause(3)>>], [kind |-> "cookie_ack"] >>,
      << [kind |-> "cookie_echo", cookie |-> <<1, 2, 3, 4, 5>>], Data(1, 2, <<7>>) >>,
      << [kind |-> "shutdown_ack"] >>, << [kind |-> "shutdown_complete"] >>,
      << [kind |-> "forward_tsn", new_cumulative_tsn |-> 1, streams |-> <<>>] >>,
      << [kind |-> "forward_tsn", new_cumulative_tsn |-> 1,
          streams |-> << [identifier |-> 1, sequence |-> 2], [identifier |-> 3, sequence |-> 65535] >>] >>,
      << [kind |-> "reconfig", params |-> <<>>] >>,
      << [kind |-> "reconfig", params |-> <<ResetRequest(<<1, 2, 3>>)>>] >>,
      << [kind |-> "reconfig", params |-> <<ResetRequest(<<1>>), ResetResponse(6)>>] >>,
      << [kind |-> "reconfig", params |-> <<ResetResponse(1)>>] >> }
SctpSamples ==
    { [source_port |-> 5000, destination_port |-> 5001, verification_tag |-> 77, chunks |-> cs] : cs \in SctpChunks }
    \cup { [source_port |-> 5000, destination_port |-> 5001, verification_tag |-> 0,
            chunks |-> <<Init_("init", <<Extensions>>)>>] }

Random28 == [i \in 1 .. 28 |-> (i * 9) % 256]
Signing(h, s) == [hash |-> h, signature |-> s]
Extensions_ ==
    << [kind |-> "supported_signature_algorithms", signature_hash_algorithms |-> <<Signing(4, 3), Signing(8, 7)>>],
       [kind |-> "renegotiation_info", renegotiated_connection |-> 0],
       [kind |-> "supported_elliptic_curves", elliptic_curves |-> << [id |-> 29], [id |-> 23] >>],
       [kind |-> "supported_point_formats", point_formats |-> <<0>>],
       [kind |-> "use_srtp", protection_profiles |-> << [id |-> 8], [id |-> 1] >>],
       [kind |-> "use_extended_master_secret"],
       [kind |-> "server_name", server_name |-> <<97, 98>>] >>
ClientHello_(cookie, es) ==
    [kind |-> "client_hello", major |-> 254, minor |-> 253, gmt_unix_time |-> 2 ^ 30, random_bytes |-> Random28,
     cookie |-> cookie, cipher_suites |-> << [id |-> 49195], [id |-> 168] >>, compression_methods |-> <<0>>,
     extensions |-> es]
KeyExchange_(hint, key) ==
    [kind |-> "server_key_exchange", identity_hint |-> hint, elliptic_curve_type |-> IF key = <<>> THEN 4 ELSE 3,
     named_curve |-> IF key = <<>> THEN 0 ELSE 29, public_key |-> key, hash |-> IF key = <<>> THEN 9 ELSE 4,
     signature |-> IF key = <<>> THEN 8 ELSE 3, signature_octets |-> IF key = <<>> THEN <<>> ELSE <<1, 2, 3>>]
DtlsMessages ==
    { ClientHello_(<<>>, <<>>), ClientHello_(<<1, 2, 3>>, Extensions_),
      ClientHello_([i \in 1 .. 256 |-> 0], <<>>),
      [kind |-> "server_hello", major |-> 254, minor |-> 253, gmt_unix_time |-> 7, random_bytes |-> Random28,
       cipher_suite |-> 49195, compression_method |-> 0, extensions |-> SubSeq(Extensions_, 4, 6)],
      [kind |-> "hello_verify_request", major |-> 254, minor |-> 253, cookie |-> <<5, 6, 7, 8>>],
      [kind |-> "certificate", certificate |-> <<>>],
      [kind |-> "certificate", certificate |-> << [der |-> <<1, 2, 3>>], [der |-> <<4>>] >>],
      KeyExchange_(<<>>, <<4, 5, 6, 7, 8>>), KeyExchange_(<<104, 105>>, <<>>),
      [kind |-> "certificate_request", certificate_types |-> << [id |-> 64], [id |-> 1] >>,
       signature_hash_algorithms |-> <<Signing(4, 3), Signing(5, 1)>>],
      [kind |-> "server_hello_done"],
      [kind |-> "certificate_verify", hash |-> 4, signature |-> 3, signature_octets |-> <<1, 2, 3, 4, 5>>],
      [kind |-> "client_key_exchange", identity_hint |-> <<>>, public_key |-> <<4, 9, 9>>],
      [kind |-> "client_key_exchange", identity_hint |-> <<1, 2, 3>>, public_key |-> <<>>],
      [kind |-> "client_key_exchange", identity_hint |-> <<>>, public_key |-> <<>>],
      [kind |-> "finished", verify_data |-> [i \in 1 .. 12 |-> i]] }
DtlsContents ==
    { Codecs!Transport!Handshake_new(m, 3) : m \in DtlsMessages }
    \cup { [kind |-> "change_cipher_spec"], [kind |-> "alert", alert_level |-> 2, alert_description |-> 40],
           [kind |-> "alert", alert_level |-> 1, alert_description |-> 0], [kind |-> "application_data", data |-> <<1, 2, 3>>] }
DtlsSamples ==
    { Codecs!Transport!RecordLayer_new(253, 0, <<0, 0, 1, 2, 3, 4, 5, 6>>, c) : c \in DtlsContents }
    \cup { Codecs!Transport!RecordLayer_new(255, 65535, <<0, 0, 255, 255, 255, 255, 255, 255>>, [kind |-> "change_cipher_spec"]),
           Codecs!Transport!RecordLayer_new(253, 1, <<0, 1, 0, 0, 0, 0, 0, 0>>, [kind |-> "change_cipher_spec"]) }

Record_(type, seq, payload) ==
    [content_type |-> type, major |-> 254, minor |-> 253, epoch |-> 1, sequence_number |-> seq, payload |-> payload]
SealSamples ==
    { Record_(23, <<0, 0, 0, 0, 0, 5>>, <<1, 2, 3>>), Record_(22, <<0, 1, 0, 0, 0, 0>>, [i \in 1 .. 12 |-> i]),
      Record_(21, <<255, 255, 255, 255, 255, 255>>, <<>>) }

\* headers after up to three calls that set or remove an extension
Call(op, id, n) == [op |-> op, id |-> id, payload |-> [i \in 1 .. n |-> 100 + i]]
Calls == {Call("set", i, n) : i \in {1, 2}, n \in {1, 3, 4}} \cup {Call("set", 2, 17), Call("set", 3, 0), Call("set", 15, 2), Call("del", 1, 0)}
FirstCalls == {c \in Calls : c.op = "set"} \cup {Call("set", 17, 1), Call("set", 4, 256)}
Called(h, c) ==
    [(IF c.op = "set" THEN Codecs!Media!set_extension(h, c.id, c.payload) ELSE Codecs!Media!del_extension(h, c.id)) EXCEPT !.refused = FALSE]
PlainHeader == Codecs!Media!Header_new(1, 96, 65535, 2 ^ 30, 7, <<>>)
OneCall == {Called(PlainHeader, c) : c \in FirstCalls}
TwoCalls == {Called(h, c) : h \in OneCall, c \in Calls}
ThreeCalls == {Called(h, c) : h \in TwoCalls, c \in Calls}
RtpHeaders == {PlainHeader, Codecs!Media!Header_new(0, 0, 0, 0, 1, <<5, 6>>)} \cup OneCall \cup TwoCalls \cup ThreeCalls
WithPayload(h, n) == h @@ [payload |-> [i \in 1 .. n |-> i]]
RtpSamples ==
    {WithPayload(h, 3) : h \in RtpHeaders}
    \cup {WithPayload([h EXCEPT !.padding = p], n) : h \in {PlainHeader}, p \in {0, 1}, n \in {0, 1, 4, 7}}
    \cup {WithPayload([PlainHeader EXCEPT !.extension = 1, !.extension_profile = 1, !.extensions = << [id |-> 0, payload |-> [i \in 1 .. n |-> i]] >>], 2)
             : n \in {0, 4, 6}}
Extension_(kind) ==
    CASE kind = "abs_send_time" -> { [kind |-> kind, timestamp |-> t] : t \in {0, 1, 2 ^ 24 - 1} }
      [] kind = "audio_level"   -> { [kind |-> kind, voice |-> v, level |-> l] : v \in {0, 1}, l \in {0, 127, 128} }
      [] kind = "playout_delay" -> { [kind |-> kind, min_delay |-> a, max_delay |-> z] : a \in {0, 15, 4095}, z \in {16, 4095, 4096} }
      [] kind = "transport_cc"  -> { [kind |-> kind, transport_sequence |-> t] : t \in {0, 256, 65535} }
      [] kind = "video_orientation" -> { [kind |-> kind, direction |-> d, flip |-> f, rotation |-> r] : d \in {0, 1}, f \in {0, 1}, r \in 0 .. 3 }

SrtpSamples ==
    { WithPayload(h, 3) : h \in {PlainHeader, Codecs!Media!set_extension(PlainHeader, 1, <<1, 2, 3>>)} }
    \cup { WithPayload([PlainHeader EXCEPT !.padding = 1], 2), WithPayload(PlainHeader, 0) }
SrtcpSamples == { m \in RtcpSamples : m.kind \in {"pli", "nack"} \/ (m.kind = "rr" /\ Len(m.reports) < 2) }

\* STUN: requests and responses of ICE, TURN's attributes, and some refused ones
Tid == [i \in 1 .. 12 |-> 11 * i]
Stun_(method, class, attributes) == [method |-> method, class |-> class, transaction_id |-> Tid, attributes |-> attributes]
V4 == <<192, 0, 2, 1>>
V6 == [i \in 1 .. 16 |-> 255 - i]
Text_(k, n) == [kind |-> k, text |-> [i \in 1 .. n |-> 96 + (i % 26)]]
Address_(k, ip) == [kind |-> k, ip |-> ip, port |-> 8467]
Integrity_ == [kind |-> "message_integrity"]
Fingerprint_ == [kind |-> "fingerprint"]
StunEnds == {<<>>, <<Fingerprint_>>, <<Integrity_>>, <<Integrity_, Fingerprint_>>, <<Integrity_, Text_("software", 5)>>,
         <<Fingerprint_, Integrity_>>}
StunAttributes ==
    { <<Text_("username", 5), [kind |-> "priority", priority |-> 2 ^ 30 + 1], [kind |-> "ice_controlling", tie_breaker |-> <<1, 2, 3, 4, 5, 6, 7, 255>>],
        [kind |-> "use_candidate"]>>,
      <<Address_("xor_mapped_address", V4)>> }
StunSamples ==
    { Stun_(1, 0, as \o e) : as \in StunAttributes, e \in StunEnds }
    \cup { Stun_(1, c, << a, Fingerprint_>>) : c \in 1 .. 3,
              a \in { [kind |-> "error_code", code |-> 487, reason |-> <<1, 2, 3>>], [kind |-> "error_code", code |-> 400, reason |-> <<>>],
                      [kind |-> "unknown_attributes", types |-> << [typ |-> 1], [typ |-> 65535], [typ |-> 3] >>],
                      [kind |-> "ice_controlled", tie_breaker |-> [i \in 1 .. 8 |-> i]], [kind |-> "raw", typ |-> 49152, value |-> <<7>>],
                      Text_("software", 1) } \cup { Address_(k, ip) : k \in {"mapped_address", "alternate_server", "xor_mapped_address"}, ip \in {V4, V6} } }
    \cup { Stun_(1, 0, <<a>>) : a \in {Text_("username", 514), [kind |-> "error_code", code |-> 500, reason |-> Codecs!Zeros(764)]} }
TurnSamples ==
    { Stun_(method, class, as \o <<Integrity_>>) : method \in {3, 4, 8, 9, 4095}, class \in {0, 2},
        as \in { <<[kind |-> "requested_transport", protocol |-> 17], [kind |-> "even_port", reserve_port |-> 1], [kind |-> "dont_fragment"]>>,
                 <<[kind |-> "channel_number", number |-> 16384], Address_("xor_peer_address", V6), Text_("nonce", 6), Text_("realm", 3)>> } }
    \cup { Stun_(3, 2, <<a, Integrity_>>) : a \in { [kind |-> "lifetime", seconds |-> 600], [kind |-> "data", data |-> <<1, 2, 3, 4, 5>>],
              [kind |-> "requested_address_family", family |-> 2], [kind |-> "reservation_token", token |-> [i \in 1 .. 8 |-> i]],
              [kind |-> "reservation_token", token |-> <<1>>], Address_("xor_relayed_address", V4) } }
ChannelDataSamples == { [number |-> n, data |-> [i \in 1 .. l |-> i]] : n \in {16384, 32767}, l \in 0 .. 5 }

DcepSamples ==
    { [kind |-> "data_channel_ack"], [kind |-> "data_channel_close"] }
    \cup { [kind |-> "data_channel_open", channel_type |-> t, priority |-> 65535, reliability_parameter |-> 2 ^ 30, label |-> l, protocol |-> p] :
              t \in DOMAIN Codecs!Transport!ChannelType, l \in {<<>>, <<1, 2, 3>>}, p \in {<<>>, <<9>>} }

\* DNS: names that share suffixes, so that the packer has something to compress
LocalName == << <<108, 111>> >>
HostName == << <<97>>, <<98, 99>> >> \o LocalName
OtherName == << <<100>> >> \o LocalName
DnsHeader(r) == [id |-> 65535, response |-> r, op_code |-> 0, authoritative |-> r, truncated |-> 0, recursion_desired |-> 1 - r,
                 recursion_available |-> 0, rcode |-> 5 * r]
Resource_(name, type, body) == [name |-> name, type |-> type, class |-> 32769, ttl |-> 120, body |-> body]
Resources ==
    { Resource_(HostName, "A", [a |-> V4]), Resource_(OtherName, "Aaaa", [aaaa |-> V6]), Resource_(LocalName, "Ns", [ns |-> HostName]),
      Resource_(HostName, "Cname", [cname |-> OtherName]), Resource_(<<>>, "Ptr", [ptr |-> HostName]),
      Resource_(OtherName, "Mx", [pref |-> 10, mx |-> << <<120>> >> \o HostName]),
      Resource_(LocalName, "Soa", [ns |-> LocalName, mbox |-> HostName, serial |-> 1, refresh |-> 2, retry |-> 3, expire |-> 4, min_ttl |-> 5]),
      Resource_(HostName, "Srv", [priority |-> 1, weight |-> 2, port |-> 65535, target |-> HostName]),
      Resource_(LocalName, "Txt", [txt |-> << <<1, 2>>, <<>>, <<3>> >>]), Resource_(<<>>, "Opt", [options |-> << [code |-> 10, data |-> <<1, 2, 3>>] >>]) }
DnsMessage(r, qs, an, au, ad) == [header |-> DnsHeader(r), questions |-> qs, answers |-> an, authorities |-> au, additionals |-> ad]
Question_(name, t) == [name |-> name, typ |-> Codecs!DnsType[t], class |-> 1]
DnsSamples ==
    { DnsMessage(0, <<Question_(HostName, "A"), Question_(OtherName, "Aaaa")>>, <<>>, <<>>, <<>>),
      DnsMessage(0, <<Question_(<< <<1>>, <<>> >>, "A")>>, <<>>, <<>>, <<>>),
      DnsMessage(0, <<Question_(<< Codecs!Zeros(64) >>, "A")>>, <<>>, <<>>, <<>>) }
    \cup { DnsMessage(1, <<>>, <<r, s>>, <<>>, <<>>) : r \in Resources, s \in Resources }
    \cup { DnsMessage(1, <<Question_(OtherName, "A")>>, <<r>>, <<s>>, <<r>>) : r \in Resources, s \in {t \in Resources : t.type \in {"Srv", "Soa"}} }
DnsBuilt == { m \in DnsSamples : Len(m.additionals) = 1 }
DnsTail == { DnsMessage(1, <<>>, <<>>, <<>>, <<r>>) : r \in Resources }

DatagramSamples ==
    [rtcp |-> RtcpSamples, sli |-> SliSamples, compound |-> CompoundSamples, sctp |-> SctpSamples, dtls |-> DtlsSamples, rtp |-> RtpSamples]
      @@ [c \in Codecs!HeaderExtensions |-> Extension_(c)] @@ [c \in Codecs!Sealed |-> SealSamples]
      @@ [c \in Codecs!SrtpCodecs |-> SrtpSamples] @@ [c \in Codecs!SrtcpCodecs |-> SrtcpSamples]
      @@ [stun |-> StunSamples, turn |-> TurnSamples, channel_data |-> ChannelDataSamples, dcep |-> DcepSamples, dns |-> DnsSamples,
          dns_builder |-> DnsBuilt, dns_skip |-> DnsTail]
DatagramFollowers ==
    [rtcp |-> { m \in RtcpSamples : m.kind \in {"bye", "sdes", "pli", "tcc"} }, sctp |-> {},
     dtls |-> { m \in DtlsSamples : m.content.kind # "handshake" \/ m.content.message.kind \in {"finished", "server_hello_done"} }]
      @@ [c \in Codecs!Sealed \cup Codecs!SrtpCodecs \cup Codecs!SrtcpCodecs \cup Codecs!HeaderExtensions \cup Codecs!StunCodecs
            \cup {"rtp", "sli", "compound", "channel_data", "dcep", "dns", "dns_builder", "dns_skip"} |-> {}]

Datagrams == INSTANCE Datagram WITH
    Samples <- DatagramSamples, Followers <- DatagramFollowers, MaxMessages <- 2,
    codec <- protocol

datagramsVars == <<protocol, sent, octets, whole, got>>
DatagramsIdle == /\ protocol = "-" /\ sent = "-" /\ octets = "-" /\ whole = "-" /\ got = "-"

\* A codec reads back what it wrote, declares the size it writes, and refuses a message that
\* was cut short, without running past its buffer (the marshal, marshal_size and unmarshal of
\* every protocol). Exceptions: an RTP header with an extension that its profile cannot express,
\* and RTP cut in its payload.
RoundTrip == component = "datagrams" => Datagrams!RoundTrip /\ Datagrams!SizeExact /\ Datagrams!CutRefused

-----------------------------------------------------------------------------
\* SDP: any session part, any media section behind a short session part, and the format
\* attributes of one section.

Text == INSTANCE Sdp WITH Menus <- {}

Origin == <<"-", 1, 2, "IN", "IP4", "host">>
Audio == <<"audio", <<9>>, <<"UDP", "TLS">>, "96", "97">>
Opening == <<Text!Line("v", <<0>>), Text!Line("o", Origin), Text!Line("s", <<"-">>)>>
Timed == Opening \o <<Text!Line("t", <<0, 0>>)>>

SessionMenu ==
    [head |-> <<>>, lines |-> 8, values |->
        [v |-> {<<0>>, <<1>>}, o |-> {Origin, Tail(Origin)}, s |-> {<<"-">>},
         i |-> {<<"text">>}, u |-> {<<"http">>, <<"junk">>}, e |-> {<<"mail">>}, p |-> {<<"tel">>},
         c |-> {<<"IN", "IP6", "addr", "more">>}, b |-> {<<2, "YZ", 128>>},
         t |-> {<<0, 0>>}, r |-> {<<<<7, 86400>>, <<1, 3600>>, <<0, 1>>>>},
         z |-> {<<<<10, 1>>, <<1, 3600>>>>}, k |-> {<<"key">>}, a |-> {<<"ice-lite">>},
         m |-> {Audio}]]

TimesMenu ==
    [head |-> Timed, lines |-> 4, values |->
        [t |-> {<<5, 6, 7>>, <<5>>}, r |-> {<<<<7, 86400>>, <<1, 3600>>, <<0, 1>>, <<30, 60>>>>,
                                           <<<<1000000, 86400>>, <<1, 1>>, <<1, 1>>>>, <<<<1, 1>>, <<1, 1>>>>},
         z |-> {<<>>, <<<<10, 1>>, <<1, 3600>>, <<20, 1>>, <<0, 1>>>>, <<<<10, 1>>>>},
         k |-> {<<"key">>}, a |-> {<<"group", "BUNDLE", "0">>}, m |-> {Audio}]]

MediaMenu ==
    [head |-> Timed, lines |-> 5, values |->
        [i |-> {<<"title">>}, c |-> {<<"IN", "IP4", "addr">>, <<"IN", "IP4">>, <<"IN">>},
         b |-> {<<0, "AS", 64>>, <<1, "TIAS", 64>>, <<0, "AS">>}, k |-> {<<"key">>},
         a |-> {<<"sendrecv">>, <<"mid", "0">>}, t |-> {<<0, 0>>},
         m |-> {Audio, <<"video", <<9, 2>>, <<"UDP">>, "97">>, <<"video", <<9>>, <<"UDP", "">>, "97">>,
                <<"audio", <<9>>, <<"UDP">>>>}]]

AttributesMenu ==
    [head |-> Timed \o <<Text!Line("m", Audio)>>, lines |-> 5, values |->
        [a |-> {<<"rtpmap", "96", "VP8">>, <<"rtpmap", "97", "rtx">>, <<"rtpmap", "junk", "VP8">>,
                <<"fmtp", "97", "apt=96">>, <<"fmtp", "97", "apt=96;", "rtx-time=9">>, <<"fmtp", "0", "a;", "b">>, <<"rtcp-fb", "96", "nack">>, <<"rtcp-fb", "96", "nack", "pli">>,
                <<"rtcp-fb", "96">>},
         m |-> {Audio}]]

SdpMenus == {SessionMenu, TimesMenu, MediaMenu, AttributesMenu}

Documents == INSTANCE Sdp WITH
    Menus <- SdpMenus

documentsVars == <<menu, doc, parse>>
DocumentsIdle == /\ menu = "-" /\ doc = "-" /\ parse = "-"


-----------------------------------------------------------------------------
mediaVars == <<component, vars, rtcpVars, filesVars, builderVars, datagramsVars, documentsVars>>

MediaInit ==
    /\ component \in Components
    /\ IF component = "srtp" THEN Init ELSE Init /\ first = CHOOSE n \in Starts : TRUE
    /\ RtcpInit
    /\ IF component = "files" THEN Files!Init ELSE FilesIdle
    /\ IF component = "samples" THEN Builder!Init ELSE BuilderIdle
    /\ IF component = "datagrams" THEN Datagrams!Init ELSE DatagramsIdle
    /\ IF component = "sdp" THEN Documents!Init ELSE DocumentsIdle

MediaNext ==
    \/ component = "srtp" /\ Next /\ UNCHANGED <<component, rtcpVars, filesVars,
          builderVars, datagramsVars, documentsVars>>
    \/ component = "srtcp" /\ RtcpNext /\ UNCHANGED <<component, vars, filesVars,
          builderVars, datagramsVars, documentsVars>>
    \/ component = "files" /\ Files!Next
       /\ UNCHANGED <<component, vars, rtcpVars, builderVars, datagramsVars, documentsVars>>
    \/ component = "samples" /\ Builder!Next
       /\ UNCHANGED <<component, vars, rtcpVars, filesVars, datagramsVars, documentsVars>>
    \/ component = "datagrams" /\ Datagrams!Next
       /\ UNCHANGED <<component, vars, rtcpVars, filesVars, builderVars, documentsVars>>
    \/ component = "sdp" /\ Documents!Next
       /\ UNCHANGED <<component, vars, rtcpVars, filesVars, builderVars, datagramsVars>>

MediaSpec == MediaInit /\ [][MediaNext]_mediaVars
=============================================================================
