----------------------------- MODULE WireMedia ------------------------------
(***************************************************************************)
(* What carries media: RTP packets with their header extensions and the     *)
(* payload formats of the codecs (rtc-rtp), RTCP packets (rtc-rtcp), and    *)
(* what the SRTP context puts around both (rtc-srtp).                       *)
(***************************************************************************)
EXTENDS Wire

(***************************************************************************)
(* RTP packets of rtc-rtp: the header with its two extension formats, the   *)
(* operations that add and remove extensions and keep the padding count,    *)
(* the extensions themselves, and the packet with its padding.              *)
(***************************************************************************)

EXTENSION_PROFILE_ONE_BYTE == 48862
EXTENSION_PROFILE_TWO_BYTE == 4096
EXTENSION_ID_RESERVED == 15
CSRC_LENGTH == 4

Csrc == <<Need(4), U(4, "csrc")>>
FixedHeader ==
    << Need(4), Bits(<< <<"version", 2>>, <<"padding", 1>>, <<"extension", 1>>, <<"cc", 4>>,
                        <<"marker", 1>>, <<"payload_type", 7>> >>),
       Need(10), U(2, "sequence_number"), U(4, "timestamp"), U(4, "ssrc"), List("csrc", "cc", Csrc) >>

Prefix(profile) ==
    CASE profile = EXTENSION_PROFILE_ONE_BYTE -> 1
      [] profile = EXTENSION_PROFILE_TWO_BYTE -> 2
      [] OTHER -> 0
Extension_len(e) == Len(e.payload)
get_extension_payload_len(h) ==
    SumOf([i \in 1 .. Len(h.extensions) |-> Extension_len(h.extensions[i])]) + Len(h.extensions) * Prefix(h.extension_profile)
Header_size(h) ==
    12 + Len(h.csrc) * CSRC_LENGTH
       + IF h.extension = 0 THEN 0
         ELSE 4 + 4 * ((get_extension_payload_len(h) + h.extensions_padding + 3) \div 4)

\* the octet before an extension, of eight bits: the length of an empty one underflows
OneByte(e) == IF e.payload = <<>> THEN 255 ELSE ((e.id * 16) % 256) + Len(e.payload) - 1
Header_overflows(h) ==
    h.extension = 1 /\ h.extension_profile = EXTENSION_PROFILE_ONE_BYTE /\ \E i \in 1 .. Len(h.extensions) : h.extensions[i].payload = <<>>
Extension_put(profile, e) ==
    CASE profile = EXTENSION_PROFILE_ONE_BYTE -> <<OneByte(e)>> \o e.payload
      [] profile = EXTENSION_PROFILE_TWO_BYTE -> <<e.id, Len(e.payload)>> \o e.payload
      [] OTHER -> e.payload
Extensions_body(h) ==
    Joined([i \in 1 .. Len(h.extensions) |-> Extension_put(h.extension_profile, h.extensions[i])])
Extensions_put(h, n) ==
    IF h.extension = 0 THEN <<>>
    ELSE BE(2, h.extension_profile) \o BE(2, (n + 3) \div 4) \o Extensions_body(h) \o Zeros(PadTo(4, n))
Header_refuses(h) ==
    /\ h.extension = 1 /\ Prefix(h.extension_profile) = 0
    /\ Len(h.extensions) # 1 \/ get_extension_payload_len(h) % 4 # 0
Header_marshal(h) ==
    IF Header_refuses(h) THEN Err
    ELSE Ok(Put(FixedHeader, [h EXCEPT !.cc = Len(h.csrc)]) \o Extensions_put(h, get_extension_payload_len(h)))

(***************************************************************************)
(* Reading the extensions: a zero octet is padding, identifier 15 ends a    *)
(* one-byte block.  p holds the octets left, those left of the block, and   *)
(* the extensions and padding read.                                         *)
(***************************************************************************)
Padded(p) == [p EXCEPT !.b = From(@, 2), !.left = @ - 1, !.pad = @ + 1]
Extended(p, id, prefix, n) ==
    IF n > Len(p.b) - prefix THEN [p EXCEPT !.out = "err"]
    ELSE [p EXCEPT !.b = From(@, prefix + n + 1), !.left = @ - (prefix + n),
                   !.v = Append(@, [id |-> id, payload |-> SubSeq(p.b, prefix + 1, prefix + n)])]
OneByte_next(p) ==
    IF p.b[1] = 0 THEN Padded(p)
    ELSE IF p.b[1] \div 16 = EXTENSION_ID_RESERVED THEN [p EXCEPT !.b = From(@, 2), !.left = 0]
    ELSE Extended(p, p.b[1] \div 16, 1, (p.b[1] % 16) + 1)
TwoByte_next(p) ==
    IF p.b[1] = 0 THEN Padded(p)
    ELSE IF p.left = 1 THEN [p EXCEPT !.out = "err"]
    ELSE Extended(p, p.b[1], 2, p.b[2])
Extensions_read(profile, p0) ==
    LET RECURSIVE after(_)
        after(p) ==
            IF p.out # "ok" \/ p.left <= 0 THEN p
            ELSE after(IF profile = EXTENSION_PROFILE_ONE_BYTE THEN OneByte_next(p) ELSE TwoByte_next(p))
    IN  after(p0)
ExtensionBlock(b, n) == [b |-> b, left |-> n, pad |-> 0, v |-> <<>>, out |-> "ok"]
Extensions_of(s, profile, p) ==
    IF p.out # "ok" THEN Fails(s, p.out)
    ELSE [s EXCEPT !.b = p.b,
                   !.v = @ @@ [extension_profile |-> profile, extensions |-> p.v, extensions_padding |-> p.pad]]
Extensions_get(s, profile, n) ==
    IF Len(s.b) < n THEN Fails(s, "err")
    ELSE Extensions_of(s, profile,
            IF Prefix(profile) = 0
            THEN [ExtensionBlock(From(s.b, n + 1), 0) EXCEPT !.v = << [id |-> 0, payload |-> Upto(s.b, n)] >>]
            ELSE Extensions_read(profile, ExtensionBlock(s.b, n)))
NoExtension == [extension_profile |-> 0, extensions |-> <<>>, extensions_padding |-> 0]
Header_extensions(s) ==
    IF s.out # "ok" THEN s
    ELSE IF s.v.extension = 0 THEN [s EXCEPT !.v = @ @@ NoExtension]
    ELSE IF Len(s.b) < 4 THEN Fails(s, "err")
    ELSE Extensions_get(Skip(s, 4), Num(Upto(s.b, 2)), 4 * Num(SubSeq(s.b, 3, 4)))
RtpHeader_unmarshal(b) == Header_extensions(Get(FixedHeader, Reader(b), "panic"))

(***************************************************************************)
(* Extensions added and removed.                                            *)
(***************************************************************************)
Refused(h) == [h EXCEPT !.refused = TRUE]
Less(pad, n) == IF pad < n THEN pad + 4 - n ELSE pad - n
IndexOf(h, id) == {i \in 1 .. Len(h.extensions) : h.extensions[i].id = id}
Replaced(h, i, payload, delta) ==
    [h EXCEPT !.extensions[i].payload = payload,
              !.extensions_padding = IF delta < 0 THEN (@ - delta) % 4 ELSE Less(@, delta % 4)]
Added(h, id, payload, delta) ==
    [h EXCEPT !.extensions = Append(@, [id |-> id, payload |-> payload]), !.extensions_padding = Less(@, delta % 4)]
First(s) == CHOOSE i \in s : \A j \in s : i <= j
InRange(profile, id, n) ==
    CASE profile = EXTENSION_PROFILE_ONE_BYTE -> id \in 1 .. 14 /\ n <= 16
      [] profile = EXTENSION_PROFILE_TWO_BYTE -> id >= 1 /\ n <= 255
      [] OTHER -> id = 0
FirstProfile(h, n) ==
    CASE n <= 16 -> EXTENSION_PROFILE_ONE_BYTE
      [] n \in 17 .. 255 -> EXTENSION_PROFILE_TWO_BYTE
      [] OTHER -> h.extension_profile
set_extension(h, id, payload) ==
    IF h.extension = 0
    THEN Added([h EXCEPT !.extension = 1, !.extension_profile = FirstProfile(h, Len(payload))],
               id, payload, Len(payload) + IF Len(payload) <= 16 THEN 1 ELSE IF Len(payload) <= 255 THEN 2 ELSE 0)
    ELSE IF ~InRange(h.extension_profile, id, Len(payload)) THEN Refused(h)
    ELSE IF IndexOf(h, id) = {} THEN Added(h, id, payload, Len(payload) + Prefix(h.extension_profile))
    ELSE LET i == First(IndexOf(h, id)) IN Replaced(h, i, payload, Len(payload) - Len(h.extensions[i].payload))
Removed(h, i) ==
    [h EXCEPT !.extensions = SubSeq(@, 1, i - 1) \o From(@, i + 1),
              !.extensions_padding = (@ + ((Len(h.extensions[i].payload) + Prefix(h.extension_profile)) % 4)) % 4]
del_extension(h, id) ==
    IF h.extension = 0 \/ IndexOf(h, id) = {} THEN Refused(h) ELSE Removed(h, First(IndexOf(h, id)))

(***************************************************************************)
(* The extensions with a meaning of their own.                              *)
(***************************************************************************)
AbsSendTimeExtension == <<Need(3), U(3, "timestamp")>>
AudioLevelExtension == <<Need(1), Bits(<< <<"voice", 1>>, <<"level", 7>> >>)>>
PlayoutDelayExtension == <<Need(3), Bits(<< <<"min_delay", 12>>, <<"max_delay", 12>> >>)>>
TransportCcExtension == <<Need(2), U(2, "transport_sequence")>>
VideoOrientationExtension == <<Need(1), Bits(<< <<"", 4>>, <<"direction", 1>>, <<"flip", 1>>, <<"rotation", 2>> >>)>>
HeaderExtension(kind) ==
    CASE kind = "abs_send_time"     -> AbsSendTimeExtension
      [] kind = "audio_level"       -> AudioLevelExtension
      [] kind = "playout_delay"     -> PlayoutDelayExtension
      [] kind = "transport_cc"      -> TransportCcExtension
      [] kind = "video_orientation" -> VideoOrientationExtension
AudioLevelOverflow(e) == e.kind = "audio_level" /\ e.level > 127
PlayoutDelayOverflow(e) == e.kind = "playout_delay" /\ (e.min_delay > 4095 \/ e.max_delay > 4095)
HeaderExtension_size(kind) ==
    CASE kind \in {"abs_send_time", "playout_delay"} -> 3
      [] kind = "transport_cc" -> 2
      [] OTHER -> 1
HeaderExtension_marshal(e) ==
    IF AudioLevelOverflow(e) \/ PlayoutDelayOverflow(e) THEN Err ELSE Ok(Put(HeaderExtension(e.kind), e))
Named(kind, s) == IF s.out # "ok" THEN NoValue(s.out) ELSE Value(<<[kind |-> kind] @@ s.v>>)
HeaderExtension_unmarshal(kind, b) == Named(kind, Get(HeaderExtension(kind), Reader(b), "panic"))

(***************************************************************************)
(* The packet.                                                              *)
(***************************************************************************)
get_padding(n) == IF n % 4 = 0 THEN 0 ELSE 4 - (n % 4)
(* mutant: no padding where the payload ends on a word, though the header announces some *)
Padding_none(m) == IF m.padding = 0 THEN 0 ELSE get_padding(Len(m.payload))

Padding(m) == IF m.padding = 0 THEN 0 ELSE IF get_padding(Len(m.payload)) = 0 THEN 4 ELSE get_padding(Len(m.payload))
Packet_size(m) == Header_size(m) + Len(m.payload) + Padding(m)
Padding_put(n) == IF n = 0 THEN <<>> ELSE Zeros(n - 1) \o <<n>>
RtpPacket_body(m, h) == IF h.out # "ok" THEN h ELSE Ok(h.b \o m.payload \o Padding_put(Padding(m)))
Packet_marshal(m) == RtpPacket_body(m, Header_marshal(m))
Unpadded(v, b) ==
    CASE v.padding = 0 -> Value(<<v @@ [payload |-> b]>>)
      [] v.padding = 1 /\ (b = <<>> \/ b[Len(b)] > Len(b)) -> NoValue("err")
      [] OTHER -> Value(<<v @@ [payload |-> Upto(b, Len(b) - b[Len(b)])]>>)
RtpPacket_of(s) == IF s.out # "ok" THEN NoValue(s.out) ELSE Unpadded(s.v @@ [refused |-> FALSE], s.b)
Packet_unmarshal(b) == RtpPacket_of(RtpHeader_unmarshal(b))

\* a header as an application builds it
Header_new(marker, pt, seq, ts, ssrc, csrc) ==
    [version |-> 2, padding |-> 0, extension |-> 0, cc |-> Len(csrc), marker |-> marker, payload_type |-> pt,
     sequence_number |-> seq, timestamp |-> ts, ssrc |-> ssrc,
     csrc |-> [i \in 1 .. Len(csrc) |-> [csrc |-> csrc[i]]], refused |-> FALSE] @@ NoExtension

-----------------------------------------------------------------------------
(***************************************************************************)
(* The payload formats of rtc-rtp: how a frame of each codec is cut into    *)
(* RTP payloads no longer than the MTU, and how the payloads are taken      *)
(* apart again.  A payloader maps its state, the MTU and a frame to its     *)
(* next state and the payloads; a depacketizer maps its state and a payload *)
(* to its next state and what it returns.                                   *)
(***************************************************************************)

Cuts(n, b) ==
    [i \in 1 .. (Len(b) + n - 1) \div n |-> SubSeq(b, (i - 1) * n + 1, IF i * n > Len(b) THEN Len(b) ELSE i * n)]
MinOf(x, y) == IF x < y THEN x ELSE y
Paid(st, out) == [st |-> st, out |-> out]
Returned(st, b) == [st |-> st, out |-> "ok", b |-> b]
Rejected(st, out) == [st |-> st, out |-> out, b |-> <<>>]
Bit(x, k) == (x \div 2 ^ k) % 2

(***************************************************************************)
(* Opus.                                                                    *)
(***************************************************************************)
OpusPayloader(mtu, b) == IF b = <<>> \/ mtu = 0 THEN <<>> ELSE <<b>>
OpusPacket(p) == IF p = <<>> THEN Rejected(0, "err") ELSE Returned(0, p)

(***************************************************************************)
(* VP8.  The payloader's state is its picture id; the depacketizer keeps    *)
(* the optional fields of the last packet that had an extension octet.      *)
(***************************************************************************)
Vp8_header(enable, pid, first) ==
    IF ~enable THEN <<IF first THEN 16 ELSE 0>>
    ELSE <<IF first THEN 144 ELSE 128, 128>> \o IF pid < 128 THEN <<pid>> ELSE <<128 + (pid \div 256), pid % 256>>
Vp8_payloads(first, rest, cuts) == [i \in 1 .. Len(cuts) |-> (IF i = 1 THEN first ELSE rest) \o cuts[i]]
Vp8Payloader(enable, pid, mtu, b) ==
    LET n == mtu - IF ~enable THEN 1 ELSE IF pid < 128 THEN 3 ELSE 4
    IN  IF b = <<>> \/ mtu = 0 \/ n <= 0 THEN Paid(pid, <<>>)
        ELSE Paid((pid + 1) % 32768, Vp8_payloads(Vp8_header(enable, pid, TRUE), Vp8_header(enable, pid, FALSE), Cuts(n, b)))
Vp8_flags(st, p) ==
    IF p[1] < 128 THEN st ELSE [i |-> Bit(p[2], 7), l |-> Bit(p[2], 6), t |-> Bit(p[2], 5), k |-> Bit(p[2], 4)]
Vp8_body(st, p, n) == IF n >= Len(p) THEN Rejected(st, "err") ELSE Returned(st, From(p, n + 1))
Vp8_picture(p, n) == IF p[n + 1] >= 128 THEN 2 ELSE 1
Vp8_parsed(st, p, n) ==
    Vp8_body(st, p, n + (IF st.i = 1 THEN Vp8_picture(p, n) ELSE 0) + st.l + IF st.t = 1 \/ st.k = 1 THEN 1 ELSE 0)
Vp8Packet(st, p) ==
    IF Len(p) < 4 THEN Rejected(st, "err") ELSE Vp8_parsed(Vp8_flags(st, p), p, 1 + Bit(p[1], 7))
Vp8_is_partition_head(p) == p # <<>> /\ Bit(p[1], 4) = 1

(***************************************************************************)
(* VP9.  The depacketizer's state is the number of reference indices it     *)
(* has collected, which it never clears.                                    *)
(***************************************************************************)
Vp9_header(pid, first, last) ==
    <<144 + (IF first THEN 8 ELSE 0) + (IF last THEN 4 ELSE 0), 128 + (pid \div 256), pid % 256>>
Vp9_payloads(pid, cuts) == [i \in 1 .. Len(cuts) |-> Vp9_header(pid, i = 1, i = Len(cuts)) \o cuts[i]]
Vp9Payloader(pid, mtu, b) ==
    IF b = <<>> \/ mtu <= 3 THEN Paid(pid, <<>>) ELSE Paid((pid + 1) % 32768, Vp9_payloads(pid, Cuts(mtu - 3, b)))

MAX_SPATIAL_LAYERS == 5
MAX_VP9REF_PICS == 3
\* the parser: n octets read so far, or a failure
At(n, refs) == [n |-> n, refs |-> refs, out |-> "ok"]
Stuck(s) == [s EXCEPT !.out = "err"]
parse_picture_id(p, s) ==
    IF s.n >= Len(p) \/ (p[s.n + 1] >= 128 /\ s.n + 1 >= Len(p)) THEN Stuck(s)
    ELSE [s EXCEPT !.n = @ + IF p[s.n + 1] >= 128 THEN 2 ELSE 1]
parse_layer_info_common(p, s) ==
    IF s.n >= Len(p) \/ (p[s.n + 1] \div 2) % 8 >= MAX_SPATIAL_LAYERS THEN Stuck(s) ELSE [s EXCEPT !.n = @ + 1]
parse_layer_info_non_flexible_mode(p, s) == IF s.n >= Len(p) THEN Stuck(s) ELSE [s EXCEPT !.n = @ + 1]
parse_layer_info(p, s) ==
    IF Bit(p[1], 4) = 1 THEN parse_layer_info_common(p, s)
    ELSE LET c == parse_layer_info_common(p, s)
         IN  IF c.out # "ok" THEN c ELSE parse_layer_info_non_flexible_mode(p, c)
parse_ref_indices(p, s0) ==
    LET RECURSIVE after(_, _)
        after(s, more) ==
            IF s.out # "ok" \/ ~more THEN s
            ELSE IF s.n >= Len(p) THEN Stuck(s)
            ELSE IF s.refs + 1 >= MAX_VP9REF_PICS THEN Stuck([s EXCEPT !.n = @ + 1, !.refs = @ + 1])
            ELSE after([s EXCEPT !.n = @ + 1, !.refs = @ + 1], p[s.n + 1] % 2 = 1)
    IN  after(s0, TRUE)
Group_next(p, s) ==
    IF s.n >= Len(p) \/ Len(p) - s.n - 1 < (p[s.n + 1] \div 4) % 4 THEN Stuck(s)
    ELSE [s EXCEPT !.n = @ + 1 + ((p[s.n + 1] \div 4) % 4)]
Groups(p, s0, k) ==
    LET RECURSIVE after(_, _)
        after(s, left) == IF s.out # "ok" \/ left = 0 THEN s ELSE after(Group_next(p, s), left - 1)
    IN  after(s0, k)
Groups_counted(p, s, g) ==
    IF s.out # "ok" \/ ~g THEN s
    ELSE IF s.n >= Len(p) THEN Stuck(s) ELSE Groups(p, [s EXCEPT !.n = @ + 1], p[s.n + 1])
Sizes(p, s, y, ns) == IF y = 0 THEN s ELSE IF Len(p) - s.n < 4 * ns THEN Stuck(s) ELSE [s EXCEPT !.n = @ + 4 * ns]
parse_ssdata(p, s) ==
    IF s.n >= Len(p) THEN Stuck(s)
    ELSE LET b == p[s.n + 1]
         IN  Groups_counted(p, Sizes(p, [s EXCEPT !.n = @ + 1], Bit(b, 4), (b \div 32) + 1), (b \div 2) % 8 # 0)
Vp9_layers(p, s) == IF s.out # "ok" \/ Bit(p[1], 5) = 0 THEN s ELSE parse_layer_info(p, s)
Vp9_refs(p, s) == IF s.out # "ok" \/ ~(Bit(p[1], 4) = 1 /\ Bit(p[1], 6) = 1) THEN s ELSE parse_ref_indices(p, s)
Vp9_scalability(p, s) == IF s.out # "ok" \/ Bit(p[1], 1) = 0 THEN s ELSE parse_ssdata(p, s)
Vp9_parsed(p, s) == IF s.out # "ok" THEN Rejected(s.refs, s.out) ELSE Returned(s.refs, From(p, s.n + 1))
Vp9Packet(refs, p) ==
    IF p = <<>> THEN Rejected(refs, "err")
    ELSE Vp9_parsed(p, Vp9_scalability(p, Vp9_refs(p, Vp9_layers(p,
            IF p[1] >= 128 THEN parse_picture_id(p, At(1, refs)) ELSE At(1, refs)))))
Vp9_is_partition_head(p) == p # <<>> /\ Bit(p[1], 3) = 1

(***************************************************************************)
(* H.264.  The payloader holds back the parameter sets until the next unit; *)
(* the depacketizer collects the fragments of a unit.                       *)
(***************************************************************************)
STAPA_NALU_TYPE == 24
FUA_NALU_TYPE == 28
ANNEXB_NALUSTART_CODE == <<0, 0, 0, 1>>
\* where 0 0 1 occurs, in order
Occurrences(b, code) ==
    LET n == Len(code)
        found[i \in 0 .. Len(b)] ==
            IF i = 0 THEN <<>>
            ELSE IF i + n - 1 <= Len(b) /\ SubSeq(b, i, i + n - 1) = code THEN Append(found[i - 1], i) ELSE found[i - 1]
    IN  found[Len(b)]
Trimmed(b) == LET kept == {i \in 1 .. Len(b) : b[i] # 0} IN Upto(b, IF kept = {} THEN 0 ELSE CHOOSE i \in kept : \A j \in kept : j <= i)
H264_units(b, at) ==
    IF at = <<>> THEN <<b>>
    ELSE [i \in 1 .. Len(at) |-> IF i = Len(at) THEN From(b, at[i] + 3) ELSE Trimmed(SubSeq(b, at[i] + 3, at[i + 1] - 1))]
Stapa(sps, pps) == <<120>> \o BE(2, Len(sps)) \o sps \o BE(2, Len(pps)) \o pps
H264_parameters(p, mtu) ==
    IF p.sps = <<>> \/ p.pps = <<>> THEN p
    ELSE [sps |-> <<>>, pps |-> <<>>,
          out |-> IF Len(Stapa(p.sps, p.pps)) <= mtu THEN Append(p.out, Stapa(p.sps, p.pps)) ELSE p.out]
Fua(nalu, cuts) ==
    [i \in 1 .. Len(cuts) |->
        <<FUA_NALU_TYPE + 32 * ((nalu[1] \div 32) % 4),
          (nalu[1] % 32) + IF i = 1 THEN 128 ELSE IF i = Len(cuts) THEN 64 ELSE 0>> \o cuts[i]]
H264_fragments(p, nalu, mtu) ==
    IF Len(nalu) <= mtu THEN [p EXCEPT !.out = Append(@, nalu)]
    ELSE IF MinOf(mtu - 2, Len(nalu) - 1) <= 0 THEN p
    ELSE [p EXCEPT !.out = @ \o Fua(nalu, Cuts(mtu - 2, From(nalu, 2)))]
H264_emit(p, nalu, mtu) ==
    CASE nalu = <<>> -> p
      [] nalu # <<>> /\ nalu[1] % 32 \in {9, 12} -> p
      [] nalu # <<>> /\ nalu[1] % 32 = 7 -> [p EXCEPT !.sps = nalu]
      [] nalu # <<>> /\ nalu[1] % 32 = 8 -> [p EXCEPT !.pps = nalu]
      [] OTHER -> H264_fragments(H264_parameters(p, mtu), nalu, mtu)
H264_emitted(p, nalus, mtu) ==
    LET upto[i \in 0 .. Len(nalus)] == IF i = 0 THEN p ELSE H264_emit(upto[i - 1], nalus[i], mtu) IN upto[Len(nalus)]
H264_result(p) == Paid([sps |-> p.sps, pps |-> p.pps], p.out)
H264Payloader(st, mtu, b) ==
    IF b = <<>> \/ mtu = 0 THEN Paid(st, <<>>)
    ELSE H264_result(H264_emitted(st @@ [out |-> <<>>], H264_units(b, Occurrences(b, <<0, 0, 1>>)), mtu))

Delimited(is_avc, nalu) == (IF is_avc THEN BE(4, Len(nalu)) ELSE ANNEXB_NALUSTART_CODE) \o nalu
\* the units of an aggregation packet; the second octet of a length is read unchecked
Stapa_next(is_avc, p) ==
    IF Len(p.b) = 1 THEN [p EXCEPT !.out = "panic"]
    ELSE IF Len(p.b) < 2 + Num(Upto(p.b, 2)) THEN [p EXCEPT !.out = "err"]
    ELSE [p EXCEPT !.b = From(@, 3 + Num(Upto(p.b, 2))), !.v = @ \o Delimited(is_avc, SubSeq(p.b, 3, 2 + Num(Upto(p.b, 2))))]
Stapa_read(is_avc, b) ==
    LET RECURSIVE after(_)
        after(p) == IF p.out # "ok" \/ p.b = <<>> THEN p ELSE after(Stapa_next(is_avc, p))
    IN  after(NoneYet(b))
Stapa_units(st, p) == IF p.out # "ok" THEN Rejected(st, p.out) ELSE Returned(st, p.v)
Fua_read(st, is_avc, p, collected) ==
    IF Bit(p[2], 6) = 0 THEN Returned([st EXCEPT !.fua = collected], <<>>)
    ELSE Returned([st EXCEPT !.fua = <<>>], Delimited(is_avc, <<32 * ((p[1] \div 32) % 4) + (p[2] % 32)>> \o collected))
H264Packet(st, is_avc, p) ==
    IF Len(p) <= 1 \/ (Len(p) <= 2 /\ p[1] % 32 # 9) THEN Rejected(st, "err")
    ELSE CASE p[1] % 32 \in 1 .. 23          -> Returned(st, Delimited(is_avc, p))
           [] p[1] % 32 = STAPA_NALU_TYPE    -> Stapa_units(st, Stapa_read(is_avc, From(p, 2)))
           [] p[1] % 32 = FUA_NALU_TYPE      -> Fua_read(st, is_avc, p, st.fua \o From(p, 3))
           [] OTHER -> Rejected(st, "err")

(***************************************************************************)
(* H.265.                                                                   *)
(***************************************************************************)
nalu_type(n) == (n[1] \div 2) % 64
layer_id(n) == 32 * (n[1] % 2) + (n[2] \div 8)
tid(n) == n[2] % 8
f_bit(n) == n[1] \div 128
H265NALUHeader(f, type, layer, t) == BE(2, f * 32768 + type * 512 + layer * 8 + t)
Least(ns) == CHOOSE x \in ns : \A y \in ns : x <= y
aggregation_payload_header(nalus) ==
    H265NALUHeader(IF \E i \in 1 .. Len(nalus) : f_bit(nalus[i]) = 1 THEN 1 ELSE 0, 48,
                   Least({layer_id(nalus[i]) : i \in 1 .. Len(nalus)}), Least({tid(nalus[i]) : i \in 1 .. Len(nalus)}))
fragmentation_payload_header(n) == H265NALUHeader(f_bit(n), 49, layer_id(n), tid(n))
fu_header(type, first, last) == type + IF first THEN 128 ELSE IF last THEN 64 ELSE 0
\* start codes of four octets, or of three when there is none of four
Hevc_cut(b, at, n) == [i \in 1 .. Len(at) |-> SubSeq(b, at[i] + n, IF i = Len(at) THEN Len(b) ELSE at[i + 1] - 1)]
Hevc_parse(b) ==
    IF Occurrences(b, <<0, 0, 0, 1>>) # <<>> THEN Hevc_cut(b, Occurrences(b, <<0, 0, 0, 1>>), 4)
    ELSE Hevc_cut(b, Occurrences(b, <<0, 0, 1>>), 3)
Hevc_aggregate(nalus) ==
    aggregation_payload_header(nalus) \o Joined([i \in 1 .. Len(nalus) |-> BE(2, Len(nalus[i])) \o nalus[i]])
flush_aggregation_buffer(p, mtu) ==
    CASE p.held = <<>> -> p
      [] Len(p.held) = 1 -> [out |-> p.out \o p.held, held |-> <<>>]
      [] OTHER -> [out |-> IF Len(Hevc_aggregate(p.held)) <= mtu THEN Append(p.out, Hevc_aggregate(p.held)) ELSE p.out,
                   held |-> <<>>]
Hevc_fragments(nalu, cuts) ==
    [i \in 1 .. Len(cuts) |->
        fragmentation_payload_header(nalu) \o <<fu_header(nalu_type(nalu), i = 1, i = Len(cuts))>> \o cuts[i]]
Hevc_emit(p, nalu, mtu) ==
    IF nalu = <<>> \/ nalu_type(nalu) >= 48 THEN p
    ELSE IF Len(nalu) <= mtu THEN [p EXCEPT !.out = Append(@, nalu)]
    ELSE IF MinOf(mtu - 3, Len(nalu) - 2) <= 0 THEN p
    ELSE [p EXCEPT !.out = @ \o Hevc_fragments(nalu, Cuts(mtu - 3, From(nalu, 3)))]
Held_size(nalus) == SumOf([i \in 1 .. Len(nalus) |-> 2 + Len(nalus[i])])
Hevc_hold(p, nalu) == [p EXCEPT !.held = Append(@, nalu)]
Hevc_next(p, nalu, mtu) ==
    CASE Len(nalu) < 2 -> p
      [] Len(nalu) >= 2 /\ nalu_type(nalu) \in 48 .. 50 -> p
      [] Len(nalu) >= 2 /\ nalu_type(nalu) \notin 48 .. 50 /\ Len(nalu) > mtu ->
            Hevc_emit(flush_aggregation_buffer(p, mtu), nalu, mtu)
      [] OTHER -> Hevc_hold(IF p.held # <<>> /\ 2 + Held_size(p.held) + 2 + Len(nalu) > mtu
                            THEN flush_aggregation_buffer(p, mtu) ELSE p, nalu)
Hevc_all(p, nalus, mtu) ==
    LET upto[i \in 0 .. Len(nalus)] == IF i = 0 THEN p ELSE Hevc_next(upto[i - 1], nalus[i], mtu) IN upto[Len(nalus)]
Hevc_parsed(nalus, mtu, b) ==
    IF nalus = <<>> THEN Hevc_emit([out |-> <<>>, held |-> <<>>], b, mtu)
    ELSE flush_aggregation_buffer(Hevc_all([out |-> <<>>, held |-> <<>>], nalus, mtu), mtu)
HevcPayloader(mtu, b) == IF b = <<>> \/ mtu = 0 THEN <<>> ELSE Hevc_parsed(Hevc_parse(b), mtu, b).out

\* what the depacketizer makes of a payload
H265Unit(kind, units, fu) == [kind |-> kind, units |-> units, fu |-> fu]
H265SingleNALUnitPacket(donl, p) ==
    IF donl /\ Len(p) <= 4 THEN Rejected(0, "err")
    ELSE Returned(0, H265Unit("single", <<Upto(p, 2) \o From(p, IF donl THEN 5 ELSE 3)>>, <<>>))
\* the units after the first: a unit that does not fit ends the packet silently
Units_next(donl, p) ==
    IF Len(p.b) < donl + 2 \/ Len(p.b) < donl + 2 + Num(SubSeq(p.b, donl + 1, donl + 2)) THEN [p EXCEPT !.b = <<>>]
    ELSE [p EXCEPT !.b = From(@, donl + 3 + Num(SubSeq(p.b, donl + 1, donl + 2))),
                   !.v = Append(@, SubSeq(p.b, donl + 3, donl + 2 + Num(SubSeq(p.b, donl + 1, donl + 2))))]
Units_read(donl, b) ==
    LET RECURSIVE after(_)
        after(p) == IF p.b = <<>> THEN p ELSE after(Units_next(donl, p))
    IN  after(NoneYet(b)).v
Aggregated(first, others) ==
    IF others = <<>> THEN Rejected(0, "err") ELSE Returned(0, H265Unit("aggregation", <<first>> \o others, <<>>))
Aggregation_first(donl, b, n) ==
    IF Len(b) < 2 + n THEN Rejected(0, "err")
    ELSE Aggregated(SubSeq(b, 3, 2 + n), Units_read(IF donl THEN 1 ELSE 0, From(b, 3 + n)))
H265AggregationPacket(donl, p) ==
    LET b == From(p, IF donl THEN 5 ELSE 3)
    IN  IF Len(p) < 4 \/ Len(b) < 2 THEN Rejected(0, "err") ELSE Aggregation_first(donl, b, Num(Upto(b, 2)))
H265FragmentationUnitPacket(donl, p) ==
    IF Len(p) <= 3 \/ (donl /\ Bit(p[3], 7) = 1 /\ Len(p) <= 5) THEN Rejected(0, "err")
    ELSE Returned(0, H265Unit("fragment", <<From(p, IF donl /\ Bit(p[3], 7) = 1 THEN 6 ELSE 4)>>, Upto(p, 3)))
phs_size(p) == 16 * (p[3] % 2) + (p[4] \div 16)
H265PACIPacket(p) ==
    IF Len(p) <= 4 \/ Len(p) - 4 < phs_size(p) + 1 THEN Rejected(0, "err")
    ELSE Returned(0, H265Unit("paci", <<From(p, 5 + phs_size(p))>>, SubSeq(p, 5, 4 + phs_size(p))))
H265Packet(donl, p) ==
    IF Len(p) <= 2 \/ f_bit(p) = 1 THEN Rejected(0, "err")
    ELSE CASE nalu_type(p) = 50 -> H265PACIPacket(p)
           [] nalu_type(p) = 49 -> H265FragmentationUnitPacket(donl, p)
           [] nalu_type(p) = 48 -> H265AggregationPacket(donl, p)
           [] OTHER -> H265SingleNALUnitPacket(donl, p)

(***************************************************************************)
(* AV1.                                                                     *)
(***************************************************************************)
put_leb128(n) ==
    LET RECURSIVE digits(_)
        digits(x) == IF x < 128 THEN <<x>> ELSE <<128 + (x % 128)>> \o digits(x \div 128)
    IN  digits(n)
leb128_size(n) == Len(put_leb128(n))
decode_leb128(b) == LET upto[i \in 0 .. Len(b)] == IF i = 0 THEN 0 ELSE upto[i - 1] + (b[i] % 128) * 128 ^ (i - 1) IN upto[Len(b)]
read_leb128(b) ==
    LET ends == {i \in 1 .. Len(b) : b[i] < 128}
        n == IF ends = {} THEN 0 ELSE Least(ends)
    IN  [n |-> decode_leb128(Upto(b, n)), size |-> n]

obu_type(h) == (h \div 8) % 16
obu_has_extension(h) == Bit(h, 2) = 1
obu_has_size(h) == Bit(h, 1) = 1
header_size(h) == IF obu_has_extension(h) THEN 2 ELSE 1
should_ignore_obu_type(t) == t \in {2, 8, 15}
Obu(h, ext, body) == [header |-> h, ext |-> ext, payload |-> body, size |-> header_size(h) + Len(body)]
Obu_kept(p, h, ext, body, used) ==
    [p EXCEPT !.b = From(@, used + 1), !.v = IF should_ignore_obu_type(obu_type(h)) THEN @ ELSE Append(@, Obu(h, ext, body))]
Obu_sized(p, h, ext, n, leb) == Obu_kept(p, h, ext, SubSeq(p.b, n + leb.size + 1, n + leb.size + leb.n), n + leb.size + leb.n)
Obu_next(p, h, n) ==
    IF Len(p.b) < n \/ (obu_has_size(h) /\ Len(p.b) = n) THEN [p EXCEPT !.out = "err"]
    ELSE IF ~obu_has_size(h) THEN Obu_kept(p, h, IF n = 2 THEN p.b[2] ELSE 0, From(p.b, n + 1), Len(p.b))
    ELSE Obu_sized(p, h, IF n = 2 THEN p.b[2] ELSE 0, n, read_leb128(From(p.b, n + 1)))
parse_obus(b) ==
    LET RECURSIVE after(_)
        after(p) == IF p.out # "ok" \/ p.b = <<>> THEN p ELSE after(Obu_next(p, p.b[1], header_size(p.b[1])))
    IN  after(NoneYet(b))

MAX_NUM_OBUS_TO_OMIT_SIZE == 3
PacketMetadata(first, n, offset, last) == [first |-> first, n |-> n, offset |-> offset, last |-> last, size |-> last]
additional_bytes_for_previous_obu_element(k) ==
    IF k.size = 0 \/ k.n > MAX_NUM_OBUS_TO_OMIT_SIZE THEN 0 ELSE leb128_size(k.last)
max_fragment_size(left) ==
    LET RECURSIVE fit(_)
        fit(i) == IF left < 128 ^ i + i THEN left - i ELSE fit(i + 1)
    IN  IF left <= 1 THEN 0 ELSE fit(1)
\* the packets of the rest of an element after its first fragment
Continuations(index, size, offset, max) ==
    LET count == (size - offset + max - 1) \div max
    IN  [i \in 1 .. count |->
            PacketMetadata(index, 1, offset + (i - 1) * max, IF i = count THEN size - offset - (i - 1) * max ELSE max)]
Rest_of(done, k, index, size, first, max) ==
    [packets |-> Append(done, k) \o Continuations(index, size, first, max),
     left |-> max - (size - first - (((size - first - 1) \div max) * max))]
Split_at(done, k, extra, must, index, size, first, max) ==
    Rest_of(done,
            IF first = 0 THEN [k EXCEPT !.n = @ - 1, !.size = @ - extra]
            ELSE [k EXCEPT !.size = @ + first + (IF must THEN leb128_size(first) ELSE 0), !.last = first],
            index, size, first, max)
Fitted(done, k, left, extra, must, index, size, max) ==
    LET required == size + IF must THEN leb128_size(size) ELSE 0
    IN  IF required < left
        THEN [packets |-> Append(done, [k EXCEPT !.last = size, !.size = @ + required]), left |-> left - required]
        ELSE Split_at(done, k, extra, must, index, size, MinOf(size - 1, IF must THEN max_fragment_size(left) ELSE left), max)
Element(done, k, left, extra, index, size, max) ==
    Fitted(done, [k EXCEPT !.size = @ + extra, !.n = @ + 1], left - extra, extra,
           k.n + 1 > MAX_NUM_OBUS_TO_OMIT_SIZE, index, size, max)
Packetize_with(p, k, extra, index, size, max) ==
    IF p.left < extra + (IF k.n >= MAX_NUM_OBUS_TO_OMIT_SIZE THEN 2 ELSE 1)
    THEN Element(p.packets, PacketMetadata(index, 0, 0, 0), max, 0, index, size, max)
    ELSE Element(SubSeq(p.packets, 1, Len(p.packets) - 1), k, p.left, extra, index, size, max)
Packetize_next(p, k, index, size, max) ==
    Packetize_with(p, k, additional_bytes_for_previous_obu_element(k), index, size, max)
packetize(obus, mtu) ==
    LET max == mtu - 1
        upto[i \in 0 .. Len(obus)] ==
            IF i = 0 THEN [packets |-> <<PacketMetadata(1, 0, 0, 0)>>, left |-> max]
            ELSE LET p == upto[i - 1] IN Packetize_next(p, p.packets[Len(p.packets)], i, obus[i].size, max)
    IN  IF obus = <<>> \/ mtu < 3 THEN <<>> ELSE upto[Len(obus)].packets
get_aggregation_header(obus, k, i) ==
    (IF k.offset > 0 THEN 128 ELSE 0)
      + (IF (IF k.n = 1 THEN k.offset ELSE 0) + k.last < obus[k.first + k.n - 1].size THEN 64 ELSE 0)
      + (IF k.n <= MAX_NUM_OBUS_TO_OMIT_SIZE THEN 16 * k.n ELSE 0)
      + (IF i = 1 /\ obu_type(obus[1].header) = 1 THEN 8 ELSE 0)
\* an element as it goes on the wire, without its size field
Unsized(o) == <<o.header - 2 * Bit(o.header, 1)>> \o (IF obu_has_extension(o.header) THEN <<o.ext>> ELSE <<>>) \o o.payload
Whole(o, offset) == put_leb128(o.size - offset) \o From(Unsized(o), offset + 1)
Last_element(o, offset, k) ==
    (IF k.n > MAX_NUM_OBUS_TO_OMIT_SIZE THEN put_leb128(k.last) ELSE <<>>) \o SubSeq(Unsized(o), offset + 1, offset + k.last)
Av1_payload(obus, k, i) ==
    <<get_aggregation_header(obus, k, i)>>
      \o Joined([j \in 1 .. k.n - 1 |-> Whole(obus[k.first + j - 1], IF j = 1 THEN k.offset ELSE 0)])
      \o Last_element(obus[k.first + k.n - 1], IF k.n = 1 THEN k.offset ELSE 0, k)
Av1_payloads(obus, ks) == [i \in 1 .. Len(ks) |-> Av1_payload(obus, ks[i], i)]
Av1_cut(p, mtu) == IF p.out # "ok" THEN <<>> ELSE Av1_payloads(p.v, packetize(p.v, mtu))
Av1Payloader(mtu, b) == Av1_cut(parse_obus(b), mtu)

\* the depacketizer: p holds what is left of the payload, the units returned,
\* the number of elements seen and the fragment kept for the next payload
Restored_size(o, n) == <<o[1] + 2>> \o (IF n = 2 THEN <<o[2]>> ELSE <<>>) \o put_leb128(Len(o) - n) \o From(o, n + 1)
Resized(p, o, n, leb) ==
    IF leb.size = 0 \/ Len(o) # n + leb.size + leb.n THEN [p EXCEPT !.out = "err"] ELSE [p EXCEPT !.v = @ \o o]
Av1_unit(p, o) ==
    IF o = <<>> \/ obu_type(o[1]) \in {2, 8} THEN p
    ELSE IF obu_has_size(o[1]) THEN Resized(p, o, header_size(o[1]), read_leb128(From(o, header_size(o[1]) + 1)))
    ELSE [p EXCEPT !.v = @ \o Restored_size(o, header_size(o[1]))]
Av1_moved(p, last) == IF last THEN [p EXCEPT !.done = TRUE] ELSE [p EXCEPT !.seen = @ + 1]
Av1_element(p, o, last, y) ==
    IF last /\ y THEN [p EXCEPT !.kept = o, !.done = TRUE] ELSE Av1_moved(Av1_unit(p, o), last)
Av1_taken(p, n, last, z, y) ==
    IF n > Len(p.b) THEN [p EXCEPT !.out = "err"]
    ELSE IF p.seen = 0 /\ z /\ p.kept = <<>> THEN Av1_moved([p EXCEPT !.b = From(@, n + 1)], last)
    ELSE IF p.seen = 0 /\ z THEN Av1_element([p EXCEPT !.b = From(@, n + 1), !.kept = <<>>], p.kept \o Upto(p.b, n), last, y)
    ELSE Av1_element([p EXCEPT !.b = From(@, n + 1)], Upto(p.b, n), last, y)
Av1_sized(p, leb, w, z, y) ==
    IF leb.size = 0 THEN [p EXCEPT !.out = "err"]
    ELSE Av1_taken([p EXCEPT !.b = From(@, leb.size + 1)], leb.n, w = 0 /\ leb.size + leb.n = Len(p.b), z, y)
Av1_next(p, w, z, y) ==
    IF w = 0 \/ p.seen # w - 1 THEN Av1_sized(p, read_leb128(p.b), w, z, y) ELSE Av1_taken(p, Len(p.b), TRUE, z, y)
Av1_read(p0, w, z, y) ==
    LET RECURSIVE after(_)
        after(p) == IF p.out # "ok" \/ p.done \/ p.b = <<>> THEN p ELSE after(Av1_next(p, w, z, y))
    IN  after(p0)
Av1_result(p, w, y) ==
    IF p.out # "ok" \/ (w # 0 /\ p.seen # w - 1 /\ ~y) THEN Rejected(p.kept, "err") ELSE Returned(p.kept, p.v)
Av1Depacketizer(kept, p) ==
    IF Len(p) <= 1 THEN Rejected(kept, "err")
    ELSE LET z == Bit(p[1], 7) = 1
             y == Bit(p[1], 6) = 1
             w == (p[1] \div 16) % 4
         IN  Av1_result(Av1_read([b |-> From(p, 2), v |-> <<>>, seen |-> 0, done |-> FALSE, out |-> "ok",
                                  kept |-> IF Bit(p[1], 3) = 1 \/ ~z THEN <<>> ELSE kept], w, z, y), w, y)

-----------------------------------------------------------------------------
(***************************************************************************)
(* The RTCP packets of rtc-rtcp: what each Packet type writes               *)
(* (marshal_to), the size it declares (raw_size), and what                  *)
(* packet::unmarshal makes of the octets of a datagram.                     *)
(*                                                                          *)
(* A packet is a record with a field kind.  Every packet is written as a    *)
(* common header whose length field comes from the declared size, its body, *)
(* and padding up to a multiple of four.                                    *)
(***************************************************************************)

COUNT_MAX == 31

PacketType ==
    [sr |-> 200, rr |-> 201, sdes |-> 202, bye |-> 203, nack |-> 205, rrr |-> 205, tcc |-> 205,
     ccfb |-> 205, sli |-> 205, pli |-> 206, remb |-> 206, fir |-> 206, xr |-> 207]
Format == [nack |-> 1, rrr |-> 5, tcc |-> 15, ccfb |-> 11, pli |-> 1, sli |-> 2, remb |-> 15, fir |-> 4]

HeaderItems == <<Bits(<< <<"version", 2>>, <<"padding", 1>>, <<"count", 5>> >>), U(1, "type"), U(2, "length")>>

Versioned(h) == IF h.version # 2 THEN NoValue("err") ELSE Value(h)
Header_unmarshal(b) == IF Len(b) < 4 THEN NoValue("err") ELSE Versioned(Get(HeaderItems, Reader(b), "panic").v)

get_padding_size(len) == PadTo(4, len)
put_padding(len) ==
    LET n == get_padding_size(len) IN [i \in 1 .. n |-> IF i = n THEN n ELSE 0]

(***************************************************************************)
(* Reports.                                                                 *)
(***************************************************************************)
ReceptionReport ==
    <<Need(24), U(4, "ssrc"), U(1, "fraction_lost"), U(3, "total_lost"), U(4, "last_sequence_number"),
      U(4, "jitter"), U(4, "last_sender_report"), U(4, "delay")>>
SenderReport ==
    <<Need(24), U(4, "ssrc"), Raw(8, "ntp_time"), U(4, "rtp_time"), U(4, "packet_count"),
      U(4, "octet_count"), List("reports", "count", ReceptionReport), Rest("profile_extensions")>>
SenderReport_size(p) == 4 + 24 + 24 * Len(p.reports) + Len(p.profile_extensions)
ReceiverReport ==
    <<Need(4), U(4, "ssrc"), List("reports", "count", ReceptionReport), Rest("profile_extensions")>>
ReceiverReport_size(p) == 4 + 4 + 24 * Len(p.reports) + Len(p.profile_extensions)

(***************************************************************************)
(* Source descriptions: chunks of items, each chunk ended by a zero octet   *)
(* and aligned on its own.                                                  *)
(***************************************************************************)
SourceDescriptionItem == <<U(1, "sdes_type"), Vec(1, "text")>>
SdesItem_size(it) == 1 + 1 + Len(it.text)
SdesChunk_size(c) == 4 + SumOf([i \in 1 .. Len(c.items) |-> SdesItem_size(c.items[i])]) + 1
SdesChunk_put(c) ==
    BE(4, c.source) \o PutAll(SourceDescriptionItem, c.items) \o <<0>> \o put_padding(SdesChunk_size(c))
SdesItem_get(b) ==
    IF Len(b) < 1 THEN Fails(Reader(b), "err")
    ELSE IF b[1] \notin 1 .. 8
    THEN [b |-> Tail(b), v |-> [sdes_type |-> 0, text |-> <<>>], out |-> "ok"]
    ELSE IF Len(b) < 2 THEN Fails(Reader(b), "err")
    ELSE Get(SourceDescriptionItem, Reader(b), "panic")
\* one more item of a chunk: "more" until its end is found
SdesItem_after(p, r) ==
    IF r.out # "ok" THEN [p EXCEPT !.out = r.out]
    ELSE IF r.v.sdes_type # 0
    THEN [p EXCEPT !.b = r.b, !.offset = @ + SdesItem_size(r.v), !.items = Append(@, r.v)]
    ELSE IF Len(r.b) < get_padding_size(p.offset + 1) THEN [p EXCEPT !.out = "err"]
    ELSE [p EXCEPT !.b = From(r.b, get_padding_size(p.offset + 1) + 1), !.out = "ok"]
SdesChunk_end(b, p) ==
    IF p.out # "ok" THEN Fails(Reader(b), "err")
    ELSE [b |-> p.b, v |-> [source |-> Num(Upto(b, 4)), items |-> p.items], out |-> "ok"]
SdesChunk_get(b) ==
    LET RECURSIVE after(_)
        after(p) ==
            IF p.out # "more" \/ p.offset >= Len(b) THEN p
            ELSE after(SdesItem_after(p, SdesItem_get(p.b)))
    IN  IF Len(b) < 4 + 1 THEN Fails(Reader(b), "err")
        ELSE SdesChunk_end(b, after([b |-> From(b, 5), offset |-> 4, items |-> <<>>, out |-> "more"]))
SourceDescription_size(p) ==
    4 + SumOf([i \in 1 .. Len(p.chunks) |->
                 SdesChunk_size(p.chunks[i]) + get_padding_size(SdesChunk_size(p.chunks[i]))])
SourceDescription_put(p) == Joined([i \in 1 .. Len(p.chunks) |-> SdesChunk_put(p.chunks[i])])
SourceDescription_end(h, p) ==
    IF p.out # "ok" THEN NoValue(p.out)
    ELSE IF Len(p.v) # h.count THEN NoValue("err") ELSE Value([chunks |-> p.v])
SourceDescription_get(h, b) ==
    LET RECURSIVE after(_)
        after(p) ==
            IF p.out # "ok" \/ p.b = <<>> THEN p ELSE after(Collected(p, SdesChunk_get(p.b)))
    IN  SourceDescription_end(h, after(NoneYet(b)))

(***************************************************************************)
(* Goodbye and the feedback messages.                                       *)
(***************************************************************************)
Source == <<U(4, "ssrc")>>
Goodbye == <<List("sources", "count", Source), Vec(1, "reason")>>
Goodbye_size(p) == 4 + 4 * Len(p.sources) + Len(p.reason) + 1
WithReason(r) == IF r.out # "ok" THEN NoValue(r.out) ELSE Value(r.v @@ [reason |-> <<>>])
Goodbye_get(h, b) ==
    IF get_padding_size(4 + Len(b)) # 0 \/ 4 * h.count > Len(b) THEN NoValue("err")
    ELSE WithReason(Get(IF 4 * h.count < Len(b) THEN Goodbye ELSE Upto(Goodbye, 1),
                        [Reader(b) EXCEPT !.v = [count |-> h.count]], "panic"))

NackPair == <<U(2, "packet_id"), U(2, "lost_packets")>>
TransportLayerNack == <<Need(12), U(4, "sender_ssrc"), U(4, "media_ssrc"), List("nacks", "", NackPair)>>
TransportLayerNack_size(p) == 4 + 8 + 4 * Len(p.nacks)

RapidResynchronizationRequest == <<Need(8), U(4, "sender_ssrc"), U(4, "media_ssrc")>>
RapidResynchronizationRequest_size(p) == 4 + 8
PictureLossIndication == <<Need(8), U(4, "sender_ssrc"), U(4, "media_ssrc")>>
PictureLossIndication_size(p) == 4 + 8

FirEntry == <<Need(8), U(4, "ssrc"), U(1, "sequence_number"), Zero(3)>>
FullIntraRequest == <<Need(16), U(4, "sender_ssrc"), U(4, "media_ssrc"), List("fir", "", FirEntry)>>
FullIntraRequest_size(p) == 4 + 8 + 8 * Len(p.fir)

SliEntry == <<Bits(<< <<"first", 13>>, <<"number", 13>>, <<"picture", 6>> >>)>>
SliceLossIndication == <<Need(8), U(4, "sender_ssrc"), U(4, "media_ssrc"), List("sli_entries", "", SliEntry)>>
SliceLossIndication_size(p) == 4 + 8 + 4 * Len(p.sli_entries)

\* The bitrate is a float; the model keeps the integers that one holds
\* exactly.  Mantissa 0 is read back through from_bits as 2^(exp + 23).
Remb_exponent(bitrate) == CHOOSE e \in 0 .. 31 : bitrate \div 2 ^ e < 2 ^ 18 /\ (e = 0 \/ bitrate \div 2 ^ (e - 1) >= 2 ^ 18)
ReceiverEstimatedMaximumBitrate ==
    <<Need(16), U(4, "sender_ssrc"), Lit(4, 0), Lit(1, 82), Lit(1, 69), Lit(1, 77), Lit(1, 66),
      U(1, "ssrcs_len"), Bits(<< <<"exp", 6>>, <<"mantissa", 18>> >>), List("ssrcs", "ssrcs_len", Source)>>
Remb_size(p) == 4 + 16 + 4 * Len(p.ssrcs)
Remb_put(p) ==
    LET e == Remb_exponent(p.bitrate)
    IN  Put(ReceiverEstimatedMaximumBitrate,
            [sender_ssrc |-> p.sender_ssrc, ssrcs_len |-> Len(p.ssrcs), exp |-> e,
             mantissa |-> p.bitrate \div 2 ^ e, ssrcs |-> p.ssrcs])
Bitrate(exp, mantissa) == IF mantissa = 0 THEN 2 ^ (exp + 23) ELSE mantissa * 2 ^ exp
Remb_value(r) ==
    IF r.out # "ok" THEN NoValue(r.out)
    ELSE Value([sender_ssrc |-> r.v.sender_ssrc, ssrcs |-> r.v.ssrcs, bitrate |-> Bitrate(r.v.exp, r.v.mantissa)])
Remb_get(b) ==
    IF Len(b) >= 16 /\ Len(b) < 16 + 4 * b[13] THEN NoValue("err")
    ELSE Remb_value(Get(ReceiverEstimatedMaximumBitrate, Reader(b), "panic"))

(***************************************************************************)
(* Transport-wide congestion control feedback.  The reader walks the status *)
(* chunks until it has accounted for packet_status_count packets, collects  *)
(* the deltas they announce, and reads those deltas after the chunks.       *)
(***************************************************************************)
NotReceived == 0
SmallDelta == 1
LargeDelta == 2
DELTA_SCALE == 250
\* division towards zero
Scaled(d) == IF d >= 0 THEN d \div DELTA_SCALE ELSE -((-d) \div DELTA_SCALE)

RunLengthChunk == <<Bits(<< <<"", 1>>, <<"symbol", 2>>, <<"run_length", 13>> >>)>>
StatusVectorChunk_put(c) ==
    LET w == <<1, c.size>> \o Joined([i \in 1 .. Len(c.symbols) |-> BitsOf(c.size + 1, c.symbols[i])])
    IN  Pack(w \o Zeros(16 - Len(w)))
StatusVectorChunk_get(b) ==
    LET w == Unpack(b)
    IN  [t |-> "vector", size |-> w[2],
         symbols |-> IF w[2] = 0 THEN From(w, 3) ELSE [i \in 1 .. 7 |-> 2 * w[2 * i + 1] + w[2 * i + 2]]]
PacketStatusChunk_put(c) ==
    IF c.t = "run" THEN Put(RunLengthChunk, c) ELSE StatusVectorChunk_put(c)
PacketStatusChunk_get(b) ==
    IF b[1] < 128 THEN [t |-> "run"] @@ Get(RunLengthChunk, Reader(b), "panic").v
    ELSE StatusVectorChunk_get(b)

RecvDelta_fits(d) ==
    \/ d.symbol = SmallDelta /\ Scaled(d.delta) \in 0 .. 255
    \/ d.symbol = LargeDelta /\ Scaled(d.delta) \in -32768 .. 32767
RecvDelta_put(d) ==
    IF d.symbol = SmallDelta THEN BE(1, Scaled(d.delta))
    ELSE BE(2, (Scaled(d.delta) + 65536) % 65536)
RecvDelta_get(symbol, b) ==
    LET n == IF symbol = SmallDelta THEN Num(b) ELSE IF Num(b) > 32767 THEN Num(b) - 65536 ELSE Num(b)
    IN  [symbol |-> symbol, delta |-> DELTA_SCALE * n]

TransportLayerCc ==
    <<U(4, "sender_ssrc"), U(4, "media_ssrc"), U(2, "base_sequence_number"), U(2, "packet_status_count"),
      U(3, "reference_time"), U(1, "fb_pkt_count")>>
TransportLayerCc_size(p) ==
    4 + 16 + 2 * Len(p.packet_chunks)
      + SumOf([i \in 1 .. Len(p.recv_deltas) |-> IF p.recv_deltas[i].symbol = SmallDelta THEN 1 ELSE 2])
TransportLayerCc_put(p) ==
    Put(TransportLayerCc, p)
       \o Joined([i \in 1 .. Len(p.packet_chunks) |-> PacketStatusChunk_put(p.packet_chunks[i])])
       \o Joined([i \in 1 .. Len(p.recv_deltas) |-> RecvDelta_put(p.recv_deltas[i])])

\* the symbols of the deltas a chunk announces, when left packets are not accounted for
Announced(c, left) ==
    LET carries(s) == s \in (IF c.t = "vector" /\ c.size = 0 THEN {SmallDelta} ELSE {SmallDelta, LargeDelta})
    IN  IF c.t = "run"
        THEN IF carries(c.symbol)
             THEN [i \in 1 .. (IF c.run_length < left THEN c.run_length ELSE left) |-> c.symbol] ELSE <<>>
        ELSE SelectSeq(c.symbols, carries)
\* the chunks from pos on, until all packets are accounted for
ChunkAfter(p, c) ==
    [p EXCEPT !.pos = @ + 2, !.left = @ - (IF c.t = "run" THEN c.run_length ELSE Len(c.symbols)),
              !.chunks = Append(@, c), !.symbols = @ \o Announced(c, p.left)]
StatusChunks(b, total, count) ==
    LET RECURSIVE after(_)
        after(p) ==
            IF p.out # "ok" \/ p.left <= 0 THEN p
            ELSE IF p.pos + 2 >= total THEN [p EXCEPT !.out = "err"]
            ELSE after(ChunkAfter(p, PacketStatusChunk_get(SubSeq(b, p.pos + 1, p.pos + 2))))
    IN  after([pos |-> 16, left |-> count, chunks |-> <<>>, symbols |-> <<>>, out |-> "ok"])
\* the deltas, each of the width its symbol announces
RecvDeltas(b, total, pos, symbols) ==
    LET width(i) == IF symbols[i] = SmallDelta THEN 1 ELSE 2
        at[i \in 1 .. Len(symbols) + 1] == IF i = 1 THEN pos ELSE at[i - 1] + width(i - 1)
    IN  IF \E i \in 1 .. Len(symbols) : at[i] >= total THEN NoValue("err")
        ELSE Value([i \in 1 .. Len(symbols) |->
                      IF at[i + 1] > Len(b) THEN RecvDelta_get(SmallDelta, From(b, at[i] + 1))
                      ELSE RecvDelta_get(symbols[i], SubSeq(b, at[i] + 1, at[i + 1]))])
TccValue(fields, p, ds) ==
    IF p.out # "ok" THEN NoValue(p.out)
    ELSE IF ds.out # "ok" THEN NoValue(ds.out)
    ELSE Value(fields @@ [packet_chunks |-> p.chunks, recv_deltas |-> ds.v])
TccParts(b, total, fields, p) == TccValue(fields, p, RecvDeltas(b, total, p.pos, p.symbols))
TccBody(b, total, fields) == TccParts(b, total, fields, StatusChunks(b, total, fields.packet_status_count))
TransportLayerCc_get(h, b) ==
    IF Len(b) < 4 \/ 4 * h.length < 16 \/ Len(b) < 4 * h.length THEN NoValue("err")
    ELSE TccBody(b, 4 * h.length, Get(TransportLayerCc, Reader(b), "panic").v)

(***************************************************************************)
(* Congestion control feedback of RFC 8888.                                 *)
(***************************************************************************)
MetricBlock == <<Bits(<< <<"received", 1>>, <<"ecn", 2>>, <<"arrival_time_offset", 13>> >>)>>
Lost == [received |-> 0, ecn |-> 0, arrival_time_offset |-> 0]
Word(m) == IF m.received = 0 THEN Lost ELSE m
unmarshal_word(b) == Word(Get(MetricBlock, Reader(b), "panic").v)
padded_metric_block_count(n) == n + (n % 2)
CcReportBlock_size(r) == 8 + 2 * padded_metric_block_count(Len(r.metric_blocks))
CcReportBlock_put(r) ==
    BE(4, r.media_ssrc) \o BE(2, r.begin_sequence) \o BE(2, Len(r.metric_blocks))
       \o PutAll(MetricBlock, r.metric_blocks) \o Zeros(2 * (Len(r.metric_blocks) % 2))
CcReportBlock_metrics(b, budget, n, size) ==
    IF budget < size \/ Len(b) < size THEN Fails(Reader(b), "err")
    ELSE [b |-> From(b, size + 1), out |-> "ok",
          v |-> [media_ssrc |-> Num(Upto(b, 4)), begin_sequence |-> Num(SubSeq(b, 5, 6)),
                 metric_blocks |-> [i \in 1 .. n |-> unmarshal_word(SubSeq(b, 7 + 2 * i, 8 + 2 * i))]]]
CcReportBlock_of(b, budget, n) == CcReportBlock_metrics(b, budget, n, 8 + 2 * padded_metric_block_count(n))
CcReportBlock_get(b, budget) ==
    IF budget < 8 \/ Len(b) < 8 THEN Fails(Reader(b), "err")
    ELSE CcReportBlock_of(b, budget, Num(SubSeq(b, 7, 8)))
CcFeedbackReport_size(p) ==
    8 + SumOf([i \in 1 .. Len(p.report_blocks) |-> CcReportBlock_size(p.report_blocks[i])]) + 4
CcFeedbackReport_put(p) ==
    BE(4, p.sender_ssrc) \o Joined([i \in 1 .. Len(p.report_blocks) |-> CcReportBlock_put(p.report_blocks[i])])
       \o BE(4, p.report_timestamp)
CcFeedbackReport_end(b, p) ==
    IF p.out # "ok" THEN NoValue(p.out)
    ELSE IF Len(p.b) < 4 THEN NoValue("panic")
    ELSE Value([sender_ssrc |-> Num(Upto(b, 4)), report_blocks |-> p.v, report_timestamp |-> Num(Upto(p.b, 4))])
CcFeedbackReport_get(h, b) ==
    LET end == Len(b) - (4 * h.length - 4)      \* octets after the report blocks
        RECURSIVE after(_)
        after(p) ==
            IF p.out # "ok" \/ Len(p.b) <= end THEN p
            ELSE after(Collected(p, CcReportBlock_get(p.b, Len(p.b) - end)))
    IN  IF Len(b) < 8 \/ Len(b) < 4 * h.length \/ 4 * h.length < 8 THEN NoValue("err")
        ELSE CcFeedbackReport_end(b, after(NoneYet(From(b, 5))))

(***************************************************************************)
(* Extended reports: blocks, each with its own type and length in words.    *)
(***************************************************************************)
BlockType == [loss_rle |-> 1, duplicate_rle |-> 2, prt |-> 3, rrt |-> 4, dlrr |-> 5, ssr |-> 6, vm |-> 7, unknown |-> 0]
XRHeader == <<Need(4), U(1, "type"), U(1, "type_specific"), U(2, "block_length")>>

ReceiptTime == <<U(4, "time")>>
RleChunk == <<U(2, "chunk")>>
RLEReportBlock == <<Need(8), U(4, "ssrc"), U(2, "begin_seq"), U(2, "end_seq"), List("chunks", "", RleChunk)>>
PacketReceiptTimesReportBlock ==
    <<Need(8), U(4, "ssrc"), U(2, "begin_seq"), U(2, "end_seq"), List("receipt_time", "", ReceiptTime)>>
ReceiverReferenceTimeReportBlock == <<Need(8), Raw(8, "ntp_timestamp")>>
DLRRReport == <<U(4, "ssrc"), U(4, "last_rr"), U(4, "dlrr")>>
DLRRReportBlock == <<List("reports", "", DLRRReport)>>
StatisticsSummaryReportBlock ==
    <<Need(36), U(4, "ssrc"), U(2, "begin_seq"), U(2, "end_seq"), U(4, "lost_packets"), U(4, "dup_packets"),
      U(4, "min_jitter"), U(4, "max_jitter"), U(4, "mean_jitter"), U(4, "dev_jitter"), U(1, "min_ttl_or_hl"),
      U(1, "max_ttl_or_hl"), U(1, "mean_ttl_or_hl"), U(1, "dev_ttl_or_hl")>>
VoIPMetricsReportBlock ==
    <<Need(32), U(4, "ssrc"), U(1, "loss_rate"), U(1, "discard_rate"), U(1, "burst_density"), U(1, "gap_density"),
      U(2, "burst_duration"), U(2, "gap_duration"), U(2, "round_trip_delay"), U(2, "end_system_delay"),
      U(1, "signal_level"), U(1, "noise_level"), U(1, "rerl"), U(1, "gmin"), U(1, "rfactor"),
      U(1, "ext_rfactor"), U(1, "mos_lq"), U(1, "mos_cq"), U(1, "rx_config"), U(1, "reserved"),
      U(2, "jb_nominal"), U(2, "jb_maximum"), U(2, "jb_abs_max")>>
UnknownReportBlock == <<Rest("bytes")>>

Block ==
    [loss_rle |-> RLEReportBlock, duplicate_rle |-> RLEReportBlock, prt |-> PacketReceiptTimesReportBlock,
     rrt |-> ReceiverReferenceTimeReportBlock, dlrr |-> DLRRReportBlock,
     ssr |-> StatisticsSummaryReportBlock, vm |-> VoIPMetricsReportBlock, unknown |-> UnknownReportBlock]

\* raw_size of a block, its header included
RLEReportBlock_size(r) == 4 + 8 + 2 * Len(r.chunks)
PacketReceiptTimesReportBlock_size(r) == 4 + 8 + 4 * Len(r.receipt_time)
ReceiverReferenceTimeReportBlock_size == 4 + 8
DLRRReportBlock_size(r) == 4 + 12 * Len(r.reports)
StatisticsSummaryReportBlock_size == 4 + 36
VoIPMetricsReportBlock_size == 4 + 32
UnknownReportBlock_size(r) == 4 + Len(r.bytes)
Block_size(r) ==
    CASE r.kind \in {"loss_rle", "duplicate_rle"} -> RLEReportBlock_size(r)
      [] r.kind = "prt"  -> PacketReceiptTimesReportBlock_size(r)
      [] r.kind = "rrt"  -> ReceiverReferenceTimeReportBlock_size
      [] r.kind = "dlrr" -> DLRRReportBlock_size(r)
      [] r.kind = "ssr"  -> StatisticsSummaryReportBlock_size
      [] r.kind = "vm"   -> VoIPMetricsReportBlock_size
      [] r.kind = "unknown" -> UnknownReportBlock_size(r)

\* xr_header: the octet of the type and the length a block announces
Ssr_specific == <<Bits(<< <<"loss_reports", 1>>, <<"duplicate_reports", 1>>, <<"jitter_reports", 1>>,
                          <<"ttl_or_hop_limit", 2>>, <<"", 3>> >>)>>
Block_specific(r) ==
    CASE r.kind \in {"loss_rle", "duplicate_rle", "prt"} -> <<r.t % 16>>
      [] r.kind = "ssr" -> Put(Ssr_specific, r)
      [] OTHER -> <<0>>
Block_put(r) ==
    <<BlockType[r.kind]>> \o Block_specific(r) \o BE(2, Block_size(r) \div 4 - 1) \o Put(Block[r.kind], r)

\* what a block of length len (in octets) must satisfy
Block_accepts(kind, len) ==
    CASE kind \in {"loss_rle", "duplicate_rle", "prt"} -> len >= 8
      [] kind = "rrt"  -> len = 8
      [] kind = "dlrr" -> len % 12 = 0
      [] kind = "ssr"  -> len = 36
      [] kind = "vm"   -> len = 32
      [] kind = "unknown" -> TRUE
BlockKind(type) ==
    IF type \in 1 .. 7 THEN CHOOSE k \in DOMAIN BlockType : BlockType[k] = type ELSE "unknown"
Specific_get(kind, octet) ==
    IF kind \in {"loss_rle", "duplicate_rle", "prt"} THEN [t |-> octet % 16]
    ELSE IF kind = "ssr" THEN Get(Ssr_specific, Reader(<<octet>>), "panic").v
    ELSE NoFields
Block_value(kind, h, len, body) ==
    IF body.out # "ok" THEN body
    ELSE [b |-> From(h.b, len + 1), v |-> [kind |-> kind] @@ Specific_get(kind, h.v.type_specific) @@ body.v,
          out |-> "ok"]
Block_body(kind, h, len) ==
    IF ~Block_accepts(kind, len) \/ Len(h.b) < len THEN Fails(h, "err")
    ELSE Block_value(kind, h, len, Get(Block[kind], Reader(Upto(h.b, len)), "panic"))
Block_of(h) == IF h.out # "ok" THEN h ELSE Block_body(BlockKind(h.v.type), h, 4 * h.v.block_length)
Block_get(b) == Block_of(Get(XRHeader, Reader(b), "panic"))

ExtendedReport_size(p) == 4 + 4 + SumOf([i \in 1 .. Len(p.reports) |-> Block_size(p.reports[i])])
ExtendedReport_put(p) ==
    BE(4, p.sender_ssrc) \o Joined([i \in 1 .. Len(p.reports) |-> Block_put(p.reports[i])])
ExtendedReport_end(b, p) ==
    IF p.out # "ok" THEN NoValue(p.out) ELSE Value([sender_ssrc |-> Num(Upto(b, 4)), reports |-> p.v])
ExtendedReport_get(b) ==
    LET RECURSIVE after(_)
        after(p) ==
            IF p.out # "ok" \/ p.b = <<>> THEN p
            ELSE IF Len(p.b) < 4 THEN [p EXCEPT !.out = "err"]
            ELSE after(Collected(p, Block_get(p.b)))
    IN  IF Len(b) < 4 THEN NoValue("err") ELSE ExtendedReport_end(b, after(NoneYet(From(b, 5))))

(***************************************************************************)
(* Every packet type, and a datagram of several packets.                    *)
(***************************************************************************)
raw_size(p) ==
    CASE p.kind = "sr"   -> SenderReport_size(p)
      [] p.kind = "rr"   -> ReceiverReport_size(p)
      [] p.kind = "sdes" -> SourceDescription_size(p)
      [] p.kind = "bye"  -> Goodbye_size(p)
      [] p.kind = "nack" -> TransportLayerNack_size(p)
      [] p.kind = "rrr"  -> RapidResynchronizationRequest_size(p)
      [] p.kind = "tcc"  -> TransportLayerCc_size(p)
      [] p.kind = "ccfb" -> CcFeedbackReport_size(p)
      [] p.kind = "pli"  -> PictureLossIndication_size(p)
      [] p.kind = "sli"  -> SliceLossIndication_size(p)
      [] p.kind = "remb" -> Remb_size(p)
      [] p.kind = "fir"  -> FullIntraRequest_size(p)
      [] p.kind = "xr"   -> ExtendedReport_size(p)
      [] p.kind = "raw"  -> Len(p.bytes)
marshal_size(p) == raw_size(p) + get_padding_size(raw_size(p))

Layout ==
    [sr |-> SenderReport, rr |-> ReceiverReport, nack |-> TransportLayerNack,
     rrr |-> RapidResynchronizationRequest, pli |-> PictureLossIndication, fir |-> FullIntraRequest,
     sli |-> SliceLossIndication, bye |-> Goodbye]
Body(p) ==
    CASE p.kind = "sdes" -> SourceDescription_put(p)
      [] p.kind = "tcc"  -> TransportLayerCc_put(p)
      [] p.kind = "ccfb" -> CcFeedbackReport_put(p)
      [] p.kind = "remb" -> Remb_put(p)
      [] p.kind = "xr"   -> ExtendedReport_put(p)
      [] p.kind = "bye"  -> PutAll(Source, p.sources) \o <<Len(p.reason)>> \o p.reason
      [] OTHER -> Put(Layout[p.kind], p)

\* what a packet type refuses to write
Refuses(p) ==
    \/ p.kind \in {"sr", "rr"} /\ (Len(p.reports) > COUNT_MAX
                                     \/ \E i \in 1 .. Len(p.reports) : p.reports[i].total_lost >= 2 ^ 25)
    \/ p.kind = "sdes" /\ (Len(p.chunks) > COUNT_MAX
                             \/ \E i \in 1 .. Len(p.chunks) : \E j \in 1 .. Len(p.chunks[i].items) :
                                  p.chunks[i].items[j].sdes_type = 0 \/ Len(p.chunks[i].items[j].text) > 255)
    \/ p.kind = "bye" /\ (Len(p.sources) > COUNT_MAX \/ Len(p.reason) > 255)
    \/ p.kind = "nack" /\ Len(p.nacks) + 2 > 255
    \/ p.kind = "tcc" /\ \E i \in 1 .. Len(p.recv_deltas) : ~RecvDelta_fits(p.recv_deltas[i])
    \/ p.kind = "ccfb" /\ \E i \in 1 .. Len(p.report_blocks) : Len(p.report_blocks[i].metric_blocks) > 16384

header(p) ==
    [version |-> 2, padding |-> IF get_padding_size(raw_size(p)) # 0 THEN 1 ELSE 0,
     count |-> CASE p.kind \in {"sr", "rr"} -> Len(p.reports)
                 [] p.kind = "sdes" -> Len(p.chunks)
                 [] p.kind = "bye" -> Len(p.sources)
                 [] p.kind = "xr" -> 0
                 [] OTHER -> Format[p.kind],
     type |-> PacketType[p.kind], length |-> marshal_size(p) \div 4 - 1]

RawPacket_put(p, h) ==
    IF h.out # "ok" THEN Err
    ELSE Ok(p.bytes \o (IF h.v.padding = 1 THEN put_padding(raw_size(p)) ELSE Zeros(get_padding_size(raw_size(p)))))
marshal_to(p) ==
    IF p.kind = "raw" THEN RawPacket_put(p, Header_unmarshal(p.bytes))
    ELSE IF Refuses(p) THEN Err
    ELSE Ok(Put(HeaderItems, header(p)) \o Body(p) \o put_padding(raw_size(p)))

FromLayout(kind, h, b) == Result(Get(Layout[kind], [Reader(b) EXCEPT !.v = [count |-> h.count]], "panic"))

\* the packet type a header stands for
Kind(h) ==
    CASE h.type = 200 -> "sr" [] h.type = 201 -> "rr" [] h.type = 202 -> "sdes" [] h.type = 203 -> "bye"
      [] h.type = 205 -> (CASE h.count = 1 -> "nack" [] h.count = 5 -> "rrr" [] h.count = 15 -> "tcc"
                            [] h.count = 11 -> "ccfb" [] OTHER -> "raw")
      [] h.type = 206 -> (CASE h.count = 1 -> "pli" [] h.count = 2 -> "sli" [] h.count = 15 -> "remb"
                            [] h.count = 4 -> "fir" [] OTHER -> "raw")
      [] h.type = 207 -> "xr"
      [] OTHER -> "raw"

Body_get(kind, h, b) ==
    CASE kind = "sdes" -> SourceDescription_get(h, b)
      [] kind = "bye"  -> Goodbye_get(h, b)
      [] kind = "tcc"  -> TransportLayerCc_get(h, b)
      [] kind = "ccfb" -> CcFeedbackReport_get(h, b)
      [] kind = "remb" -> Remb_get(b)
      [] kind = "xr"   -> ExtendedReport_get(b)
      [] kind = "sli"  -> NoValue("err")       \* it expects type 205
      [] kind = "raw"  -> Value([bytes |-> Put(HeaderItems, h) \o b])
      [] OTHER -> FromLayout(kind, h, b)
Packet_of(kind, rest, r) ==
    IF r.out # "ok" THEN Fails(Reader(<<>>), r.out)
    ELSE [b |-> rest, out |-> "ok",
          v |-> [f \in (DOMAIN r.v \ {"count"}) \cup {"kind"} |-> IF f = "kind" THEN kind ELSE r.v[f]]]
Packet_body(kind, h, b) ==
    Packet_of(kind, From(b, 4 * h.length + 5), Body_get(kind, h, SubSeq(b, 5, 4 * h.length + 4)))
Packet_header(b, h) ==
    IF h.out # "ok" \/ 4 * h.v.length > Len(b) - 4 THEN Fails(Reader(<<>>), "err")
    ELSE Packet_body(Kind(h.v), h.v, b)
unmarshaller(b) == Packet_header(b, Header_unmarshal(b))

unmarshal(datagram) ==
    LET RECURSIVE after(_)
        after(p) ==
            IF p.out # "ok" \/ p.b = <<>> THEN p ELSE after(Collected(p, unmarshaller(p.b)))
    IN  IF datagram = <<>> THEN NoValue("err") ELSE Result(after(NoneYet(datagram)))

\* CompoundPacket::validate: a report first, then reports, then a source
\* description with a CNAME
validate(ps) ==
    /\ ps # <<>> /\ ps[1].kind \in {"sr", "rr"}
    /\ \E i \in 2 .. Len(ps) :
          /\ \A j \in 2 .. (i - 1) : ps[j].kind = "rr"
          /\ ps[i].kind = "sdes"
          /\ \E c \in 1 .. Len(ps[i].chunks) : \E t \in 1 .. Len(ps[i].chunks[c].items) :
                ps[i].chunks[c].items[t].sdes_type = 1
CompoundPacket_size(m) == SumOf([i \in 1 .. Len(m.packets) |-> marshal_size(m.packets[i])])
Packets_put(rs) ==
    IF \E i \in 1 .. Len(rs) : rs[i].out # "ok" THEN Err ELSE Ok(Joined([i \in 1 .. Len(rs) |-> rs[i].b]))
CompoundPacket_marshal(m) ==
    IF ~validate(m.packets) THEN Err ELSE Packets_put([i \in 1 .. Len(m.packets) |-> marshal_to(m.packets[i])])
Compound_of(r) ==
    IF r.out # "ok" THEN NoValue(r.out) ELSE IF ~validate(r.v) THEN NoValue("err") ELSE Value(<< [packets |-> r.v] >>)

\* SliceLossIndication::unmarshal, which the dispatch above never calls
Sli_value(r) == IF r.out # "ok" THEN NoValue(r.out) ELSE Value(<< [kind |-> "sli"] @@ r.v >>)
Sli_body(b, h) ==
    IF h.out # "ok" \/ Len(b) < 4 + 4 * h.v.length THEN NoValue("err")
    ELSE IF h.v.type # PacketType["sli"] \/ h.v.count # Format["sli"] THEN NoValue("err")
    ELSE Sli_value(Get(SliceLossIndication, Reader(SubSeq(b, 5, 4 + 4 * h.v.length)), "panic"))
SliceLossIndication_unmarshal(b) == IF Len(b) < 12 THEN NoValue("err") ELSE Sli_body(b, Header_unmarshal(b))

-----------------------------------------------------------------------------
(***************************************************************************)
(* What the SRTP context puts around an RTP or RTCP packet and takes off    *)
(* again: the keys of the two sides cut from the keying material that the   *)
(* DTLS connection exports, the session keys derived from them, and the two *)
(* families of ciphers.  The rollover counter and the SRTCP index, on which *)
(* both ends agree (module Srtp), are parameters.                           *)
(***************************************************************************)

(***************************************************************************)
(* ProtectionProfile.                                                       *)
(***************************************************************************)
AesCm(key, tag) ==
    [aead |-> FALSE, key_len |-> key, salt_len |-> 14, rtp_auth_tag_len |-> tag, rtcp_auth_tag_len |-> 10,
     aead_auth_tag_len |-> 0, auth_key_len |-> 20]
AeadAesGcm(key) ==
    [aead |-> TRUE, key_len |-> key, salt_len |-> 12, rtp_auth_tag_len |-> 0, rtcp_auth_tag_len |-> 0,
     aead_auth_tag_len |-> 16, auth_key_len |-> 0]
ProtectionProfile ==
    [aes_128_cm_80 |-> AesCm(16, 10), aes_128_cm_32 |-> AesCm(16, 4), aes_256_cm_80 |-> AesCm(32, 10),
     aes_256_cm_32 |-> AesCm(32, 4), aead_aes_128_gcm |-> AeadAesGcm(16), aead_aes_256_gcm |-> AeadAesGcm(32)]

(***************************************************************************)
(* Keys.                                                                    *)
(***************************************************************************)
LABEL_EXTRACTOR_DTLS_SRTP == <<7>>
keying_material_len(p) == 2 * p.key_len + 2 * p.salt_len
Slice(m, at, n) == SubSeq(m, at + 1, at + n)
set_session_keys_from_keying_material(p, m, is_client) ==
    LET key(client) == Slice(m, IF client THEN 0 ELSE p.key_len, p.key_len)
        salt(client) == Slice(m, 2 * p.key_len + IF client THEN 0 ELSE p.salt_len, p.salt_len)
    IN  [local_master_key |-> key(is_client), local_master_salt |-> salt(is_client),
         remote_master_key |-> key(~is_client), remote_master_salt |-> salt(~is_client)]

\* external: one block of the block cipher
block_encrypt(key, block) == Digest(16, key \o block)
\* both derivations: the salt with the label in octet 7, a block counter at the end
Prf_in(label, salt, i) == [k \in 1 .. 16 |->
    CASE k = 8  -> Xor(salt[8], label)
      [] k = 15 -> i \div 256
      [] k = 16 -> i % 256
      [] k # 8 /\ k <= Len(salt) -> salt[k]
      [] OTHER -> 0]
aes_cm_key_derivation(label, key, salt, n) ==
    Upto(Joined([i \in 1 .. (n + 15) \div 16 |-> block_encrypt(key, Prf_in(label, salt, i - 1))]), n)
generate_counter(seq, roc, ssrc, salt) ==
    LET plain == Zeros(4) \o BE(4, ssrc) \o BE(4, roc) \o BE(2, seq) \o Zeros(2)
    IN  [i \in 1 .. 16 |-> IF i <= Len(salt) THEN Xor(plain[i], salt[i]) ELSE plain[i]]

\* the session keys for SRTP (labels from 0) or SRTCP (labels from 3)
Cm_new(p, key, salt, first) ==
    [key  |-> aes_cm_key_derivation(first, key, salt, p.key_len),
     auth |-> aes_cm_key_derivation(first + 1, key, salt, p.auth_key_len),
     salt |-> aes_cm_key_derivation(first + 2, key, salt, p.salt_len)]
Gcm_new(p, key, salt, first) ==
    [key  |-> aes_cm_key_derivation(first, key, salt, p.key_len), auth |-> <<>>,
     salt |-> aes_cm_key_derivation(first + 2, key, salt, p.salt_len)]
Cipher_new(p, key, salt, first) == IF p.aead THEN Gcm_new(p, key, salt, first) ELSE Cm_new(p, key, salt, first)

(***************************************************************************)
(* SRTP: the header travels in the clear.                                   *)
(***************************************************************************)
generate_srtp_auth_tag(k, b, roc) == Digest(20, k.auth \o b \o BE(4, roc))
Cm_rtp_tagged(p, k, b, roc) == b \o Upto(generate_srtp_auth_tag(k, b, roc), p.rtp_auth_tag_len)
Cm_encrypt_rtp(p, k, b, h, n, roc) ==
    Cm_rtp_tagged(p, k,
        Upto(b, n) \o Enciphered(From(b, n + 1), Keystream(k.key, generate_counter(h.sequence_number, roc, h.ssrc, k.salt), Len(b) - n)),
        roc)
Cm_decrypt_rtp(p, k, b, h, n, roc, at) ==
    IF From(b, at + 1) # Upto(generate_srtp_auth_tag(k, Upto(b, at), roc), p.rtp_auth_tag_len) \/ at < n THEN Err
    ELSE Ok(Upto(b, n) \o Deciphered(SubSeq(b, n + 1, at),
                                     Keystream(k.key, generate_counter(h.sequence_number, roc, h.ssrc, k.salt), at - n)))
rtp_initialization_vector(k, h, roc) ==
    LET plain == Zeros(2) \o BE(4, h.ssrc) \o BE(4, roc) \o BE(2, h.sequence_number)
    IN  [i \in 1 .. 12 |-> Xor(plain[i], k.salt[i])]
Gcm_encrypt_rtp(k, b, n, nonce) ==
    Upto(b, n) \o Enciphered(From(b, n + 1), Keystream(k.key, nonce, Len(b) - n))
               \o Tag(k.key, nonce, Upto(b, n), From(b, n + 1), 16)
Gcm_opened(k, nonce, aad, clear, plain, tag) ==
    IF Tag(k.key, nonce, aad, plain, 16) # tag THEN Err ELSE Ok(clear \o plain)
Gcm_decrypt_rtp(k, b, n, nonce) ==
    IF Len(b) < n + 16 THEN Err
    ELSE Gcm_opened(k, nonce, Upto(b, n), Upto(b, n),
                    Deciphered(SubSeq(b, n + 1, Len(b) - 16), Keystream(k.key, nonce, Len(b) - 16 - n)), From(b, Len(b) - 15))
encrypt_rtp_packet(p, k, m, roc, r) ==
    IF r.out # "ok" THEN r
    ELSE Ok(IF p.aead THEN Gcm_encrypt_rtp(k, r.b, Header_size(m), rtp_initialization_vector(k, m, roc))
            ELSE Cm_encrypt_rtp(p, k, r.b, m, Header_size(m), roc))
Opened_packet(h, b, r) ==
    IF r.out # "ok" THEN NoValue("err")
    ELSE Unpadded(h.v @@ [refused |-> FALSE], From(r.b, Len(b) - Len(h.b) + 1))
decrypt_rtp_packet(p, k, b, roc, h) ==
    IF h.out # "ok" THEN NoValue(h.out)
    ELSE IF Len(b) < Header_size(h.v) + p.rtp_auth_tag_len THEN NoValue("err")
    ELSE Opened_packet(h, b,
            IF p.aead THEN Gcm_decrypt_rtp(k, b, Header_size(h.v), rtp_initialization_vector(k, h.v, roc))
            ELSE Cm_decrypt_rtp(p, k, b, h.v, Header_size(h.v), roc, Len(b) - p.rtp_auth_tag_len))

(***************************************************************************)
(* SRTCP: eight octets in the clear; the index and the flag that says the   *)
(* rest is encrypted come after it.                                         *)
(***************************************************************************)
Flagged(index) == <<128 + index \div 2 ^ 24>> \o BE(3, index % 2 ^ 24)
Index_of(w) == ((w[1] % 128) * 2 ^ 24) + Num(From(w, 2))
Ssrc_of(b) == SubSeq(b, 5, 8)
generate_srtcp_auth_tag(k, b) == Digest(20, k.auth \o b)
Rtcp_counter(k, index, ssrc) == generate_counter(index % 65536, index \div 65536, Num(ssrc), k.salt)
Cm_rtcp_tagged(p, k, b) == b \o Upto(generate_srtcp_auth_tag(k, b), p.rtcp_auth_tag_len)
Cm_encrypt_rtcp(p, k, b, index) ==
    Cm_rtcp_tagged(p, k,
        Upto(b, 8) \o Enciphered(From(b, 9), Keystream(k.key, Rtcp_counter(k, index, Ssrc_of(b)), Len(b) - 8)) \o Flagged(index))
\* a packet whose flag is not set is passed on as it is
Cm_decrypt_rtcp(p, k, b, index, at) ==
    IF at < 8 THEN Err
    ELSE IF b[at + 1] < 128 THEN Ok(Upto(b, at))
    ELSE IF From(b, at + 5) # Upto(generate_srtcp_auth_tag(k, Upto(b, at + 4)), p.rtcp_auth_tag_len) THEN Err
    ELSE Ok(Upto(b, 8) \o Deciphered(SubSeq(b, 9, at), Keystream(k.key, Rtcp_counter(k, index, Ssrc_of(b)), at - 8)))
rtcp_initialization_vector(k, index, ssrc) ==
    LET plain == Zeros(2) \o ssrc \o Zeros(2) \o BE(4, index) IN [i \in 1 .. 12 |-> Xor(plain[i], k.salt[i])]
rtcp_additional_authenticated_data(b, index) == Upto(b, 8) \o Flagged(index)
Gcm_encrypt_rtcp(k, b, index, nonce) ==
    Upto(b, 8) \o Enciphered(From(b, 9), Keystream(k.key, nonce, Len(b) - 8))
               \o Tag(k.key, nonce, rtcp_additional_authenticated_data(b, index), From(b, 9), 16) \o Flagged(index)
Gcm_decrypt_rtcp(k, b, index, nonce) ==
    Gcm_opened(k, nonce, rtcp_additional_authenticated_data(b, index), Upto(b, 8),
               Deciphered(SubSeq(b, 9, Len(b) - 20), Keystream(k.key, nonce, Len(b) - 28)), SubSeq(b, Len(b) - 19, Len(b) - 4))
encrypt_rtcp(p, k, index, r) ==
    IF r.out # "ok" THEN r
    ELSE IF Len(r.b) < 8 \/ Header_unmarshal(r.b).out # "ok" THEN Err
    ELSE Ok(IF p.aead THEN Gcm_encrypt_rtcp(k, r.b, index, rtcp_initialization_vector(k, index, Ssrc_of(r.b)))
            ELSE Cm_encrypt_rtcp(p, k, r.b, index))
get_rtcp_index(p, b) == Index_of(Slice(b, Len(b) - p.rtcp_auth_tag_len - 4, 4))
decrypt_rtcp_at(p, k, b, index) ==
    IF p.aead THEN Gcm_decrypt_rtcp(k, b, index, rtcp_initialization_vector(k, index, Ssrc_of(b)))
    ELSE Cm_decrypt_rtcp(p, k, b, index, Len(b) - p.rtcp_auth_tag_len - 4)
decrypt_rtcp(p, k, b) ==
    IF Len(b) < 12 + p.rtcp_auth_tag_len + p.aead_auth_tag_len \/ Header_unmarshal(b).out # "ok" THEN Err
    ELSE decrypt_rtcp_at(p, k, b, get_rtcp_index(p, b))
=============================================================================
