---------------------------- MODULE WireTransport ----------------------------
(***************************************************************************)
(* What the transports under the media write: an SCTP association           *)
(* (rtc-sctp) and the messages that open data channels over it              *)
(* (rtc-datachannel); a DTLS connection (rtc-dtls), its records, handshake  *)
(* messages and hello extensions, the export of keying material and the     *)
(* protection of records.                                                   *)
(***************************************************************************)
EXTENDS Wire

(***************************************************************************)
(* The SCTP packets of rtc-sctp: the chunks and their parameters, what      *)
(* Packet::marshal writes, and what PartialDecode::unmarshal followed by    *)
(* finish makes of the octets.  A packet is its ports, its verification tag *)
(* and a sequence of chunks; a chunk and a parameter are records with a     *)
(* field kind.                                                              *)
(***************************************************************************)

CHUNK_HEADER_SIZE  == 4
PACKET_HEADER_SIZE == 12
get_padding_size(len) == (4 - (len % 4)) % 4

ChunkType ==
    [data |-> 0, init |-> 1, init_ack |-> 2, sack |-> 3, heartbeat |-> 4, heartbeat_ack |-> 5, abort |-> 6,
     shutdown |-> 7, shutdown_ack |-> 8, error |-> 9, cookie_echo |-> 10, cookie_ack |-> 11,
     shutdown_complete |-> 14, reconfig |-> 130, forward_tsn |-> 192]

(***************************************************************************)
(* Parameters: a type, the length of the whole and the value.               *)
(***************************************************************************)
ParamType ==
    [heartbeat_info |-> 1, state_cookie |-> 7, out_ssn_reset_req |-> 13, reconfig_resp |-> 16, random |-> 32770,
     chunk_list |-> 32771, req_hmac_algo |-> 32772, supported_ext |-> 32776, forward_tsn_supp |-> 49152]

ParamHeartbeatInfo       == <<Rest("heartbeat_information")>>
ParamStateCookie         == <<Rest("cookie")>>
ParamRandom              == <<Rest("random_data")>>
ParamChunkList           == <<Rest("chunk_types")>>
ParamSupportedExtensions == <<Rest("chunk_types")>>
ParamForwardTsnSupported == <<>>
ParamUnknown             == <<Rest("value")>>
Algorithm == <<U(2, "algorithm")>>
ParamRequestedHmacAlgorithm == <<List("available_algorithms", "", Algorithm)>>
StreamId == <<U(2, "id")>>
ParamOutgoingResetRequest ==
    <<U(4, "reconfig_request_sequence_number"), U(4, "reconfig_response_sequence_number"),
      U(4, "sender_last_tsn"), List("stream_identifiers", "", StreamId)>>
ParamReconfigResponse == <<U(4, "reconfig_response_sequence_number"), U(4, "result")>>

Param ==
    [heartbeat_info |-> ParamHeartbeatInfo, state_cookie |-> ParamStateCookie, random |-> ParamRandom,
     chunk_list |-> ParamChunkList, supported_ext |-> ParamSupportedExtensions,
     forward_tsn_supp |-> ParamForwardTsnSupported, req_hmac_algo |-> ParamRequestedHmacAlgorithm,
     out_ssn_reset_req |-> ParamOutgoingResetRequest, reconfig_resp |-> ParamReconfigResponse,
     unknown |-> ParamUnknown]

Param_value_length(p) ==
    CASE p.kind = "heartbeat_info" -> Len(p.heartbeat_information)
      [] p.kind = "state_cookie"   -> Len(p.cookie)
      [] p.kind = "random"         -> Len(p.random_data)
      [] p.kind \in {"chunk_list", "supported_ext"} -> Len(p.chunk_types)
      [] p.kind = "forward_tsn_supp"  -> 0
      [] p.kind = "req_hmac_algo"     -> 2 * Len(p.available_algorithms)
      [] p.kind = "out_ssn_reset_req" -> 12 + 2 * Len(p.stream_identifiers)
      [] p.kind = "reconfig_resp"     -> 8
      [] p.kind = "unknown"           -> Len(p.value)
Param_length(p) == 4 + Param_value_length(p)
Param_marshal(p) ==
    BE(2, IF p.kind = "unknown" THEN p.typ ELSE ParamType[p.kind]) \o BE(2, Param_length(p)) \o Put(Param[p.kind], p)

\* ParamHeader::unmarshal: the type and the octets of the value
ParamHeader_of(b, len) ==
    IF len < 4 \/ Len(b) < len THEN NoValue("err") ELSE Value([typ |-> Num(Upto(b, 2)), value |-> SubSeq(b, 5, len)])
ParamHeader_unmarshal(b) ==
    IF Len(b) < 4 THEN NoValue("err") ELSE ParamHeader_of(b, Num(SubSeq(b, 3, 4)))

\* ReconfigResult::from and the algorithms a peer may ask for
ReconfigResult(n) == IF n <= 6 THEN n ELSE 7
HmacAlgorithms == {1, 3}

Param_value(kind, typ, r) ==
    IF r.out # "ok" THEN NoValue(r.out)
    ELSE IF kind = "req_hmac_algo" /\ \E i \in 1 .. Len(r.v.available_algorithms) :
                r.v.available_algorithms[i].algorithm \notin HmacAlgorithms
    THEN NoValue("err")
    ELSE IF kind = "reconfig_resp"
    THEN Value([r.v EXCEPT !.result = ReconfigResult(@)] @@ [kind |-> kind])
    ELSE Value(r.v @@ IF kind = "unknown" THEN [kind |-> kind, typ |-> typ] ELSE [kind |-> kind])
Param_of(kind, h) ==
    IF h.out # "ok" THEN h
    ELSE IF kind = "out_ssn_reset_req" /\ (Len(h.v.value) < 12 \/ (Len(h.v.value) % 2) # 0) THEN NoValue("err")
    ELSE IF kind = "reconfig_resp" /\ Len(h.v.value) \notin {8, 16} THEN NoValue("err")
    ELSE Param_value(kind, h.v.typ,
                     Get(Param[kind],
                         Reader(IF kind = "req_hmac_algo" THEN Upto(h.v.value, 2 * (Len(h.v.value) \div 2)) ELSE h.v.value),
                         "panic"))
ParamKind(typ) ==
    IF \E k \in DOMAIN ParamType : ParamType[k] = typ THEN CHOOSE k \in DOMAIN ParamType : ParamType[k] = typ
    ELSE IF typ < 32768 THEN "unhandled" ELSE "unknown"
build_param_of(kind, b) == IF kind = "unhandled" THEN NoValue("err") ELSE Param_of(kind, ParamHeader_unmarshal(b))
build_param(b) == IF Len(b) < 4 THEN NoValue("err") ELSE build_param_of(ParamKind(Num(Upto(b, 2))), b)

\* parameters in a row: each padded to a multiple of four, but the last
Params_length(ps) ==
    SumOf([i \in 1 .. Len(ps) |->
             Param_length(ps[i]) + IF i # Len(ps) THEN get_padding_size(Param_length(ps[i])) ELSE 0])
Params_put(ps) ==
    Joined([i \in 1 .. Len(ps) |->
              Param_marshal(ps[i]) \o IF i # Len(ps) THEN Zeros(get_padding_size(Param_length(ps[i]))) ELSE <<>>])
Param_after(p, r) ==
    IF r.out # "ok" THEN [p EXCEPT !.out = r.out]
    ELSE [p EXCEPT !.b = From(@, Param_length(r.v) + get_padding_size(Param_length(r.v)) + 1), !.v = Append(@, r.v)]
\* INIT reads parameters while more than a parameter header is left
Params_get(b) ==
    LET RECURSIVE after(_)
        after(p) == IF p.out # "ok" \/ Len(p.b) <= 4 THEN p ELSE after(Param_after(p, build_param(p.b)))
    IN  after(NoneYet(b))

(***************************************************************************)
(* Chunks.                                                                  *)
(***************************************************************************)
ErrorCause == <<U(2, "code"), U(2, "len")>>
ErrorCause_length(e) == 4 + Len(e.raw)
ErrorCause_put(e) == BE(2, e.code) \o BE(2, ErrorCause_length(e)) \o e.raw
ErrorCause_of(b, h) ==
    IF h.len < 4 THEN Fails(Reader(b), "err")
    ELSE IF h.len > Len(b) THEN Fails(Reader(b), "panic")
    ELSE [b |-> From(b, h.len + 1), v |-> [code |-> h.code, raw |-> SubSeq(b, 5, h.len)], out |-> "ok"]
ErrorCause_get(b) ==
    IF Len(b) < 4 THEN Fails(Reader(b), "err") ELSE ErrorCause_of(b, Get(ErrorCause, Reader(b), "panic").v)
ErrorCauses_get(b) ==
    LET RECURSIVE after(_)
        after(p) == IF p.out # "ok" \/ Len(p.b) < 4 THEN p ELSE after(Collected(p, ErrorCause_get(p.b)))
    IN  after(NoneYet(b))

GapAckBlock == <<U(2, "start"), U(2, "end")>>
Tsn == <<U(4, "tsn")>>
ChunkSelectiveAck ==
    <<Need(12), U(4, "cumulative_tsn_ack"), U(4, "advertised_receiver_window_credit"), U(2, "gaps"), U(2, "dups"),
      List("gap_ack_blocks", "gaps", GapAckBlock), List("duplicate_tsn", "dups", Tsn)>>
ChunkForwardTsnStream == <<Need(4), U(2, "identifier"), U(2, "sequence")>>
ChunkForwardTsn == <<Need(4), U(4, "new_cumulative_tsn"), List("streams", "", ChunkForwardTsnStream)>>
ChunkPayloadData ==
    <<Need(12), U(4, "tsn"), U(2, "stream_identifier"), U(2, "stream_sequence_number"), U(4, "payload_type"),
      Rest("user_data")>>
PayloadFlags == <<Bits(<< <<"", 4>>, <<"immediate_sack", 1>>, <<"unordered", 1>>, <<"beginning_fragment", 1>>,
                          <<"ending_fragment", 1>> >>)>>
\* PayloadProtocolIdentifier::from
PayloadProtocolIdentifier(n) == IF n \in {50, 51, 53, 56, 57} THEN n ELSE 58
ChunkInit ==
    <<Need(16), U(4, "initiate_tag"), U(4, "advertised_receiver_window_credit"), U(2, "num_outbound_streams"),
      U(2, "num_inbound_streams"), U(4, "initial_tsn"), Rest("params")>>
ChunkShutdown == <<Need(4), U(4, "cumulative_tsn_ack")>>
ChunkCookieEcho == <<Rest("cookie")>>

Chunk_value_length(c) ==
    CASE c.kind = "data" -> 12 + Len(c.user_data)
      [] c.kind \in {"init", "init_ack"} -> 16 + Params_length(c.params)
      [] c.kind = "sack" -> 12 + 4 * Len(c.gap_ack_blocks) + 4 * Len(c.duplicate_tsn)
      [] c.kind = "heartbeat" -> SumOf([i \in 1 .. Len(c.params) |-> Param_length(c.params[i])])
      [] c.kind = "heartbeat_ack" -> Params_length(c.params)
      [] c.kind \in {"abort", "error"} ->
            SumOf([i \in 1 .. Len(c.error_causes) |-> ErrorCause_length(c.error_causes[i])])
      [] c.kind = "shutdown" -> 4
      [] c.kind = "cookie_echo" -> Len(c.cookie)
      [] c.kind = "forward_tsn" -> 4 + 4 * Len(c.streams)
      [] c.kind = "reconfig" -> Params_length(c.params)
      [] c.kind \in {"shutdown_ack", "shutdown_complete", "cookie_ack"} -> 0
Chunk_body(c) ==
    CASE c.kind = "data" -> Put(ChunkPayloadData, c)
      [] c.kind \in {"init", "init_ack"} -> Put(ChunkInit, [c EXCEPT !.params = Params_put(@)])
      [] c.kind = "sack" ->
            Put(ChunkSelectiveAck, c @@ [gaps |-> Len(c.gap_ack_blocks), dups |-> Len(c.duplicate_tsn)])
      [] c.kind = "heartbeat" -> Joined([i \in 1 .. Len(c.params) |-> Param_marshal(c.params[i])])
      [] c.kind \in {"heartbeat_ack", "reconfig"} -> Params_put(c.params)
      [] c.kind \in {"abort", "error"} ->
            Joined([i \in 1 .. Len(c.error_causes) |-> ErrorCause_put(c.error_causes[i])])
      [] c.kind = "shutdown" -> Put(ChunkShutdown, c)
      [] c.kind = "cookie_echo" -> Put(ChunkCookieEcho, c)
      [] c.kind = "forward_tsn" -> Put(ChunkForwardTsn, c)
      [] c.kind \in {"shutdown_ack", "shutdown_complete", "cookie_ack"} -> <<>>
ChunkHeader_put(c) ==
    <<ChunkType[c.kind]>> \o (IF c.kind = "data" THEN Put(PayloadFlags, c) ELSE <<0>>)
       \o BE(2, CHUNK_HEADER_SIZE + Chunk_value_length(c))
\* what a chunk refuses to write: an answer without its one heartbeat
\* parameter, a reconfiguration without a first parameter
Chunk_refuses(c) ==
    \/ c.kind = "heartbeat_ack" /\ (Len(c.params) # 1 \/ c.params[1].kind # "heartbeat_info")
    \/ c.kind = "reconfig" /\ c.params = <<>>
Chunk_put(c) == ChunkHeader_put(c) \o Chunk_body(c)

\* ChunkHeader::unmarshal: fewer than four octets after the value are its
\* padding, and must be zero
ChunkHeader_accepts(b, length) ==
    /\ length >= CHUNK_HEADER_SIZE /\ length <= Len(b)
    /\ Len(b) - length < 4 => \A i \in length + 1 .. Len(b) : b[i] = 0
ChunkHeader_unmarshal(b) ==
    IF Len(b) < CHUNK_HEADER_SIZE \/ ~ChunkHeader_accepts(b, Num(SubSeq(b, 3, 4))) THEN NoValue("err")
    ELSE Value([typ |-> b[1], flags |-> b[2], value_length |-> Num(SubSeq(b, 3, 4)) - 4])

ChunkKind(typ) ==
    IF \E k \in DOMAIN ChunkType : ChunkType[k] = typ THEN CHOOSE k \in DOMAIN ChunkType : ChunkType[k] = typ
    ELSE "none"

Fields(r, dropped) == [f \in DOMAIN r \ dropped |-> r[f]]
Payload_value(h, r) ==
    IF r.out # "ok" THEN r
    ELSE Value([r.v EXCEPT !.payload_type = PayloadProtocolIdentifier(@)]
                  @@ Get(PayloadFlags, Reader(<<h.flags>>), "panic").v)
Init_params(fields, p) ==
    IF p.out # "ok" THEN NoValue(p.out) ELSE Value([fields EXCEPT !.params = p.v])
Init_value(h, r) ==
    IF r.out # "ok" \/ h.flags # 0 THEN NoValue("err") ELSE Init_params(r.v, Params_get(r.v.params))
Sack_value(r) == IF r.out # "ok" THEN r ELSE Value(Fields(r.v, {"gaps", "dups"}))
Sack_fits(b) == Len(b) >= 12 /\ Len(b) >= 12 + 4 * Num(SubSeq(b, 9, 10)) + 4 * Num(SubSeq(b, 11, 12))
Heartbeat_value(r) ==
    IF r.out # "ok" THEN r ELSE IF r.v.kind # "heartbeat_info" THEN NoValue("err") ELSE Value([params |-> <<r.v>>])
Second(a, r) == IF r.out # "ok" THEN r ELSE Value([params |-> <<a, r.v>>])
Reconfig_rest(a, b) == IF b = <<>> THEN Value([params |-> <<a>>]) ELSE Second(a, build_param(b))
Reconfig_value(b, r) ==
    IF r.out # "ok" THEN r
    ELSE Reconfig_rest(r.v, From(b, Param_length(r.v) + get_padding_size(Param_length(r.v)) + 1))
Causes_value(p) == IF p.out # "ok" THEN NoValue(p.out) ELSE Value([error_causes |-> p.v])

\* the value of a chunk, from the octets after its header; a HEARTBEAT-ACK has no reader
Chunk_value(kind, h, b) ==
    CASE kind = "data" -> Payload_value(h, Get(ChunkPayloadData, Reader(b), "panic"))
      [] kind \in {"init", "init_ack"} -> Init_value(h, Get(ChunkInit, Reader(b), "panic"))
      [] kind = "sack" -> IF Sack_fits(b) THEN Sack_value(Get(ChunkSelectiveAck, Reader(b), "panic")) ELSE NoValue("err")
      [] kind = "heartbeat" -> IF b = <<>> THEN NoValue("err") ELSE Heartbeat_value(build_param(b))
      [] kind \in {"abort", "error"} -> Causes_value(ErrorCauses_get(b))
      [] kind = "shutdown" -> IF Len(b) # 4 THEN NoValue("err") ELSE Result(Get(ChunkShutdown, Reader(b), "panic"))
      [] kind = "cookie_echo" -> Result(Get(ChunkCookieEcho, Reader(b), "panic"))
      [] kind = "forward_tsn" -> Result(Get(ChunkForwardTsn, Reader(b), "panic"))
      [] kind = "reconfig" -> Reconfig_value(b, build_param(b))
      [] kind \in {"shutdown_ack", "shutdown_complete", "cookie_ack"} -> Value(NoFields)
      [] kind \in {"heartbeat_ack", "none"} -> NoValue("err")

\* check_packet and ChunkInit::check
ChunkInit_check(c) ==
    c.initiate_tag # 0 /\ c.num_inbound_streams # 0 /\ c.num_outbound_streams # 0
      /\ c.advertised_receiver_window_credit >= 1500
check_packet(p) ==
    /\ p.source_port # 0 /\ p.destination_port # 0
    /\ (\E i \in 1 .. Len(p.chunks) : p.chunks[i].kind = "init") => Len(p.chunks) = 1 /\ p.verification_tag = 0

(***************************************************************************)
(* Packets.                                                                 *)
(***************************************************************************)
CommonHeader == <<U(2, "source_port"), U(2, "destination_port"), U(4, "verification_tag")>>

\* the crc32c crate: a number that the octets determine, prefixes included
crc32c(b) ==
    LET sum[i \in 1 .. Len(b), j \in 1 .. Len(b)] ==
            IF i = j THEN (b[i] + 1) * (i * i + 7)
            ELSE LET m == (i + j) \div 2 IN sum[i, m] + sum[m + 1, j]
    IN  sum[1, Len(b)] % 2 ^ 24
generate_packet_checksum(b) == crc32c(Upto(b, 8) \o Zeros(4) \o From(b, 13))

marshaled_len(p) ==
    PACKET_HEADER_SIZE
      + SumOf([i \in 1 .. Len(p.chunks) |->
                 4 + Chunk_value_length(p.chunks[i]) + get_padding_size(4 + Chunk_value_length(p.chunks[i]))])
Chunks_put(cs) ==
    Joined([i \in 1 .. Len(cs) |-> Chunk_put(cs[i]) \o Zeros(get_padding_size(4 + Chunk_value_length(cs[i])))])
Checked(head, body) == head \o LE(4, crc32c(head \o Zeros(4) \o body)) \o body
marshal(p) ==
    IF \E i \in 1 .. Len(p.chunks) : Chunk_refuses(p.chunks[i]) THEN Err
    ELSE Ok(Checked(Put(CommonHeader, p), Chunks_put(p.chunks)))

\* slice_chunk, and the reader the type octet selects; the next chunk
\* starts where the size of what was read says it does
Chunk_next(kind, b, r) ==
    IF r.out # "ok" THEN Fails(Reader(b), r.out)
    ELSE LET c == r.v @@ [kind |-> kind]
         IN  [b |-> From(b, 4 + Chunk_value_length(c) + get_padding_size(Chunk_value_length(c)) + 1), v |-> c, out |-> "ok"]
Chunk_header(b, chunk, h) ==
    IF h.out # "ok" THEN Fails(Reader(b), "err")
    ELSE Chunk_next(ChunkKind(h.v.typ), b, Chunk_value(ChunkKind(h.v.typ), h.v, From(chunk, 5)))
Chunk_slice(b, length) ==
    IF length < CHUNK_HEADER_SIZE \/ length > Len(b) THEN Fails(Reader(b), "err")
    ELSE Chunk_header(b, Upto(b, length), ChunkHeader_unmarshal(Upto(b, length)))
slice_chunk(b) ==
    IF Len(b) < CHUNK_HEADER_SIZE THEN Fails(Reader(b), "err") ELSE Chunk_slice(b, Num(SubSeq(b, 3, 4)))
finish(head, b) ==
    LET RECURSIVE after(_)
        after(p) == IF p.out # "ok" \/ p.b = <<>> THEN p ELSE after(Collected(p, slice_chunk(p.b)))
        packet(p) == IF p.out # "ok" THEN NoValue(p.out) ELSE Value(<<head @@ [chunks |-> p.v]>>)
    IN  packet(after(NoneYet(b)))

\* PartialDecode::unmarshal: the checksum, and the first chunk's header, of
\* which an INIT must go on with its tag
PartialDecode(b, h) ==
    IF h.out # "ok" THEN NoValue("err")
    ELSE IF ChunkKind(h.v.typ) \in {"init", "init_ack"} /\ Len(b) < 20 THEN NoValue("panic")
    ELSE finish(Get(CommonHeader, Reader(b), "panic").v, From(b, 13))
unmarshal(b) ==
    IF Len(b) < PACKET_HEADER_SIZE \/ Num(Reversed(SubSeq(b, 9, 12))) # generate_packet_checksum(b)
       \/ Len(b) < PACKET_HEADER_SIZE + CHUNK_HEADER_SIZE
    THEN NoValue("err")
    ELSE PartialDecode(b, ChunkHeader_unmarshal(From(b, 13)))

\* what the association takes from a datagram: a packet that passes the checks
Checks(r) ==
    IF r.out # "ok" THEN r
    ELSE IF /\ check_packet(r.v[1])
            /\ \A i \in 1 .. Len(r.v[1].chunks) :
                 r.v[1].chunks[i].kind \in {"init", "init_ack"} => ChunkInit_check(r.v[1].chunks[i])
    THEN r ELSE NoValue("err")
handle_inbound(b) == Checks(unmarshal(b))

-----------------------------------------------------------------------------
(***************************************************************************)
(* The messages that open data channels, as rtc-datachannel writes and      *)
(* reads them on an SCTP stream.                                            *)
(***************************************************************************)

MessageType == [data_channel_close |-> 1, data_channel_ack |-> 2, data_channel_open |-> 3]
ChannelType ==
    [reliable |-> 0, partial_reliable_rexmit |-> 1, partial_reliable_timed |-> 2, reliable_unordered |-> 128,
     partial_reliable_rexmit_unordered |-> 129, partial_reliable_timed_unordered |-> 130]
CHANNEL_OPEN_HEADER_LEN == 11

\* the lengths of label and protocol come before both
DataChannelOpen == <<Need(CHANNEL_OPEN_HEADER_LEN), U(1, "channel_type"), U(2, "priority"), U(4, "reliability_parameter"),
                     U(2, "label_len"), U(2, "protocol_len")>>
DataChannelOpen_size(m) == CHANNEL_OPEN_HEADER_LEN + Len(m.label) + Len(m.protocol)
DataChannelOpen_marshal(m) ==
    Put(DataChannelOpen,
        [channel_type |-> ChannelType[m.channel_type], priority |-> m.priority, reliability_parameter |-> m.reliability_parameter,
         label_len |-> Len(m.label), protocol_len |-> Len(m.protocol)])
      \o m.label \o m.protocol
ChannelOpened(p, channel_type) ==
    Value(<< [kind |-> "data_channel_open", channel_type |-> channel_type, priority |-> p.v.priority,
              reliability_parameter |-> p.v.reliability_parameter, label |-> Upto(p.b, p.v.label_len),
              protocol |-> SubSeq(p.b, p.v.label_len + 1, p.v.label_len + p.v.protocol_len)] >>)
DataChannelOpen_unmarshal(p) ==
    IF \/ p.out # "ok"
       \/ ~\E t \in DOMAIN ChannelType : ChannelType[t] = p.v.channel_type
       \/ Len(p.b) < p.v.label_len + p.v.protocol_len
    THEN NoValue("err")
    ELSE ChannelOpened(p, CHOOSE t \in DOMAIN ChannelType : ChannelType[t] = p.v.channel_type)

ChannelMessage_size(m) == 1 + IF m.kind = "data_channel_open" THEN DataChannelOpen_size(m) ELSE 0
ChannelMessage_marshal(m) ==
    Ok(<<MessageType[m.kind]>> \o IF m.kind = "data_channel_open" THEN DataChannelOpen_marshal(m) ELSE <<>>)
ChannelMessage_unmarshal(b) ==
    CASE b = <<>> -> NoValue("err")
      [] b # <<>> /\ b[1] = MessageType.data_channel_open ->
            DataChannelOpen_unmarshal(Get(DataChannelOpen, Reader(From(b, 2)), "panic"))
      [] b # <<>> /\ b[1] = MessageType.data_channel_ack -> Value(<< [kind |-> "data_channel_ack"] >>)
      [] b # <<>> /\ b[1] = MessageType.data_channel_close -> Value(<< [kind |-> "data_channel_close"] >>)
      [] OTHER -> NoValue("err")

(***************************************************************************)
(* The DTLS records of rtc-dtls: the record layer, its four contents, the   *)
(* handshake messages and the hello extensions.  A datagram is a sequence   *)
(* of records; unpack_datagram splits it, RecordLayer::unmarshal reads each.*)
(* Every reader works on the Read trait, so a short read is an error.       *)
(***************************************************************************)

RECORD_LAYER_HEADER_SIZE == 13
Known(S, other, n) == IF n \in S THEN n ELSE other

\* a count of two-octet entries, written as the number of octets
Doubled(f) == Bits(<< <<f, 15>>, <<"", 1>> >>)

HashAlgorithm(n)         == Known({0, 1, 2, 3, 4, 5, 6, 8}, 9, n)
SignatureAlgorithm(n)    == Known({1, 3, 7}, 8, n)
NamedCurve(n)            == Known({23, 24, 29}, 0, n)
SrtpProtectionProfile(n) == Known({1, 2, 7, 8}, 9, n)
ClientCertificateType(n) == Known({1, 64}, 65, n)
EllipticCurveType(n)     == Known({3}, 4, n)
CipherSuiteId(n) ==
    Known({49324, 49326, 49195, 49199, 49162, 49172, 49316, 49320, 168, 52392, 52393}, 52394, n)
AlertLevel(n)       == Known({1, 2}, 3, n)
AlertDescription(n) == Known({0, 10, 20, 21, 22, 30} \cup 40 .. 51 \cup {60, 70, 71, 80, 90, 100, 110, 115}, 116, n)

SignatureHashAlgorithm == <<U(1, "hash"), U(1, "signature")>>
Algorithms(s) ==
    [i \in 1 .. Len(s) |-> [hash |-> HashAlgorithm(s[i].hash), signature |-> SignatureAlgorithm(s[i].signature)]]

(***************************************************************************)
(* Hello extensions: a value, the length of the rest and the rest, which    *)
(* every reader but the one of the renegotiation information skips.         *)
(***************************************************************************)
ExtensionValue ==
    [server_name |-> 0, supported_elliptic_curves |-> 10, supported_point_formats |-> 11,
     supported_signature_algorithms |-> 13, use_srtp |-> 14, use_extended_master_secret |-> 23,
     renegotiation_info |-> 65281]

Curve   == <<U(2, "id")>>
Profile == <<U(2, "id")>>
ExtensionServerName == <<Zero(2), Lit(1, 0), Vec(2, "server_name")>>
ExtensionSupportedEllipticCurves == <<Doubled("count"), List("elliptic_curves", "count", Curve)>>
ExtensionSupportedPointFormats   == <<Vec(1, "point_formats")>>
ExtensionSupportedSignatureAlgorithms ==
    <<Doubled("count"), List("signature_hash_algorithms", "count", SignatureHashAlgorithm)>>
ExtensionUseSrtp == <<Doubled("count"), List("protection_profiles", "count", Profile), Zero(1)>>
ExtensionUseExtendedMasterSecret == <<>>
ExtensionRenegotiationInfo == <<U(1, "renegotiated_connection")>>
ExtensionLayout ==
    [server_name |-> ExtensionServerName, supported_elliptic_curves |-> ExtensionSupportedEllipticCurves,
     supported_point_formats |-> ExtensionSupportedPointFormats,
     supported_signature_algorithms |-> ExtensionSupportedSignatureAlgorithms, use_srtp |-> ExtensionUseSrtp,
     use_extended_master_secret |-> ExtensionUseExtendedMasterSecret,
     renegotiation_info |-> ExtensionRenegotiationInfo]

\* the length an extension announces, and its size()
Extension_length(e) ==
    CASE e.kind = "server_name"                    -> 2 + 1 + 2 + Len(e.server_name)
      [] e.kind = "supported_elliptic_curves"      -> 2 + 2 * Len(e.elliptic_curves)
      [] e.kind = "supported_point_formats"        -> 1 + Len(e.point_formats)
      [] e.kind = "supported_signature_algorithms" -> 2 + 2 * Len(e.signature_hash_algorithms)
      [] e.kind = "use_srtp"                       -> 2 + 1 + 2 * Len(e.protection_profiles)
      [] e.kind = "use_extended_master_secret"     -> 0
      [] e.kind = "renegotiation_info"             -> 1
Extension_size(e) == 2 + 2 + Extension_length(e)
Extension_count(e) ==
    CASE e.kind = "supported_elliptic_curves"      -> Len(e.elliptic_curves)
      [] e.kind = "supported_signature_algorithms" -> Len(e.signature_hash_algorithms)
      [] e.kind = "use_srtp"                       -> Len(e.protection_profiles)
      [] OTHER -> 0
\* the list of names is written with its own length
ServerNameList(e, b) == BE(2, Len(e.server_name) + 3) \o From(b, 3)
Extension_body(e, b) == IF e.kind = "server_name" THEN ServerNameList(e, b) ELSE b
Extension_marshal(e) ==
    BE(2, ExtensionValue[e.kind]) \o BE(2, Extension_length(e))
      \o Extension_body(e, Put(ExtensionLayout[e.kind], e @@ [count |-> Extension_count(e)]))

Extension_fields(kind, v) ==
    CASE kind = "supported_elliptic_curves" ->
            [elliptic_curves |-> [i \in 1 .. Len(v.elliptic_curves) |-> [id |-> NamedCurve(v.elliptic_curves[i].id)]]]
      [] kind = "supported_signature_algorithms" ->
            [signature_hash_algorithms |-> Algorithms(v.signature_hash_algorithms)]
      [] kind = "use_srtp" ->
            [protection_profiles |->
               [i \in 1 .. Len(v.protection_profiles) |-> [id |-> SrtpProtectionProfile(v.protection_profiles[i].id)]]]
      [] OTHER -> v
Extension_read(kind, r) ==
    IF r.out # "ok" THEN NoValue("err") ELSE Value(Extension_fields(kind, r.v) @@ [kind |-> kind])
Extension_of(kind, b) ==
    IF kind = "none" \/ (kind = "renegotiation_info" /\ SubSeq(b, 3, 4) # <<0, 1>>) THEN NoValue("err")
    ELSE Extension_read(kind, Get(ExtensionLayout[kind], Reader(From(b, 5)), "err"))
ExtensionKind(n) ==
    IF \E k \in DOMAIN ExtensionValue : ExtensionValue[k] = n
    THEN CHOOSE k \in DOMAIN ExtensionValue : ExtensionValue[k] = n ELSE "none"

\* the loop of the two hellos: an extension that cannot be read is skipped
Extension_after(p, r) ==
    [p EXCEPT !.b = IF 4 + Num(SubSeq(p.b, 3, 4)) >= Len(p.b) THEN <<>> ELSE From(@, 5 + Num(SubSeq(p.b, 3, 4))),
              !.v = IF r.out = "ok" THEN Append(@, r.v) ELSE @]
Extensions_get(b) ==
    LET RECURSIVE after(_)
        after(p) ==
            IF p.out # "ok" \/ p.b = <<>> THEN p
            ELSE IF Len(p.b) < 4 THEN Fails(p, "err")
            ELSE after(Extension_after(p, Extension_of(ExtensionKind(Num(Upto(p.b, 2))), p.b)))
    IN  after(NoneYet(b))
Extensions_size(es) == SumOf([i \in 1 .. Len(es) |-> Extension_size(es[i])])
Extensions_put(es)  == Joined([i \in 1 .. Len(es) |-> Extension_marshal(es[i])])

(***************************************************************************)
(* Handshake messages.                                                      *)
(***************************************************************************)
HandshakeType ==
    [hello_request |-> 0, client_hello |-> 1, server_hello |-> 2, hello_verify_request |-> 3, certificate |-> 11,
     server_key_exchange |-> 12, certificate_request |-> 13, server_hello_done |-> 14, certificate_verify |-> 15,
     client_key_exchange |-> 16, finished |-> 20]

HANDSHAKE_RANDOM_LENGTH == 32
HandshakeRandom == <<U(4, "gmt_unix_time"), Raw(28, "random_bytes")>>
Version == <<U(1, "major"), U(1, "minor")>>
CipherSuite == <<U(2, "id")>>
ClientHello ==
    Version \o HandshakeRandom
      \o <<Zero(1), Vec(1, "cookie"), Doubled("suites"), List("cipher_suites", "suites", CipherSuite),
           Vec(1, "compression_methods"), Vec(2, "extensions")>>
ServerHello ==
    Version \o HandshakeRandom \o <<Vec(1, "session_id"), U(2, "cipher_suite"), U(1, "compression_method"), Vec(2, "extensions")>>
HelloVerifyRequest == Version \o <<U(1, "cookie_length"), Rest("cookie")>>
CertificateEntry == <<Vec(3, "der")>>
Certificate == <<Until(3, "certificate", CertificateEntry)>>
\* the reader counts the octets of the entries it has taken, and takes the
\* last one whole
Certificate_get(b, size) ==
    LET RECURSIVE after(_)
        after(p) ==
            IF p.out # "ok" \/ Len(b) - Len(p.b) >= size THEN p
            ELSE after(Collected(p, GetFlat(CertificateEntry, Reader(p.b), "err")))
    IN  after(NoneYet(b))
Certificate_of(p) == IF p.out # "ok" THEN NoValue("err") ELSE Value([certificate |-> p.v])
CertificateType == <<U(1, "id")>>
CertificateRequest ==
    <<U(1, "types"), List("certificate_types", "types", CertificateType), Doubled("count"),
      List("signature_hash_algorithms", "count", SignatureHashAlgorithm)>>
CertificateVerify == SignatureHashAlgorithm \o <<Vec(2, "signature_octets")>>
ServerKeyExchange ==
    <<U(1, "elliptic_curve_type"), U(2, "named_curve"), Vec(1, "public_key"), U(1, "hash"), U(1, "signature"),
      Vec(2, "signature_octets")>>
Psk == <<Vec(2, "identity_hint")>>

Message_size(m) ==
    CASE m.kind = "client_hello" ->
            2 + HANDSHAKE_RANDOM_LENGTH + 1 + 1 + Len(m.cookie) + 2 + 2 * Len(m.cipher_suites)
              + 1 + Len(m.compression_methods) + 2 + Extensions_size(m.extensions)
      [] m.kind = "server_hello" -> 2 + HANDSHAKE_RANDOM_LENGTH + 1 + 2 + 1 + 2 + Extensions_size(m.extensions)
      [] m.kind = "hello_verify_request" -> 3 + Len(m.cookie)
      [] m.kind = "certificate" ->
            3 + SumOf([i \in 1 .. Len(m.certificate) |-> 3 + Len(m.certificate[i].der)])
      [] m.kind = "server_key_exchange" ->
            IF m.identity_hint # <<>> THEN 2 + Len(m.identity_hint)
            ELSE 1 + 2 + 1 + Len(m.public_key) + 2 + 2 + Len(m.signature_octets)
      [] m.kind = "certificate_request" -> 1 + Len(m.certificate_types) + 2 + 2 * Len(m.signature_hash_algorithms) + 2
      [] m.kind = "server_hello_done" -> 0
      [] m.kind = "certificate_verify" -> 4 + Len(m.signature_octets)
      [] m.kind = "client_key_exchange" ->
            IF m.public_key # <<>> THEN 1 + Len(m.public_key) ELSE 2 + Len(m.identity_hint)
      [] m.kind = "finished" -> Len(m.verify_data)
Message_marshal(m) ==
    CASE m.kind = "client_hello" ->
            Put(ClientHello, [m EXCEPT !.extensions = Extensions_put(@)] @@ [suites |-> Len(m.cipher_suites)])
      [] m.kind = "server_hello" ->
            Put(ServerHello, [m EXCEPT !.extensions = Extensions_put(@)] @@ [session_id |-> <<>>])
      [] m.kind = "hello_verify_request" -> Put(HelloVerifyRequest, m @@ [cookie_length |-> Len(m.cookie)])
      [] m.kind = "certificate" -> Put(Certificate, m)
      [] m.kind = "server_key_exchange" -> IF m.identity_hint # <<>> THEN Put(Psk, m) ELSE Put(ServerKeyExchange, m)
      [] m.kind = "certificate_request" ->
            Put(CertificateRequest, m @@ [types |-> Len(m.certificate_types), count |-> Len(m.signature_hash_algorithms)])
              \o <<0, 0>>
      [] m.kind = "server_hello_done" -> <<>>
      [] m.kind = "certificate_verify" -> Put(CertificateVerify, m)
      [] m.kind = "client_key_exchange" -> IF m.public_key # <<>> THEN <<Len(m.public_key)>> \o m.public_key ELSE Put(Psk, m)
      [] m.kind = "finished" -> m.verify_data
\* a cookie of more than 255 octets, a key exchange with both secrets or none
Message_refuses(m) ==
    \/ m.kind \in {"client_hello", "hello_verify_request"} /\ Len(m.cookie) > 255
    \/ m.kind = "client_key_exchange" /\ ((m.identity_hint = <<>>) <=> (m.public_key = <<>>))

Hello_of(fields, p) == IF p.out # "ok" THEN NoValue("err") ELSE Value([fields EXCEPT !.extensions = p.v])
ClientHello_of(v) ==
    [major |-> v.major, minor |-> v.minor, gmt_unix_time |-> v.gmt_unix_time, random_bytes |-> v.random_bytes,
     cookie |-> v.cookie, extensions |-> <<>>,
     cipher_suites |-> [i \in 1 .. Len(v.cipher_suites) |-> [id |-> CipherSuiteId(v.cipher_suites[i].id)]],
     compression_methods |-> SelectSeq(v.compression_methods, LAMBDA id : id = 0)]
ServerHello_of(v) ==
    [major |-> v.major, minor |-> v.minor, gmt_unix_time |-> v.gmt_unix_time, random_bytes |-> v.random_bytes,
     cipher_suite |-> CipherSuiteId(v.cipher_suite), compression_method |-> Known({0}, 1, v.compression_method),
     extensions |-> <<>>]
HelloVerifyRequest_of(v) ==
    IF Len(v.cookie) < v.cookie_length THEN NoValue("err")
    ELSE Value([major |-> v.major, minor |-> v.minor, cookie |-> v.cookie])
CertificateRequest_of(v) ==
    [certificate_types |->
       [i \in 1 .. Len(v.certificate_types) |-> [id |-> ClientCertificateType(v.certificate_types[i].id)]],
     signature_hash_algorithms |-> Algorithms(v.signature_hash_algorithms)]
Signed(v) == [v EXCEPT !.hash = HashAlgorithm(@), !.signature = SignatureAlgorithm(@)]
ServerKeyExchange_of(v) ==
    Signed([v EXCEPT !.elliptic_curve_type = EllipticCurveType(@), !.named_curve = NamedCurve(@)]) @@ [identity_hint |-> <<>>]
PskServerKeyExchange(hint) ==
    [identity_hint |-> hint, elliptic_curve_type |-> 4, named_curve |-> 0, public_key |-> <<>>, hash |-> 9,
     signature |-> 8, signature_octets |-> <<>>]
IsPsk(b) == Len(b) >= 2 /\ Len(b) = 2 + Num(Upto(b, 2))

Message_fields(kind, v) ==
    CASE kind = "client_hello"         -> Hello_of(ClientHello_of(v), Extensions_get(v.extensions))
      [] kind = "server_hello"         -> Hello_of(ServerHello_of(v), Extensions_get(v.extensions))
      [] kind = "hello_verify_request" -> HelloVerifyRequest_of(v)
      [] kind = "server_key_exchange"  -> Value(ServerKeyExchange_of(v))
      [] kind = "certificate_request"  -> Value(CertificateRequest_of(v))
      [] kind = "certificate_verify"   -> Value(Signed(v))
Message_read(kind, r) == IF r.out # "ok" THEN NoValue("err") ELSE Message_fields(kind, r.v)
MessageLayout ==
    [client_hello |-> ClientHello, server_hello |-> ServerHello, hello_verify_request |-> HelloVerifyRequest,
     server_key_exchange |-> ServerKeyExchange, certificate_request |-> CertificateRequest,
     certificate_verify |-> CertificateVerify]
ClientKeyExchange_of(b) ==
    IF Len(b) < 2 THEN NoValue("err")
    ELSE IF IsPsk(b) THEN Value([identity_hint |-> From(b, 3), public_key |-> <<>>])
    ELSE IF Len(b) # b[1] + 1 THEN NoValue("err")
    ELSE Value([identity_hint |-> <<>>, public_key |-> From(b, 2)])
Message_unmarshal(kind, b) ==
    CASE kind \in {"none", "hello_request"} -> NoValue("err")
      [] kind = "server_hello_done"    -> Value(NoFields)
      [] kind = "finished"             -> Value([verify_data |-> b])
      [] kind = "client_key_exchange"  -> ClientKeyExchange_of(b)
      [] kind = "certificate" ->
            IF Len(b) < 3 THEN NoValue("err") ELSE Certificate_of(Certificate_get(From(b, 4), Num(Upto(b, 3))))
      [] kind = "server_key_exchange" /\ IsPsk(b) -> Value(PskServerKeyExchange(From(b, 3)))
      [] kind \in DOMAIN MessageLayout /\ ~(kind = "server_key_exchange" /\ IsPsk(b)) ->
            Message_read(kind, Get(MessageLayout[kind], Reader(b), "err"))

HandshakeHeader ==
    <<U(1, "handshake_type"), U(3, "length"), U(2, "message_sequence"), U(3, "fragment_offset"), U(3, "fragment_length")>>
HandshakeKind(n) ==
    IF \E k \in DOMAIN HandshakeType : HandshakeType[k] = n
    THEN CHOOSE k \in DOMAIN HandshakeType : HandshakeType[k] = n ELSE "none"
\* Handshake::new
Handshake_new(m, seq) ==
    [kind |-> "handshake", handshake_type |-> HandshakeType[m.kind], length |-> Message_size(m),
     message_sequence |-> seq, fragment_offset |-> 0, fragment_length |-> Message_size(m), message |-> m]
Handshake_of(kind, h, r) ==
    IF r.out # "ok" THEN r ELSE Value(h @@ [kind |-> "handshake", message |-> r.v @@ [kind |-> kind]])
Handshake_parts(h) ==
    IF h.out # "ok" THEN NoValue("err")
    ELSE Handshake_of(HandshakeKind(h.v.handshake_type), h.v,
                      Message_unmarshal(HandshakeKind(h.v.handshake_type), h.b))
Handshake_unmarshal(b) == Handshake_parts(Get(HandshakeHeader, Reader(b), "err"))

(***************************************************************************)
(* Records.                                                                 *)
(***************************************************************************)
ContentType == [change_cipher_spec |-> 20, alert |-> 21, handshake |-> 22, application_data |-> 23]
Alert == <<U(1, "alert_level"), U(1, "alert_description")>>
ChangeCipherSpec == <<Lit(1, 1)>>
ApplicationData == <<Rest("data")>>

Content_size(c) ==
    CASE c.kind = "change_cipher_spec" -> 1
      [] c.kind = "alert"              -> 2
      [] c.kind = "handshake"          -> 12 + Message_size(c.message)
      [] c.kind = "application_data"   -> Len(c.data)
Content_marshal(c) ==
    CASE c.kind = "change_cipher_spec" -> Put(ChangeCipherSpec, c)
      [] c.kind = "alert"              -> Put(Alert, c)
      [] c.kind = "handshake"          -> Put(HandshakeHeader, c) \o Message_marshal(c.message)
      [] c.kind = "application_data"   -> Put(ApplicationData, c)
Alert_of(r) ==
    IF r.out # "ok" THEN NoValue("err")
    ELSE Value([kind |-> "alert", alert_level |-> AlertLevel(r.v.alert_level),
                alert_description |-> AlertDescription(r.v.alert_description)])
Tagged(kind, r) == IF r.out # "ok" THEN NoValue("err") ELSE Value(r.v @@ [kind |-> kind])
Content_unmarshal(typ, b) ==
    CASE typ = 20 -> Tagged("change_cipher_spec", Get(ChangeCipherSpec, Reader(b), "err"))
      [] typ = 21 -> Alert_of(Get(Alert, Reader(b), "err"))
      [] typ = 22 -> Handshake_unmarshal(b)
      [] typ = 23 -> Tagged("application_data", Get(ApplicationData, Reader(b), "err"))
      [] OTHER -> NoValue("err")

RecordLayerHeader ==
    <<U(1, "content_type"), U(1, "major"), U(1, "minor"), U(2, "epoch"), Raw(6, "sequence_number"), U(2, "content_len")>>
Versions == { <<254, 255>>, <<254, 253>> }
\* RecordLayer::new
RecordLayer_new(minor, epoch, seq, c) ==
    [content_type |-> ContentType[c.kind], major |-> 254, minor |-> minor, epoch |-> epoch, sequence_number |-> seq,
     content_len |-> Content_size(c), content |-> c]
RecordLayer_size(r) == RECORD_LAYER_HEADER_SIZE + Content_size(r.content)
\* a sequence number is a u64 of which 48 bits are written: eight octets
\* with something in the first two are refused
RecordLayer_marshal(r) ==
    IF Upto(r.sequence_number, 2) # <<0, 0>> \/ (r.content.kind = "handshake" /\ Message_refuses(r.content.message))
    THEN Err
    ELSE Ok(Put(RecordLayerHeader, [r EXCEPT !.sequence_number = From(@, 3)]) \o Content_marshal(r.content))

RecordLayer_of(h, r) ==
    IF r.out # "ok" THEN Fails(Reader(<<>>), r.out)
    ELSE [b |-> <<>>, out |-> "ok", v |-> [h EXCEPT !.sequence_number = <<0, 0>> \o @] @@ [content |-> r.v]]
RecordLayer_parts(h) ==
    IF h.out # "ok" \/ <<h.v.major, h.v.minor>> \notin Versions THEN Fails(h, "err")
    ELSE RecordLayer_of(h.v, Content_unmarshal(h.v.content_type, h.b))
RecordLayer_unmarshal(b) == RecordLayer_parts(Get(RecordLayerHeader, Reader(b), "err"))

\* record_len: the octets of the first record, 0 for an error
record_len(b) ==
    IF Len(b) <= RECORD_LAYER_HEADER_SIZE \/ RECORD_LAYER_HEADER_SIZE + Num(SubSeq(b, 12, 13)) > Len(b) THEN 0
    ELSE RECORD_LAYER_HEADER_SIZE + Num(SubSeq(b, 12, 13))
Records_next(p, n) ==
    IF n = 0 THEN Fails(p, "err") ELSE [p EXCEPT !.b = From(@, n + 1), !.v = Append(@, Upto(p.b, n))]
\* the whole datagram is split before any record of it is read
unpack_datagram(b) ==
    LET RECURSIVE after(_)
        after(p) == IF p.out # "ok" \/ p.b = <<>> THEN p ELSE after(Records_next(p, record_len(p.b)))
    IN  after(NoneYet(b))
Records_read(p) ==
    LET RECURSIVE after(_)
        after(q) ==
            IF q.out # "ok" \/ Len(q.v) = Len(p.v) THEN Result(q)
            ELSE after(Collected(q, RecordLayer_unmarshal(p.v[Len(q.v) + 1])))
    IN  IF p.out # "ok" THEN NoValue("err") ELSE after(NoneYet(<<>>))
Datagram_unmarshal(b) == Records_read(unpack_datagram(b))

-----------------------------------------------------------------------------
(***************************************************************************)
(* How rtc-dtls protects a record: the keys each side derives from the      *)
(* master secret and the two randoms, what a cipher suite puts around the   *)
(* content, and what the peer does to get it back.                          *)
(***************************************************************************)

(***************************************************************************)
(* Key derivation.  A label is one octet.                                   *)
(***************************************************************************)
PRF_MASTER_SECRET_LABEL == <<1>>
PRF_EXTENDED_MASTER_SECRET_LABEL == <<2>>
PRF_KEY_EXPANSION_LABEL == <<3>>
prf_p_hash(secret, seed, n) == Digest(n, secret \o <<0>> \o seed)
prf_psk_pre_master_secret(psk) == BE(2, Len(psk)) \o Zeros(Len(psk)) \o BE(2, Len(psk)) \o psk
prf_extended_master_secret(pre, hash) == prf_p_hash(pre, PRF_EXTENDED_MASTER_SECRET_LABEL \o hash, 48)
prf_master_secret(pre, client_random, server_random) ==
    prf_p_hash(pre, PRF_MASTER_SECRET_LABEL \o client_random \o server_random, 48)

\* the key block, cut in the order of prf_encryption_keys
Cut(material, mac, key, iv) ==
    [client_mac_key   |-> SubSeq(material, 1, mac),
     server_mac_key   |-> SubSeq(material, mac + 1, 2 * mac),
     client_write_key |-> SubSeq(material, 2 * mac + 1, 2 * mac + key),
     server_write_key |-> SubSeq(material, 2 * mac + key + 1, 2 * mac + 2 * key),
     client_write_iv  |-> SubSeq(material, 2 * mac + 2 * key + 1, 2 * mac + 2 * key + iv),
     server_write_iv  |-> SubSeq(material, 2 * mac + 2 * key + iv + 1, 2 * mac + 2 * key + 2 * iv)]
prf_encryption_keys(master_secret, client_random, server_random, mac, key, iv) ==
    Cut(prf_p_hash(master_secret, PRF_KEY_EXPANSION_LABEL \o server_random \o client_random, 2 * mac + 2 * key + 2 * iv),
        mac, key, iv)

(***************************************************************************)
(* Cipher suites: the record protection each stands for, its lengths, its   *)
(* tag, and whether it needs a pre-shared key.                              *)
(***************************************************************************)
CipherSuiteAes128Ccm(id, psk, tag) == [crypto |-> "ccm", id |-> id, psk |-> psk, tag |-> tag, mac |-> 0, key |-> 16, iv |-> 4]
CipherSuiteAes128GcmSha256(rsa) ==
    [crypto |-> "gcm", id |-> IF rsa THEN 49199 ELSE 49195, psk |-> FALSE, tag |-> 16, mac |-> 0, key |-> 16, iv |-> 4]
CipherSuiteAes256CbcSha(rsa) ==
    [crypto |-> "cbc", id |-> IF rsa THEN 49172 ELSE 49162, psk |-> FALSE, tag |-> 20, mac |-> 20, key |-> 32, iv |-> 16]
CipherSuiteChaCha20Poly1305Sha256(rsa) ==
    [crypto |-> "chacha", id |-> IF rsa THEN 52392 ELSE 52393, psk |-> FALSE, tag |-> 16, mac |-> 0, key |-> 32, iv |-> 12]
CipherSuiteTlsPskWithAes128GcmSha256 ==
    [crypto |-> "gcm", id |-> 168, psk |-> TRUE, tag |-> 16, mac |-> 0, key |-> 16, iv |-> 4]
all_cipher_suites ==
    { CipherSuiteAes128Ccm(49324, FALSE, 16), CipherSuiteAes128Ccm(49326, FALSE, 8),
      CipherSuiteAes128Ccm(49316, TRUE, 16), CipherSuiteAes128Ccm(49320, TRUE, 8),
      CipherSuiteTlsPskWithAes128GcmSha256 }
    \cup { CipherSuiteAes128GcmSha256(rsa) : rsa \in BOOLEAN }
    \cup { CipherSuiteAes256CbcSha(rsa) : rsa \in BOOLEAN }
    \cup { CipherSuiteChaCha20Poly1305Sha256(rsa) : rsa \in BOOLEAN }
cipher_suite_for_id(id) == CHOOSE s \in all_cipher_suites : s.id = id

\* CipherSuite::init: each side writes with its own keys and reads with the other's
Sided(keys, is_client) ==
    IF is_client
    THEN [local_key |-> keys.client_write_key, local_iv |-> keys.client_write_iv, local_mac |-> keys.client_mac_key,
          remote_key |-> keys.server_write_key, remote_iv |-> keys.server_write_iv, remote_mac |-> keys.server_mac_key]
    ELSE [local_key |-> keys.server_write_key, local_iv |-> keys.server_write_iv, local_mac |-> keys.server_mac_key,
          remote_key |-> keys.client_write_key, remote_iv |-> keys.client_write_iv, remote_mac |-> keys.client_mac_key]
init(suite, master_secret, client_random, server_random, is_client) ==
    Sided(prf_encryption_keys(master_secret, client_random, server_random, suite.mac, suite.key, suite.iv), is_client)

(***************************************************************************)
(* The state a connection keeps, and its export and import.                 *)
(***************************************************************************)
State_new(is_client, suite_id, local_random, remote_random, master_secret, epoch, seq) ==
    [is_client |-> is_client, cipher_suite |-> suite_id, local_random |-> local_random,
     remote_random |-> remote_random, master_secret |-> master_secret, local_epoch |-> epoch,
     remote_epoch |-> epoch, local_sequence_number |-> Zeros(epoch) \o <<seq>>]
serialize(s) ==
    [local_epoch |-> s.local_epoch, remote_epoch |-> s.remote_epoch, local_random |-> s.local_random,
     remote_random |-> s.remote_random, cipher_suite_id |-> s.cipher_suite, master_secret |-> s.master_secret,
     sequence_number |-> s.local_sequence_number[s.local_epoch + 1], is_client |-> s.is_client]
deserialize(d) ==
    [is_client |-> d.is_client, cipher_suite |-> d.cipher_suite_id, local_random |-> d.local_random,
     remote_random |-> d.remote_random, master_secret |-> d.master_secret, local_epoch |-> d.local_epoch,
     remote_epoch |-> d.remote_epoch, local_sequence_number |-> Zeros(d.local_epoch) \o <<d.sequence_number>>]
init_cipher_suite(s) ==
    IF s.is_client
    THEN init(cipher_suite_for_id(s.cipher_suite), s.master_secret, s.local_random, s.remote_random, TRUE)
    ELSE init(cipher_suite_for_id(s.cipher_suite), s.master_secret, s.remote_random, s.local_random, FALSE)
\* export_keying_material: nothing before the handshake is over
export_keying_material(s, label, n) ==
    IF s.local_epoch = 0 THEN <<>>
    ELSE prf_p_hash(s.master_secret,
                    label \o IF s.is_client THEN s.local_random \o s.remote_random ELSE s.remote_random \o s.local_random,
                    n)

(***************************************************************************)
(* Records.  h is the header: its content type, version, epoch and eight    *)
(* octets of sequence number, six of which travel.                          *)
(***************************************************************************)
HeaderLayout ==
    <<U(1, "content_type"), U(1, "major"), U(1, "minor"), U(2, "epoch"), Raw(6, "sequence_number"), U(2, "content_len")>>
generate_aead_additional_data(h, n) ==
    BE(2, h.epoch) \o h.sequence_number \o <<h.content_type, h.major, h.minor>> \o BE(2, n)
prf_mac(key, h, payload) ==
    Digest(20, key \o BE(2, h.epoch) \o h.sequence_number \o <<h.content_type, h.major, h.minor>> \o BE(2, Len(payload)) \o payload)
Header(h, n) == Put(HeaderLayout, h @@ [content_len |-> n])

\* AES-GCM and AES-CCM: an explicit nonce before the ciphertext
ExplicitNonce_body(k, h, payload, nonce, tag) ==
    From(nonce, 5) \o Enciphered(payload, Keystream(k.local_key, nonce, Len(payload)))
      \o Tag(k.local_key, nonce, generate_aead_additional_data(h, Len(payload)), payload, tag)
Gcm_seal(k, h, payload) ==
    Header(h, 8 + Len(payload) + 16) \o ExplicitNonce_body(k, h, payload, Upto(k.local_iv, 4) \o random_fill(8), 16)
Ccm_seal(k, h, payload, tag) ==
    Header(h, 8 + Len(payload) + tag) \o ExplicitNonce_body(k, h, payload, Upto(k.local_iv, 4) \o random_fill(8), tag)
\* what was opened is the content if the tag is the one of the content
Verified(h, plain, tag, expected) == IF tag # expected THEN NoValue("err") ELSE Value(h @@ [payload |-> plain])
Opened(key, h, nonce, plain, tag) ==
    Verified(h, plain, tag, Tag(key, nonce, generate_aead_additional_data(h, Len(plain)), plain, Len(tag)))
ExplicitNonce_open(k, h, b, n) ==
    Opened(k.remote_key, h, Upto(k.remote_iv, 4) \o Upto(b, 8),
           Deciphered(SubSeq(b, 9, Len(b) - n), Keystream(k.remote_key, Upto(k.remote_iv, 4) \o Upto(b, 8), Len(b) - n - 8)),
           From(b, Len(b) - n + 1))
Gcm_open(k, h, b) == IF Len(b) <= 8 \/ Len(b) - 8 < 16 THEN NoValue("err") ELSE ExplicitNonce_open(k, h, b, 16)
Ccm_open(k, h, b, tag) == IF Len(b) <= 8 \/ Len(b) - 8 < tag THEN NoValue("err") ELSE ExplicitNonce_open(k, h, b, tag)

\* ChaCha20-Poly1305: the nonce is the key block's, with the epoch and the
\* sequence number added in
noncegen(iv, h) ==
    LET full == Zeros(4) \o BE(2, h.epoch) \o h.sequence_number IN [i \in 1 .. 12 |-> Xor(iv[i], full[i])]
ChaCha_body(k, h, payload, nonce) ==
    Enciphered(payload, Keystream(k.local_key, nonce, Len(payload)))
      \o Tag(k.local_key, nonce, generate_aead_additional_data(h, Len(payload)), payload, 16)
ChaCha_seal(k, h, payload) == Header(h, Len(payload) + 16) \o ChaCha_body(k, h, payload, noncegen(k.local_iv, h))
ChaCha_open(k, h, b) ==
    IF Len(b) < 16 THEN NoValue("err")
    ELSE Opened(k.remote_key, h, noncegen(k.remote_iv, h),
                Deciphered(Upto(b, Len(b) - 16), Keystream(k.remote_key, noncegen(k.remote_iv, h), Len(b) - 16)),
                From(b, Len(b) - 15))

\* AES-CBC with an HMAC: MAC, then padding to a block, then encryption
Cbc_padding(n) == LET p == 16 - (n % 16) IN [i \in 1 .. p |-> p - 1]
Cbc_sealed(k, h, iv, plain) ==
    Header(h, 16 + Len(plain)) \o iv \o Enciphered(plain, Keystream(k.local_key, iv, Len(plain)))
Cbc_seal(k, h, payload) ==
    Cbc_sealed(k, h, random_fill(16), payload \o prf_mac(k.local_mac, h, payload) \o Cbc_padding(Len(payload) + 20))
Cbc_unpadded(k, h, d, padding) ==
    IF padding > Len(d) \/ Len(d) - padding < 20 THEN NoValue("err")
    ELSE IF \E i \in Len(d) - padding + 1 .. Len(d) : d[i] # padding - 1 THEN NoValue("err")
    ELSE Verified(h, Upto(d, Len(d) - padding - 20), SubSeq(d, Len(d) - padding - 19, Len(d) - padding),
                  prf_mac(k.remote_mac, h, Upto(d, Len(d) - padding - 20)))
Cbc_decrypted(k, h, d) == Cbc_unpadded(k, h, d, d[Len(d)] + 1)
Cbc_open(k, h, b) ==
    IF Len(b) < 16 \/ Len(b) = 16 \/ (Len(b) % 16) # 0 THEN NoValue("err")
    ELSE Cbc_decrypted(k, h, Deciphered(From(b, 17), Keystream(k.remote_key, Upto(b, 16), Len(b) - 16)))

(***************************************************************************)
(* One record: sealed with a suite, opened with it.  A change of cipher     *)
(* specification is never encrypted, and the reader passes it on.           *)
(***************************************************************************)
encrypt(suite, k, h, payload) ==
    CASE suite.crypto = "gcm"    -> Gcm_seal(k, h, payload)
      [] suite.crypto = "ccm"    -> Ccm_seal(k, h, payload, suite.tag)
      [] suite.crypto = "chacha" -> ChaCha_seal(k, h, payload)
      [] suite.crypto = "cbc"    -> Cbc_seal(k, h, payload)
decrypt_body(suite, k, h, b) ==
    CASE h.content_type = 20      -> Value(h @@ [payload |-> b])
      [] h.content_type # 20 /\ suite.crypto = "gcm"    -> Gcm_open(k, h, b)
      [] h.content_type # 20 /\ suite.crypto = "ccm"    -> Ccm_open(k, h, b, suite.tag)
      [] h.content_type # 20 /\ suite.crypto = "chacha" -> ChaCha_open(k, h, b)
      [] h.content_type # 20 /\ suite.crypto = "cbc"    -> Cbc_open(k, h, b)
HeaderOf(v) == [f \in DOMAIN v \ {"content_len"} |-> v[f]]
\* record_len has checked the length before the suite sees the record
decrypt_record(suite, k, r) ==
    IF r.out # "ok" \/ Len(r.b) # r.v.content_len \/ r.b = <<>> THEN NoValue("err")
    ELSE decrypt_body(suite, k, HeaderOf(r.v), r.b)
Record(r) == IF r.out # "ok" THEN r ELSE Value(<<r.v>>)
decrypt(suite, k, b) == Record(decrypt_record(suite, k, Get(HeaderLayout, Reader(b), "err")))

\* the two ends of a connection; the writer's state has been exported and imported
ClientRandom == [i \in 1 .. 32 |-> i]
ServerRandom == [i \in 1 .. 32 |-> 100 + i]
Master(psk) ==
    IF psk THEN prf_master_secret(prf_psk_pre_master_secret(<<9, 8, 7>>), ClientRandom, ServerRandom)
    ELSE prf_extended_master_secret(<<4, 4, 4>>, <<6, 6>>)
Endpoint(suite, is_client) ==
    State_new(is_client, suite.id, IF is_client THEN ClientRandom ELSE ServerRandom,
              IF is_client THEN ServerRandom ELSE ClientRandom, Master(suite.psk), 1, 5)
Writer(suite, is_client) == init_cipher_suite(deserialize(serialize(Endpoint(suite, is_client))))
Peer(suite, is_client) == init_cipher_suite(Endpoint(suite, ~is_client))

\* the connections of a run: a suite, and which end writes
Connection ==
    [gcm         |-> [suite |-> CipherSuiteAes128GcmSha256(FALSE), is_client |-> TRUE],
     gcm_server  |-> [suite |-> CipherSuiteAes128GcmSha256(TRUE), is_client |-> FALSE],
     ccm         |-> [suite |-> cipher_suite_for_id(49324), is_client |-> TRUE],
     ccm_8       |-> [suite |-> cipher_suite_for_id(49326), is_client |-> FALSE],
     psk_ccm     |-> [suite |-> cipher_suite_for_id(49316), is_client |-> FALSE],
     psk_gcm     |-> [suite |-> cipher_suite_for_id(168), is_client |-> TRUE],
     cbc         |-> [suite |-> CipherSuiteAes256CbcSha(TRUE), is_client |-> TRUE],
     cbc_server  |-> [suite |-> CipherSuiteAes256CbcSha(FALSE), is_client |-> FALSE],
     chacha      |-> [suite |-> CipherSuiteChaCha20Poly1305Sha256(FALSE), is_client |-> TRUE],
     chacha_server |-> [suite |-> CipherSuiteChaCha20Poly1305Sha256(TRUE), is_client |-> FALSE]]
seal_on(suite, is_client, m) == Ok(encrypt(suite, Writer(suite, is_client), m, m.payload))
seal(c, m) == seal_on(Connection[c].suite, Connection[c].is_client, m)
open_on(suite, is_client, b) == decrypt(suite, Peer(suite, is_client), b)
open(c, b) == open_on(Connection[c].suite, Connection[c].is_client, b)
=============================================================================
