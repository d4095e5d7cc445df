----------------------------- MODULE MediaPath ------------------------------
(***************************************************************************)
(* A recording: frames are packetized (rtc-rtp), the packets arrive in      *)
(* order at a file writer (rtc-media), the file is closed and read back.    *)
(* A plan says which codec is used, the MTU, the frames and the size of the *)
(* reader's buffer.                                                         *)
(***************************************************************************)
EXTENDS WireMedia

(***************************************************************************)
(* The media files of rtc-media: the writers that turn received RTP packets *)
(* into H.264/H.265 byte streams, IVF files and Ogg files, and the readers  *)
(* of those files.  A file is a sequence of octets; a writer is a state and *)
(* what each packet does to it, a reader a function of the file.            *)
(***************************************************************************)

\* a 64-bit number, least significant octet first; the model's numbers are below 2^31
LE64(x) == LE(4, x) \o Zeros(4)

(***************************************************************************)
(* H26xWriter.  dep is the state of the depacketizer, held the fragments of *)
(* the H.265 unit being collected.                                          *)
(***************************************************************************)
H26x_new(is_hevc) == [file |-> <<>>, hevc |-> is_hevc, key |-> FALSE, dep |-> [fua |-> <<>>], held |-> <<>>, out |-> "ok"]
is_key_frame(b) == Len(b) >= 4 /\ ((b[1] % 32 = 24 /\ b[4] % 32 = 7) \/ b[1] % 32 = 7)
rebuild_h265_nalu_header(h, type) == H265NALUHeader(f_bit(h), type, layer_id(h), tid(h))
H264_written(w, r) == [w EXCEPT !.dep = r.st, !.file = @ \o r.b, !.out = r.out]
write_h264(w, p) ==
    IF ~w.key /\ ~is_key_frame(p.payload) THEN [w EXCEPT !.out = "ok"]
    ELSE H264_written([w EXCEPT !.key = TRUE], H264Packet(w.dep, FALSE, p.payload))
Fragment_ended(w, last) == IF last THEN [w EXCEPT !.file = @ \o w.held, !.held = <<>>] ELSE w
H265_fragment(w, fu, b) ==
    Fragment_ended(
        [w EXCEPT !.held = (IF Bit(fu[3], 7) = 1 THEN ANNEXB_NALUSTART_CODE \o rebuild_h265_nalu_header(fu, fu[3] % 64) ELSE @) \o b],
        Bit(fu[3], 6) = 1)
H265_units(w, u) ==
    CASE u.kind = "paci"     -> w
      [] u.kind = "fragment" -> H265_fragment(w, u.fu, u.units[1])
      [] OTHER -> [w EXCEPT !.file = @ \o Joined([i \in 1 .. Len(u.units) |-> ANNEXB_NALUSTART_CODE \o u.units[i]])]
H265_written(w, r) == IF r.out # "ok" THEN [w EXCEPT !.out = r.out] ELSE H265_units([w EXCEPT !.out = "ok"], r.b)
write_h265(w, p) == H265_written(w, H265Packet(FALSE, p.payload))
H26x_write_rtp(w, p) == IF p.payload = <<>> THEN w ELSE IF w.hevc THEN write_h265(w, p) ELSE write_h264(w, p)
H26x_close(w) == [w EXCEPT !.file = @ \o w.held, !.held = <<>>]

(***************************************************************************)
(* H26xReader, which reads the file through a buffer of cap octets.         *)
(***************************************************************************)
Reading(file) == [file |-> file, buf |-> <<>>, zeros |-> 0, nal |-> <<>>, out |-> "ok"]
fill_buffer(r, cap) == [r EXCEPT !.buf = Upto(r.file, MinOf(cap, Len(r.file))), !.file = From(@, MinOf(cap, Len(r.file)) + 1)]
read4(r0, cap) ==
    LET RECURSIVE after(_, _)
        after(r, got) ==
            IF Len(r.buf) + Len(got) >= 4
            THEN [r |-> [r EXCEPT !.buf = From(@, 5 - Len(got))], got |-> got \o Upto(r.buf, 4 - Len(got))]
            ELSE IF r.file = <<>> THEN [r |-> [r EXCEPT !.buf = <<>>], got |-> got \o r.buf]
            ELSE after(fill_buffer(r, cap), got \o r.buf)
    IN  after(r0, <<>>)
Prefixed(x) ==
    CASE Len(x.got) = 0 \/ x.got = <<0, 0, 1>> -> [x.r EXCEPT !.out = "eof"]
      [] Len(x.got) = 4 /\ Upto(x.got, 3) = <<0, 0, 1>> -> [x.r EXCEPT !.nal = <<x.got[4]>>]
      [] x.got = <<0, 0, 0, 1>> -> x.r
      [] OTHER -> [x.r EXCEPT !.out = "err"]
bit_stream_starts_with_prefix(r, cap) == Prefixed(read4(r, cap))
\* the octets before the 1 of the next start code in the buffer; -1: there is none
Start_code(r, at) ==
    IF r.zeros >= 2 /\ r.buf[1] = 1 THEN 0
    ELSE IF r.zeros >= 1 /\ Len(r.buf) >= 2 /\ Upto(r.buf, 2) = <<0, 1>> THEN 1
    ELSE IF at = <<>> THEN -1 ELSE at[1] + 1
(* mutant: the zeros at the end of the buffer before are forgotten *)
Zeros_after_local(r, span, trailing) == trailing

Zeros_after(r, span, trailing) == IF trailing = Len(span) THEN r.zeros + trailing ELSE trailing
Appended(r, span, one, zeros) ==
    [r |-> [r EXCEPT !.nal = @ \o span, !.buf = IF one < 0 THEN <<>> ELSE From(@, one + 2), !.zeros = IF one < 0 THEN zeros ELSE 0],
     zeros |-> IF one < 0 THEN -1 ELSE zeros]
Append_span(r, span, one) == Appended(r, span, one, Zeros_after(r, span, Len(span) - Len(Trimmed(span))))
Append_until(r, one) == Append_span(r, IF one < 0 THEN r.buf ELSE Upto(r.buf, one), one)
append_until_start_code(r) == Append_until(r, Start_code(r, Occurrences(r.buf, <<0, 0, 1>>)))
IsSei(hevc, nal) == IF hevc THEN nalu_type(nal) \in {39, 40} ELSE nal[1] % 32 = 6
\* after a start code: the unit is complete, or it was empty, or is skipped
Unit_ends(hevc, r, n) ==
    IF n <= 0 THEN [r EXCEPT !.nal = Append(@, 1)]
    ELSE IF IsSei(hevc, Upto(r.nal, n)) THEN [r EXCEPT !.nal = <<>>]
    ELSE [r EXCEPT !.nal = Upto(@, n), !.out = "unit"]
Appended_ends(hevc, x) == IF x.zeros < 0 THEN x.r ELSE Unit_ends(hevc, x.r, Len(x.r.nal) - IF x.zeros > 2 THEN 3 ELSE 2)
Nal_step(hevc, r, cap) ==
    IF r.buf # <<>> THEN Appended_ends(hevc, append_until_start_code(r))
    ELSE IF r.file = <<>> THEN [r EXCEPT !.out = IF r.nal = <<>> THEN "eof" ELSE "unit"]
    ELSE Appended_ends(hevc, append_until_start_code(fill_buffer(r, cap)))
next_nal(hevc, r0, cap) ==
    LET RECURSIVE after(_)
        after(r) == IF r.out # "ok" THEN r ELSE after(Nal_step(hevc, r, cap))
    IN  after(r0)
\* the units of a file, one next_nal after the other
Units_step(hevc, p, cap) ==
    IF p.r.out = "unit" THEN [units |-> Append(p.units, p.r.nal), r |-> next_nal(hevc, [p.r EXCEPT !.nal = <<>>, !.out = "ok"], cap)]
    ELSE p
Units(hevc, file, cap) ==
    LET RECURSIVE after(_)
        after(p) == IF p.r.out # "unit" THEN p.units ELSE after(Units_step(hevc, p, cap))
    IN  after([units |-> <<>>, r |-> next_nal(hevc, bit_stream_starts_with_prefix(Reading(file), cap), cap)])

(***************************************************************************)
(* IVF.                                                                     *)
(***************************************************************************)
IVF_FILE_HEADER_SIGNATURE == <<68, 75, 73, 70>>
Fourcc == ("vp8" :> <<86, 80, 56, 48>>) @@ ("vp9" :> <<86, 80, 57, 48>>) @@ ("av1" :> <<65, 86, 48, 49>>)
from_fourcc(b) == IF b = Fourcc["vp9"] THEN "vp9" ELSE IF b = Fourcc["av1"] THEN "av1" ELSE "vp8"
IVFFileHeader ==
    <<Raw(4, "signature"), Raw(2, "version"), Raw(2, "header_size"), Raw(4, "four_cc"), Raw(2, "width"), Raw(2, "height"),
      Raw(4, "timebase_denominator"), Raw(4, "timebase_numerator"), Raw(4, "num_frames"), Raw(4, "unused")>>
Ivf_new(h) ==
    [file |-> Put(IVFFileHeader, h), codec |-> from_fourcc(h.four_cc), count |-> 0, key |-> FALSE,
     frame |-> <<>>, open |-> FALSE, dep |-> <<>>, out |-> "ok"]
write_frame(w, frame) == [w EXCEPT !.file = @ \o LE(4, Len(frame)) \o LE64(w.count) \o frame, !.count = @ + 1, !.out = "ok"]
append_to_frame(w, b) == [w EXCEPT !.frame = @ \o b, !.open = TRUE, !.out = "ok"]
write_current_frame(w) == IF w.frame = <<>> THEN w ELSE write_frame([w EXCEPT !.frame = <<>>, !.open = FALSE], w.frame)
Frame_ended(w, marker) == IF marker THEN write_current_frame(w) ELSE w
Kept(w, key, head, b, marker) ==
    IF (~w.key /\ ~key) \/ (~w.open /\ ~head) THEN [w EXCEPT !.out = "ok"]
    ELSE Frame_ended(append_to_frame([w EXCEPT !.key = TRUE], b), marker)
Vp8_written(w, p, r) ==
    IF r.out # "ok" THEN [w EXCEPT !.out = r.out]
    ELSE Kept(w, r.b[1] % 2 = 0, Vp8_is_partition_head(p.payload), r.b, p.marker)
write_vp8(w, p) == Vp8_written(w, p, Vp8Packet([i |-> 0, l |-> 0, t |-> 0, k |-> 0], p.payload))
Vp9_written(w, p, r) ==
    IF r.out # "ok" THEN [w EXCEPT !.out = r.out]
    ELSE Kept(w, Bit(p.payload[1], 6) = 0, Bit(p.payload[1], 3) = 1, r.b, p.marker)
write_vp9(w, p) == Vp9_written(w, p, Vp9Packet(0, p.payload))
Av1_ended(w, marker) ==
    IF ~marker THEN w ELSE write_frame([w EXCEPT !.frame = <<>>, !.open = FALSE], <<18, 0>> \o w.frame)
Av1_written(w, p, r) ==
    IF r.out # "ok" THEN [w EXCEPT !.dep = r.st, !.out = r.out]
    ELSE IF ~w.key /\ Bit(p.payload[1], 3) = 0 /\ ~(r.b # <<>> /\ obu_type(r.b[1]) = 1) THEN [w EXCEPT !.dep = r.st, !.out = "ok"]
    ELSE Av1_ended(append_to_frame([w EXCEPT !.key = TRUE, !.dep = r.st], r.b), p.marker)
write_av1(w, p) == Av1_written(w, p, Av1Depacketizer(w.dep, p.payload))
Ivf_write_rtp(w, p) ==
    CASE p.payload = <<>> -> w
      [] p.payload # <<>> /\ w.codec = "vp8" -> write_vp8(w, p)
      [] p.payload # <<>> /\ w.codec = "vp9" -> write_vp9(w, p)
      [] p.payload # <<>> /\ w.codec = "av1" -> write_av1(w, p)
Ivf_close(w) == [w EXCEPT !.file = Upto(@, 24) \o LE(4, w.count) \o From(@, 29)]

parse_file_header(b) ==
    LET r == Get(IVFFileHeader, Reader(b), "err")
    IN  IF r.out # "ok" \/ r.v.signature # IVF_FILE_HEADER_SIGNATURE \/ r.v.version # <<0, 0>> THEN Fails(r, "err") ELSE r
parse_next_frame(p, n) ==
    IF Len(p.b) < 12 \/ Len(p.b) < 12 + n THEN [p EXCEPT !.out = "err"]
    ELSE [p EXCEPT !.b = From(@, 13 + n), !.v = Append(@, [timestamp |-> Num(Reversed(SubSeq(p.b, 5, 12))), data |-> SubSeq(p.b, 13, 12 + n)])]
Ivf_frames(b) ==
    LET RECURSIVE after(_)
        after(p) == IF p.out # "ok" \/ p.b = <<>> THEN p ELSE after(parse_next_frame(p, Num(Reversed(Upto(p.b, MinOf(4, Len(p.b)))))))
    IN  after(NoneYet(b))
Ivf_parsed(h) == IF h.out # "ok" THEN [frames |-> NoneYet(<<>>), header |-> h] ELSE [frames |-> Ivf_frames(h.b), header |-> h]
Ivf_read(file) == Ivf_parsed(parse_file_header(file))

(***************************************************************************)
(* Ogg, with an external checksum of a page.                                *)
(***************************************************************************)
PAGE_HEADER_SIGNATURE == <<79, 103, 103, 83>>
ID_PAGE_SIGNATURE == <<79, 112, 117, 115, 72, 101, 97, 100>>
COMMENT_PAGE_SIGNATURE == <<79, 112, 117, 115, 84, 97, 103, 115>>
PageChecksum(b) ==
    LET sum[i \in 1 .. Len(b), j \in 1 .. Len(b)] ==
            IF i = j THEN b[i] * (1 + ((i * i) % 251)) ELSE sum[i, (i + j) \div 2] + sum[((i + j) \div 2) + 1, j]
    IN  sum[1, Len(b)] % 65521
OggPageHeader ==
    <<Raw(4, "sig"), U(1, "version"), U(1, "header_type"), Raw(8, "granule_position"), Raw(4, "serial"), Raw(4, "index"),
      Raw(4, "checksum"), Vec(1, "segments")>>
Segments(n) == [i \in 1 .. (n + 254) \div 255 |-> IF i = (n + 254) \div 255 THEN n - (i - 1) * 255 ELSE 255]
Page(v, payload) == Put(OggPageHeader, v) \o payload
Page_sealed(v, payload) == Page([v EXCEPT !.checksum = LE(4, PageChecksum(Page(v, payload)))], payload)
write_page(w, payload, type, granule, index) ==
    [w EXCEPT !.last = payload, !.out = "ok",
              !.file = @ \o Page_sealed([sig |-> PAGE_HEADER_SIGNATURE, version |-> 0, header_type |-> type,
                                        granule_position |-> LE64(granule), serial |-> w.serial, index |-> LE(4, index),
                                        checksum |-> Zeros(4), segments |-> Segments(Len(payload))], payload)]
OpusHead ==
    <<Raw(8, "signature"), U(1, "version"), U(1, "channels"), Raw(2, "pre_skip"), Raw(4, "sample_rate"),
      Raw(2, "output_gain"), U(1, "channel_map")>>
Ogg_id_header(rate, channels) ==
    Put(OpusHead, [signature |-> ID_PAGE_SIGNATURE, version |-> 1, channels |-> channels, pre_skip |-> LE(2, 3840),
                   sample_rate |-> LE(4, rate), output_gain |-> <<0, 0>>, channel_map |-> 0])
VENDOR == <<87, 101, 98, 82, 84, 67, 46, 114, 115>>
Ogg_comment_header == COMMENT_PAGE_SIGNATURE \o LE(4, 10) \o VENDOR \o LE(4, 0)
Ogg_new(serial, rate, channels) ==
    write_page(write_page([file |-> <<>>, serial |-> serial, page |-> 2, granule |-> 1, timestamp |-> 1, last |-> <<>>, out |-> "ok"],
                          Ogg_id_header(rate, channels), 2, 0, 0),
               Ogg_comment_header, 0, 0, 1)
Ogg_advanced(w, p) ==
    [w EXCEPT !.granule = IF w.timestamp # 1 THEN @ + p.timestamp - w.timestamp ELSE @, !.timestamp = p.timestamp, !.page = @ + 1]
Ogg_paged(w, r) == IF r.out # "ok" THEN [w EXCEPT !.out = r.out] ELSE write_page(w, r.b, 0, w.granule, w.page - 1)
Ogg_write_rtp(w, p) == IF p.payload = <<>> THEN w ELSE Ogg_paged(Ogg_advanced(w, p), OpusPacket(p.payload))
Ogg_close(w) == write_page(w, w.last, 4, w.granule, w.page - 1)

Page_checked(h, n) ==
    IF h.out # "ok" \/ Len(h.b) < n THEN Fails(h, "err")
    ELSE IF Reversed(h.v.checksum) # BE(4, PageChecksum(Page([h.v EXCEPT !.checksum = Zeros(4)], Upto(h.b, n)))) THEN Fails(h, "err")
    ELSE Got(h, "payload", Upto(h.b, n), n)
Page_of(h) == Page_checked(h, IF h.out = "ok" THEN SumOf(h.v.segments) ELSE 0)
parse_next_page(b) == Page_of(Get(OggPageHeader, Reader(b), "err"))
Ogg_pages(b) ==
    LET RECURSIVE after(_)
        after(p) == IF p.out # "ok" \/ p.b = <<>> THEN p ELSE after(Collected(p, parse_next_page(p.b)))
    IN  after(NoneYet(b))
parse_opus_head(b) ==
    IF Len(b) < 19 \/ Upto(b, 8) # ID_PAGE_SIGNATURE THEN NoValue("err")
    ELSE LET r == Get(OpusHead, Reader(b), "err")
             n == 21 + r.v.channels
         IN  CASE r.v.channel_map = 0 -> IF Len(b) # 19 THEN NoValue("err") ELSE Value(r.v)
               [] r.v.channel_map \in {1, 2, 255} -> IF Len(b) < n THEN NoValue("err") ELSE Value(r.v)
               [] OTHER -> NoValue("err")
Ogg_headed(p) ==
    IF p.v = <<>> \/ p.v[1].sig # PAGE_HEADER_SIGNATURE \/ p.v[1].header_type # 2 \/ parse_opus_head(p.v[1].payload).out # "ok"
    THEN [p EXCEPT !.out = "err"] ELSE p
Ogg_read(file) == Ogg_headed(Ogg_pages(file))

-----------------------------------------------------------------------------
CONSTANT Plans   \* [codec, mtu, frames, samples, abs, cap] records

VARIABLES plan,      \* the plan under way
          left,      \* the frames not yet packetized
          packer,    \* the packetizer: payloader state, sequencer, timestamp
          wire,      \* the packets on their way
          writer,    \* the file writer
          seen,      \* the packets the writer was given, in order
          read       \* what the reader found in the closed file
vars == <<plan, left, packer, wire, writer, seen, read>>

Video == {"vp8", "vp8_id", "vp9", "av1"}
Units_codecs == {"h264", "h265"}

PayloaderState(codec, pid) ==
    CASE codec = "h264" -> [sps |-> <<>>, pps |-> <<>>]
      [] codec \in {"vp8", "vp8_id", "vp9"} -> pid
      [] OTHER -> 0
payload(codec, st, mtu, b) ==
    CASE codec = "opus"   -> Paid(st, OpusPayloader(mtu, b))
      [] codec = "vp8"    -> Vp8Payloader(FALSE, st, mtu, b)
      [] codec = "vp8_id" -> Vp8Payloader(TRUE, st, mtu, b)
      [] codec = "vp9"    -> Vp9Payloader(st, mtu, b)
      [] codec = "av1"    -> Paid(st, Av1Payloader(mtu, b))
      [] codec = "h264"   -> H264Payloader(st, mtu, b)
      [] codec = "h265"   -> Paid(st, HevcPayloader(mtu, b))

\* the sequencer: the number last given, and how often it wrapped
next_sequence_number(s) ==
    IF s.number = 65535 THEN [number |-> 0, rolls |-> s.rolls + 1] ELSE [s EXCEPT !.number = @ + 1]
Numbered(s, n) == LET upto[i \in 0 .. n] == IF i = 0 THEN s ELSE next_sequence_number(upto[i - 1]) IN upto

Fourccs(codec) == CASE codec \in {"vp8", "vp8_id"} -> Fourcc["vp8"] [] codec = "vp9" -> Fourcc["vp9"] [] codec = "av1" -> Fourcc["av1"]
IvfHeader(codec) ==
    [signature |-> IVF_FILE_HEADER_SIGNATURE, version |-> <<0, 0>>, header_size |-> <<32, 0>>, four_cc |-> Fourccs(codec),
     width |-> <<1, 0>>, height |-> <<1, 0>>, timebase_denominator |-> <<30, 0, 0, 0>>, timebase_numerator |-> <<1, 0, 0, 0>>,
     num_frames |-> Zeros(4), unused |-> Zeros(4)]
Opened(codec) ==
    CASE codec \in Units_codecs -> H26x_new(codec = "h265")
      [] codec \in Video -> Ivf_new(IvfHeader(codec))
      [] codec = "opus" -> Ogg_new(<<7, 7, 7, 7>>, 48000, 2)
write_rtp(codec, w, p) ==
    CASE codec \in Units_codecs -> H26x_write_rtp(w, p)
      [] codec \in Video -> Ivf_write_rtp(w, p)
      [] codec = "opus" -> Ogg_write_rtp(w, p)
close(codec, w) ==
    CASE codec \in Units_codecs -> H26x_close(w)
      [] codec \in Video -> Ivf_close(w)
      [] codec = "opus" -> Ogg_close(w)

Unread == [state |-> "open", out |-> "ok", units |-> <<>>]

Init ==
    /\ plan \in Plans
    /\ left = plan.frames
    /\ packer = [st |-> PayloaderState(plan.codec, plan.pid), seq |-> [number |-> plan.first, rolls |-> 0], timestamp |-> 1000]
    /\ wire = <<>> /\ seen = <<>>
    /\ writer = Opened(plan.codec)
    /\ read = Unread

\* the packets of one frame: the marker on the last, and the absolute send
\* time extension on it when that is enabled
Packets(r, numbers, timestamp, abs) ==
    [i \in 1 .. Len(r.out) |->
        [sequence_number |-> numbers[i].number, timestamp |-> timestamp, marker |-> i = Len(r.out), payload |-> r.out[i],
         size |-> 12 + Len(r.out[i]) + IF abs /\ i = Len(r.out) THEN 8 ELSE 0]]
Sent(r, numbers) ==
    /\ wire' = wire \o Packets(r, numbers, packer.timestamp, plan.abs)
    /\ packer' = [st |-> r.st, seq |-> numbers[Len(r.out)], timestamp |-> packer.timestamp + plan.samples]
packetize_frame ==
    /\ left # <<>> /\ read = Unread
    /\ \E r \in {payload(plan.codec, packer.st, plan.mtu - 12, Head(left))} : Sent(r, Numbered(packer.seq, Len(r.out)))
    /\ left' = Tail(left)
    /\ UNCHANGED <<plan, writer, seen, read>>

Deliver ==
    /\ wire # <<>> /\ read = Unread
    /\ writer' = write_rtp(plan.codec, writer, Head(wire))
    /\ seen' = Append(seen, Head(wire))
    /\ wire' = Tail(wire)
    /\ UNCHANGED <<plan, left, packer, read>>

Close ==
    /\ left = <<>> /\ wire = <<>> /\ read = Unread
    /\ writer' = close(plan.codec, writer)
    /\ read' = [Unread EXCEPT !.state = "closed"]
    /\ UNCHANGED <<plan, left, packer, wire, seen>>

\* the frames of an IVF file, the units of a byte stream, the pages of an Ogg file
Frames_of(r) == [state |-> "read", out |-> IF r.header.out # "ok" THEN r.header.out ELSE r.frames.out,
                 units |-> [i \in 1 .. Len(r.frames.v) |-> r.frames.v[i].data]]
Pages_of(p) == [state |-> "read", out |-> p.out, units |-> p.v]
ReadFile(codec, file, cap) ==
    CASE codec \in Units_codecs -> [state |-> "read", out |-> "ok", units |-> Units(codec = "h265", file, cap)]
      [] codec \in Video -> Frames_of(Ivf_read(file))
      [] codec = "opus" -> Pages_of(Ogg_read(file))
ReadBack ==
    /\ read.state = "closed"
    /\ read' = ReadFile(plan.codec, writer.file, plan.cap)
    /\ UNCHANGED <<plan, left, packer, wire, writer, seen>>

Next == packetize_frame \/ Deliver \/ Close \/ ReadBack
Spec == Init /\ [][Next]_vars

(***************************************************************************)
(* Properties.                                                              *)
(***************************************************************************)
\* What a page's number says is on the page: a later page of the same number replaces it.
Numbered_pages(pages) ==
    LET last == {i \in 1 .. Len(pages) : \A j \in i + 1 .. Len(pages) : pages[j].index # pages[i].index}
    IN  [n \in 0 .. Len(pages) - 2 |-> pages[CHOOSE i \in last : pages[i].index = LE(4, n)].payload]

\* The VP8 packets too short for Vp8Packet, which asks for four octets also of a
\* packet that has one octet of header and one or two of the frame.
Short(p) == plan.codec = "vp8" /\ Len(p.payload) < 4
\* The H.264 parameter sets were left out, longer together than a packet.
Unparametered == plan.codec = "h264" /\ ~\E i \in 1 .. Len(seen) : is_key_frame(seen[i].payload)

\* What was recorded is what was sent: the frames, units or audio packets of the plan
\* come back from the closed file, complete, in order and unchanged, wherever the MTU
\* cuts them and whatever the size of the reader's buffer - with two exceptions. When
\* VP8 packets are too short for the depacketizer the file has the other packets of the
\* frames, in order, though a frame whose last packet is refused runs into the next one.
\* When the H.264 parameter sets do not fit in a packet nothing is recorded.
Recovered ==
    read.state = "read" =>
        /\ read.out = "ok"
        /\ CASE plan.codec = "opus" ->
                  LET pages == Numbered_pages(read.units)
                  IN  /\ \A i \in 1 .. Len(plan.frames) : pages[i + 1] = plan.frames[i]
                      /\ Len(read.units) = Len(plan.frames) + 3
             [] \E i \in 1 .. Len(seen) : Short(seen[i]) ->
                  LET long == SelectSeq(seen, LAMBDA p : ~Short(p))
                      body == Joined([i \in 1 .. Len(long) |-> Tail(long[i].payload)])
                      file == Joined(read.units)
                  IN  file = SubSeq(body, 1, Len(file))
             [] Unparametered -> read.units = <<>>
             [] OTHER -> read.units = plan.expect

\* No packet exceeds the MTU (the packet with the send time extension, added after the
\* payloader has filled the packet, by no more than the extension; Opus frames are never cut).
FitsMtu ==
    \A i \in 1 .. Len(wire) :
        plan.codec # "opus" => wire[i].size <= plan.mtu + IF plan.abs /\ wire[i].marker THEN 8 ELSE 0

\* Every frame that produced packets is framed: exactly its last packet has the marker,
\* exactly the first packet of a frame is a partition head (for the formats that say so),
\* and the packets of a frame share the timestamp and have consecutive numbers.
Head_of(codec, p) ==
    CASE codec \in {"vp8", "vp8_id"} -> Vp8_is_partition_head(p)
      [] codec = "vp9" -> Vp9_is_partition_head(p)
      [] OTHER -> TRUE
Framed ==
    \A i \in 1 .. Len(seen) - 1 :
        /\ seen[i + 1].sequence_number = (seen[i].sequence_number + 1) % 65536
        /\ seen[i].marker <=> seen[i].timestamp # seen[i + 1].timestamp
        /\ plan.codec \in {"vp8", "vp8_id", "vp9"} => (Head_of(plan.codec, seen[i + 1].payload) <=> seen[i].marker)
\* The writer accepts every packet the packetizer makes but the short ones of VP8.
Accepted == writer.out = "ok" \/ Short(seen[Len(seen)])
=============================================================================
