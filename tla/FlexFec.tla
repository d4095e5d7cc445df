-------------------------------- MODULE FlexFec --------------------------------
(***************************************************************************)
(* FlexFEC draft-03: the send interceptor gathers media packets into blocks *)
(* and follows each with repair packets; the receive interceptor rebuilds   *)
(* what the path lost.  The path loses, reorders and repeats packets.       *)
(*                                                                          *)
(* An octet is the set of the packets folded into it, so that folding is    *)
(* the symmetric difference and a rebuilt packet shows where its octets     *)
(* come from; a length is the set of its binary digits.  The three packet   *)
(* masks are W1, W2 and W3 positions wide (15, 31 and 63 in the code, one    *)
(* less between them than the MAX_MEDIA_PACKETS a block may have).          *)
(***************************************************************************)
EXTENDS Integers, Sequences, FiniteSets, FiniteSetsExt, SequencesExt

CONSTANTS SeqSpace, W1, W2, W3,
          MAX_MEDIA_PACKETS,            \* of a block (coverage.rs)
          HELD_MEDIA_PACKETS, MAX_FEC_PACKETS, RETAINED_RECOVERED_PACKETS,
          STALE_SEQUENCE_DISTANCE,
          Repairs,                      \* num_fec_packets
          Settings,                     \* the pairs of stamped and num_media_packets
          FirstSeq, Packets, InFlight, Losses, Repeats

VARIABLES stamped,          \* whether the TWCC sender numbers the packets
          num_media_packets,    \* of a block, as the application set it
          written,          \* packets the application wrote
          block, next_repair,
          path,             \* in flight, in the order they left
          lost, repeated,   \* packets the path dropped and delivered twice
          recovered, repair_packets,
          passed            \* what the receive interceptor passed on
vars == <<stamped, num_media_packets, written, block, next_repair, path, lost, repeated, recovered, repair_packets, passed>>

Xor(a, b) == (a \ b) \cup (b \ a)
Digits(n) == {i \in 0 .. 3 : (n \div 2^i) % 2 = 1}
Number(digits) == SumSet({2^i : i \in digits})
\* bytes of dst beyond src are left alone, and bytes of src beyond dst ignored
xor_into(dst, src) == [i \in DOMAIN dst |-> IF i <= Len(src) THEN Xor(dst[i], src[i]) ELSE dst[i]]

is_newer(previous, value) ==
    LET forward == (value - previous) % SeqSpace
    IN IF forward = SeqSpace \div 2 THEN value > previous ELSE value # previous /\ forward < SeqSpace \div 2
sequence_distance(a, b) == Min({(a - b) % SeqSpace, (b - a) % SeqSpace})

(***************************************************************************)
(* ProtectionCoverage and FlexFec03Encoder                                  *)
(***************************************************************************)
covered_by(fec, size, fecs) == {i \in 0 .. size - 1 : i % fecs = fec}
\* the masks that go on the wire; the last one present has its k bit set
Masks(covered) ==
    LET mask1 == {i \in covered : i < W1}
        mask2 == {i - W1 : i \in {j \in covered : j >= W1 /\ j < W1 + W2}}
        mask3 == {i - W1 - W2 : i \in {j \in covered : j >= W1 + W2 /\ j < W1 + W2 + W3}}
    IN IF mask2 \cup mask3 = {} THEN <<mask1>>
       ELSE IF mask3 = {} THEN <<mask1, mask2>> ELSE <<mask1, mask2, mask3>>
Folded(start, packets) == FoldLeft(LAMBDA acc, p : xor_into(acc, p.body), start, packets)
Lengths(start, packets) == FoldLeft(LAMBDA acc, p : Xor(acc, Digits(Len(p.body))), start, packets)
Longest(packets) == Max({Len(packets[i].body) : i \in DOMAIN packets})
encode_one(seq, base, covered, packets) ==
    [seq |-> seq, base |-> base, masks |-> Masks(covered),
     length |-> Lengths({}, packets), body |-> Folded([i \in 1 .. Longest(packets) |-> {}], packets)]
Consecutive(media) == \A i \in 1 .. Len(media) - 1 : media[i + 1].seq = (media[i].seq + 1) % SeqSpace
ProtectedBy(fec, media) ==
    LET covered == covered_by(fec, Len(media), Repairs)
    IN [covered |-> covered, packets |-> SelectSeq(media, LAMBDA p : ((p.seq - media[1].seq) % SeqSpace) \in covered)]
encode(media) ==
    IF Repairs = 0 \/ ~Consecutive(media) \/ Len(media) > MAX_MEDIA_PACKETS THEN <<>>
    ELSE [fec \in 1 .. Min({Repairs, Len(media)}) |->
            LET parts == ProtectedBy(fec - 1, media)
            IN encode_one((next_repair + fec - 1) % SeqSpace, media[1].seq, parts.covered, parts.packets)]

(***************************************************************************)
(* FlexFec03SendInterceptor::handle_write, and the TWCC sender further      *)
(* down the chain, which adds an extension to each media packet.            *)
(***************************************************************************)
Media(i) == [seq |-> (FirstSeq + i) % SeqSpace, body |-> [o \in 1 .. 1 + ((i % 3) \div 2) |-> {i}]]
stamp(p, n) == IF stamped THEN [p EXCEPT !.body = <<{100 + n}>> \o @] ELSE p
OnPath(p, kind) == [kind |-> kind, packet |-> p]
Leaves(media, repair) == <<OnPath(media, "media")>> \o [i \in 1 .. Len(repair) |-> OnPath(repair[i], "repair")]
handle_write(p) ==
    LET gathered == Append(block, p)
        repair == IF Len(gathered) >= num_media_packets THEN encode(gathered) ELSE <<>>
    IN /\ block' = IF Len(gathered) >= num_media_packets THEN <<>> ELSE gathered
       /\ next_repair' = (next_repair + Len(repair)) % SeqSpace
       /\ path' = path \o Leaves(stamp(p, Len(written)), repair)
Write ==
    /\ Len(written) < Packets /\ Len(path) < InFlight
    /\ LET p == Media(Len(written))
       IN written' = Append(written, p) /\ handle_write(p)
    /\ UNCHANGED <<stamped, num_media_packets, lost, repeated, recovered, repair_packets, passed>>

(***************************************************************************)
(* FlexFec03Decoder                                                         *)
(***************************************************************************)
None == [seq |-> -1, body |-> <<>>]
\* the expected sequence numbers, from the masks
protected_sequence_numbers(p) ==
    LET Offset(n) == IF n = 1 THEN 0 ELSE IF n = 2 THEN W1 ELSE W1 + W2
    IN UNION {{(p.base + Offset(n) + i) % SeqSpace : i \in p.masks[n]} : n \in DOMAIN p.masks}
Held(media, seq) == \E i \in DOMAIN media : media[i].seq = seq
HeldCopy(media, seq) == IF Held(media, seq) THEN media[CHOOSE i \in DOMAIN media : media[i].seq = seq] ELSE None
Oldest(a, b) == is_newer(a.seq, b.seq)
Sorted(media) == SortSeq(media, Oldest)
missing(state) == {s \in DOMAIN state.protected : state.protected[s] = None}
\* the decoder at a moment: media, repair packets with what they wait for, and what was rebuilt
Decoder(media, repairs, now) == [media |-> media, repairs |-> repairs, now |-> now]

record_recovered(d, p) ==
    [d EXCEPT !.media = Sorted(Append(@, p)),
              !.repairs = [i \in DOMAIN @ |->
                  IF p.seq \in DOMAIN @[i].protected THEN [@[i] EXCEPT !.protected[p.seq] = p] ELSE @[i]]]
discard_old_recovered_packets(d) ==
    [d EXCEPT !.media = IF Len(@) > RETAINED_RECOVERED_PACKETS
                        THEN SubSeq(@, Len(@) - RETAINED_RECOVERED_PACKETS + 1, Len(@)) ELSE @]
\* media and repair packets share no SSRC: only a media packet is compared with the newest
reset_on_large_discontinuity(d, kind, seq) ==
    IF /\ Len(d.media) >= HELD_MEDIA_PACKETS /\ kind = "media"
       /\ sequence_distance(seq, d.media[Len(d.media)].seq) > HELD_MEDIA_PACKETS
    THEN Decoder(<<>>, <<>>, <<>>) ELSE d
insert_media_packet(d, p) == IF Held(d.media, p.seq) THEN d ELSE record_recovered(d, p)
prune_stale_repair_packets(d, seq) ==
    [d EXCEPT !.repairs = SelectSeq(@, LAMBDA r : sequence_distance(seq, r.packet.seq) <= STALE_SEQUENCE_DISTANCE)]
State(d, p) == [packet |-> p, seq |-> p.seq,
                protected |-> [s \in protected_sequence_numbers(p) |-> HeldCopy(d.media, s)]]
Capped(repairs) == IF Len(repairs) > MAX_FEC_PACKETS THEN Tail(repairs) ELSE repairs
insert_repair_packet(d, p) ==
    IF (\E i \in DOMAIN d.repairs : d.repairs[i].seq = p.seq) \/ protected_sequence_numbers(p) = {} THEN d
    ELSE [d EXCEPT !.repairs = Capped(SortSeq(Append(@, State(d, p)), Oldest))]
insert(d, kind, p) ==
    discard_old_recovered_packets(
        IF kind = "repair" THEN insert_repair_packet(prune_stale_repair_packets(d, p.seq), p)
        ELSE insert_media_packet(d, p))

Others(state) == SetToSeq({state.protected[s] : s \in DOMAIN state.protected} \ {None})
(* mutant: the octets past the recovered length are kept *)
recover_uncut(state) ==
    [seq |-> CHOOSE s \in DOMAIN state.protected : state.protected[s] = None,
     body |-> Folded(state.packet.body, Others(state))]
recover(state) ==
    LET length == Number(Lengths(state.packet.length, Others(state)))
        body == Folded(state.packet.body, Others(state))
    IN IF length > Len(body) THEN None
       ELSE [seq |-> CHOOSE s \in DOMAIN state.protected : state.protected[s] = None,
             body |-> SubSeq(body, 1, length)]
Rebuilt(d, p) ==
    IF p = None THEN d
    ELSE discard_old_recovered_packets(record_recovered([d EXCEPT !.now = Append(@, p)], p))
attempt_recovery(d) ==
    LET RECURSIVE after(_)
        after(e) ==
            LET ready == {i \in DOMAIN e.repairs : Cardinality(missing(e.repairs[i])) = 1}
            IN IF ready = {} THEN e
               ELSE LET i == Min(ready)
                    IN after(Rebuilt([e EXCEPT !.repairs = RemoveAt(@, i)], recover(e.repairs[i])))
    IN after(d)
decode(kind, p) ==
    attempt_recovery(insert(reset_on_large_discontinuity(Decoder(recovered, repair_packets, <<>>), kind, p.seq),
                            kind, p))

\* FlexFec03ReceiveInterceptor::handle_read: a repair packet is swallowed
Passed(p, by_fec) == [packet |-> p, by_fec |-> by_fec, wrote |-> IF by_fec THEN Len(written) ELSE 0]
handle_read(kind, p) ==
    LET d == decode(kind, p)
    IN /\ recovered' = d.media
       /\ repair_packets' = d.repairs
       /\ passed' = passed \cup (IF kind = "media" THEN {Passed(p, FALSE)} ELSE {})
                           \cup {Passed(d.now[i], TRUE) : i \in DOMAIN d.now}
\* the sender hears nothing of the receiver: the path is filled before it delivers
Filled == Len(path) >= InFlight \/ Len(written) = Packets
Deliver ==
    \E i \in 1 .. Len(path) :
        /\ Filled
        /\ handle_read(path[i].kind, path[i].packet)
        /\ path' = RemoveAt(path, i)
        /\ UNCHANGED <<stamped, num_media_packets, written, block, next_repair, lost, repeated>>
Repeat ==
    \E i \in 1 .. Len(path) :
        /\ Filled /\ repeated < Repeats /\ repeated' = repeated + 1
        /\ handle_read(path[i].kind, path[i].packet)
        /\ UNCHANGED <<stamped, num_media_packets, written, block, next_repair, lost, path>>
Lose ==
    \E i \in 1 .. Len(path) :
        /\ Filled /\ Cardinality(lost) < Losses
        /\ lost' = lost \cup {path[i]}
        /\ path' = RemoveAt(path, i)
        /\ UNCHANGED <<stamped, num_media_packets, written, block, next_repair, repeated, recovered, repair_packets, passed>>

Init ==
    /\ \E s \in Settings : stamped = s[1] /\ num_media_packets = s[2]
    /\ written = <<>> /\ block = <<>> /\ next_repair = 0 /\ path = <<>> /\ lost = {} /\ repeated = 0
    /\ recovered = <<>> /\ repair_packets = <<>> /\ passed = {}
Next == Write \/ Deliver \/ Repeat \/ Lose
Spec == Init /\ [][Next]_vars

(***************************************************************************)
(* Properties.                                                              *)
(***************************************************************************)
\* What the code can rebuild: the encoder saw the packets as they arrive (no interceptor after it
\* stamped them), and the masks have a position for each packet of a block.
Rebuildable == ~stamped /\ num_media_packets <= W1 + W2 + W3

\* A packet that recovery adds has the number of one the application wrote, and in a Rebuildable
\* setting it is the one written last under that number: the code folds the packets that arrived
\* out of the repair packet and "is left with it" (encoder.rs).  With a TWCC sender after the
\* encoder, or a block one longer than the masks, what is left is another packet.
RecoveredTrue ==
    \A x \in passed :
        x.by_fec => \E j \in 1 .. x.wrote :
            /\ written[j].seq = x.packet.seq
            /\ Rebuildable => written[j] = x.packet
            /\ \A k \in j + 1 .. x.wrote : written[k].seq # written[j].seq

Seen(p) == \E x \in passed : x.packet.seq = p.seq
Gone(p) == OnPath(p, "media") \in lost
\* Once everything has arrived or is lost, a full block of a Rebuildable setting that lost no
\* repair packet and at most one packet under each of them is complete, whatever the order the
\* packets came in.
LossRepaired ==
    (path = <<>> /\ Len(written) = Packets /\ Rebuildable) =>
        \A b \in 0 .. (Packets \div num_media_packets) - 1 :
            LET members == {b * num_media_packets + i : i \in 1 .. num_media_packets}
            IN (/\ \A x \in lost : x.kind = "repair" => x.packet.base # written[b * num_media_packets + 1].seq
                /\ \A i, j \in members : (i # j /\ Gone(written[i]) /\ Gone(written[j])) => i % Repairs # j % Repairs)
               => \A i \in members : Seen(written[i])
=============================================================================
