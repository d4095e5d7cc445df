------------------------------ MODULE Datagram ------------------------------
(***************************************************************************)
(* One endpoint writes messages into a datagram, the network may cut the    *)
(* datagram short, and the other endpoint reads it, for every codec of the  *)
(* stack.  The formats of what finds a path to the peer, STUN and TURN      *)
(* messages (rtc-stun, rtc-ice, rtc-turn) and DNS messages (rtc-mdns), are  *)
(* defined here; WireTransport and WireMedia have the others.               *)
(***************************************************************************)
EXTENDS Wire

(***************************************************************************)
(* STUN messages as rtc-stun builds and decodes them, with the attributes   *)
(* that rtc-ice and rtc-turn add, and the ChannelData messages of TURN.     *)
(* A message under construction is [method, class, transaction_id, length,  *)
(* attributes, raw]: the setters append to raw and keep the length field of *)
(* the header up to date, which the integrity and the fingerprint change    *)
(* while they hash.                                                         *)
(***************************************************************************)

MAGIC_COOKIE == 554869826
MESSAGE_HEADER_SIZE == 20
ATTRIBUTE_HEADER_SIZE == 4

AttrType ==
    [mapped_address |-> 1, username |-> 6, message_integrity |-> 8, error_code |-> 9, unknown_attributes |-> 10,
     channel_number |-> 12, lifetime |-> 13, xor_peer_address |-> 18, data |-> 19, realm |-> 20, nonce |-> 21,
     xor_relayed_address |-> 22, requested_address_family |-> 23, even_port |-> 24, requested_transport |-> 25,
     dont_fragment |-> 26, xor_mapped_address |-> 32, reservation_token |-> 34, priority |-> 36, use_candidate |-> 37,
     software |-> 32802, alternate_server |-> 32803, fingerprint |-> 32808, ice_controlled |-> 32809,
     ice_controlling |-> 32810, response_origin |-> 32811, other_address |-> 32812]
\* the old number of XOR-MAPPED-ADDRESS
compat_attr_type(n) == IF n = 32800 THEN 32 ELSE n
KindOf(n) == IF \E k \in DOMAIN AttrType : AttrType[k] = n THEN CHOOSE k \in DOMAIN AttrType : AttrType[k] = n ELSE "raw"
nearest_padded_value_length(n) == n + PadTo(4, n)

(***************************************************************************)
(* MessageType: the method's twelve bits with the class's two among them.   *)
(***************************************************************************)
MessageType_value(m) ==
    (m.method % 16) + 32 * ((m.method \div 16) % 8) + 512 * ((m.method \div 128) % 32)
      + 16 * (m.class % 2) + 256 * (m.class \div 2)
read_method(n) == (n % 16) + 16 * ((n \div 32) % 8) + 128 * ((n \div 512) % 32)
read_class(n) == ((n \div 16) % 2) + 2 * ((n \div 256) % 2)

(***************************************************************************)
(* Message: construction.                                                   *)
(***************************************************************************)
Fresh(m) == [method |-> m.method, class |-> m.class, transaction_id |-> m.transaction_id, length |-> 0,
             attributes |-> <<>>, raw |-> <<>>, out |-> "ok"]
Failed(m) == [m EXCEPT !.out = "err"]
write_header(m) ==
    [m EXCEPT !.raw = BE(2, MessageType_value(m)) \o BE(2, m.length) \o BE(4, MAGIC_COOKIE) \o m.transaction_id]
write_length(m) == [m EXCEPT !.raw = Upto(@, 2) \o BE(2, m.length) \o From(@, 5)]
add(m, t, v) ==
    write_length([m EXCEPT !.raw = Upto(@, MESSAGE_HEADER_SIZE + m.length) \o BE(2, t) \o BE(2, Len(v)) \o v \o Zeros(PadTo(4, Len(v))),
                           !.length = @ + ATTRIBUTE_HEADER_SIZE + nearest_padded_value_length(Len(v)),
                           !.attributes = Append(@, [typ |-> t, value |-> v])])
contains(m, t) == \E i \in DOMAIN m.attributes : m.attributes[i].typ = t
\* the first attribute of type t
get(m, t) == m.attributes[CHOOSE i \in DOMAIN m.attributes :
                            m.attributes[i].typ = t /\ \A j \in 1 .. i - 1 : m.attributes[j].typ # t].value

(***************************************************************************)
(* Attributes.  Each has a layout; the transport addresses and the error    *)
(* code have rules of their own.                                            *)
(***************************************************************************)
Priority            == <<U(4, "priority")>>
TieBreaker          == <<Raw(8, "tie_breaker")>>
UseCandidate        == <<>>
ChannelNumber       == <<U(2, "number"), Zero(2)>>
Lifetime            == <<U(4, "seconds")>>
Data                == <<Rest("data")>>
DontFragment        == <<>>
EvenPort            == <<Bits(<< <<"reserve_port", 1>>, <<"", 7>> >>)>>
RequestedAddressFamily == <<U(1, "family"), Zero(3)>>
RequestedTransport  == <<U(1, "protocol"), Zero(3)>>
ReservationToken    == <<Raw(8, "token")>>
UnknownAttributes   == <<List("types", "", <<U(2, "typ")>>)>>
Text                == <<Rest("text")>>
ErrorCodeAttribute  == <<Zero(2), U(1, "hundreds"), U(1, "rest"), Rest("reason")>>
Layout ==
    [priority |-> Priority, ice_controlled |-> TieBreaker, ice_controlling |-> TieBreaker, use_candidate |-> UseCandidate,
     channel_number |-> ChannelNumber, lifetime |-> Lifetime, data |-> Data, dont_fragment |-> DontFragment,
     even_port |-> EvenPort, requested_address_family |-> RequestedAddressFamily,
     requested_transport |-> RequestedTransport, reservation_token |-> ReservationToken,
     unknown_attributes |-> UnknownAttributes, username |-> Text, realm |-> Text, nonce |-> Text, software |-> Text]
\* the attributes whose reader insists on a size
check_size ==
    [priority |-> 4, ice_controlled |-> 8, ice_controlling |-> 8, channel_number |-> 4, lifetime |-> 4, even_port |-> 1,
     requested_address_family |-> 4, requested_transport |-> 4, reservation_token |-> 8, fingerprint |-> 4]
\* the longest texts a writer accepts
check_overflow == [username |-> 513, realm |-> 763, nonce |-> 763, software |-> 763]
MAX_REASON == 763

MappedAddresses == {"mapped_address", "alternate_server", "response_origin", "other_address"}
XorAddresses == {"xor_mapped_address", "xor_peer_address", "xor_relayed_address"}
FAMILY_IPV4 == 1
FAMILY_IPV6 == 2
Family(ip) == IF Len(ip) = 4 THEN FAMILY_IPV4 ELSE FAMILY_IPV6
xor_bytes(a, b) == [i \in 1 .. Len(a) |-> Xor(a[i], b[i])]
Mask(tid) == BE(4, MAGIC_COOKIE) \o tid
MappedAddress_add_to_as(a) == BE(2, Family(a.ip)) \o BE(2, a.port) \o a.ip
XorMappedAddress_add_to_as(a, tid) == BE(2, Family(a.ip)) \o xor_bytes(BE(2, a.port) \o a.ip, BE(2, 8466) \o Mask(tid))
\* an address shorter than its family's is filled up with zeros
IpOf(family, b) == [i \in 1 .. IF family = FAMILY_IPV4 THEN 4 ELSE 16 |-> IF i <= Len(b) THEN b[i] ELSE 0]
MappedAddress_get_from_as(k, v) ==
    IF Len(v) <= 4 \/ Num(Upto(v, 2)) \notin {FAMILY_IPV4, FAMILY_IPV6} THEN NoValue("err")
    ELSE Value([kind |-> k, ip |-> IpOf(Num(Upto(v, 2)), From(v, 5)), port |-> Num(SubSeq(v, 3, 4))])
XorMappedAddress_get_from_as(k, v, tid) ==
    IF \/ Len(v) <= 4
       \/ Num(Upto(v, 2)) \notin {FAMILY_IPV4, FAMILY_IPV6}
       \/ Len(v) - 4 > IF Num(Upto(v, 2)) = FAMILY_IPV4 THEN 4 ELSE 16
    THEN NoValue("err")
    ELSE MappedAddress_get_from_as(k, Upto(v, 2) \o xor_bytes(SubSeq(v, 3, 4), BE(2, 8466)) \o xor_bytes(From(v, 5), Mask(tid)))

ErrorCodeAttribute_value(a) ==
    Put(ErrorCodeAttribute, [hundreds |-> a.code \div 100, rest |-> a.code % 100, reason |-> a.reason])
ErrorCode_of(p) ==
    IF p.out # "ok" THEN NoValue(p.out)
    ELSE Value([kind |-> "error_code", code |-> p.v.hundreds * 100 + p.v.rest, reason |-> p.v.reason])
ErrorCodeAttribute_get_from(v) == ErrorCode_of(Get(ErrorCodeAttribute, Reader(v), "err"))

(***************************************************************************)
(* MessageIntegrity and Fingerprint.  external: HMAC-SHA1, MD5 and CRC-32.  *)
(***************************************************************************)
new_hmac(key, b) == Digest(20, key \o <<2>> \o b)
checksum(b) == Digest(4, b)
new_short_term_integrity(password) == password
new_long_term_integrity(username, realm, password) == Digest(16, username \o <<58>> \o realm \o <<58>> \o password)
fingerprint_value(b) == xor_bytes(checksum(b), BE(4, 1398035790))
MESSAGE_INTEGRITY_SIZE == 20
FINGERPRINT_SIZE == 4

Unhashed(m, n) == write_length([m EXCEPT !.length = n]).raw
MessageIntegrity_add_to(m, key) ==
    IF contains(m, AttrType.fingerprint) THEN Failed(m)
    ELSE add(m, AttrType.message_integrity,
             new_hmac(key, Unhashed(m, m.length + MESSAGE_INTEGRITY_SIZE + ATTRIBUTE_HEADER_SIZE)))
Fingerprint_add_to(m) ==
    add(m, AttrType.fingerprint, fingerprint_value(Unhashed(m, m.length + FINGERPRINT_SIZE + ATTRIBUTE_HEADER_SIZE)))

\* the length of the attributes that follow the integrity
SizeReduced(m) ==
    LET at == CHOOSE i \in DOMAIN m.attributes : m.attributes[i].typ = AttrType.message_integrity
    IN  SumOf([i \in 1 .. Len(m.attributes) - at |->
                 ATTRIBUTE_HEADER_SIZE + nearest_padded_value_length(Len(m.attributes[at + i].value))])
Integrity_matches(m, key, n) ==
    get(m, AttrType.message_integrity)
      = new_hmac(key, Upto(Unhashed(m, n), MESSAGE_HEADER_SIZE + n - (ATTRIBUTE_HEADER_SIZE + MESSAGE_INTEGRITY_SIZE)))
MessageIntegrity_check(m, key) == Integrity_matches(m, key, m.length - SizeReduced(m))
Fingerprint_check(m) ==
    LET v == get(m, AttrType.fingerprint)
    IN  Len(v) = check_size.fingerprint
          /\ v = fingerprint_value(Upto(m.raw, Len(m.raw) - (FINGERPRINT_SIZE + ATTRIBUTE_HEADER_SIZE)))

(***************************************************************************)
(* build: the header, then every setter in turn, up to the first error.     *)
(***************************************************************************)
Attribute_value(a, tid) ==
    CASE a.kind \in MappedAddresses -> MappedAddress_add_to_as(a)
      [] a.kind \in XorAddresses -> XorMappedAddress_add_to_as(a, tid)
      [] a.kind = "error_code" -> ErrorCodeAttribute_value(a)
      [] OTHER -> Put(Layout[a.kind], a)
WrongSize(a) ==
    \/ a.kind \in DOMAIN check_overflow /\ Len(a.text) > check_overflow[a.kind]
    \/ a.kind = "error_code" /\ Len(a.reason) > MAX_REASON
    \/ a.kind = "reservation_token" /\ Len(a.token) # check_size.reservation_token
add_to(m, a, key) ==
    CASE a.kind = "message_integrity" -> MessageIntegrity_add_to(m, key)
      [] a.kind = "fingerprint" -> Fingerprint_add_to(m)
      [] a.kind = "raw" -> add(m, a.typ, a.value)
      [] a.kind \notin {"message_integrity", "fingerprint", "raw"} ->
            IF WrongSize(a) THEN Failed(m) ELSE add(m, AttrType[a.kind], Attribute_value(a, m.transaction_id))
build(m, key) ==
    LET RECURSIVE after(_, _)
        after(s, i) == IF s.out # "ok" \/ i > Len(m.attributes) THEN s ELSE after(add_to(s, m.attributes[i], key), i + 1)
    IN  after(write_header(Fresh(m)), 1)
Written(m) == IF m.out = "ok" THEN Ok(m.raw) ELSE Err
Message_write(m, key) == Written(build(m, key))

(***************************************************************************)
(* decode, the checks, and the getters.                                     *)
(***************************************************************************)
is_stun_message(b) == Len(b) >= MESSAGE_HEADER_SIZE /\ SubSeq(b, 5, 8) = BE(4, MAGIC_COOKIE)
\* the attributes in the first m.length octets after the header
decode_attribute(m, b) ==
    IF Len(b) < ATTRIBUTE_HEADER_SIZE \/ Len(b) - ATTRIBUTE_HEADER_SIZE < nearest_padded_value_length(Num(SubSeq(b, 3, 4)))
    THEN Failed(m)
    ELSE [m EXCEPT !.attributes = Append(@, [typ |-> compat_attr_type(Num(Upto(b, 2))), value |-> SubSeq(b, 5, 4 + Num(SubSeq(b, 3, 4)))])]
decode_attributes(m) ==
    LET RECURSIVE after(_, _)
        after(s, b) ==
            IF s.out # "ok" \/ b = <<>> THEN s
            ELSE after(decode_attribute(s, b), From(b, 5 + nearest_padded_value_length(Num(SubSeq(b, 3, 4)))))
    IN  after(m, SubSeq(m.raw, MESSAGE_HEADER_SIZE + 1, MESSAGE_HEADER_SIZE + m.length))
Header_of(b) ==
    [method |-> read_method(Num(Upto(b, 2))), class |-> read_class(Num(Upto(b, 2))), transaction_id |-> SubSeq(b, 9, 20),
     length |-> Num(SubSeq(b, 3, 4)), attributes |-> <<>>, raw |-> b, out |-> "ok"]
decode(b) ==
    IF ~is_stun_message(b) THEN Failed(Header_of(Zeros(20)))
    ELSE IF Len(b) < MESSAGE_HEADER_SIZE + Num(SubSeq(b, 3, 4)) THEN Failed(Header_of(b))
    ELSE decode_attributes(Header_of(b))

With(k, p) == IF p.out # "ok" THEN NoValue(p.out) ELSE Value((("kind" :> k) @@ p.v))
get_from(k, v, m) ==
    CASE k \in {"message_integrity", "fingerprint"} -> Value([kind |-> k])
      [] k \in MappedAddresses -> MappedAddress_get_from_as(k, v)
      [] k \in XorAddresses -> XorMappedAddress_get_from_as(k, v, m.transaction_id)
      [] k = "error_code" -> ErrorCodeAttribute_get_from(v)
      [] k \in DOMAIN check_size \ {"fingerprint"} /\ Len(v) # check_size[k] -> NoValue("err")
      [] k = "unknown_attributes" /\ Len(v) % 2 = 1 -> NoValue("err")
      [] k = "requested_address_family" /\ Len(v) = 4 /\ v[1] \notin {FAMILY_IPV4, FAMILY_IPV6} -> NoValue("err")
      [] OTHER -> With(k, Get(Layout[k], Reader(v), "err"))
Attribute_read(m, a) ==
    IF KindOf(a.typ) = "raw" THEN Value([kind |-> "raw", typ |-> a.typ, value |-> a.value])
    ELSE get_from(KindOf(a.typ), get(m, a.typ), m)
Checked(m, key) ==
    /\ m.out = "ok"
    /\ contains(m, AttrType.message_integrity) => MessageIntegrity_check(m, key)
    /\ contains(m, AttrType.fingerprint) => Fingerprint_check(m)
Read_all(m, rs) ==
    IF \E i \in DOMAIN rs : rs[i].out # "ok" THEN NoValue("err")
    ELSE Value(<< [method |-> m.method, class |-> m.class, transaction_id |-> m.transaction_id,
                   attributes |-> [i \in DOMAIN rs |-> rs[i].v]] >>)
Parsed(m, key) ==
    IF ~Checked(m, key) THEN NoValue("err")
    ELSE Read_all(m, [i \in DOMAIN m.attributes |-> Attribute_read(m, m.attributes[i])])
Message_read(b, key) == Parsed(decode(b), key)

(***************************************************************************)
(* ChannelData: a number, a length and the data, filled up to four octets.  *)
(***************************************************************************)
MIN_CHANNEL_NUMBER == 16384
MAX_CHANNEL_NUMBER == 32767
ChannelNumber_valid(n) == n \in MIN_CHANNEL_NUMBER .. MAX_CHANNEL_NUMBER
ChannelData_encode(m) ==
    LET b == BE(2, m.number) \o BE(2, Len(m.data)) \o m.data IN Ok(b \o Zeros(PadTo(4, Len(b))))
ChannelData_decode(b) ==
    IF Len(b) < 4 \/ ~ChannelNumber_valid(Num(Upto(b, 2))) \/ Num(SubSeq(b, 3, 4)) > Len(b) - 4 THEN NoValue("err")
    ELSE Value(<< [number |-> Num(Upto(b, 2)), data |-> SubSeq(b, 5, 4 + Num(SubSeq(b, 3, 4)))] >>)

-----------------------------------------------------------------------------
(***************************************************************************)
(* DNS messages as rtc-mdns packs and parses them.  A name is the sequence  *)
(* of its labels; a message is written into [msg, table, out], where table  *)
(* maps the suffixes already written to their offsets, and read by a Parser *)
(* that moves an offset through the message, so that a name can be a        *)
(* pointer to an earlier one.                                               *)
(***************************************************************************)

NAME_LEN == 255
HEADER_LEN == 12
MAX_POINTERS == 10
u16_MAX == 65535

DnsType == [A |-> 1, Ns |-> 2, Cname |-> 5, Soa |-> 6, Ptr |-> 12, Mx |-> 15, Txt |-> 16, Aaaa |-> 28, Srv |-> 33, Opt |-> 41]
TypeOf(n) == IF \E t \in DOMAIN DnsType : DnsType[t] = n THEN CHOOSE t \in DOMAIN DnsType : DnsType[t] = n ELSE "Unsupported"

(***************************************************************************)
(* Packing.                                                                 *)
(***************************************************************************)
NoTable == [s \in {} |-> 0]
Packing(b) == [msg |-> b, table |-> NoTable, out |-> "ok"]
Refused(s) == [s EXCEPT !.out = "err"]
Packed(s, b) == [s EXCEPT !.msg = @ \o b]

\* a suffix already in the message becomes a pointer to it
Entered(s, key, compression) ==
    IF compression /\ Len(s.msg) <= 16383 THEN [s EXCEPT !.table = (key :> Len(s.msg)) @@ @] ELSE s
Suffix_pack(s, key, compression) ==
    IF compression /\ key \in DOMAIN s.table THEN [Packed(s, BE(2, 49152 + s.table[key])) EXCEPT !.out = "pointer"]
    ELSE IF Len(key[1]) = 0 \/ Len(key[1]) >= 64 THEN Refused(s)
    ELSE Packed(Entered(s, key, compression), <<Len(key[1])>> \o key[1])
Name_ended(s) == IF s.out = "ok" THEN Packed(s, <<0>>) ELSE IF s.out = "pointer" THEN [s EXCEPT !.out = "ok"] ELSE s
Name_pack(s, name, compression) ==
    LET RECURSIVE after(_, _)
        after(p, i) == IF p.out # "ok" \/ i > Len(name) THEN p ELSE after(Suffix_pack(p, From(name, i), compression), i + 1)
    IN  Name_ended(after(s, 1))

Name_(f) == [k |-> "name", f |-> f]           \* a name, compressed
Target_(f) == [k |-> "target", f |-> f]       \* a name that may not be compressed
Texts_(f) == [k |-> "texts", f |-> f]         \* counted strings up to the record's length

AResource     == <<Raw(4, "a")>>
AaaaResource  == <<Raw(16, "aaaa")>>
NsResource    == <<Name_("ns")>>
CnameResource == <<Name_("cname")>>
PtrResource   == <<Name_("ptr")>>
MxResource    == <<U(2, "pref"), Name_("mx")>>
SoaResource   == <<Name_("ns"), Name_("mbox"), U(4, "serial"), U(4, "refresh"), U(4, "retry"), U(4, "expire"), U(4, "min_ttl")>>
SrvResource   == <<U(2, "priority"), U(2, "weight"), U(2, "port"), Target_("target")>>
TxtResource   == <<Texts_("txt")>>
OptResource   == <<List("options", "", <<U(2, "code"), Vec(2, "data")>>)>>
Body == [A |-> AResource, Aaaa |-> AaaaResource, Ns |-> NsResource, Cname |-> CnameResource, Ptr |-> PtrResource,
         Mx |-> MxResource, Soa |-> SoaResource, Srv |-> SrvResource, Txt |-> TxtResource, Opt |-> OptResource]
Question == <<Name_("name"), U(2, "typ"), U(2, "class")>>
ResourceHeader == <<Name_("name"), U(2, "typ"), U(2, "class"), U(4, "ttl"), U(2, "length")>>

pack_str(t) == <<Len(t)>> \o t
Item_pack(s, it, v, compression) ==
    CASE it.k = "name"   -> Name_pack(s, v[it.f], compression)
      [] it.k = "target" -> Name_pack(s, v[it.f], FALSE)
      [] it.k = "texts"  -> IF \E i \in DOMAIN v[it.f] : Len(v[it.f][i]) > 255 THEN Refused(s)
                            ELSE Packed(s, Joined([i \in DOMAIN v[it.f] |-> pack_str(v[it.f][i])]))
      [] OTHER -> Packed(s, PutItem(it, v))
pack(s, items, v, compression) ==
    LET RECURSIVE after(_, _)
        after(p, i) == IF p.out # "ok" \/ i > Len(items) THEN p ELSE after(Item_pack(p, items[i], v, compression), i + 1)
    IN  after(s, 1)

\* the length of the record, in the two octets before its first one
fix_len(s, pre) ==
    IF s.out # "ok" \/ Len(s.msg) - pre > u16_MAX THEN Refused(s)
    ELSE [s EXCEPT !.msg = Upto(@, pre - 2) \o BE(2, Len(s.msg) - pre) \o From(@, pre + 1)]
Body_pack(s, r, compression) ==
    IF s.out # "ok" THEN s ELSE fix_len(pack(s, Body[r.type], r.body, compression), Len(s.msg))
Resource_pack(s, r, compression) ==
    Body_pack(pack(s, ResourceHeader, [name |-> r.name, typ |-> DnsType[r.type], class |-> r.class, ttl |-> r.ttl, length |-> 0],
                   compression),
              r, compression)
Record_pack(s, sec, r, compression) == IF sec = "questions" THEN pack(s, Question, r, compression) ELSE Resource_pack(s, r, compression)

Header ==
    <<U(2, "id"), Bits(<< <<"response", 1>>, <<"op_code", 4>>, <<"authoritative", 1>>, <<"truncated", 1>>,
                          <<"recursion_desired", 1>>, <<"recursion_available", 1>>, <<"", 3>>, <<"rcode", 4>> >>)>>
HeaderInternal == Header \o <<U(2, "questions"), U(2, "answers"), U(2, "authorities"), U(2, "additionals")>>
Counts(m) == [questions |-> Len(m.questions), answers |-> Len(m.answers), authorities |-> Len(m.authorities),
              additionals |-> Len(m.additionals)]
Finished(s) == IF s.out = "ok" THEN Ok(s.msg) ELSE Err
SectionNames == <<"questions", "answers", "authorities", "additionals">>
\* the records of the i-th section from its j-th on, then the next section's
Sections_pack(s, m, compression) ==
    LET RECURSIVE after(_, _, _)
        after(p, i, j) ==
            IF p.out # "ok" \/ i > 4 THEN p
            ELSE IF j > Len(m[SectionNames[i]]) THEN after(p, i + 1, 1)
            ELSE after(Record_pack(p, SectionNames[i], m[SectionNames[i]][j], compression), i, j + 1)
    IN  after(s, 1, 1)
Message_pack(m) == Finished(Sections_pack(Packing(Put(HeaderInternal, m.header @@ Counts(m))), m, TRUE))

(***************************************************************************)
(* Builder: the sections in their order, without compression; the counts    *)
(* are filled in at the end.                                                *)
(***************************************************************************)
Builder_new == [section |-> "header", counts |-> [questions |-> 0, answers |-> 0, authorities |-> 0, additionals |-> 0],
                s |-> Packing(Zeros(HEADER_LEN))]
Section == [not_started |-> 0, header |-> 1, questions |-> 2, answers |-> 3, authorities |-> 4, additionals |-> 5, done |-> 6]
start_check(b, sec) == Section[b.section] <= Section[sec]
start(b, sec) == IF ~start_check(b, sec) THEN [b EXCEPT !.s = Refused(@)] ELSE [b EXCEPT !.section = sec]
increment_section_count(b) == [b EXCEPT !.counts[b.section] = @ + 1]
Advanced(b, s) == IF s.out = "ok" THEN increment_section_count([b EXCEPT !.s = s]) ELSE [b EXCEPT !.s = s]
\* add_question, add_resource: in the section that was started
check_section(b, sec) == IF sec = "questions" THEN b.section = sec ELSE b.section \in {"answers", "authorities", "additionals"}
add_record(b, sec, r) ==
    IF ~check_section(b, sec) THEN [b EXCEPT !.s = Refused(@)] ELSE Advanced(b, Record_pack(b.s, sec, r, FALSE))
Built(b, m) ==
    LET RECURSIVE after(_, _, _)
        after(c, i, j) ==
            IF c.s.out # "ok" \/ i > 4 THEN c
            ELSE IF j = 0 THEN after(start(c, SectionNames[i]), i, 1)
            ELSE IF j > Len(m[SectionNames[i]]) THEN after(c, i + 1, 0)
            ELSE after(add_record(c, SectionNames[i], m[SectionNames[i]][j]), i, j + 1)
    IN  after(b, 1, 0)
finish(b, header) ==
    IF b.s.out # "ok" THEN Err ELSE Ok(Put(HeaderInternal, header @@ b.counts) \o From(b.s.msg, HEADER_LEN + 1))
Builder_pack(m) == finish(Built(Builder_new, m), m.header)

(***************************************************************************)
(* Unpacking, at an offset of the message.  A reader is [off, v, out].      *)
(***************************************************************************)
At(off) == [off |-> off, v |-> NoFields, out |-> "ok"]
Bad(r) == [r EXCEPT !.out = "err"]
\* names: where to go on reading, where the record goes on, pointers followed
Name_at(off) == [curr |-> off, next |-> off, ptr |-> 0, labels |-> <<>>, out |-> "more"]
Name_length(labels) == IF labels = <<>> THEN 1 ELSE SumOf([i \in DOMAIN labels |-> Len(labels[i]) + 1])
Name_over(n, out) == [n EXCEPT !.out = out, !.next = IF n.ptr = 0 THEN n.curr + 1 ELSE @]
Label_unpack(n, c) == [n EXCEPT !.labels = Append(@, c), !.curr = @ + 1 + Len(c)]
Pointer_follow(n, to) ==
    [n EXCEPT !.next = IF n.ptr = 0 THEN n.curr + 2 ELSE @, !.ptr = @ + 1, !.curr = to,
              !.out = IF n.ptr >= MAX_POINTERS THEN "err" ELSE "more"]
Name_step(msg, n, c, compression) ==
    CASE c = 0 -> Name_over(n, IF Name_length(n.labels) > NAME_LEN THEN "err" ELSE "ok")
      [] c \in 1 .. 63 -> IF n.curr + 1 + c > Len(msg) THEN Bad(n) ELSE Label_unpack(n, SubSeq(msg, n.curr + 2, n.curr + 1 + c))
      [] c \in 64 .. 191 -> Bad(n)
      [] c \in 192 .. 255 ->
            IF ~compression \/ n.curr + 2 > Len(msg) THEN Bad(n) ELSE Pointer_follow(n, (c - 192) * 256 + msg[n.curr + 2])
unpack_compressed(msg, off, compression) ==
    LET RECURSIVE after(_)
        after(n) ==
            IF n.out # "more" THEN n
            ELSE IF n.curr >= Len(msg) THEN Bad(n)
            ELSE after(Name_step(msg, n, msg[n.curr + 1], compression))
    IN  after(Name_at(off))
\* past a name without following its pointer
Name_skip(msg, off) ==
    LET RECURSIVE after(_)
        after(r) ==
            IF r.off >= Len(msg) THEN Bad(r)
            ELSE CASE msg[r.off + 1] = 0 -> At(r.off + 1)
                   [] msg[r.off + 1] \in 1 .. 63 ->
                        IF r.off + 1 + msg[r.off + 1] > Len(msg) THEN Bad(r) ELSE after(At(r.off + 1 + msg[r.off + 1]))
                   [] msg[r.off + 1] \in 64 .. 191 -> Bad(r)
                   [] msg[r.off + 1] \in 192 .. 255 -> At(r.off + 2)
    IN  after(At(off))

Field(r, f, x, off) == [r EXCEPT !.v = (f :> x) @@ @, !.off = off]
Name_taken(r, f, n) == IF n.out # "ok" THEN Bad(r) ELSE Field(r, f, n.labels, n.next)
unpack_bytes(msg, r, it) ==
    IF r.off + it.n > Len(msg) THEN Bad(r)
    ELSE Field(r, it.f, IF it.k = "u" THEN Num(SubSeq(msg, r.off + 1, r.off + it.n)) ELSE SubSeq(msg, r.off + 1, r.off + it.n),
               r.off + it.n)
\* counted strings: one after the other while the record's length lasts
Texts_unpack(msg, r, f, length) ==
    LET RECURSIVE after(_, _)
        after(texts, off) ==
            IF off - r.off >= length THEN Field(r, f, texts, off)
            ELSE IF off >= Len(msg) \/ off + 1 + msg[off + 1] > Len(msg) \/ off - r.off + 1 + msg[off + 1] > length THEN Bad(r)
            ELSE after(Append(texts, SubSeq(msg, off + 2, off + 1 + msg[off + 1])), off + 1 + msg[off + 1])
    IN  after(<<>>, r.off)
Options_unpack(msg, r, f, length) ==
    LET RECURSIVE after(_, _)
        after(options, off) ==
            IF off - r.off >= length THEN Field(r, f, options, off)
            ELSE IF off + 4 > Len(msg) \/ off + 4 + Num(SubSeq(msg, off + 3, off + 4)) > Len(msg) THEN Bad(r)
            ELSE LET n == Num(SubSeq(msg, off + 3, off + 4))
                 IN  after(Append(options, [code |-> Num(SubSeq(msg, off + 1, off + 2)), data |-> SubSeq(msg, off + 5, off + 4 + n)]),
                           off + 4 + n)
    IN  after(<<>>, r.off)
Item_unpack(msg, r, it, length) ==
    CASE it.k = "name"   -> Name_taken(r, it.f, unpack_compressed(msg, r.off, TRUE))
      [] it.k = "target" -> Name_taken(r, it.f, unpack_compressed(msg, r.off, FALSE))
      [] it.k = "texts"  -> Texts_unpack(msg, r, it.f, length)
      [] it.k = "list"   -> Options_unpack(msg, r, it.f, length)
      [] OTHER -> unpack_bytes(msg, r, it)
unpack(msg, off, items, length) ==
    LET RECURSIVE after(_, _)
        after(r, i) == IF r.out # "ok" \/ i > Len(items) THEN r ELSE after(Item_unpack(msg, r, items[i], length), i + 1)
    IN  after(At(off), 1)

(***************************************************************************)
(* Parser: a section at a time, each record read or skipped.                *)
(***************************************************************************)
Counted(sec) == CASE sec = 2 -> "questions" [] sec = 3 -> "answers" [] sec = 4 -> "authorities" [] sec = 5 -> "additionals"
\* header is the message header; hdr the record header read ahead
Parser(h) == [header |-> h, section |-> Section.questions, off |-> HEADER_LEN, index |-> 0, res_header_valid |-> FALSE,
              res_header |-> NoFields, v |-> <<>>, sections |-> <<>>, err |-> "none"]
Parser_start(msg) == Get(HeaderInternal, Reader(msg), "err")
check_advance(p, sec) ==
    CASE p.section < sec -> [p EXCEPT !.err = "not_started"]
      [] p.section > sec -> [p EXCEPT !.err = "section_done"]
      [] p.section = sec ->
            IF p.index = p.header[Counted(sec)]
            THEN [p EXCEPT !.index = 0, !.section = @ + 1, !.res_header_valid = FALSE, !.err = "section_done"]
            ELSE [p EXCEPT !.res_header_valid = FALSE]
Header_taken(p, r) ==
    IF r.out # "ok" THEN [p EXCEPT !.err = "bad"]
    ELSE [p EXCEPT !.res_header_valid = TRUE, !.res_header = r.v, !.off = r.off]
Header_next(msg, p) == IF p.err # "none" THEN p ELSE Header_taken(p, unpack(msg, p.off, ResourceHeader, 0))
resource_header(msg, p, sec) == IF p.res_header_valid THEN p ELSE Header_next(msg, check_advance(p, sec))
Resource_of(h, body) == [name |-> h.name, type |-> TypeOf(h.typ), class |-> h.class, ttl |-> h.ttl, body |-> body]
Body_taken(p, r) ==
    IF r.out # "ok" THEN [p EXCEPT !.err = "bad", !.res_header_valid = FALSE]
    ELSE [p EXCEPT !.res_header_valid = FALSE, !.off = r.off, !.index = @ + 1, !.v = Append(@, Resource_of(p.res_header, r.v))]
unpack_resource_body(msg, p) ==
    IF p.err # "none" THEN p
    ELSE IF TypeOf(p.res_header.typ) = "Unsupported" THEN [p EXCEPT !.err = "bad", !.res_header_valid = FALSE]
    ELSE Body_taken(p, unpack(msg, p.off, Body[TypeOf(p.res_header.typ)], p.res_header.length))
resource(msg, p, sec) == unpack_resource_body(msg, resource_header(msg, p, sec))
Question_taken(p, r) ==
    IF r.out # "ok" THEN [p EXCEPT !.err = "bad"] ELSE [p EXCEPT !.off = r.off, !.index = @ + 1, !.v = Append(@, r.v)]
Question_next(msg, p) == IF p.err # "none" THEN p ELSE Question_taken(p, unpack(msg, p.off, Question, 0))
question(msg, p) == Question_next(msg, check_advance(p, Section.questions))
Moved(msg, p, r, n) ==
    IF p.err # "none" THEN p
    ELSE IF r.out # "ok" \/ r.off + n > Len(msg) THEN [p EXCEPT !.err = "bad"]
    ELSE [p EXCEPT !.off = r.off + n, !.index = @ + 1]
skip_question(msg, p) == Moved(msg, p, Name_skip(msg, p.off), 4)
Record_length(msg, r) == IF r.out # "ok" \/ r.off + 10 > Len(msg) THEN u16_MAX ELSE 10 + Num(SubSeq(msg, r.off + 9, r.off + 10))
Resource_skip(msg, p, r) == Moved(msg, p, r, Record_length(msg, r))
skip_resource(msg, p) ==
    IF p.res_header_valid THEN [Moved(msg, p, At(p.off), p.res_header.length) EXCEPT !.res_header_valid = FALSE]
    ELSE Resource_skip(msg, p, Name_skip(msg, p.off))
Read_one(msg, p, sec) == IF sec = Section.questions THEN question(msg, p) ELSE resource(msg, p, sec)
Skip_one(msg, p, sec) == IF sec = Section.questions THEN skip_question(msg, p) ELSE skip_resource(msg, p)
\* all_questions, all_answers, ...: the records of a section, until it is done
all_of(msg, p, sec) ==
    LET RECURSIVE after(_)
        after(q) == IF q.err # "none" THEN q ELSE after(Read_one(msg, q, sec))
    IN  after([p EXCEPT !.v = <<>>])
\* skip_all_questions, skip_all_answers, ...
skip_all(msg, p, sec) ==
    LET RECURSIVE after(_)
        after(q) == IF q.err # "none" THEN q ELSE after(Skip_one(msg, check_advance(q, sec), sec))
    IN  after([p EXCEPT !.v = <<>>])
Onward(p) == IF p.err = "section_done" THEN [p EXCEPT !.err = "none", !.sections = Append(@, p.v)] ELSE [p EXCEPT !.err = "bad"]
\* one section after the other; the first skipped ones are skipped over
Collect(msg, p, skipped) ==
    LET RECURSIVE after(_)
        after(q) ==
            IF q.err # "none" \/ q.section > Section.additionals THEN q
            ELSE after(Onward(IF q.section < skipped THEN skip_all(msg, q, q.section) ELSE all_of(msg, q, q.section)))
    IN  after(p)
Header_fields == {"id", "response", "op_code", "authoritative", "truncated", "recursion_desired", "recursion_available", "rcode"}
Message_of(p) ==
    IF p.err # "none" THEN NoValue("err")
    ELSE Value(<< [header |-> [f \in Header_fields |-> p.header[f]], questions |-> p.sections[1], answers |-> p.sections[2],
                   authorities |-> p.sections[3], additionals |-> p.sections[4]] >>)
Started(msg, h, skipped) == IF h.out # "ok" THEN NoValue("err") ELSE Message_of(Collect(msg, Parser(h.v), skipped))
\* a message, or the additional records only, past everything before them
Message_unpack(msg, skipped) == Started(msg, Parser_start(msg), skipped)

Transport == INSTANCE WireTransport
Media == INSTANCE WireMedia

(***************************************************************************)
(* SRTP at the two ends of a connection (update_srtp_contexts, SrtpHandler).*)
(***************************************************************************)
Material(p, is_client) ==
    Transport!export_keying_material(
        Transport!Endpoint(Transport!CipherSuiteAes128GcmSha256(FALSE), is_client),
        Media!LABEL_EXTRACTOR_DTLS_SRTP, Media!keying_material_len(p))
Local_(p, keys, first) == Media!Cipher_new(p, keys.local_master_key, keys.local_master_salt, first)
Remote_(p, keys, first) == Media!Cipher_new(p, keys.remote_master_key, keys.remote_master_salt, first)
Keys(p, is_client) == Media!set_session_keys_from_keying_material(p, Material(p, is_client), is_client)
ROC == 3
INDEX == 65541
\* the client writes RTP, the server RTCP; r is the packet as marshalled
Srtp_write(p, m, r) == Media!encrypt_rtp_packet(p, Local_(p, Keys(p, TRUE), 0), m, ROC, r)
Srtp_read(p, b) == Media!decrypt_rtp_packet(p, Remote_(p, Keys(p, FALSE), 0), b, ROC, Media!RtpHeader_unmarshal(b))
Srtcp_write(p, r) == Media!encrypt_rtcp(p, Local_(p, Keys(p, FALSE), 3), INDEX, r)
Srtcp_read(p, b) == Media!decrypt_rtcp(p, Remote_(p, Keys(p, TRUE), 3), b)

(***************************************************************************)
(* The codecs of the stack behind one interface: what each writes for a     *)
(* message, the size it declares for it, and what it reads from octets.     *)
(***************************************************************************)

Sealed == DOMAIN Transport!Connection
HeaderExtensions == {"abs_send_time", "audio_level", "playout_delay", "transport_cc", "video_orientation"}

\* SRTP and SRTCP, by protection profile
Srtp_profile ==
    [srtp_cm_80 |-> "aes_128_cm_80", srtp_cm_32 |-> "aes_128_cm_32", srtp_gcm |-> "aead_aes_128_gcm", srtp_gcm_256 |-> "aead_aes_256_gcm"]
Srtcp_profile == [srtcp_cm |-> "aes_256_cm_80", srtcp_cm_32 |-> "aes_256_cm_32", srtcp_gcm |-> "aead_aes_256_gcm"]
SrtpCodecs == DOMAIN Srtp_profile
SrtcpCodecs == DOMAIN Srtcp_profile

\* the credentials of ICE checks and of TURN requests
Stun_key == [stun |-> new_short_term_integrity(<<5, 6, 7>>), turn |-> new_long_term_integrity(<<1, 2>>, <<3>>, <<4, 5>>)]
StunCodecs == DOMAIN Stun_key

\* a DNS message behind records that its reader skips
Behind(m) ==
    LET name == << <<97>>, <<98>> >>
        srv == [name |-> name, type |-> "Srv", class |-> 1, ttl |-> 9, body |-> [priority |-> 1, weight |-> 2, port |-> 3, target |-> name]]
    IN  [m EXCEPT !.questions = << [name |-> name, typ |-> 1, class |-> 1] >>, !.answers = <<srv, srv>>, !.authorities = <<srv>>]

Marshal_rtcp(c, r) == IF c \in SrtcpCodecs THEN Srtcp_write(Media!ProtectionProfile[Srtcp_profile[c]], r) ELSE r
Marshal_rtp(c, m, r) == IF c \in SrtpCodecs THEN Srtp_write(Media!ProtectionProfile[Srtp_profile[c]], m, r) ELSE r
Marshal(c, m) ==
    CASE c = "compound" -> Media!CompoundPacket_marshal(m)
      [] c \in {"rtcp", "sli"} \cup SrtcpCodecs -> Marshal_rtcp(c, Media!marshal_to(m))
      [] c = "sctp" -> Transport!marshal(m)
      [] c = "dtls" -> Transport!RecordLayer_marshal(m)
      [] c \in {"rtp"} \cup SrtpCodecs -> Marshal_rtp(c, m, Media!Packet_marshal(m))
      [] c \in HeaderExtensions -> Media!HeaderExtension_marshal(m)
      [] c \in Sealed -> Transport!seal(c, m)
      [] c \in StunCodecs -> Message_write(m, Stun_key[c])
      [] c = "channel_data" -> ChannelData_encode(m)
      [] c = "dcep" -> Transport!ChannelMessage_marshal(m)
      [] c \in {"dns", "dns_skip"} -> Message_pack(IF c = "dns_skip" THEN Behind(m) ELSE m)
      [] c = "dns_builder" -> Builder_pack(m)
\* the codecs that declare a size before they write
Declaring == {"rtcp", "sli", "compound", "sctp", "dtls", "rtp", "dcep"} \cup HeaderExtensions
\* a build that checks arithmetic stops where another one wraps
Stops(c, m) == c \in {"rtp"} \cup SrtpCodecs /\ Media!Header_overflows(m)
MarshalSize(c, m) ==
    CASE c \in {"rtcp", "sli"} -> Media!marshal_size(m)
      [] c = "compound" -> Media!CompoundPacket_size(m)
      [] c = "sctp" -> Transport!marshaled_len(m)
      [] c = "dtls" -> Transport!RecordLayer_size(m)
      [] c = "rtp"  -> Media!Packet_size(m)
      [] c \in HeaderExtensions -> Media!HeaderExtension_size(c)
      [] c = "dcep" -> Transport!ChannelMessage_size(m)
Unmarshal_rtcp(c, r) == IF c = "compound" THEN Media!Compound_of(r) ELSE r
Clear_rtcp(c, b) == IF c \in SrtcpCodecs THEN Srtcp_read(Media!ProtectionProfile[Srtcp_profile[c]], b) ELSE Ok(b)
Read_rtcp(c, r) == IF r.out # "ok" THEN NoValue(r.out) ELSE Unmarshal_rtcp(c, Media!unmarshal(r.b))
Unmarshal(c, b) ==
    CASE c \in {"rtcp", "compound"} \cup SrtcpCodecs -> Read_rtcp(c, Clear_rtcp(c, b))
      [] c = "sli" -> Media!SliceLossIndication_unmarshal(b)
      [] c = "sctp" -> Transport!handle_inbound(b)
      [] c = "dtls" -> Transport!Datagram_unmarshal(b)
      [] c = "rtp"  -> Media!Packet_unmarshal(b)
      [] c \in SrtpCodecs -> Srtp_read(Media!ProtectionProfile[Srtp_profile[c]], b)
      [] c \in HeaderExtensions -> Media!HeaderExtension_unmarshal(c, b)
      [] c \in Sealed -> Transport!open(c, b)
      [] c \in StunCodecs -> Message_read(b, Stun_key[c])
      [] c = "channel_data" -> ChannelData_decode(b)
      [] c = "dcep" -> Transport!ChannelMessage_unmarshal(b)
      [] c \in {"dns", "dns_builder", "dns_skip"} ->
            Message_unpack(b, IF c = "dns_skip" THEN Section.additionals ELSE Section.header)

-----------------------------------------------------------------------------
CONSTANTS Samples,       \* per codec, the messages the writer chooses from
          Followers,     \* per codec, the messages it may add to the same datagram
          MaxMessages    \* messages in a datagram

VARIABLES codec,     \* the codec in use
          sent,      \* the messages written
          octets,    \* the datagram
          whole,     \* nothing was cut off
          got        \* what the reader made of it
vars == <<codec, sent, octets, whole, got>>

Pending == [out |-> "none", v |-> <<>>]

Init ==
    /\ codec \in DOMAIN Samples
    /\ sent = <<>> /\ octets = <<>> /\ whole = TRUE /\ got = Pending

Write ==
    /\ got = Pending /\ whole /\ Len(sent) < MaxMessages
    /\ \E m \in IF sent = <<>> THEN Samples[codec] ELSE Followers[codec] :
         \E r \in {Marshal(codec, m)} \cup (IF Stops(codec, m) THEN {Err} ELSE {}) :
            IF r.out = "ok"
            THEN /\ sent' = Append(sent, m) /\ octets' = octets \o r.b
                 /\ UNCHANGED <<codec, whole, got>>
            ELSE /\ got' = [out |-> "refused", v |-> <<>>]
                 /\ UNCHANGED <<codec, sent, octets, whole>>

Cut ==
    /\ got = Pending /\ whole /\ Len(sent) = 1
    /\ \E n \in 1 .. Len(octets) - 1 : octets' = SubSeq(octets, 1, n)
    /\ whole' = FALSE
    /\ UNCHANGED <<codec, sent, got>>

Read ==
    /\ got = Pending /\ sent # <<>>
    /\ got' = Unmarshal(codec, octets)
    /\ UNCHANGED <<codec, sent, octets, whole>>

Next == Write \/ Cut \/ Read
Spec == Init /\ [][Next]_vars

\* set_extension checks a first extension for neither its number nor a length of zero,
\* and a header with such an extension cannot be written as it is.
Expressible(h) ==
    \A i \in 1 .. Len(h.extensions) :
        /\ Media!InRange(h.extension_profile, h.extensions[i].id, Len(h.extensions[i].payload))
        /\ ~Media!Header_overflows(h)

\* What one endpoint writes, the other reads back, message by message, unless an RTP
\* header has an extension that its profile cannot express.
RoundTrip ==
    whole /\ got.out \notin {"none", "refused"} =>
        \/ got.out = "ok" /\ got.v = sent
        \/ codec = "rtp" /\ ~Expressible(sent[1])

\* The size a message declares before it is written is the number of octets written.
SizeExact ==
    LET RECURSIVE total(_)
        total(s) == IF s = <<>> THEN 0 ELSE MarshalSize(codec, Head(s)) + total(Tail(s))
    IN  codec \in Declaring /\ whole => Len(octets) = total(sent)

\* A datagram cut short is refused with an error: it is not taken for another
\* message, and the reader never reads past its end.  Only the padding after a
\* message may be missing.  Only RTP, whose payload is all that is left, may be
\* taken for a shorter packet.  SRTCP under a CM profile is refused also where the cut
\* leaves an octet without its first bit in the place of the index, so that the packet is
\* returned with its tag not compared (decrypt_rtcp): RTCP's own length refuses it.
CutRefused ==
    ~whole /\ got # Pending => got.out = "err" \/ (got.out = "ok" /\ (codec = "rtp" \/ got.v = sent))
=============================================================================
