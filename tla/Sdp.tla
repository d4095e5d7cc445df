-------------------------------- MODULE Sdp --------------------------------
(***************************************************************************)
(* Session descriptions as text: the reader of rtc-sdp, a machine of        *)
(* sixteen states that takes one line at a time, and the writer.  A line is *)
(* its key and its value, already split where the code splits it:           *)
(*   v <<n>>      o six fields      c <<net, type, address...>>             *)
(*   b <<number of leading "X-", type, bandwidth>>     t <<start, stop...>> *)
(*   r and z: times as <<number, factor>>, factor 1 when there is no unit   *)
(*   a <<key>> or <<key, word...>>, the words of what follows the colon     *)
(*   m <<media, <<port>> or <<port, range>>, protocols, format...>>         *)
(* and one field for the other keys.  A number that does not parse is NaN.  *)
(***************************************************************************)
EXTENDS Integers, Sequences, SequencesExt, FiniteSets, TLC

CONSTANTS Menus         \* what a document starts with, and the lines it may go on with

VARIABLES menu,         \* the menu of this document
          doc,          \* the lines read so far
          parse         \* the reader: its state and the description so far

vars == <<menu, doc, parse>>

NaN == -1
I64_MAX == 2147483647   \* stands for the largest 64-bit integer

Line(key, val) == [key |-> key, val |-> val]

(***************************************************************************)
(* The description.                                                         *)
(***************************************************************************)
SessionDescription ==
    [version |-> 0, origin |-> <<>>, session_name |-> <<>>, information |-> <<>>, uri |-> <<>>,
     email |-> <<>>, phone |-> <<>>, connection |-> <<>>, bandwidth |-> <<>>, times |-> <<>>,
     zones |-> <<>>, key |-> <<>>, attributes |-> <<>>, media |-> <<>>]

MediaDescription(name) ==
    [name |-> name, title |-> <<>>, connection |-> <<>>, bandwidth |-> <<>>, key |-> <<>>,
     attributes |-> <<>>]

(***************************************************************************)
(* Reading values: a sequence of one parsed value, or none for an error.    *)
(***************************************************************************)
Fail == <<>>

parse_time_units(x) ==
    IF x[1] = NaN \/ x[1] > I64_MAX \div x[2] THEN Fail ELSE <<x[1] * x[2]>>

ParsedTimes(val) == [i \in DOMAIN val |-> parse_time_units(val[i])]

unmarshal_protocol_version(val) == IF val = <<0>> THEN <<0>> ELSE Fail

unmarshal_origin(val) ==
    IF /\ Len(val) = 6
       /\ val[2] # NaN /\ val[3] # NaN
       /\ val[4] = "IN" /\ val[5] \in {"IP4", "IP6"}
    THEN <<val>> ELSE Fail

unmarshal_uri(val) == IF val = <<"junk">> THEN Fail ELSE <<val>>

unmarshal_connection_information(val) ==
    IF Len(val) >= 2 /\ val[1] = "IN" /\ val[2] \in {"IP4", "IP6"}
    THEN <<SubSeq(val, 1, IF Len(val) > 2 THEN 3 ELSE 2)>> ELSE Fail

unmarshal_bandwidth(val) ==
    IF Len(val) = 3 /\ val[3] # NaN
    THEN <<[experimental |-> val[1] > 0, type |-> val[2], bandwidth |-> val[3]]>> ELSE Fail

unmarshal_timing(val) ==
    IF Len(val) >= 2 /\ val[1] # NaN /\ val[2] # NaN
    THEN <<[timing |-> SubSeq(val, 1, 2), repeats |-> <<>>]>> ELSE Fail

unmarshal_repeat_times(val) ==
    IF Len(val) >= 3 /\ \A i \in DOMAIN val : ParsedTimes(val)[i] # Fail
    THEN <<FlattenSeq(ParsedTimes(val))>> ELSE Fail

unmarshal_time_zones(val) ==
    IF /\ Len(val) % 2 = 0
       /\ \A i \in DOMAIN val : IF i % 2 = 1 THEN val[i][1] # NaN ELSE parse_time_units(val[i]) # Fail
    THEN <<[i \in 1 .. Len(val) \div 2 |-> <<val[2 * i - 1][1], parse_time_units(val[2 * i])[1]>>]>>
    ELSE Fail

\* key, whether there is a value, and the value
unmarshal_attribute(val) ==
    <<[key |-> val[1], valued |-> Len(val) > 1, value |-> Tail(val)]>>

unmarshal_media_description(val) ==
    IF /\ Len(val) >= 4
       /\ val[1] \in {"audio", "video", "text", "application", "message", "image"}
       /\ \A i \in DOMAIN val[2] : val[2][i] # NaN
       /\ \A i \in DOMAIN val[3] : val[3][i] # ""
    THEN <<MediaDescription([media |-> val[1], port |-> val[2], protos |-> val[3],
                             formats |-> SubSeq(val, 4, Len(val))])>>
    ELSE Fail

(***************************************************************************)
(* The states: which keys each accepts, and the state after them.           *)
(***************************************************************************)
s1 == [v |-> 2]
s2 == [o |-> 3]
s3 == [s |-> 4]
s4 == [i |-> 7, u |-> 10, e |-> 6, p |-> 8, c |-> 5, b |-> 5, t |-> 9]
s5 == [b |-> 5, t |-> 9]
s6 == [p |-> 8, c |-> 5, b |-> 5, t |-> 9]
s7 == [u |-> 10, e |-> 6, p |-> 8, c |-> 5, b |-> 5, t |-> 9]
s8 == [c |-> 5, b |-> 5, t |-> 9]
s9 == [z |-> 13, k |-> 11, a |-> 11, r |-> 9, t |-> 9, m |-> 12]
s10 == [e |-> 6, p |-> 8, c |-> 5, b |-> 5, t |-> 9]
s11 == [a |-> 11, m |-> 12]
s12 == [a |-> 14, k |-> 14, b |-> 15, c |-> 15, i |-> 16, m |-> 12]

s13 == [a |-> 11, k |-> 11, m |-> 12]
s14 == [a |-> 14, k |-> 14, b |-> 15, c |-> 15, i |-> 16, m |-> 12]
s15 == [a |-> 14, k |-> 14, b |-> 15, c |-> 15, i |-> 16, m |-> 12]
s16 == [a |-> 14, k |-> 14, b |-> 15, c |-> 15, i |-> 16, m |-> 12]

States == <<s1, s2, s3, s4, s5, s6, s7, s8, s9, s10, s11, s12, s13, s14, s15, s16>>

Refused == 0

\* the states in which the text may end
Final == {9, 11, 12, 13, 14, 15, 16}

InMedia(st) == st \in {12, 14, 15, 16}

\* the value of a line, by its key
ReadValue(key, val) ==
    CASE key = "v" -> unmarshal_protocol_version(val)
      [] key = "o" -> unmarshal_origin(val)
      [] key = "u" -> unmarshal_uri(val)
      [] key = "c" -> unmarshal_connection_information(val)
      [] key = "b" -> unmarshal_bandwidth(val)
      [] key = "t" -> unmarshal_timing(val)
      [] key = "r" -> unmarshal_repeat_times(val)
      [] key = "z" -> unmarshal_time_zones(val)
      [] key = "a" -> unmarshal_attribute(val)
      [] key = "m" -> unmarshal_media_description(val)
      [] OTHER -> <<val>>

\* where a line of the session part goes
InSession(d, key, x) ==
    CASE key = "v" -> [d EXCEPT !.version = x]
      [] key = "o" -> [d EXCEPT !.origin = x]
      [] key = "s" -> [d EXCEPT !.session_name = x]
      [] key = "i" -> [d EXCEPT !.information = <<x>>]
      [] key = "u" -> [d EXCEPT !.uri = <<x>>]
      [] key = "e" -> [d EXCEPT !.email = <<x>>]
      [] key = "p" -> [d EXCEPT !.phone = <<x>>]
      [] key = "c" -> [d EXCEPT !.connection = <<x>>]
      [] key = "b" -> [d EXCEPT !.bandwidth = Append(@, x)]
      [] key = "t" -> [d EXCEPT !.times = Append(@, x)]
      [] key = "r" -> [d EXCEPT !.times[Len(d.times)].repeats = Append(@, x)]
      [] key = "z" -> [d EXCEPT !.zones = @ \o x]
      [] key = "k" -> [d EXCEPT !.key = <<x>>]
      [] key = "a" -> [d EXCEPT !.attributes = Append(@, x)]
      [] key = "m" -> [d EXCEPT !.media = Append(@, x)]

\* where a line of a media section goes: to the latest section
InSection(m, key, x) ==
    CASE key = "i" -> [m EXCEPT !.title = <<x>>]
      [] key = "c" -> [m EXCEPT !.connection = <<x>>]
      [] key = "b" -> [m EXCEPT !.bandwidth = Append(@, x)]
      [] key = "k" -> [m EXCEPT !.key = <<x>>]
      [] key = "a" -> [m EXCEPT !.attributes = Append(@, x)]

Placed(p, key, x) ==
    IF InMedia(p.st) /\ key # "m"
    THEN [p.desc EXCEPT !.media[Len(p.desc.media)] = InSection(@, key, x)]
    ELSE InSession(p.desc, key, x)

Stored(p, key, x) ==
    IF x = Fail THEN [p EXCEPT !.st = Refused]
    ELSE [st |-> States[p.st][key], desc |-> Placed(p, key, x[1])]

\* one line; an error is final
ReadLine(p, line) ==
    IF p.st = Refused THEN p
    ELSE IF line.key \notin DOMAIN States[p.st] THEN [p EXCEPT !.st = Refused]
    ELSE Stored(p, line.key, ReadValue(line.key, line.val))

Start == [st |-> 1, desc |-> SessionDescription]

unmarshal(lines) == FoldLeft(ReadLine, Start, lines)

Accepted(p) == p.st \in Final

(***************************************************************************)
(* Writing.                                                                 *)
(***************************************************************************)
\* a line for each value; none for none
Lines(key, values) == [i \in DOMAIN values |-> Line(key, values[i])]

BandwidthLine(b) == Line("b", <<IF b.experimental THEN 1 ELSE 0, b.type, b.bandwidth>>)

AttributeLine(a) == Line("a", <<a.key>> \o (IF a.valued THEN a.value ELSE <<>>))

RepeatLine(r) == Line("r", [i \in DOMAIN r |-> <<r[i], 1>>])

TimeLines(t) ==
    <<Line("t", t.timing)>> \o [i \in DOMAIN t.repeats |-> RepeatLine(t.repeats[i])]


ZoneLine(zones) ==
    IF zones = <<>> THEN <<>>
    ELSE <<Line("z", FlattenSeq([i \in DOMAIN zones |-> <<<<zones[i][1], 1>>, <<zones[i][2], 1>>>>]))>>

MediaName(n) == Line("m", <<n.media, n.port, n.protos>> \o n.formats)

AttributeLines(as) == [i \in DOMAIN as |-> AttributeLine(as[i])]

BandwidthLines(bs) == [i \in DOMAIN bs |-> BandwidthLine(bs[i])]

MediaLines(m) ==
    <<MediaName(m.name)>> \o Lines("i", m.title) \o Lines("c", m.connection)
        \o BandwidthLines(m.bandwidth) \o Lines("k", m.key) \o AttributeLines(m.attributes)

marshal(d) ==
    <<Line("v", <<d.version>>), Line("o", d.origin), Line("s", d.session_name)>>
        \o Lines("i", d.information) \o Lines("u", d.uri) \o Lines("e", d.email)
        \o Lines("p", d.phone) \o Lines("c", d.connection) \o BandwidthLines(d.bandwidth)
        \o FlattenSeq([i \in DOMAIN d.times |-> TimeLines(d.times[i])])
        \o ZoneLine(d.zones) \o Lines("k", d.key) \o AttributeLines(d.attributes)
        \o FlattenSeq([i \in DOMAIN d.media |-> MediaLines(d.media[i])])

(***************************************************************************)
(* The codecs of a section, joined from its attributes.                     *)
(***************************************************************************)
PayloadTypes == {"0", "96", "97"}       \* the words that parse as one

NoCodec == [pt |-> "", name |-> "", fmtp |-> "", rtcp_feedback |-> <<>>]

parse_rtpmap(v) ==
    IF Len(v) = 2 /\ v[1] \in PayloadTypes THEN <<[NoCodec EXCEPT !.pt = v[1], !.name = v[2]]>> ELSE Fail

\* the parameters are one word
parse_fmtp(v) ==
    IF Len(v) = 2 /\ v[1] \in PayloadTypes THEN <<[NoCodec EXCEPT !.pt = v[1], !.fmtp = v[2]]>> ELSE Fail

\* a type and all that follows it
parse_rtcp_fb(v) ==
    IF Len(v) >= 2 /\ v[1] \in PayloadTypes
    THEN <<[NoCodec EXCEPT !.pt = v[1], !.rtcp_feedback = <<Tail(v)>>]>> ELSE Fail

merge_codecs(codecs, c) ==
    IF c.pt \notin DOMAIN codecs THEN codecs @@ (c.pt :> c)
    ELSE [codecs EXCEPT ![c.pt] =
             [@ EXCEPT !.name = IF @ = "" THEN c.name ELSE @,
                       !.fmtp = IF @ = "" THEN c.fmtp ELSE @,
                       !.rtcp_feedback = @ \o c.rtcp_feedback]]

AttributeCodec(a) ==
    CASE a.key = "rtpmap" -> parse_rtpmap(a.value)
      [] a.key = "fmtp" -> parse_fmtp(a.value)
      [] a.key = "rtcp-fb" -> parse_rtcp_fb(a.value)
      [] OTHER -> Fail

MergeAttribute(codecs, c) == IF c = Fail THEN codecs ELSE merge_codecs(codecs, c[1])

codecs_of(m) ==
    FoldLeft(LAMBDA codecs, a : MergeAttribute(codecs, AttributeCodec(a)), << >>, m.attributes)

(***************************************************************************)
(* Documents, line by line.                                                 *)
(***************************************************************************)
Init ==
    /\ menu \in Menus
    /\ doc = menu.head
    /\ parse = unmarshal(menu.head)

Read ==
    /\ parse.st # Refused
    /\ Len(doc) < Len(menu.head) + menu.lines
    /\ \E key \in DOMAIN menu.values : \E val \in menu.values[key] :
           /\ doc' = Append(doc, Line(key, val))
           /\ parse' = ReadLine(parse, Line(key, val))
    /\ UNCHANGED menu

Next == Read

Spec == Init /\ [][Next]_vars


Order == [v |-> 1, o |-> 2, s |-> 3, i |-> 4, u |-> 5, e |-> 6, p |-> 7, c |-> 8, b |-> 9,
          t |-> 10, r |-> 10, z |-> 11, k |-> 12, a |-> 13]
Many == {"b", "t", "r", "a"}

\* the documented order of the session part: vosi?u?e?p?c?b*(tr*)+z?k?a*
InOrder(keys) ==
    /\ \A n \in 1 .. 3 : n \in DOMAIN keys /\ keys[n] = <<"v", "o", "s">>[n]
    /\ \E n \in DOMAIN keys : keys[n] = "t" /\ \A j \in 1 .. n : keys[j] # "r"
    /\ \A n \in 2 .. Len(keys) : \/ Order[keys[n - 1]] < Order[keys[n]]
                                 \/ Order[keys[n - 1]] = Order[keys[n]] /\ keys[n] \in Many

SessionKeys == LET at == {n \in DOMAIN doc : doc[n].key = "m"}
                   end == IF at = {} THEN Len(doc) ELSE (CHOOSE n \in at : \A j \in at : n <= j) - 1
               IN  [n \in 1 .. end |-> doc[n].key]

WellFormed == \A n \in DOMAIN doc : ReadValue(doc[n].key, doc[n].val) # Fail

(* The reader accepts exactly the documents whose lines are well formed,     *)
(* whose session part has the documented order and whose sections hold lines *)
(* of a section: the sixteen states neither let a misplaced line through nor *)
(* refuse one in its place.                                                  *)
OrderAccepted ==
    Accepted(parse) <=>
        /\ WellFormed
        /\ InOrder(SessionKeys)
        /\ \A n \in Len(SessionKeys) + 1 .. Len(doc) : doc[n].key \in {"m", "i", "c", "b", "k", "a"}

\* the values of the attributes of a section under a key and a payload type, in order
Listed(m, key, pt) ==
    LET as == SelectSeq(m.attributes, LAMBDA a : a.key = key /\ Len(a.value) >= 2 /\ a.value[1] = pt)
    IN  [i \in DOMAIN as |-> Tail(as[i].value)]

\* the first value that is a single word
FirstWord(vs) == LET words == SelectSeq(vs, LAMBDA v : Len(v) = 1) IN IF words = <<>> THEN "" ELSE words[1][1]

(* A section's codecs say what its attributes say, in whatever order and     *)
(* however mixed these were written: for each payload type the first name,   *)
(* the first parameters without a space (others are passed over, though they *)
(* are documented as "verbatim") and all the feedback in its order.  A type  *)
(* that only the m= line lists has no codec, whatever the comment on         *)
(* codecs() says of that list.                                               *)
CodecsRead ==
    Accepted(parse) => \A n \in DOMAIN parse.desc.media :
        LET m == parse.desc.media[n]
            codecs == codecs_of(m)
        IN  \A pt \in PayloadTypes :
                LET name == FirstWord(Listed(m, "rtpmap", pt))
                    fmtp == FirstWord(Listed(m, "fmtp", pt))
                    fb == Listed(m, "rtcp-fb", pt)
                IN  IF name = "" /\ fmtp = "" /\ fb = <<>> THEN pt \notin DOMAIN codecs
                    ELSE /\ pt \in DOMAIN codecs
                         /\ codecs[pt] = [pt |-> pt, name |-> name, fmtp |-> fmtp, rtcp_feedback |-> fb]
============================================================================
