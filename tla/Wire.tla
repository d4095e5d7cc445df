-------------------------------- MODULE Wire --------------------------------
(***************************************************************************)
(* A language of message layouts, with a writer and a reader over octets.   *)
(* The codecs of the crates (rtc-rtcp, rtc-sctp, rtc-dtls, rtc-stun, ...)    *)
(* write their fields one after the other and read them back in the same    *)
(* order, so a message type is a sequence of items: what is put, what is    *)
(* taken, and the length checks the reader makes on the way.                *)
(*                                                                          *)
(* A value is a function from field names.  The reader works on a state     *)
(* [b, v, out]: the octets left, the fields read so far and the outcome,    *)
(* "ok", "err" (the reader returned an error) or "panic" (it read past the  *)
(* end of its buffer without having checked).  32-bit fields hold values    *)
(* below 2^31, the range of the model's numbers.                            *)
(***************************************************************************)
EXTENDS Integers, Sequences, TLC

\* the octets of x, most significant first; and back
BE(n, x) == [i \in 1 .. n |-> (x \div 256 ^ (n - i)) % 256]
Num(b) == LET upto[i \in 0 .. Len(b)] == IF i = 0 THEN 0 ELSE upto[i - 1] * 256 + b[i] IN upto[Len(b)]
\* the same, least significant first
Reversed(b) == [i \in 1 .. Len(b) |-> b[Len(b) + 1 - i]]
LE(n, x) == Reversed(BE(n, x))

Zeros(n) == [i \in 1 .. n |-> 0]
PadTo(k, n) == IF n % k = 0 THEN 0 ELSE k - (n % k)
From(b, i) == SubSeq(b, i, Len(b))
Upto(b, n) == SubSeq(b, 1, n)

BitsOf(n, x) == [i \in 1 .. n |-> (x \div 2 ^ (n - i)) % 2]
BitNum(w) == LET upto[i \in 0 .. Len(w)] == IF i = 0 THEN 0 ELSE upto[i - 1] * 2 + w[i] IN upto[Len(w)]
Pack(w) == [i \in 1 .. Len(w) \div 8 |-> BitNum(SubSeq(w, 8 * i - 7, 8 * i))]
Unpack(b) == [i \in 1 .. 8 * Len(b) |-> (b[(i + 7) \div 8] \div 2 ^ (7 - ((i - 1) % 8))) % 2]

SumOf(s) == LET upto[i \in 0 .. Len(s)] == IF i = 0 THEN 0 ELSE upto[i - 1] + s[i] IN upto[Len(s)]
Joined(s) == LET upto[i \in 0 .. Len(s)] == IF i = 0 THEN <<>> ELSE upto[i - 1] \o s[i] IN upto[Len(s)]

\* the results of a writer and of a reader
Ok(b) == [out |-> "ok", b |-> b]
Err   == [out |-> "err", b |-> <<>>]
Value(v) == [out |-> "ok", v |-> v]
NoValue(out) == [out |-> out, v |-> <<>>]
Result(r) == IF r.out = "ok" THEN Value(r.v) ELSE NoValue(r.out)

(***************************************************************************)
(* Items.                                                                   *)
(***************************************************************************)
U(n, f)        == [k |-> "u", n |-> n, f |-> f]           \* an n-octet number
Raw(n, f)      == [k |-> "raw", n |-> n, f |-> f]         \* n octets as they are
Zero(n)        == [k |-> "zero", n |-> n]                 \* written 0, skipped
Lit(n, x)      == [k |-> "lit", n |-> n, x |-> x]         \* written, checked
Bits(ws)       == [k |-> "bits", w |-> ws]                \* <<name, width>> packed
Vec(n, f)      == [k |-> "vec", n |-> n, f |-> f]         \* octets after their count
Rest(f)        == [k |-> "rest", f |-> f]                 \* all that is left
Need(n)        == [k |-> "need", n |-> n]                 \* reader: at least n left
List(f, c, of) == [k |-> "list", f |-> f, c |-> c, of |-> of]   \* c of them; "": to the end
Sub(n, f, of)  == [k |-> "sub", n |-> n, f |-> f, of |-> of]    \* a part after its length
Until(n, f, of) == [k |-> "until", n |-> n, f |-> f, of |-> of] \* a list after its length

PutBits(ws, v) ==
    LET all[i \in 0 .. Len(ws)] ==
            IF i = 0 THEN <<>>
            ELSE all[i - 1] \o BitsOf(ws[i][2], IF ws[i][1] = "" THEN 0 ELSE v[ws[i][1]])
    IN  Pack(all[Len(ws)])
PutField(it, v) ==
    CASE it.k = "u"     -> BE(it.n, v[it.f])
      [] it.k = "raw"   -> v[it.f]
      [] it.k = "zero"  -> Zeros(it.n)
      [] it.k = "lit"   -> BE(it.n, it.x)
      [] it.k = "bits"  -> PutBits(it.w, v)
      [] it.k = "vec"   -> BE(it.n, Len(v[it.f])) \o v[it.f]
      [] it.k = "rest"  -> v[it.f]
      [] it.k = "need"  -> <<>>
PutFlat(items, v) ==
    LET all[i \in 0 .. Len(items)] == IF i = 0 THEN <<>> ELSE all[i - 1] \o PutField(items[i], v)
    IN  all[Len(items)]
PutAll(items, vs) ==
    LET all[i \in 0 .. Len(vs)] == IF i = 0 THEN <<>> ELSE all[i - 1] \o PutFlat(items, vs[i])
    IN  all[Len(vs)]
Headed(it, b) == IF it.k = "list" THEN b ELSE BE(it.n, Len(b)) \o b
PutItem(it, v) ==
    IF it.k \in {"list", "sub", "until"}
    THEN Headed(it, PutAll(it.of, IF it.k = "sub" THEN <<v[it.f]>> ELSE v[it.f]))
    ELSE PutField(it, v)
Put(items, v) ==
    LET all[i \in 0 .. Len(items)] == IF i = 0 THEN <<>> ELSE all[i - 1] \o PutItem(items[i], v)
    IN  all[Len(items)]

(***************************************************************************)
(* The reader.  short is the outcome of a read past the end: "panic" for    *)
(* the Buf trait, "err" for the Read trait.                                 *)
(***************************************************************************)
NoFields == [f \in {} |-> 0]
Reader(b) == [b |-> b, v |-> NoFields, out |-> "ok"]
Fails(s, out) == [s EXCEPT !.out = out]
Got(s, f, x, n) == [s EXCEPT !.v = (f :> x) @@ @, !.b = From(@, n + 1)]
Skip(s, n) == [s EXCEPT !.b = From(@, n + 1)]

Taken(s, f, b, p) == IF p.out # "ok" THEN Fails(s, p.out) ELSE [s EXCEPT !.v = (f :> p.v) @@ @, !.b = b]

Widths(ws) == LET upto[i \in 0 .. Len(ws)] == IF i = 0 THEN 0 ELSE upto[i - 1] + ws[i][2] IN upto
BitFields(ws, start, w) ==
    LET named == {i \in 1 .. Len(ws) : ws[i][1] # ""}
        index(f) == CHOOSE i \in named : ws[i][1] = f
    IN  [f \in {ws[i][1] : i \in named} |->
            BitNum(SubSeq(w, start[index(f) - 1] + 1, start[index(f)]))]
GetBits(ws, n, s, short) ==
    IF Len(s.b) < n THEN Fails(s, short)
    ELSE [s EXCEPT !.v = BitFields(ws, Widths(ws), Unpack(Upto(s.b, n))) @@ @, !.b = From(@, n + 1)]
GetVec(it, n, s, short) ==
    IF Len(s.b) < it.n THEN Fails(s, short)
    ELSE IF Len(s.b) < it.n + n THEN Fails(s, "err")
    ELSE Got(Skip(s, it.n), it.f, SubSeq(s.b, it.n + 1, it.n + n), n)
GetField(it, s, short) ==
    CASE it.k \in {"u", "raw", "zero", "lit"} /\ Len(s.b) < it.n -> Fails(s, short)
      [] it.k = "u"    /\ Len(s.b) >= it.n -> Got(s, it.f, Num(Upto(s.b, it.n)), it.n)
      [] it.k = "raw"  /\ Len(s.b) >= it.n -> Got(s, it.f, Upto(s.b, it.n), it.n)
      [] it.k = "zero" /\ Len(s.b) >= it.n -> Skip(s, it.n)
      [] it.k = "lit"  /\ Len(s.b) >= it.n ->
            IF Num(Upto(s.b, it.n)) # it.x THEN Fails(s, "err") ELSE Skip(s, it.n)
      [] it.k = "bits" -> GetBits(it.w, Widths(it.w)[Len(it.w)] \div 8, s, short)
      [] it.k = "vec"  -> GetVec(it, Num(Upto(s.b, it.n)), s, short)
      [] it.k = "rest" -> Got(s, it.f, s.b, Len(s.b))
      [] it.k = "need" -> IF Len(s.b) < it.n THEN Fails(s, "err") ELSE s
GetFlat(items, s, short) ==
    LET upto[i \in 0 .. Len(items)] ==
            IF i = 0 THEN s
            ELSE LET p == upto[i - 1] IN IF p.out = "ok" THEN GetField(items[i], p, short) ELSE p
    IN  upto[Len(items)]

\* n values (n < 0: until no octet is left), in a sequence in the field v
NoneYet(b) == [b |-> b, v |-> <<>>, out |-> "ok"]
Collected(p, e) == [b |-> e.b, v |-> Append(p.v, e.v), out |-> e.out]
GetList(items, n, b, short) ==
    LET RECURSIVE after(_)
        after(p) ==
            IF p.out # "ok" \/ Len(p.v) = n \/ (n < 0 /\ p.b = <<>>) THEN p
            ELSE after(Collected(p, GetFlat(items, Reader(p.b), short)))
    IN  after(NoneYet(b))
\* the octets that the values of an item are read from, and how many values these are
PartOf(it, s, short) ==
    IF it.k = "list" THEN Got(s, "part", s.b, 0)
    ELSE GetVec([it EXCEPT !.f = "part"], Num(Upto(s.b, it.n)), s, short)
CountOf(it, s) ==
    CASE it.k = "sub" -> 1
      [] it.k = "until" -> -1
      [] it.k = "list" -> IF it.c = "" THEN -1 ELSE s.v[it.c]
Placed(it, s, b, p) ==
    Taken(s, it.f, IF it.k = "list" THEN p.b ELSE b,
          IF it.k = "sub" /\ p.out = "ok" THEN [p EXCEPT !.v = Head(@)] ELSE p)
GetPart(it, s, part, short) ==
    IF part.out # "ok" THEN part
    ELSE Placed(it, s, part.b, GetList(it.of, CountOf(it, s), part.v.part, short))
GetItem(it, s, short) ==
    IF it.k \in {"list", "sub", "until"} THEN GetPart(it, s, PartOf(it, s, short), short)
    ELSE GetField(it, s, short)
Get(items, s, short) ==
    LET upto[i \in 0 .. Len(items)] ==
            IF i = 0 THEN s
            ELSE LET p == upto[i - 1] IN IF p.out = "ok" THEN GetItem(items[i], p, short) ELSE p
    IN  upto[Len(items)]

-----------------------------------------------------------------------------
(***************************************************************************)
(* External: the primitives of the crypto providers, as stand-ins over      *)
(* octets: a digest of n octets that depends on all it is given, a          *)
(* keystream, the random generator.                                         *)
(***************************************************************************)
Weighed(b) ==
    LET sum[i \in 1 .. Len(b), j \in 1 .. Len(b)] ==
            IF i = j THEN (b[i] + 1) * (i * i + 7)
            ELSE LET m == (i + j) \div 2 IN sum[i, m] + sum[m + 1, j]
    IN  IF b = <<>> THEN 0 ELSE sum[1, Len(b)] % 2 ^ 24
Spread(n, w) == [i \in 1 .. n |-> (w \div (1 + (i % 7)) + 37 * i) % 256]
Digest(n, b) == Spread(n, Weighed(b))
Keystream(key, nonce, n) == Digest(n, key \o <<1>> \o nonce)
Enciphered(b, ks) == [i \in 1 .. Len(b) |-> (b[i] + ks[i]) % 256]
Deciphered(b, ks) == [i \in 1 .. Len(b) |-> (b[i] + 256 - ks[i]) % 256]
Xor(x, y) == LET p == BitsOf(8, x) q == BitsOf(8, y) IN BitNum([i \in 1 .. 8 |-> (p[i] + q[i]) % 2])
random_fill(n) == [i \in 1 .. n |-> (5 * i) % 256]
\* an AEAD of the provider
Tag(key, nonce, aad, plain, n) == Digest(n, key \o nonce \o aad \o plain)
=============================================================================
