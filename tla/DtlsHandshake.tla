--------------------------- MODULE DtlsHandshake ----------------------------
(* Two DTLS endpoints (rtc-dtls/src/endpoint.rs), a client and a server, over a network that  *)
(* reorders datagrams and may lose or duplicate some.  An endpoint handles one call at a      *)
(* time: connect, a datagram, a write or a timeout, each through to the datagrams it sends.   *)
EXTENDS Naturals, Sequences, FiniteSets, SequencesExt

(* The flights of the DTLS handshake (rtc-dtls/src/flight): what each side sends in a flight  *)
(* and what it makes of the messages it has received when it waits for the next one.  A      *)
(* connection is a record; every operator here maps one to its successor.  Keys, signatures  *)
(* and hashes are the secret and the transcript they are computed from.                       *)

Client == "client"
Server == "server"
Sides == {Client, Server}
Peer(x) == IF x = Client THEN Server ELSE Client
None == "none"

-----------------------------------------------------------------------------
(* Messages.  A body carries the fields the handshake branches on.                            *)
Blank == [cookie |-> None, suites |-> <<>>, srtp |-> <<>>, ems |-> FALSE,
          cert |-> FALSE, verify |-> <<>>]
Message(typ, body) ==
    [ct |-> "Handshake", epoch |-> 0, enc |-> FALSE, typ |-> typ, mseq |-> 0, body |-> body]
ChangeCipherSpec ==
    [ct |-> "ChangeCipherSpec", epoch |-> 0, enc |-> FALSE, typ |-> None, mseq |-> 0,
     body |-> Blank]
Finished(data) ==
    [Message("Finished", [Blank EXCEPT !.verify = data]) EXCEPT !.epoch = 1, !.enc = TRUE]
ClientHello(c) ==
    Message("ClientHello", [Blank EXCEPT !.cookie = c.cookie, !.suites = c.cfg.suites,
                                         !.srtp = c.cfg.srtp, !.ems = c.cfg.ems # "Disable"])

-----------------------------------------------------------------------------
(* The cache of handshake messages, sent and received.                                       *)
Rule(typ, from, epoch, optional) ==
    [typ |-> typ, from |-> from, epoch |-> epoch, optional |-> optional]
Matching(cache, r) ==
    {i \in cache : i.typ = r.typ /\ i.from = r.from /\ i.epoch = r.epoch}
find(cache, r) ==
    CHOOSE i \in Matching(cache, r) : \A j \in Matching(cache, r) : j.mseq <= i.mseq
push(cache, item) ==
    IF \E i \in cache : i.mseq = item.mseq /\ i.from = item.from
    THEN cache ELSE cache \union {item}

\* The messages the rules select, in order of the rules; a rule nothing matches is skipped.
pull(cache, rules) ==
    LET found == SelectSeq(rules, LAMBDA r : Matching(cache, r) # {})
    IN  [i \in DOMAIN found |-> find(cache, found[i])]

NoGap(start, items) == \A i \in DOMAIN items : items[i].mseq = start + i - 1
full_pull_map(cache, start, rules) ==
    IF \/ \E i \in DOMAIN rules : ~rules[i].optional /\ Matching(cache, rules[i]) = {}
       \/ ~NoGap(start, pull(cache, rules))
    THEN [ok |-> FALSE, seq |-> start, msgs |-> {}]
    ELSE [ok |-> TRUE, seq |-> start + Len(pull(cache, rules)),
          msgs |-> ToSet(pull(cache, rules))]
Has(m, typ) == \E i \in m.msgs : i.typ = typ
Body(m, typ) == (CHOOSE i \in m.msgs : i.typ = typ).body

\* What is hashed of a message: who sent it, its type and its sequence number.
Digest(items) == [i \in DOMAIN items |-> <<items[i].from, items[i].typ, items[i].mseq>>]
HelloRules ==
    <<Rule("ClientHello", Client, 0, FALSE), Rule("ServerHello", Server, 0, FALSE),
      Rule("Certificate", Server, 0, FALSE), Rule("ServerKeyExchange", Server, 0, FALSE),
      Rule("CertificateRequest", Server, 0, FALSE), Rule("ServerHelloDone", Server, 0, FALSE)>>
KeyRules ==
    <<Rule("Certificate", Client, 0, FALSE), Rule("ClientKeyExchange", Client, 0, FALSE)>>
FinishedRules ==
    <<Rule("CertificateVerify", Client, 0, FALSE), Rule("Finished", Client, 1, FALSE)>>
session_hash(cache, additional) == Digest(pull(cache, HelloRules \o KeyRules)) \o additional
verify_data(cache, additional) ==
    Digest(pull(cache, HelloRules \o KeyRules \o FinishedRules)) \o additional

-----------------------------------------------------------------------------
(* Negotiation.                                                                               *)
find_matching(a, b) ==
    IF ToSet(a) \intersect ToSet(b) = {} THEN None
    ELSE a[CHOOSE i \in DOMAIN a : a[i] \in ToSet(b) /\ \A j \in 1..(i - 1) : a[j] \notin ToSet(b)]
is_psk(suite) == suite \in {"psk1", "psk2"}

\* The suites a side offers, and the configurations that can be built: a client has either a
\* pre-shared key, with an identity, or certificates; a server may have both.
offered_cipher_suites(cfg, side) ==
    SelectSeq(cfg.suites, LAMBDA s : IF is_psk(s) THEN cfg.psk # None
                                     ELSE IF side = Client THEN cfg.psk = None ELSE cfg.cert)
validate(cfg, side) ==
    /\ side = Client => (cfg.psk # None => cfg.hint /\ ~cfg.cert)
    /\ side = Server => cfg.psk # None \/ cfg.cert
    /\ cfg.hint => cfg.psk # None
    /\ offered_cipher_suites(cfg, side) # <<>>
build(cfg, side) == [cfg EXCEPT !.suites = offered_cipher_suites(cfg, side)]

\* The outcome of parsing or generating: the connection, the next flight if any, and whether
\* an alert is to be sent and an error returned.
NoFlight == 9
Ok(c, next) == [c |-> c, next |-> next, alert |-> FALSE, err |-> FALSE, pkts |-> <<>>]
KeepReading(c) == Ok(c, NoFlight)
AlertOnly(c) == [KeepReading(c) EXCEPT !.alert = TRUE]
Fatal(c) == [AlertOnly(c) EXCEPT !.err = TRUE]
Packets(c, pkts) == [KeepReading(c) EXCEPT !.pkts = pkts]

-----------------------------------------------------------------------------
(* Flight 0: the server waits for a ClientHello.                                              *)
generate0(c) == Packets([c EXCEPT !.cookie = "cookie", !.lepoch = 0, !.repoch = 0], <<>>)
Chosen(c, h) ==
    [c EXCEPT !.suite = find_matching(h.suites, c.cfg.suites),
              !.keyed = FALSE,
              !.srtp = IF h.srtp = <<>> THEN @ ELSE find_matching(h.srtp, c.cfg.srtp),
              !.ems = @ \/ (h.ems /\ c.cfg.ems # "Disable")]
Unacceptable(c, h) ==
    \/ c.suite = None
    \/ h.srtp # <<>> /\ c.srtp = None
    \/ c.cfg.ems = "Require" /\ ~c.ems
Accept0(c, h) == IF Unacceptable(c, h) THEN Fatal(c) ELSE Ok(c, 2)
Hello0(c, m) ==
    IF ~m.ok THEN KeepReading(c)
    ELSE Accept0(Chosen([c EXCEPT !.recvSeq = m.seq], Body(m, "ClientHello")),
                 Body(m, "ClientHello"))
parse0(c) ==
    Hello0(c, full_pull_map(c.cache, 0, <<Rule("ClientHello", Client, 0, FALSE)>>))

(* Flight 2: the server sends the cookie, and waits for it to come back.                      *)
generate2(c) ==
    Packets([c EXCEPT !.sendSeq = 0],
            <<Message("HelloVerifyRequest", [Blank EXCEPT !.cookie = c.cookie])>>)
Cookie2(c, h) ==
    CASE h.cookie = None -> KeepReading(c)
      [] h.cookie # None /\ h.cookie # c.cookie -> Fatal(c)
      [] OTHER -> Ok(c, 4)
Hello2(c, m) ==
    IF ~m.ok THEN parse0(c)
    ELSE Cookie2([c EXCEPT !.recvSeq = m.seq], Body(m, "ClientHello"))
parse2(c) ==
    Hello2(c, full_pull_map(c.cache, c.recvSeq, <<Rule("ClientHello", Client, 0, FALSE)>>))

(* Flights 1 and 3: the client says hello, without and with the cookie.                       *)
generate1(c) ==
    LET fresh == [c EXCEPT !.cookie = None, !.lepoch = 0, !.repoch = 0]
    IN  Packets(fresh, <<ClientHello(fresh)>>)
generate3(c) == Packets(c, <<ClientHello(c)>>)

ServerFlight(c) ==
    IF c.cfg.psk # None
    THEN <<Rule("ServerHello", Server, 0, FALSE), Rule("ServerKeyExchange", Server, 0, TRUE),
           Rule("ServerHelloDone", Server, 0, FALSE)>>
    ELSE <<Rule("ServerHello", Server, 0, FALSE), Rule("Certificate", Server, 0, TRUE),
           Rule("ServerKeyExchange", Server, 0, FALSE),
           Rule("CertificateRequest", Server, 0, TRUE), Rule("ServerHelloDone", Server, 0, FALSE)>>
Agreed(c, h) ==
    [c EXCEPT !.srtp = IF h.srtp = <<>> THEN @ ELSE find_matching(h.srtp, c.cfg.srtp),
              !.ems = @ \/ (h.ems /\ c.cfg.ems # "Disable")]
Refused(c, h) ==
    \/ c.srtp = None /\ (h.srtp # <<>> \/ c.cfg.srtp # <<>>)
    \/ c.cfg.ems = "Require" /\ ~c.ems
    \/ find_matching(h.suites, c.cfg.suites) = None
Accept3(c, h, m) ==
    IF Refused(c, h) THEN Fatal(c)
    ELSE Ok([c EXCEPT !.suite = h.suites[1], !.keyed = FALSE,
                      !.peerCert = IF Has(m, "Certificate") THEN Body(m, "Certificate").cert ELSE @,
                      !.certReq = @ \/ Has(m, "CertificateRequest")], 5)
Hello3(c, m) ==
    IF ~m.ok THEN KeepReading(c)
    ELSE Accept3(Agreed([c EXCEPT !.recvSeq = m.seq], Body(m, "ServerHello")),
                 Body(m, "ServerHello"), m)
Verify3(c, m) ==
    IF m.ok /\ Has(m, "HelloVerifyRequest")
    THEN Ok([c EXCEPT !.cookie = Body(m, "HelloVerifyRequest").cookie, !.recvSeq = m.seq], 3)
    ELSE Hello3(c, full_pull_map(c.cache, c.recvSeq, ServerFlight(c)))
parse3(c) ==
    Verify3(c, full_pull_map(c.cache, c.recvSeq, <<Rule("HelloVerifyRequest", Server, 0, TRUE)>>))

Verify1(c, m) ==
    CASE ~m.ok -> KeepReading(c)
      [] m.ok /\ Has(m, "ServerHello") -> parse3(c)
      [] m.ok /\ ~Has(m, "ServerHello") /\ Has(m, "HelloVerifyRequest") ->
             Ok([c EXCEPT !.cookie = Body(m, "HelloVerifyRequest").cookie, !.recvSeq = m.seq], 3)
      [] OTHER -> AlertOnly(c)
parse1(c) ==
    Verify1(c, full_pull_map(c.cache, c.recvSeq, <<Rule("HelloVerifyRequest", Server, 0, TRUE),
                                                  Rule("ServerHello", Server, 0, TRUE)>>))

(* Flight 4: the server's hello, certificate and key exchange.                                *)
HelloExtensions(c) ==
    [Blank EXCEPT !.suites = <<c.suite>>,
                  !.srtp = IF c.srtp = None THEN <<>> ELSE <<c.srtp>>,
                  !.ems = c.ems /\ c.cfg.ems # "Disable"]
CertificateFlight(c) ==
    <<Message("Certificate", [Blank EXCEPT !.cert = c.cfg.cert]),
      Message("ServerKeyExchange", Blank)>>
    \o (IF c.cfg.auth # "No" THEN <<Message("CertificateRequest", Blank)>> ELSE <<>>)
generate4(c) ==
    Packets(c, <<Message("ServerHello", HelloExtensions(c))>>
               \o (IF ~is_psk(c.suite) THEN CertificateFlight(c)
                   ELSE IF c.cfg.hint THEN <<Message("ServerKeyExchange", Blank)>> ELSE <<>>)
               \o <<Message("ServerHelloDone", Blank)>>)

ClientFlight ==
    <<Rule("Certificate", Client, 0, TRUE), Rule("ClientKeyExchange", Client, 0, FALSE),
      Rule("CertificateVerify", Client, 0, TRUE)>>
ChainChecked(c) == c.cfg.auth \in {"VerifyIfGiven", "RequireAndVerify"}
\* The keys, derived once both sides' key shares are cached.
Keyed(c, additional) ==
    IF c.keyed THEN c
    ELSE [c EXCEPT !.keyed = TRUE,
                   !.master = <<IF is_psk(c.suite) THEN c.cfg.psk ELSE "ecdhe",
                                IF c.ems THEN session_hash(c.cache, additional)
                                ELSE <<>>>>]
Unauthenticated(c) ==
    /\ ~is_psk(c.suite)
    /\ \/ c.cfg.auth \in {"RequireAny", "RequireAndVerify"} /\ ~c.peerCert
       \/ c.cfg.auth = "VerifyIfGiven" /\ c.peerCert /\ ~c.verified
       \/ c.cfg.auth = "RequireAndVerify" /\ ~c.verified
Finish4(c, m) ==
    CASE ~m.ok -> KeepReading(c)
      [] m.ok /\ Unauthenticated(c) -> Fatal([c EXCEPT !.recvSeq = m.seq])
      [] OTHER -> Ok([c EXCEPT !.recvSeq = m.seq], 6)
Keys4(c, seq) ==
    Finish4(c, full_pull_map(c.cache, seq, <<Rule("Finished", Client, 1, FALSE)>>))
Verified4(c, m) ==
    CASE Has(m, "CertificateVerify") /\ (~c.peerCert \/ ~c.cfg.trusts) -> Fatal(c)
      [] Has(m, "CertificateVerify") /\ c.peerCert /\ c.cfg.trusts ->
             Keys4(Keyed([c EXCEPT !.verified = ChainChecked(c)], <<>>), m.seq)
      [] ~Has(m, "CertificateVerify") /\ c.peerCert -> KeepReading(c)
      [] OTHER -> Keys4(Keyed(c, <<>>), m.seq)
Certificate4(c, m) ==
    IF ~m.ok THEN KeepReading(c)
    ELSE Verified4([c EXCEPT !.peerCert =
                       IF Has(m, "Certificate") THEN Body(m, "Certificate").cert ELSE @], m)
parse4(c) == Certificate4(c, full_pull_map(c.cache, c.recvSeq, ClientFlight))

(* Flight 5: the client's certificate and key exchange, and its Finished.                     *)
KeyFlight(c) ==
    (IF c.certReq THEN <<Message("Certificate", [Blank EXCEPT !.cert = c.cfg.cert])>> ELSE <<>>)
    \o <<Message("ClientKeyExchange", Blank)>>
VerifyFlight(c) ==
    IF c.certReq /\ c.cfg.cert THEN <<Message("CertificateVerify", Blank)>> ELSE <<>>
\* The digests of messages not sent yet, under the sequence numbers they will be given.
Predicted(c, msgs) == [i \in DOMAIN msgs |-> <<Client, msgs[i].typ, c.sendSeq + i - 1>>]
initalize_cipher_suite(c, merged) ==
    IF ~c.keyed /\ c.cfg.psk = None /\ ~c.cfg.trusts THEN Fatal(c) ELSE KeepReading(Keyed(c, merged))
Verify5(c, additional) ==
    [c EXCEPT !.verify = IF @ = <<>> THEN verify_data(c.cache, additional) ELSE @]
Finished5(c, msgs) == Packets(c, msgs \o <<ChangeCipherSpec, Finished(c.verify)>>)
Signed5(r, msgs) ==
    IF r.err THEN r
    ELSE Finished5(Verify5(r.c, Predicted(r.c, msgs)), msgs)
generate5(c) ==
    Signed5(initalize_cipher_suite(c, Predicted(c, KeyFlight(c))), KeyFlight(c) \o VerifyFlight(c))

Finish5(c, m) ==
    CASE ~m.ok -> KeepReading(c)
      [] m.ok /\ Body(m, "Finished").verify # verify_data(c.cache, <<>>) -> Fatal(c)
      [] OTHER -> Ok(c, 5)
parse5(c) ==
    Finish5(c, full_pull_map(c.cache, c.recvSeq, <<Rule("Finished", Server, 1, FALSE)>>))

(* Flight 6: the server's Finished.                                                           *)
generate6(c) ==
    LET done == Verify5(c, <<>>)
    IN  Packets(done, <<ChangeCipherSpec, Finished(done.verify)>>)

-----------------------------------------------------------------------------
has_retransmit(flight) == flight # 2
is_last_send_flight(flight) == flight = 6
is_last_recv_flight(flight) == flight = 5
parse(c) ==
    CASE c.flight = 0 -> parse0(c)
      [] c.flight = 1 -> parse1(c)
      [] c.flight = 2 -> parse2(c)
      [] c.flight = 3 -> parse3(c)
      [] c.flight = 4 -> parse4(c)
      [] c.flight = 5 -> parse5(c)
generate(c) ==
    CASE c.flight = 0 -> generate0(c)
      [] c.flight = 1 -> generate1(c)
      [] c.flight = 2 -> generate2(c)
      [] c.flight = 3 -> generate3(c)
      [] c.flight = 4 -> generate4(c)
      [] c.flight = 5 -> generate5(c)
      [] c.flight = 6 -> generate6(c)

-----------------------------------------------------------------------------
(* One DTLS connection (rtc-dtls/src/conn, handshaker.rs): the record layer, reassembly of    *)
(* handshake messages, the queue of records that wait for keys, and the state machine that    *)
(* drives the flights.                                                                        *)

CONSTANTS Size,           \* handshake message type -> length of its body
          Mtu,            \* maximum_transmission_unit, in the same units
          MaxRetransmit,  \* maximum_retransmit_number
          MaxPending,     \* MAX_PENDING_RECORDS
          MaxAhead        \* FRAGMENT_BUFFER_MAX_MESSAGES_AHEAD

NewConn(side, config) ==
    [side |-> side, cfg |-> config, st |-> "Preparing",
     flight |-> IF side = Client THEN 1 ELSE 0,
     timer |-> FALSE, retransmit |-> FALSE, count |-> 0, sendSeq |-> 0, recvSeq |-> 0,
     lepoch |-> 0, repoch |-> 0, cookie |-> None, suite |-> None, srtp |-> None, ems |-> FALSE,
     certReq |-> FALSE, peerCert |-> FALSE, verified |-> FALSE, keyed |-> FALSE,
     master |-> <<None, <<>>>>, verify |-> <<>>, cache |-> {}, frag |-> {}, fcur |-> 0,
     rx |-> FALSE, queue |-> <<>>, flights |-> <<>>, out |-> <<>>, outq |-> <<>>,
     raw |-> <<>>, lseq |-> <<0, 0>>, seen |-> {}, done |-> FALSE, inbox |-> <<>>,
     run |-> "go"]

-----------------------------------------------------------------------------
(* Sending: packets become records, numbered per epoch, fragmented and packed in datagrams.   *)
notify(c) ==
    [c EXCEPT !.out = Append(@, [ct |-> "Alert", epoch |-> c.lepoch, enc |-> c.done,
                                 typ |-> "Fatal", mseq |-> 0, body |-> Blank])]
ApplicationData(c, data) ==
    [ct |-> "ApplicationData", epoch |-> c.lepoch, enc |-> TRUE, typ |-> "data", mseq |-> data,
     body |-> Blank]
write(c, data) ==
    IF c.done THEN [c EXCEPT !.out = Append(@, ApplicationData(c, data))]
    ELSE [c EXCEPT !.outq = Append(@, ApplicationData(c, data))]

Length(p) == IF p.ct = "Handshake" THEN Size[p.typ] ELSE 0
\* The fragments of a packet: chunks of the MTU, and one empty one for an empty body.
fragment_handshake(p) ==
    [i \in 1..(IF Length(p) = 0 THEN 1 ELSE (Length(p) + Mtu - 1) \div Mtu) |->
        [off |-> (i - 1) * Mtu,
         len |-> IF i * Mtu <= Length(p) THEN Mtu ELSE Length(p) - (i - 1) * Mtu]]
Record(c, p, f) ==
    [ct |-> p.ct, epoch |-> p.epoch, enc |-> p.enc, typ |-> p.typ, mseq |-> p.mseq,
     body |-> p.body, off |-> f.off, len |-> f.len, seq |-> 0,
     key |-> IF p.enc THEN c.master ELSE <<None, <<>>>>]
Records(c, p) ==
    [i \in DOMAIN fragment_handshake(p) |-> Record(c, p, fragment_handshake(p)[i])]
InEpoch(recs, i, e) == Cardinality({j \in 1..i : recs[j].epoch = e})
process_packet(c, recs) ==
    [i \in DOMAIN recs |->
        [recs[i] EXCEPT !.seq = c.lseq[recs[i].epoch + 1] + InEpoch(recs, i, recs[i].epoch) - 1]]
Raw(recs) == FoldLeft(LAMBDA n, r : n + r.len + 1, 0, recs)
push_raw_packet(acc, r) ==
    IF acc.cur # <<>> /\ Raw(acc.cur) + r.len + 1 >= Mtu
    THEN [full |-> Append(acc.full, acc.cur), cur |-> <<r>>]
    ELSE [acc EXCEPT !.cur = Append(@, r)]
Datagrams(acc) == IF acc.cur = <<>> THEN acc.full ELSE Append(acc.full, acc.cur)
Compact(recs) == Datagrams(FoldLeft(push_raw_packet, [full |-> <<>>, cur |-> <<>>], recs))
\* Own messages enter the handshake cache when they are sent.
Cached(cache, side, p) ==
    IF p.ct # "Handshake" THEN cache
    ELSE push(cache, [typ |-> p.typ, from |-> side, epoch |-> p.epoch, mseq |-> p.mseq,
                      body |-> p.body])
Sent(c, recs) ==
    [c EXCEPT !.raw = @ \o Compact(process_packet(c, recs)),
              !.lseq = <<@[1] + InEpoch(recs, Len(recs), 0), @[2] + InEpoch(recs, Len(recs), 1)>>,
              !.cache = FoldLeft(LAMBDA k, p : Cached(k, c.side, p), @, c.out),
              !.out = <<>>]
Released(c) ==
    IF c.done THEN [c EXCEPT !.out = @ \o [i \in DOMAIN c.outq |->
                                            [c.outq[i] EXCEPT !.epoch = c.lepoch]],
                             !.outq = <<>>]
    ELSE c
SendAll(c) == Sent(c, FlattenSeq([i \in DOMAIN c.out |-> Records(c, c.out[i])]))
handle_outgoing_packets(c) == SendAll(Released(c))

-----------------------------------------------------------------------------
(* The handshake state machine.                                                               *)
Numbered(c, pkts) ==
    [i \in DOMAIN pkts |->
        IF pkts[i].ct # "Handshake" THEN pkts[i]
        ELSE [pkts[i] EXCEPT !.mseq = c.sendSeq +
                Cardinality({j \in 1..(i - 1) : pkts[j].ct = "Handshake"})]]
\* mutant: the numbers of a flight are not used up
Prepared_one(c, pkts) ==
    [c EXCEPT !.flights = Numbered(c, pkts), !.sendSeq = @ + 1,
              !.lepoch = IF \E i \in DOMAIN pkts : pkts[i].epoch = 1 THEN 1 ELSE @,
              !.st = "Sending"]
Prepared(c, pkts) ==
    [c EXCEPT !.flights = Numbered(c, pkts),
              !.sendSeq = @ + Cardinality({i \in DOMAIN pkts : pkts[i].ct = "Handshake"}),
              !.lepoch = IF \E i \in DOMAIN pkts : pkts[i].epoch = 1 THEN 1 ELSE @,
              !.st = "Sending"]
Generated(r) ==
    IF r.err THEN [notify(r.c) EXCEPT !.run = "err"] ELSE Prepared(r.c, r.pkts)
prepare(c) ==
    Generated(generate([c EXCEPT !.flights = <<>>, !.count = 0,
                                 !.retransmit = has_retransmit(c.flight)]))
send(c) ==
    LET sent == [c EXCEPT !.out = @ \o c.flights]
    IN  IF is_last_send_flight(c.flight) THEN [sent EXCEPT !.st = "Finished"]
        ELSE [sent EXCEPT !.st = "Waiting", !.timer = TRUE]

Alerted(r) == IF r.alert THEN notify(r.c) ELSE r.c
Parsed(c, r) ==
    CASE r.next = NoFlight -> [Alerted(r) EXCEPT !.run = IF r.err THEN "err" ELSE "stop"]
      [] r.next # NoFlight /\ is_last_recv_flight(r.next) /\ r.next = c.flight ->
             [r.c EXCEPT !.st = "Finished"]
      [] OTHER -> [r.c EXCEPT !.flight = r.next, !.st = "Preparing"]
wait(c) ==
    IF c.rx THEN Parsed(c, parse([c EXCEPT !.rx = FALSE, !.timer = FALSE]))
    ELSE [c EXCEPT !.run = "stop"]
FsmStep(c) ==
    CASE c.st = "Preparing" -> prepare(c)
      [] c.st = "Sending" -> send(c)
      [] c.st = "Waiting" -> wait(c)
      [] c.st = "Finished" -> [c EXCEPT !.done = TRUE, !.run = "stop"]
      [] c.st = "Errored" -> [c EXCEPT !.run = "err"]
\* Preparing, Sending, Waiting, each at most twice, and a last look at the state it ends in.
LoopBound == 7
handshake(c) ==
    FoldLeft(LAMBDA s, i : IF s.run = "go" THEN FsmStep(s) ELSE s, [c EXCEPT !.run = "go"],
             [i \in 1..LoopBound |-> i])

release_handshake_buffers(c) == [c EXCEPT !.queue = <<>>, !.frag = {}]
Expired(c) ==
    CASE c.st = "Waiting" /\ c.retransmit /\ c.count >= MaxRetransmit ->
             [release_handshake_buffers(c) EXCEPT !.count = @ + 1, !.st = "Errored"]
      [] c.st = "Waiting" /\ c.retransmit /\ c.count < MaxRetransmit ->
             [c EXCEPT !.count = @ + 1, !.st = "Sending"]
      [] c.st = "Waiting" /\ ~c.retransmit -> [c EXCEPT !.timer = TRUE]
      [] c.st = "Finished" -> [c EXCEPT !.st = "Sending"]
handshake_timeout(c) ==
    IF c.st \in {"Waiting", "Finished"} THEN handshake(Expired(c)) ELSE [c EXCEPT !.run = "stop"]

-----------------------------------------------------------------------------
(* Receiving.  A result is the connection, whether handshake data came in, and whether the    *)
(* record was or caused a fatal alert.                                                        *)
Result(c, hs, fatal) == [c |-> c, hs |-> hs, fatal |-> fatal]
Dropped(c) == Result(c, FALSE, FALSE)
enqueue_encrypted_packet(c, r) ==
    IF Len(c.queue) >= MaxPending THEN c ELSE [c EXCEPT !.queue = Append(@, r)]
\* Waiting for keys is over once the handshake is: such a record is then discarded.
Enqueued(c, r) == Dropped(IF c.done THEN c ELSE enqueue_encrypted_packet(c, r))

Replayed(c, r) == <<r.epoch, r.seq>> \in c.seen
accept(c, r) == [c EXCEPT !.seen = @ \union {<<r.epoch, r.seq>>}]

\* A message being reassembled keeps what it is and the offsets received.
Pending(frag, r) == {m \in frag : m.mseq = r.mseq}
insert(c, r) ==
    CASE r.mseq < c.fcur \/ r.mseq - c.fcur >= MaxAhead -> c
      [] r.mseq \in c.fcur..(c.fcur + MaxAhead - 1) /\ Pending(c.frag, r) = {} ->
             [c EXCEPT !.frag = @ \union {[mseq |-> r.mseq, typ |-> r.typ, epoch |-> r.epoch,
                                           body |-> r.body, got |-> {r.off}]}]
      [] OTHER ->
             [c EXCEPT !.frag = {IF m.mseq = r.mseq THEN [m EXCEPT !.got = @ \union {r.off}]
                                 ELSE m : m \in @}]
Mismatched(c, r) ==
    /\ r.mseq >= c.fcur
    /\ \E m \in Pending(c.frag, r) : m.epoch # r.epoch \/ m.typ # r.typ
is_complete(m) ==
    Cardinality(m.got) = IF Size[m.typ] = 0 THEN 1 ELSE (Size[m.typ] + Mtu - 1) \div Mtu
pop(c) ==
    LET ready == {m \in c.frag : m.mseq = c.fcur /\ is_complete(m)}
    IN  IF ready = {} THEN c
        ELSE LET m == CHOOSE m \in ready : TRUE
             IN  [c EXCEPT !.frag = @ \ {m}, !.fcur = @ + 1,
                           !.cache = push(@, [typ |-> m.typ, from |-> Peer(c.side),
                                              epoch |-> m.epoch, mseq |-> m.mseq,
                                              body |-> m.body])]
PopAll(c) == FoldLeft(LAMBDA s, i : pop(s), c, [i \in 1..MaxAhead |-> i])

ReceiveHandshake(c, r) ==
    IF Mismatched(c, r) THEN Dropped(c) ELSE Result(PopAll(insert(accept(c, r), r)), TRUE, FALSE)
ReceiveData(c, r) ==
    IF r.epoch = 0 THEN Result(c, FALSE, TRUE)
    ELSE Dropped([accept(c, r) EXCEPT !.inbox = Append(@, r.mseq)])
ReceiveChangeCipherSpec(c, r) ==
    CASE ~c.keyed -> Enqueued(c, r)
      [] c.keyed /\ r.epoch = c.repoch -> Dropped([accept(c, r) EXCEPT !.repoch = r.epoch + 1])
      [] OTHER -> Dropped(c)
ReceivePlain(c, r) ==
    CASE r.ct = "Handshake" -> ReceiveHandshake(c, r)
      [] r.ct = "ApplicationData" -> ReceiveData(c, r)
      [] r.ct = "Alert" -> Result(accept(c, r), FALSE, TRUE)
      [] r.ct = "ChangeCipherSpec" -> ReceiveChangeCipherSpec(c, r)
Decrypts(c, r) == r.enc /\ r.key = c.master
handle_incoming_packet(c, r) ==
    CASE r.epoch > c.repoch -> Enqueued(c, r)
      [] r.epoch <= c.repoch /\ Replayed(c, r) -> Dropped(c)
      [] r.epoch <= c.repoch /\ ~Replayed(c, r) /\ r.epoch # 0 /\ ~c.keyed -> Enqueued(c, r)
      [] r.epoch <= c.repoch /\ ~Replayed(c, r) /\ r.epoch # 0 /\ c.keyed /\ ~Decrypts(c, r) ->
             Result(c, FALSE, is_psk(c.suite))
      [] OTHER -> ReceivePlain(c, r)

\* A fatal alert, received or caused, is echoed to the peer and ends the call with an error.
Took(s, r) ==
    IF r.fatal THEN [c |-> [release_handshake_buffers(notify(r.c)) EXCEPT !.run = "err"],
                     hs |-> s.hs, ok |-> FALSE]
    ELSE [c |-> [r.c EXCEPT !.rx = @ \/ r.hs], hs |-> s.hs \/ r.hs, ok |-> TRUE]
ReadAll(c, recs) ==
    FoldLeft(LAMBDA s, r : IF s.ok THEN Took(s, handle_incoming_packet(s.c, r)) ELSE s,
             [c |-> c, hs |-> FALSE, ok |-> TRUE], recs)
read(c, recs) == ReadAll(c, recs)

Pass(c) == ReadAll([c EXCEPT !.queue = <<>>], c.queue)
\* Another pass when a ChangeCipherSpec moved the epoch past records queued ahead of it.
Again(c, s) ==
    IF ~s.ok \/ s.c.repoch = c.repoch \/ s.c.queue = <<>> THEN s
    ELSE [Pass(s.c) EXCEPT !.hs = @ \/ s.hs]
handle_incoming_queued_packets(c) ==
    IF ~c.keyed THEN [c |-> c, hs |-> FALSE, ok |-> TRUE] ELSE Again(c, Pass(c))

-----------------------------------------------------------------------------
\* The scenarios: the two sides' configurations, how many datagrams the network may lose and
\* deliver twice, how many messages each application writes, and whether a timer is longer than
\* any datagram is under way.
CONSTANT Plans

VARIABLES plan, conn,      \* side -> the sequence of its connection, empty before there is one
          net,             \* datagrams under way
          lost, duplicated,
          written,         \* side -> messages its application wrote
          got,             \* side -> messages its application was given
          reported         \* side -> whether it was told that the handshake completed

vars == <<plan, conn, net, lost, duplicated, written, got, reported>>

Init ==
    /\ plan \in {p \in Plans : validate(p.client, Client) /\ validate(p.server, Server)}
    /\ conn = [x \in Sides |-> <<>>]
    /\ net = {}
    /\ lost = 0 /\ duplicated = 0
    /\ written = [x \in Sides |-> 0]
    /\ got = [x \in Sides |-> <<>>]
    /\ reported = [x \in Sides |-> FALSE]

Exists(x) == conn[x] # <<>>
Conn(x) == conn[x][1]
Done(x) == Exists(x) /\ Conn(x).done

\* The datagrams a connection has ready are handed to the network.
Transmit(x, base, c) ==
    /\ conn' = [conn EXCEPT ![x] = <<[c EXCEPT !.raw = <<>>, !.run = "go"]>>]
    /\ net' = base \union {[to |-> Peer(x), recs |-> c.raw[i]] : i \in DOMAIN c.raw}
\* An error returns before the packets queued are sent.
Return(x, base, c, ok) == Transmit(x, base, IF ok THEN handle_outgoing_packets(c) ELSE c)

connect ==
    /\ ~Exists(Client)
    /\ \E c \in {handshake(NewConn(Client, build(plan.client, Client)))} :
           Return(Client, net, c, c.run # "err")
    /\ UNCHANGED <<plan, lost, duplicated, written, got, reported>>

-----------------------------------------------------------------------------
(* A datagram: its records, then the handshake, then what was queued for its keys.            *)
Ended(c, ok) == [c |-> c, ok |-> ok]
AfterQueue(c) == Ended(c, c.run # "err")
Queued(q) ==
    CASE ~q.ok -> Ended(q.c, FALSE)
      [] q.ok /\ q.hs /\ ~q.c.done -> AfterQueue(handshake(q.c))
      [] OTHER -> Ended(q.c, TRUE)
Advanced(c) ==
    IF c.run = "err" THEN Ended(c, FALSE) ELSE Queued(handle_incoming_queued_packets(c))
Handled(s) ==
    CASE ~s.ok -> Ended(s.c, FALSE)
      [] s.ok /\ s.c.done -> Ended(s.c, TRUE)
      [] OTHER -> Advanced(handshake(s.c))
EndpointRead(c, recs) == Handled(read(c, recs))

Incoming(x) == IF Exists(x) THEN Conn(x) ELSE NewConn(Server, build(plan.server, Server))
Deliver(d, base) ==
    LET x == d.to
    IN  /\ Exists(x) \/ x = Server
        /\ \E e \in {EndpointRead(Incoming(x), d.recs)} :
               /\ Return(x, base, IF e.ok /\ e.c.done THEN [e.c EXCEPT !.inbox = <<>>] ELSE e.c,
                         e.ok)
               /\ got' = IF e.ok /\ e.c.done THEN [got EXCEPT ![x] = @ \o e.c.inbox] ELSE got
               /\ reported' = [reported EXCEPT ![x] = @ \/ (e.ok /\ e.c.done)]
        /\ UNCHANGED <<plan, lost, written>>
Receive(d) == Deliver(d, net \ {d}) /\ UNCHANGED duplicated
Duplicate(d) ==
    /\ duplicated < plan.dup
    /\ Deliver(d, net)
    /\ duplicated' = duplicated + 1
Lose(d) ==
    /\ lost < plan.loss
    /\ lost' = lost + 1
    /\ net' = net \ {d}
    /\ UNCHANGED <<plan, conn, duplicated, written, got, reported>>

(* The retransmission timer, and the application's writes.                                    *)
TimedOut(c) == IF c.done THEN [c EXCEPT !.run = "stop"] ELSE handshake_timeout(c)
handle_timeout(x) ==
    /\ Exists(x)
    /\ Conn(x).timer
    /\ plan.patient => net = {}
    /\ \E c \in {TimedOut([Conn(x) EXCEPT !.timer = FALSE])} : Return(x, net, c, c.run # "err")
    /\ UNCHANGED <<plan, lost, duplicated, written, got, reported>>
Write(x) ==
    /\ Exists(x)
    /\ written[x] < plan.writes
    /\ written' = [written EXCEPT ![x] = @ + 1]
    /\ Return(x, net, write(Conn(x), written'[x]), TRUE)
    /\ UNCHANGED <<plan, lost, duplicated, got, reported>>

Next ==
    \/ connect
    \/ \E d \in net : Receive(d)
    \/ \E d \in net : Duplicate(d)
    \/ \E d \in net : Lose(d)
    \/ \E x \in Sides : handle_timeout(x)
    \/ \E x \in Sides : Write(x)

Spec == Init /\ [][Next]_vars

-----------------------------------------------------------------------------
(* What two configurations have to share for a handshake to complete.                         *)
Compatible(c, s) ==
    /\ ToSet(offered_cipher_suites(c, Client)) \intersect
       ToSet(offered_cipher_suites(s, Server)) # {}
    /\ c.psk # None => c.psk = s.psk
    /\ c.srtp # <<>> => ToSet(c.srtp) \intersect ToSet(s.srtp) # {}
    /\ {c.ems, s.ems} # {"Require", "Disable"}
    /\ c.psk = None => /\ s.cert /\ c.trusts
                       /\ s.auth \in {"RequireAny", "RequireAndVerify"} => c.cert
                       /\ s.auth # "No" /\ c.cert => s.trusts
Exhausted == \E x \in Sides : Exists(x) /\ Conn(x).st = "Errored"

\* What the two sides settle on: a client that completed the handshake did so after the server,
\* with the same cipher suite, SRTP profile, use of the extended master secret and master secret,
\* whatever was reordered, repeated or lost on the way; and a side completes only a handshake
\* that both configurations allow (flight 3, 4 and 5's parse).
DtlsAgree ==
    /\ Done(Client) =>
         /\ Done(Server)
         /\ Conn(Client).suite = Conn(Server).suite
         /\ Conn(Client).srtp = Conn(Server).srtp
         /\ Conn(Client).ems = Conn(Server).ems
         /\ Conn(Client).master = Conn(Server).master
    /\ \A x \in Sides : Done(x) => Compatible(plan.client, plan.server)

\* Application data is handed over at most once and only as written, and a completed handshake
\* was reported to the application (endpoint.rs:205-210, replay detection).
DtlsDelivers ==
    \A x \in Sides :
        /\ Cardinality(ToSet(got[x])) = Len(got[x])
        /\ \A i \in DOMAIN got[x] : got[x][i] \in 1..written[Peer(x)]
        /\ Done(x) => reported[x]

\* A connection is consistent: its retransmission timer is armed only while it waits for a flight,
\* the queue of records that wait for keys is bounded, and a message sequence number names one
\* message: whatever either side has cached or has under way under it is the same message, so no
\* fragment ever disagrees with the message it belongs to (fragment_buffer/mod.rs:185-196),
\* though the server restarts its numbers at each HelloVerifyRequest (flight2.rs:110).
DtlsConsistent ==
    \A x \in Sides : Exists(x) =>
        /\ Conn(x).timer => Conn(x).st = "Waiting" /\ ~Conn(x).done
        /\ Len(Conn(x).queue) <= MaxPending
        /\ Exists(Peer(x)) => Conn(x).fcur <= Conn(Peer(x)).sendSeq
        /\ \A m \in Conn(x).cache :
            /\ \A d \in net : \A i \in DOMAIN d.recs :
                   d.recs[i].ct = "Handshake" /\ d.to = Peer(m.from) /\ d.recs[i].mseq = m.mseq
                       => d.recs[i].typ = m.typ /\ d.recs[i].epoch = m.epoch
            /\ \A y \in Sides : Exists(y) => \A n \in Conn(y).cache :
                   n.from = m.from /\ n.mseq = m.mseq => n = m

\* Nothing the two endpoints wait for can happen any more: no datagram is under way and no
\* retransmission timer is armed.
AtRest ==
    /\ Exists(Client) /\ net = {}
    /\ \A x \in Sides : Exists(x) => ~Conn(x).timer
Resolved ==
    Exhausted \/ (\A x \in Sides : Done(x)) \/ ~Compatible(plan.client, plan.server)

\* Over a network that loses nothing, however it reorders and repeats datagrams and whenever the
\* timers fire, the handshake never comes to rest unfinished: both sides have completed it, or
\* one has exhausted its retransmissions, when the configurations allow one; and no record that
\* came before its keys, or data written before the end, is stranded in a queue by a completed
\* handshake (conn/mod.rs:535-619).
DtlsNotStuck ==
    /\ AtRest /\ lost = 0 => Resolved
    /\ \A x \in Sides : Done(x) => Conn(x).queue = <<>> /\ Conn(x).outq = <<>>

=============================================================================
