---------------------------- MODULE Negotiation ----------------------------
(***************************************************************************)
(* Offer/answer negotiation between two peer connections: the signalling    *)
(* state machine, the transceivers and their mids and directions, the       *)
(* media sections of a description, rollback, provisional answers, ICE      *)
(* restarts (staged by create_offer, applied by set_local_description), the *)
(* one-time start of the transports, and the negotiation-needed event.      *)
(*                                                                          *)
(* An operation of RTCPeerConnection is an operator from a peer's record to *)
(* its record after the call; the field err holds the error the call        *)
(* returned, "" for Ok.  The applications around the peers follow the usual *)
(* pattern: an offer for every negotiation-needed event, an answer for      *)
(* every offer, and on glare the polite side rolls its own offer back.      *)
(*                                                                          *)
(* A mid is its number, an ICE user fragment and password one number, a     *)
(* media stream track one number; codecs and header extensions are left out.*)
(***************************************************************************)
EXTENDS Integers, Sequences, SequencesExt, FiniteSets

CONSTANTS Plans,        \* what the two applications do, besides negotiating
          MaxOffers     \* offers either application makes

VARIABLES peer,         \* the two RTCPeerConnections
          todo,         \* what is left of the applications' plan
          made,         \* the description create_offer/create_answer returned
          wire,         \* descriptions on the way to a peer, in order
          offers        \* offers made so far

vars == <<peer, todo, made, wire, offers>>

Peers == {"a", "b"}
Other(x) == IF x = "a" THEN "b" ELSE "a"
Polite(x) == x = "b"

(***************************************************************************)
(* Directions, descriptions, transceivers.                                  *)
(***************************************************************************)
HasSend(d) == d \in {"sendrecv", "sendonly"}
HasRecv(d) == d \in {"sendrecv", "recvonly"}
FromSendRecv(send, recv) ==
    CASE send /\ recv -> "sendrecv" [] send /\ ~recv -> "sendonly"
      [] ~send /\ recv -> "recvonly" [] OTHER -> "inactive"
Reverse_dir(d) == CASE d = "sendonly" -> "recvonly" [] d = "recvonly" -> "sendonly"
                    [] OTHER -> d

NoDesc == [type |-> "none", ver |-> 0, sections |-> <<>>, cred |-> 0, setup |-> "actpass"]
Exists(d) == d.type # "none"
Rollback == [NoDesc EXCEPT !.type = "rollback"]

MidIndex(seq, mid) == {i \in DOMAIN seq : seq[i].mid = mid}
HasData(d) == \E i \in DOMAIN d.sections : d.sections[i].kind = "application"

NewTransceiver(kind, track, dir) ==
    [mid |-> -1, kind |-> kind, dir |-> dir, cur |-> "none", track |-> track,
     negotiated |-> FALSE, sent |-> FALSE, recv |-> HasRecv(dir), got |-> 0,
     stopped |-> FALSE, byRemote |-> FALSE]

NewPeer ==
    [sig |-> "stable", trs |-> <<>>, data |-> FALSE, greaterMid |-> -1,
     curL |-> NoDesc, curR |-> NoDesc, penL |-> NoDesc, penR |-> NoDesc,
     lastOffer |-> NoDesc, lastAnswer |-> NoDesc, ver |-> 0,
     ongoing |-> FALSE, event |-> FALSE, restart |-> FALSE,
     cred |-> 1, staged |-> 0, remoteCred |-> 0, nextCred |-> 2,
     ice |-> "new", controlling |-> FALSE, dtls |-> "new", sctp |-> FALSE, err |-> "",
     leftover |-> FALSE]    \* history: see Leftovers

Failed(p, e) == [p EXCEPT !.err = e]

RemoteDescription(p) == IF Exists(p.penR) THEN p.penR ELSE p.curR

(***************************************************************************)
(* Is an offer needed?  check_negotiation_needed, and the event.            *)
(***************************************************************************)
SectionStale(p, t) ==
    LET at == MidIndex(p.curL.sections, t.mid)
        rat == MidIndex(p.curR.sections, t.mid)
    IN  IF at = {} THEN TRUE
        ELSE LET m == p.curL.sections[CHOOSE i \in at : TRUE]
             IN  \/ HasSend(t.dir) /\ t.track # 0 /\ m.msid # t.track
                 \/ /\ p.curL.type = "offer" /\ Exists(p.curR)
                    /\ IF rat = {} THEN TRUE
                       ELSE /\ m.dir # t.dir
                            /\ p.curR.sections[CHOOSE i \in rat : TRUE].dir
                                   # Reverse_dir(t.dir)
                 \/ p.curL.type = "answer" /\ m.dir # t.dir

CheckNegotiationNeeded(p) ==
    \/ ~Exists(p.curL)
    \/ p.data /\ ~HasData(p.curL)
    \/ \E i \in DOMAIN p.trs : SectionStale(p, p.trs[i])

TriggerNegotiationNeeded(p) ==
    CASE p.sig # "stable"           -> p
      [] ~CheckNegotiationNeeded(p) -> [p EXCEPT !.ongoing = FALSE]
      [] p.ongoing                  -> p
      [] OTHER                      -> [p EXCEPT !.ongoing = TRUE, !.event = TRUE]

(***************************************************************************)
(* What the application does to its transceivers and channels.              *)
(***************************************************************************)
AddTransceiver(p, t) == TriggerNegotiationNeeded([p EXCEPT !.trs = Append(@, t)])

AddTrack(p, kind, track) ==
    LET free == {i \in DOMAIN p.trs : /\ ~p.trs[i].stopped /\ p.trs[i].kind = kind
                                      /\ p.trs[i].track = 0}
    IN  IF free = {} THEN AddTransceiver(p, NewTransceiver(kind, track, "sendrecv"))
        ELSE LET i == CHOOSE i \in free : \A j \in free : i <= j
             IN  TriggerNegotiationNeeded(
                     [p EXCEPT !.trs[i].track = track, !.trs[i].negotiated = FALSE,
                               !.trs[i].sent = FALSE,
                               !.trs[i].dir = FromSendRecv(TRUE, HasRecv(@))])

RemoveTrack(p, i) ==
    IF i > Len(p.trs) THEN Failed(p, "no sender")
    ELSE LET q == [p EXCEPT !.trs[i].dir = FromSendRecv(FALSE, HasRecv(@)),
                            !.trs[i].negotiated = FALSE, !.trs[i].sent = FALSE]
             r == IF p.trs[i].track # 0 THEN TriggerNegotiationNeeded(q) ELSE q
         IN  [r EXCEPT !.trs[i].track = 0]

SetDirection(p, i, d) ==
    IF p.trs[i].dir = d THEN p
    ELSE TriggerNegotiationNeeded([p EXCEPT !.trs[i].dir = d])

StopTransceiver(t) ==
    IF t.stopped THEN t
    ELSE [t EXCEPT !.stopped = TRUE, !.negotiated = FALSE, !.sent = FALSE,
                   !.dir = "inactive", !.cur = "inactive"]

CreateDataChannel(p) == TriggerNegotiationNeeded([p EXCEPT !.data = TRUE])

RestartIce(p) == [p EXCEPT !.restart = TRUE]

(***************************************************************************)
(* The media sections of a description.                                     *)
(***************************************************************************)
Section(t) == [mid |-> t.mid, kind |-> t.kind, dir |-> t.dir, msid |-> t.track]
DataSection(mid) == [mid |-> mid, kind |-> "application", dir |-> "none", msid |-> 0]

\* a sender whose section was written counts as negotiated
Negotiated(p, idx) ==
    [p EXCEPT !.trs = [i \in DOMAIN @ |-> IF i \in idx THEN [@[i] EXCEPT !.negotiated = p.trs[i].track # 0]
                                          ELSE @[i]]]

WithMid(p, mids) == SelectSeq(p.trs, LAMBDA t : t.mid # -1 /\ t.mid \notin mids)

\* generate_unmatched_sdp: one section for every transceiver with a mid
UnmatchedSections(p) ==
    LET media == [i \in DOMAIN WithMid(p, {}) |-> Section(WithMid(p, {})[i])]
    IN  IF p.data THEN Append(media, DataSection(Len(media))) ELSE media

\* generate_matched_sdp: the sections of the remote description in its order,
\* then, in an offer, what is not there yet
MatchedSections(p, includeUnmatched) ==
    LET remote  == RemoteDescription(p).sections
        matched == [i \in DOMAIN remote |->
                       IF remote[i].kind = "application" THEN DataSection(remote[i].mid)
                       ELSE Section(p.trs[CHOOSE j \in MidIndex(p.trs, remote[i].mid) : TRUE])]
        others  == WithMid(p, {remote[i].mid : i \in DOMAIN remote})
        media   == matched \o [i \in DOMAIN others |-> Section(others[i])]
    IN  IF ~includeUnmatched THEN matched
        ELSE IF p.data /\ ~HasData(RemoteDescription(p))
             THEN Append(media, DataSection(Len(media)))
             ELSE media

\* every media section of the remote description belongs to a transceiver
Matches(p) == \A i \in DOMAIN RemoteDescription(p).sections :
                  LET s == RemoteDescription(p).sections[i]
                  IN  s.kind # "application" => MidIndex(p.trs, s.mid) # {}

LocalCred(p) == IF p.staged # 0 THEN p.staged ELSE p.cred

StageIceRestart(p) == [p EXCEPT !.staged = p.nextCred, !.nextCred = @ + 1]
ApplyIceRestart(p) ==
    [p EXCEPT !.cred = LocalCred(p), !.staged = 0, !.remoteCred = 0]

\* the mids create_offer hands out: above every mid seen so far
NextMids(p) ==
    LET seen == {p.greaterMid} \cup {p.curR.sections[i].mid : i \in DOMAIN p.curR.sections}
        top0 == CHOOSE m \in seen : \A n \in seen : n <= m
        assign(q, t) ==
            IF t.mid # -1
            THEN [q EXCEPT !.greaterMid = IF t.mid > @ THEN t.mid ELSE @,
                           !.trs = Append(@, t)]
            ELSE [q EXCEPT !.greaterMid = @ + 1,
                           !.trs = Append(@, [t EXCEPT !.mid = q.greaterMid + 1])]
    IN  FoldLeft(assign, [p EXCEPT !.greaterMid = top0, !.trs = <<>>], p.trs)

Describe(p, type, sections, setup) ==
    [type |-> type, ver |-> p.ver + 1, sections |-> sections, cred |-> LocalCred(p),
     setup |-> setup]

CreateOffer(p) ==
    LET q == NextMids(IF p.restart THEN StageIceRestart([p EXCEPT !.restart = FALSE]) ELSE p)
    IN  IF ~Exists(q.curR)
        THEN [Negotiated(q, DOMAIN q.trs) EXCEPT
                !.lastOffer = Describe(q, "offer", UnmatchedSections(q), "actpass"),
                !.ver = @ + 1, !.err = ""]
        ELSE IF ~Matches(q) THEN Failed(q, "mid nil")
        ELSE [Negotiated(q, DOMAIN q.trs) EXCEPT
                !.lastOffer = Describe(q, "offer", MatchedSections(q, TRUE), "actpass"),
                !.ver = @ + 1, !.err = ""]

CreateAnswer(p) ==
    IF ~Exists(RemoteDescription(p)) THEN Failed(p, "no remote description")
    ELSE IF p.sig \notin {"have-remote-offer", "have-local-pranswer"}
    THEN Failed(p, "incorrect signaling state")
    ELSE IF ~Matches(p) THEN Failed(p, "mid nil")
    ELSE LET remote == RemoteDescription(p).sections
             idx    == {i \in DOMAIN p.trs : MidIndex(remote, p.trs[i].mid) # {}}
         IN  [Negotiated(p, idx) EXCEPT
                !.lastAnswer = Describe(p, "answer", MatchedSections(p, FALSE), "active"),
                !.ver = @ + 1, !.err = ""]

(***************************************************************************)
(* The signalling state machine: check_next_signaling_state.                *)
(***************************************************************************)
Transitions ==
    { <<"stable", "local", "offer", "have-local-offer">>,
      <<"stable", "remote", "offer", "have-remote-offer">>,
      <<"have-local-offer", "remote", "answer", "stable">>,
      <<"have-local-offer", "remote", "pranswer", "have-remote-pranswer">>,
      <<"have-local-offer", "local", "offer", "have-local-offer">>,
      <<"have-local-offer", "local", "rollback", "stable">>,
      <<"have-remote-pranswer", "remote", "answer", "stable">>,
      <<"have-remote-offer", "local", "answer", "stable">>,
      <<"have-remote-offer", "local", "pranswer", "have-local-pranswer">>,
      <<"have-remote-offer", "remote", "rollback", "stable">>,
      <<"have-local-pranswer", "local", "answer", "stable">> }

NextStates(cur, op, type) ==
    {t[4] : t \in {u \in Transitions : u[1] = cur /\ u[2] = op /\ u[3] = type}}

\* the mids of the descriptions last agreed on
CurrentMids(p) == UNION {{d.sections[i].mid : i \in DOMAIN d.sections} : d \in {p.curL, p.curR}}
                  \cup {p.curR.sections[i].mid : i \in DOMAIN p.curR.sections}

RollbackTransceivers(p) ==
    LET kept == SelectSeq(p.trs, LAMBDA t : ~(t.byRemote /\ t.track = 0))
    IN  [p EXCEPT !.trs =
            [i \in DOMAIN kept |->
                IF kept[i].mid # -1 /\ kept[i].mid \notin CurrentMids(p)
                THEN [kept[i] EXCEPT !.mid = -1, !.cur = "none"] ELSE kept[i]]]

\* the descriptions after one of them was set
Descriptions(p, d, op) ==
    CASE d.type \in {"offer", "pranswer"} ->
            IF op = "local" THEN [p EXCEPT !.penL = d] ELSE [p EXCEPT !.penR = d]
      [] d.type = "answer" ->
            IF op = "local"
            THEN [p EXCEPT !.curL = d, !.curR = p.penR, !.penL = NoDesc, !.penR = NoDesc]
            ELSE [p EXCEPT !.curR = d, !.curL = p.penL, !.penL = NoDesc, !.penR = NoDesc]
      [] d.type = "rollback" ->
            RollbackTransceivers(IF op = "local" THEN [p EXCEPT !.penL = NoDesc]
                                 ELSE [p EXCEPT !.penR = NoDesc])

\* a local description must be the one last created
Unchanged(p, d, op) ==
    op = "local" => /\ d.type = "offer" => d.ver = p.lastOffer.ver
                    /\ d.type \in {"answer", "pranswer"} => d.ver = p.lastAnswer.ver

(* mutant: the negotiation counts as under way for ever *)
SetDescription_ongoing(p, d, op) ==
    LET next == NextStates(p.sig, op, d.type)
    IN  IF ~Unchanged(p, d, op) THEN Failed(p, "description changed")
        ELSE IF next = {} THEN Failed(p, "invalid transition")
        ELSE LET q == [Descriptions(p, d, op) EXCEPT
                          !.sig = CHOOSE s \in next : TRUE, !.err = ""]
             IN  IF q.sig # "stable" THEN q
                 ELSE TriggerNegotiationNeeded(
                        [q EXCEPT !.trs = [i \in DOMAIN @ |-> [@[i] EXCEPT !.byRemote = FALSE]]])

SetDescription(p, d, op) ==
    LET next == NextStates(p.sig, op, d.type)
    IN  IF ~Unchanged(p, d, op) THEN Failed(p, "description changed")
        ELSE IF next = {} THEN Failed(p, "invalid transition")
        ELSE LET q == [Descriptions(p, d, op) EXCEPT
                          !.sig = CHOOSE s \in next : TRUE, !.err = ""]
             IN  IF q.sig # "stable" THEN q
                 ELSE TriggerNegotiationNeeded(
                        [q EXCEPT !.ongoing = FALSE,
                                  !.trs = [i \in DOMAIN @ |-> [@[i] EXCEPT !.byRemote = FALSE]]])

(***************************************************************************)
(* What follows once an answer is in place.                                 *)
(***************************************************************************)
StartSctp(p, local, remote) ==
    IF HasData(local) /\ HasData(remote) THEN [p EXCEPT !.sctp = TRUE] ELSE p

\* start_rtp: senders negotiated start sending, receivers take the tracks the
\* remote description announces
StartRtp(p, remote) ==
    LET announced(t) == {i \in MidIndex(remote.sections, t.mid) :
                            /\ remote.sections[i].kind = t.kind
                            /\ HasSend(remote.sections[i].dir)
                            /\ remote.sections[i].msid # 0}
        started(t) ==
            [t EXCEPT !.sent = @ \/ (t.track # 0 /\ t.negotiated),
                      !.got = IF HasRecv(t.dir) /\ t.recv /\ announced(t) # {}
                              THEN remote.sections[CHOOSE i \in announced(t) : TRUE].msid
                              ELSE @]
    IN  [p EXCEPT !.trs = [i \in DOMAIN @ |-> started(@[i])]]

\* the current direction of a transceiver, from its section of the answer
LocalCurrent(t, dir) == IF dir = "sendonly" /\ t.track = 0 THEN "inactive" ELSE dir
RemoteCurrent(t, dir) == Reverse_dir(dir)

CurrentDirections(p, d, op) ==
    LET at(t) == MidIndex(d.sections, t.mid)
        dir(t) == d.sections[CHOOSE i \in at(t) : TRUE].dir
        cur(t) == IF op = "local" THEN LocalCurrent(t, dir(t)) ELSE RemoteCurrent(t, dir(t))
    IN  [p EXCEPT !.trs = [i \in DOMAIN @ |->
            IF at(@[i]) = {} THEN @[i] ELSE [@[i] EXCEPT !.cur = cur(p.trs[i])]]]

SetLocalDescription(p0, d) ==
    LET p == IF p0.staged # 0
             THEN [ApplyIceRestart(p0) EXCEPT !.leftover = @ \/ d.type # "offer"] ELSE p0
        q == SetDescription(p, d, "local")
    IN  IF q.err # "" \/ d.type # "answer" THEN q
        ELSE LET r == CurrentDirections(q, d, "local")
             IN  StartRtp(StartSctp(r, d, RemoteDescription(r)), RemoteDescription(r))

(***************************************************************************)
(* set_remote_description.                                                  *)
(***************************************************************************)
\* satisfy_type_and_direction: the transceivers an offered section may take,
\* by the first preferred direction that has one
Preferred(remoteDir) ==
    CASE remoteDir = "sendrecv" -> <<"recvonly", "sendrecv">>
      [] remoteDir = "sendonly" -> <<"recvonly">>
      [] remoteDir = "recvonly" -> <<"sendonly", "sendrecv">>
      [] OTHER                  -> <<>>

Satisfying(p, s) ==
    LET free(d) == {i \in DOMAIN p.trs : /\ p.trs[i].mid = -1 /\ p.trs[i].kind = s.kind
                                         /\ p.trs[i].dir = d}
        ranks   == {k \in DOMAIN Preferred(s.dir) : free(Preferred(s.dir)[k]) # {}}
    IN  IF ranks = {} THEN {}
        ELSE free(Preferred(s.dir)[CHOOSE k \in ranks : \A l \in ranks : k <= l])

\* the direction of a transceiver an offered section was matched with
Adjusted(dir, remoteDir) ==
    CASE remoteDir = "recvonly" /\ dir = "sendrecv" -> "sendonly"
      [] remoteDir = "recvonly" /\ dir = "recvonly" -> "inactive"
      [] remoteDir = "sendrecv" /\ dir = "sendonly" -> "sendrecv"
      [] remoteDir \in {"sendrecv", "sendonly"} /\ dir = "inactive" -> "recvonly"
      [] OTHER -> dir

\* one section of a remote description that is not an answer.  A transceiver is found by its
\* mid whatever its kind: `leftover' records that one of another kind has the mid
MatchSection(p, s) ==
    LET byMid == MidIndex(p.trs, s.mid)
        found == IF byMid # {} THEN byMid ELSE Satisfying(p, s)
        i     == CHOOSE k \in found : \A l \in found : k <= l
        t     == IF byMid # {} /\ s.dir = "inactive" THEN StopTransceiver(p.trs[i]) ELSE p.trs[i]
        mixed == byMid # {} /\ p.trs[i].kind # s.kind
    IN  CASE s.kind = "application" -> [p EXCEPT !.leftover = @ \/ mixed]
          [] s.kind # "application" /\ found # {} ->
                [p EXCEPT !.trs[i] = [t EXCEPT !.dir = Adjusted(@, s.dir), !.mid = s.mid],
                          !.leftover = @ \/ mixed]
          [] OTHER ->
                AddTransceiver(p, [NewTransceiver(s.kind, 0, IF s.dir = "recvonly" THEN "sendonly"
                                                             ELSE "recvonly")
                                   EXCEPT !.mid = s.mid, !.byRemote = TRUE])

\* start_transports: once, at the first remote description
StartTransports(p, d, weOffer) ==
    IF p.ice # "new" THEN Failed(p, "ice not new")
    ELSE [p EXCEPT !.ice = "checking", !.controlling = weOffer, !.remoteCred = d.cred,
                   !.dtls = CASE d.setup = "active" -> "server"
                              [] d.setup = "passive" -> "client"
                              [] OTHER -> IF weOffer THEN "server" ELSE "client"]

\* an ICE restart of the other side
RemoteCredentials(p, d, weOffer) ==
    IF d.cred = p.remoteCred THEN p
    ELSE [IF weOffer THEN p ELSE ApplyIceRestart(StageIceRestart(p)) EXCEPT !.remoteCred = d.cred]

SetRemoteDescription(p, d) ==
    LET renegotiation == Exists(p.curR)
        weOffer == d.type = "answer"
        q == SetDescription(p, d, "remote")
        r == IF weOffer THEN CurrentDirections(q, d, "remote")
             ELSE FoldLeft(MatchSection, q, d.sections)
        s == IF renegotiation THEN RemoteCredentials(r, d, weOffer)
             ELSE StartTransports(r, d, weOffer)
    IN  CASE q.err # "" \/ d.type = "rollback" -> q
          [] weOffer /\ \E i \in DOMAIN d.sections : /\ d.sections[i].kind # "application"
                                                     /\ MidIndex(q.trs, d.sections[i].mid) = {} ->
                Failed(q, "mid nil")
          [] d.sections = <<>> -> Failed(r, "no ice ufrag")
          [] s.err # "" \/ ~weOffer -> s
          [] OTHER -> StartRtp(StartSctp(s, s.curL, d), d)

(***************************************************************************)
(* The applications.                                                        *)
(***************************************************************************)
Init ==
    /\ todo \in Plans
    /\ peer = [x \in Peers |-> NewPeer]
    /\ made = [x \in Peers |-> NoDesc]
    /\ wire = [x \in Peers |-> <<>>]
    /\ offers = [x \in Peers |-> 0]

\* a call of the application; one that names a transceiver waits until it exists
Call(p, c) ==
    CASE c.op = "track"   -> AddTrack(p, c.kind, c.arg)
      [] c.op = "add"     -> AddTransceiver(p, NewTransceiver(c.kind, c.arg, c.dir))
      [] c.op = "remove"  -> RemoveTrack(p, c.arg)
      [] c.op = "dir"     -> SetDirection(p, c.arg, c.dir)
      [] c.op = "stop"    -> [p EXCEPT !.trs[c.arg] = StopTransceiver(@)]
      [] c.op = "channel" -> CreateDataChannel(p)
      [] c.op = "restart" -> RestartIce(p)

NextCall(x) == IF todo[x] = <<>> THEN "none" ELSE Head(todo[x]).op

Do(x) ==
    /\ NextCall(x) \notin {"none", "decline", "pranswer"}
    /\ LET c == Head(todo[x])
       IN  /\ c.op \in {"remove", "dir", "stop"} => c.arg \in DOMAIN peer[x].trs
           /\ c.op \in {"remove", "dir", "stop", "restart"} => Exists(peer[x].curL)
           /\ peer' = [peer EXCEPT ![x] = Call(@, c)]
    /\ todo' = [todo EXCEPT ![x] = Tail(@)]
    /\ UNCHANGED <<made, wire, offers>>

\* the application polled OnNegotiationNeeded, or asked for an ICE restart
MakeOffer(x) ==
    /\ peer[x].event \/ peer[x].restart
    /\ peer[x].sig = "stable" /\ ~Exists(made[x]) /\ offers[x] < MaxOffers
    /\ peer' = [peer EXCEPT ![x] = CreateOffer([@ EXCEPT !.event = FALSE])]
    /\ made' = [made EXCEPT ![x] = IF peer'[x].err = "" THEN peer'[x].lastOffer ELSE NoDesc]
    /\ offers' = [offers EXCEPT ![x] = @ + 1]
    /\ UNCHANGED <<todo, wire>>

ApplyOffer(x) ==
    /\ made[x].type = "offer" /\ peer[x].sig = "stable"
    /\ peer' = [peer EXCEPT ![x] = SetLocalDescription(@, made[x])]
    /\ wire' = [wire EXCEPT ![Other(x)] = Append(@, made[x])]
    /\ made' = [made EXCEPT ![x] = NoDesc]
    /\ UNCHANGED <<todo, offers>>

\* an offer of the other side came first: the one just created is dropped
DropOffer(x) ==
    /\ made[x].type = "offer" /\ peer[x].sig # "stable"
    /\ made' = [made EXCEPT ![x] = NoDesc]
    /\ UNCHANGED <<peer, todo, wire, offers>>

\* the application is about to refuse this offer, which is not the first
Declines(x) == /\ NextCall(x) = "decline"
               /\ peer[x].sig = "have-remote-offer" /\ Exists(peer[x].curR)

MakeAnswer(x) ==
    /\ peer[x].sig \in {"have-remote-offer", "have-local-pranswer"} /\ ~Exists(made[x])
    /\ ~Declines(x)
    /\ peer' = [peer EXCEPT ![x] = CreateAnswer(@)]
    /\ made' = [made EXCEPT ![x] = IF peer'[x].err = "" THEN peer'[x].lastAnswer ELSE NoDesc]
    /\ UNCHANGED <<todo, wire, offers>>

\* the answer is applied and sent, the first time perhaps as a provisional one
ApplyAnswer(x) ==
    LET provisional == /\ NextCall(x) = "pranswer"
                       /\ peer[x].sig = "have-remote-offer" /\ Exists(peer[x].curR)
        d == IF provisional THEN [made[x] EXCEPT !.type = "pranswer"] ELSE made[x]
    IN  /\ made[x].type = "answer"
        /\ peer' = [peer EXCEPT ![x] = SetLocalDescription(@, d)]
        /\ wire' = [wire EXCEPT ![Other(x)] = Append(@, d)]
        /\ todo' = IF provisional THEN [todo EXCEPT ![x] = Tail(@)] ELSE todo
        /\ made' = [made EXCEPT ![x] = NoDesc]
        /\ UNCHANGED offers

\* the application rolls a remote offer back and tells the other side
Decline(x) ==
    /\ Declines(x) /\ ~Exists(made[x])
    /\ peer' = [peer EXCEPT ![x] = SetRemoteDescription(@, Rollback)]
    /\ wire' = [wire EXCEPT ![Other(x)] = Append(@, Rollback)]
    /\ todo' = [todo EXCEPT ![x] = Tail(@)]
    /\ UNCHANGED <<made, offers>>

\* a description arrives.  Glare: the polite side rolls back its own offer,
\* the other ignores the one that arrived
Arrive(p, x, d) ==
    CASE d.type = "offer" /\ p.sig = "stable" -> SetRemoteDescription(p, d)
      [] d.type = "offer" /\ p.sig # "stable" ->
            IF Polite(x) THEN SetRemoteDescription(SetLocalDescription(p, Rollback), d) ELSE p
      [] d.type = "rollback" ->
            IF p.sig = "have-local-offer" THEN SetLocalDescription(p, Rollback) ELSE p
      [] d.type \in {"answer", "pranswer"} -> SetRemoteDescription(p, d)

Receive(x) ==
    /\ wire[x] # <<>>
    /\ peer' = [peer EXCEPT ![x] = Arrive(@, x, Head(wire[x]))]
    /\ wire' = [wire EXCEPT ![x] = Tail(@)]
    /\ UNCHANGED <<todo, made, offers>>

\* nothing left to do
AtRest == \A x \in Peers :
             /\ peer[x].sig = "stable" /\ ~peer[x].event /\ ~peer[x].restart
             /\ wire[x] = <<>> /\ ~Exists(made[x])

Rest == /\ AtRest
        /\ \A x \in Peers : NextCall(x) \in {"none", "decline", "pranswer"}
        /\ UNCHANGED vars

Next == \/ \E x \in Peers : \/ Do(x) \/ MakeOffer(x) \/ ApplyOffer(x) \/ DropOffer(x)
                             \/ MakeAnswer(x) \/ ApplyAnswer(x) \/ Decline(x) \/ Receive(x)
        \/ Rest

Spec == Init /\ [][Next]_vars

(***************************************************************************)
(* Properties.                                                              *)
(***************************************************************************)

(* No call of a well-behaved application fails: no mid is unknown, no local  *)
(* description differs from the one created, no transition of the signalling *)
(* state is refused and no transport is started twice, whatever the order of *)
(* offers, answers, rollbacks and changes (set_description,                  *)
(* generate_matched_sdp, set_remote_description).                            *)
CallsSucceed == \A x \in Peers : peer[x].err = ""

(* create_offer has given mids to transceivers and staged an ICE restart     *)
(* even if its offer is then dropped for one that arrives.  Nothing but      *)
(* CallsSucceed is claimed once the arriving offer uses such a mid for a     *)
(* section of another kind, or the restart was applied with an answer.       *)
Leftovers == \E x \in Peers : peer[x].leftover

UniqueMids(d) == \A i, j \in DOMAIN d.sections :
                    d.sections[i].mid = d.sections[j].mid => i = j
SameSections(d, e) ==
    /\ DOMAIN d.sections = DOMAIN e.sections
    /\ \A i \in DOMAIN d.sections : /\ d.sections[i].mid = e.sections[i].mid
                                    /\ d.sections[i].kind = e.sections[i].kind

(* The descriptions an exchange ends with have the same media sections in    *)
(* the same order, each mid once, and a section once agreed on keeps its     *)
(* place, mid and kind in every later exchange, whichever side offers        *)
(* (generate_matched_sdp, create_offer's choice of mids).                    *)
SectionsFit == ~Leftovers => \A x \in Peers :
    Exists(peer[x].curL) => /\ UniqueMids(peer[x].curL)
                            /\ SameSections(peer[x].curL, peer[x].curR)

(* Once both sides are stable and nothing is under way, each has the other's *)
(* descriptions and ICE credentials, the ICE and DTLS roles are              *)
(* complementary, and either both or neither started SCTP, also when ICE     *)
(* restarts of both sides crossed (set_remote_description,                   *)
(* start_transports, apply_ice_restart).                                     *)
PeersAgree ==
    ~Leftovers /\ AtRest /\ (\E x \in Peers : Exists(peer[x].curL)) =>
        \A x \in Peers :
            LET p == peer[x] q == peer[Other(x)]
            IN  /\ p.curL = q.curR
                /\ p.remoteCred = q.cred
                /\ p.dtls # q.dtls /\ p.controlling # q.controlling /\ p.sctp = q.sctp

(* And a transceiver whose negotiated direction is to send has started       *)
(* sending its track, to a transceiver of the same kind on the other side    *)
(* whose negotiated direction is to receive (set_current_direction,          *)
(* start_rtp).                                                               *)
SendersHeard ==
    ~Leftovers /\ AtRest => \A x \in Peers : \A i \in DOMAIN peer[x].trs :
        LET t == peer[x].trs[i]
            others == {peer[Other(x)].trs[j] : j \in MidIndex(peer[Other(x)].trs, t.mid)}
        IN  HasSend(t.cur) /\ t.track # 0 =>
                /\ t.sent /\ others # {}
                /\ \A o \in others : o.kind = t.kind /\ (o.stopped \/ HasRecv(o.cur))

\* stopping a transceiver does not ask for a negotiation
Running(p) == [p EXCEPT !.trs = SelectSeq(@, LAMBDA t : ~t.stopped)]

(* A change that needs an offer is never forgotten: while the signalling     *)
(* state is stable the negotiation-needed event has been raised for it, also *)
(* when the change was made in the middle of an exchange; and the exchanges  *)
(* come to an end (trigger_negotiation_needed, negotiation_needed_op).       *)
NegotiationNotLost ==
    ~Leftovers => \A x \in Peers :
        /\ peer[x].sig = "stable" /\ CheckNegotiationNeeded(Running(peer[x]))
             /\ (peer[x].data \/ peer[x].trs # <<>>) => peer[x].ongoing
        /\ AtRest /\ Exists(peer[x].curL) => ~CheckNegotiationNeeded(Running(peer[x]))
        /\ offers[x] < MaxOffers
=============================================================================
