---------------------------- MODULE DataChannels ----------------------------
(***************************************************************************)
(* Data channels of two connected peers: the registry of each peer         *)
(* (src/data_channel/registry.rs), its DataChannelHandler, the write path  *)
(* from the application through the endpoint and data-channel handlers to  *)
(* the SCTP streams, and the event path back.  An SCTP association is seen *)
(* here as a set of streams, each a queue of messages per direction with   *)
(* the stream resets in it; SctpHandler and SctpPartial model how the      *)
(* association achieves that.  Labels name channels across the two peers.  *)
(***************************************************************************)
EXTENDS Integers, Sequences, FiniteSets, SequencesExt

CONSTANTS Plans   \* scenarios: what the two applications do, see Init

VARIABLES plan, s, wire

vars == <<plan, s, wire>>

Sides == {"client", "server"}
Peer(x) == IF x = "client" THEN "server" ELSE "client"

NoStream == -1

EmptyFn == [k \in {} |-> 0]
Put(f, k, v) == [j \in DOMAIN f \cup {k} |-> IF j = k THEN v ELSE f[j]]
Drop(f, k) == [j \in DOMAIN f \ {k} |-> f[j]]

(* A message of the data channel protocol or of the application, addressed *)
(* to an SCTP stream.                                                      *)
Msg(id, k, l, m) == [id |-> id, k |-> k, l |-> l, m |-> m, unord |-> FALSE]

-----------------------------------------------------------------------------
(* The registry.                                                           *)

(* RTCDataChannelInternal::new: a channel the application creates.  In-band *)
(* channels get their stream id later; `neg' channels bring it along.       *)
NewChannel(l, neg, id, unord) ==
  [l |-> l, neg |-> neg, id |-> id, unord |-> unord, ready |-> "connecting",
   dc |-> FALSE, hs |-> FALSE, deadline |-> FALSE, closeEmitted |-> FALSE,
   rd |-> <<>>, wr |-> <<>>, outstanding |-> 0]

(* DataChannelRegistry::insert *)
Insert(t, c) ==
  [t EXCEPT !.chans = Put(@, t.next, c),
            !.by = IF c.id = NoStream THEN @ ELSE Put(@, c.id, t.next),
            !.next = @ + 1]

(* DataChannelRegistry::pending_stream_id_handles, in creation order *)
Pending(t) == SetToSortSeq({h \in DOMAIN t.chans : t.chans[h].id = NoStream}, <)

(* The first unclaimed stream id of this parity, or one past the limit *)
FreeFrom(t, next, max) ==
  CHOOSE i \in next .. (max + 1) :
    /\ i % 2 = next % 2
    /\ i >= max - 1 \/ i \notin DOMAIN t.by
    /\ \A j \in next .. (i - 1) : j % 2 = next % 2 => j < max - 1 /\ j \in DOMAIN t.by

(* One turn of the loop of assign_stream_ids; `failed' is the early return *)
AssignOne(a, h, i, max) ==
  IF i >= max - 1
  THEN [a EXCEPT !.failed = TRUE]
  ELSE [t |-> [a.t EXCEPT !.chans[h].id = i, !.by = Put(@, i, h)],
        next |-> i + 2, failed |-> FALSE]

(* DataChannelRegistry::assign_stream_ids: even ids for the DTLS client, odd *)
(* ones for the server, up to the association's number of streams            *)
Assign(t, x, max) ==
  FoldLeft(LAMBDA a, h : IF a.failed THEN a
                         ELSE AssignOne(a, h, FreeFrom(a.t, a.next, max), max),
           [t |-> t, next |-> IF x = "client" THEN 0 ELSE 1, failed |-> FALSE],
           Pending(t))

(* DataChannel::dial and RTCDataChannelInternal::dial: the OPEN is queued;   *)
(* a negotiated channel is open at once, its OPEN stays on this side         *)
Dialed(c) ==
  [c EXCEPT !.dc = TRUE, !.hs = c.neg, !.ready = IF c.neg THEN "open" ELSE "connecting",
            !.wr = Append(@, [Msg(c.id, IF c.neg THEN "openlocal" ELSE "open", c.l, 0)
                                EXCEPT !.unord = c.unord])]

-----------------------------------------------------------------------------
(* The SCTP streams underneath.                                            *)

(* Association::open_stream and set_reliability_params *)
OpenStream(t, m) ==
  IF m.id \in DOMAIN t.st THEN t
  ELSE [t EXCEPT !.st = Put(@, m.id, [open |-> TRUE, unord |-> m.unord])]

(* Stream::write_chunk_with_ppi: only DCEP messages ignore the unordered flag *)
Sent(w, x, t, m) ==
  [w EXCEPT ![x][m.id] = Append(@, [m EXCEPT !.unord = m.k = "user" /\ t.st[m.id].unord])]

(* SctpHandler::handle_write.  The OPEN of an existing stream, a write to a *)
(* missing stream and a write to a closed one all come to nothing: the      *)
(* pipeline only logs the error.                                            *)
SctpWrite(b, x, m) ==
  LET t == b.t
      writable == m.id \in DOMAIN t.st /\ t.st[m.id].open IN
  CASE m.k = "open" /\ m.id \notin DOMAIN t.st ->
         [t |-> OpenStream(t, m), w |-> Sent(b.w, x, OpenStream(t, m), m)]
    [] m.k = "openlocal" -> [b EXCEPT !.t = OpenStream(t, m)]
    [] m.k = "close" /\ m.id \in DOMAIN t.st ->
         [t |-> [t EXCEPT !.st[m.id].open = FALSE,
                          !.hev = Append(@, [k |-> "closed", id |-> m.id])],
          w |-> IF writable
                THEN [b.w EXCEPT ![x][m.id] = Append(@, Msg(m.id, "reset", 0, 0))]
                ELSE b.w]
    [] m.k \in {"ack", "user"} /\ writable -> [b EXCEPT !.w = Sent(b.w, x, t, m)]
    [] OTHER -> b

-----------------------------------------------------------------------------
(* DataChannelHandler.                                                     *)

Log(t, k, h, l, m) == [t EXCEPT !.log = Append(@, [k |-> k, h |-> h, l |-> l, m |-> m])]

(* `while let Some(m) = data_channel.poll_write()': what the channel has   *)
(* queued moves to the handler's output                                    *)
Flush(t, h) ==
  [t EXCEPT !.outs = @ \o t.chans[h].wr, !.chans[h].wr = <<>>]

(* DataChannelHandler::handle_write *)
WriteOne(t, e) ==
  IF e.h \in DOMAIN t.chans /\ t.chans[e.h].dc
  THEN Flush([t EXCEPT !.chans[e.h].wr =
                Append(@, Msg(t.chans[e.h].id, "user", t.chans[e.h].l, e.m))], e.h)
  ELSE t

(* mutant: messages stay in the read queue of the channel *)
HandUp_keep(t, h) ==
  IF t.chans[h].ready = "open"
  THEN FoldLeft(LAMBDA u, m : Log(u, "msg", h, t.chans[h].l, m), t, t.chans[h].rd)
  ELSE t

(* DataChannelHandler::handle_read, the messages an open channel hands up *)
HandUp(t, h) ==
  IF t.chans[h].ready = "open"
  THEN [FoldLeft(LAMBDA u, m : Log(u, "msg", h, t.chans[h].l, m), t, t.chans[h].rd)
          EXCEPT !.chans[h].rd = <<>>]
  ELSE t

(* rtc-datachannel's DataChannel::handle_read and handle_dcep *)
DcRead(t, h, m) ==
  CASE m.k = "open" -> [t EXCEPT !.chans[h].wr = Append(@, Msg(m.id, "ack", m.l, 0))]
    [] m.k = "ack"  -> [t EXCEPT !.chans[h].hs = TRUE]
    [] OTHER        -> [t EXCEPT !.chans[h].rd = Append(@, m.m)]

(* The ACK completes the handshake of a connecting channel *)
Opened(t, h) ==
  IF t.chans[h].hs /\ t.chans[h].ready = "connecting"
  THEN Log([t EXCEPT !.chans[h].ready = "open", !.chans[h].deadline = FALSE],
           "open", h, t.chans[h].l, 0)
  ELSE t

(* mutant: the OPEN of the peer is not acknowledged *)
Accepted_no_ack(t, m) ==
  Log(Insert(t, [NewChannel(m.l, FALSE, m.id, m.unord) EXCEPT
                   !.dc = TRUE, !.hs = TRUE, !.ready = "open"]),
      "open", t.next, m.l, 0)

(* RTCDataChannelInternal::accept: a channel the peer opened *)
Accepted(t, m) ==
  Log(Insert(t, [NewChannel(m.l, FALSE, m.id, m.unord) EXCEPT
                   !.dc = TRUE, !.hs = TRUE, !.ready = "open",
                   !.wr = <<Msg(m.id, "ack", m.l, 0)>>]),
      "open", t.next, m.l, 0)

(* DataChannelHandler::handle_read: a closed channel ignores its input, one  *)
(* that was not dialed cannot take any, an unknown stream has to begin with  *)
(* an OPEN                                                                   *)
ChannelRead(t, m) ==
  IF m.id \in DOMAIN t.by
  THEN LET h == t.by[m.id] IN
       IF t.chans[h].ready = "closed" \/ ~t.chans[h].dc THEN t
       ELSE Flush(HandUp(Opened(DcRead(t, h, m), h), h), h)
  ELSE IF m.k = "open" THEN Flush(Accepted(t, m), t.next) ELSE t

(* DataChannelHandler::handle_event, SCTPStreamClosed *)
StreamClosed(t, id) ==
  IF id \notin DOMAIN t.by THEN t
  ELSE LET h == t.by[id]
           u == [t EXCEPT !.by = Drop(@, id), !.chans = Drop(@, h)] IN
       IF t.chans[h].closeEmitted THEN u ELSE Log(u, "close", h, t.chans[h].l, 0)

(* SCTPBufferReleased, a saturating subtraction *)
Released(t, id) ==
  IF id \in DOMAIN t.by
  THEN [t EXCEPT !.chans[t.by[id]].outstanding = IF @ > 0 THEN @ - 1 ELSE 0]
  ELSE t

DialOne(t, h) ==
  LET c == t.chans[h]
      u == Flush([t EXCEPT !.chans[h] = [Dialed(c) EXCEPT !.deadline = ~c.neg]], h) IN
  IF c.ready # "connecting" \/ c.dc THEN t
  ELSE IF c.neg THEN Log(u, "open", h, c.l, 0) ELSE u

(* SCTPHandshakeComplete: the connected procedure.  When the stream ids run  *)
(* out nothing is dialed.                                                    *)
Dialing(a) ==
  IF a.failed THEN a.t
  ELSE FoldLeft(LAMBDA t, h : DialOne(t, h), a.t, SetToSortSeq(DOMAIN a.t.chans, <))

HandleEvent(t, x, e, max) ==
  CASE e.k = "up"       -> Dialing(Assign(t, x, max))
    [] e.k = "closed"   -> StreamClosed(t, e.id)
    [] e.k = "released" -> Released(t, e.id)

-----------------------------------------------------------------------------
(* What the application and the network do at one peer.                    *)

Logged(x, k) == SelectSeq(s[x].log, LAMBDA e : e.k = k)

(* A plan says, per side, the channels the application creates (in order:   *)
(* a negotiated stream id or NoStream; unordered or not; any time, before   *)
(* the association exists, or after another channel was closed), how many   *)
(* messages it sends, how many channels it closes, whether it may send      *)
(* before the open event or close right behind a send, and whether          *)
(* deadlines pass.  `max' is the number of streams of the association.      *)
LabelOf(x, h, c) ==
  IF c.neg # NoStream THEN 100 + c.neg
  ELSE (IF x = "client" THEN 0 ELSE 10) + h + (IF c.unord THEN 50 ELSE 0)

Init ==
  /\ plan \in Plans
  /\ s = [x \in Sides |->
            [phase |-> "none", chans |-> EmptyFn, by |-> EmptyFn, next |-> 0,
             ep |-> <<>>, outs |-> <<>>, hev |-> <<>>, st |-> EmptyFn,
             made |-> 0, log |-> <<>>,
             reused |-> {}]]                      \* history: see Create
  /\ wire = [x \in Sides |-> [i \in 0 .. plan.max |-> <<>>]]

(* Something of an earlier channel on the stream id is left: at an end its   *)
(* entry in the registry, its stream or an event, or a message between them. *)
Lingers(id) ==
  \E y \in Sides : \/ id \in DOMAIN s[y].by \/ id \in DOMAIN s[y].st
                   \/ \E e \in ToSet(s[y].hev) : e.id = id
                   \/ id \in DOMAIN wire[y] /\ wire[y][id] # <<>>
LabelsOn(id) ==
  {s[y].chans[s[y].by[id]].l : y \in {z \in Sides : id \in DOMAIN s[z].by}}
  \cup {m.l : m \in {n \in UNION {ToSet(wire[y][id]) : y \in Sides} : n.k = "open"}}

(* RTCPeerConnection::create_data_channel.  With an association in place the *)
(* channel is dialed at once.  Its stream id is one the registry does not    *)
(* use; `reused' records the labels when the id was not given up everywhere. *)
Create(x) ==
  /\ s[x].made < Len(plan.create[x])
  /\ LET c == plan.create[x][s[x].made + 1]
         t == Insert([s[x] EXCEPT !.made = @ + 1],
                     NewChannel(LabelOf(x, s[x].next, c), c.neg # NoStream, c.neg, c.unord))
         h == s[x].next
         a == Assign(t, x, plan.max) IN
     /\ CASE c.when = "before" -> s[x].phase = "none"
          [] c.when = "reuse"  -> Logged(x, "close") # <<>>
          [] OTHER             -> TRUE
     /\ s' = [s EXCEPT ![x] =
                IF t.phase = "none" THEN t
                ELSE IF a.failed THEN a.t
                ELSE [a.t EXCEPT !.chans[h] = Dialed(a.t.chans[h]),
                                 !.reused = IF Lingers(a.t.chans[h].id)
                                            THEN @ \cup {a.t.chans[h].l} \cup LabelsOn(a.t.chans[h].id)
                                            ELSE @]]
  /\ UNCHANGED <<plan, wire>>

(* The SctpHandler gains an association: the client when DTLS is done, the  *)
(* server with the first INIT                                               *)
Associate(x) ==
  /\ s[x].phase = "none"
  /\ x = "server" => s["client"].phase # "none"
  /\ s' = [s EXCEPT ![x].phase = "handshaking"]
  /\ UNCHANGED <<plan, wire>>

(* The association is up, at the server first; SCTPHandshakeComplete waits   *)
(* for poll_event                                                            *)
Establish(x) ==
  /\ s[x].phase = "handshaking"
  /\ s[Peer(x)].phase = IF x = "server" THEN "handshaking" ELSE "up"
  /\ s' = [s EXCEPT ![x].phase = "up",
                    ![x].hev = Append(@, [k |-> "up", id |-> NoStream])]
  /\ UNCHANGED <<plan, wire>>

(* RTCDataChannel::ensure_sendable *)
Sendable(x, h) == h \in DOMAIN s[x].chans /\ s[x].chans[h].dc

(* RTCDataChannel::send, send_text.  The application sends on channels it    *)
(* has not closed; `plan.early' lets it send before the open event           *)
Send(x, h) ==
  LET n == Len(SelectSeq(s[x].log, LAMBDA e : e.k = "send")) IN
  /\ Sendable(x, h)
  /\ n < plan.sends[x]
  /\ s[x].chans[h].ready = "open" \/ (plan.early /\ s[x].chans[h].ready = "connecting")
  /\ s' = [s EXCEPT ![x] = Log([@ EXCEPT !.ep = Append(@, [h |-> h, m |-> n + 1]),
                                         !.chans[h].outstanding = @ + 1],
                               "send", h, s[x].chans[h].l, n + 1)]
  /\ UNCHANGED <<plan, wire>>

(* RTCDataChannelInternal::close and DataChannel::close *)
Closed(c) ==
  [c EXCEPT !.ready = "closed", !.deadline = FALSE, !.hs = FALSE,
            !.wr = IF c.dc THEN Append(@, Msg(c.id, "close", c.l, 0)) ELSE @]

(* RTCDataChannel::close *)
Close(x, h) ==
  /\ plan.closes[x] > Len(Logged(x, "closing"))
  /\ h \in DOMAIN s[x].chans
  /\ s[x].chans[h].ready # "closed"
  /\ plan.prompt \/ s[x].ep = <<>>
  /\ s' = [s EXCEPT ![x] = Log([@ EXCEPT !.chans[h] = Closed(@)],
                               "closing", h, s[x].chans[h].l, 0)]
  /\ UNCHANGED <<plan, wire>>

(* handle_timeout: the DCEP handshake takes too long *)
TimedOut(t, h) ==
  Log([t EXCEPT !.chans[h] = [Closed(t.chans[h]) EXCEPT !.closeEmitted = TRUE]],
      "close", h, t.chans[h].l, 0)

Timeout(x) ==
  LET late == {h \in DOMAIN s[x].chans : s[x].chans[h].deadline} IN
  /\ plan.timeouts
  /\ late # {}
  /\ s' = [s EXCEPT ![x] = FoldLeft(LAMBDA t, h : TimedOut(t, h), @, SetToSortSeq(late, <))]
  /\ UNCHANGED <<plan, wire>>

(* RTCPeerConnection::poll_write, from the endpoint down to the streams *)
Drained(t) ==
  LET u == FoldLeft(LAMBDA a, e : WriteOne(a, e), [t EXCEPT !.ep = <<>>], t.ep) IN
  FoldLeft(LAMBDA a, h : Flush(a, h), u, SetToSortSeq(DOMAIN u.chans, <))

PollWrite(x) ==
  /\ \/ s[x].ep # <<>>
     \/ s[x].outs # <<>>
     \/ \E h \in DOMAIN s[x].chans : s[x].chans[h].wr # <<>>
  /\ \E t \in {Drained(s[x])} :
       \E b \in {IF t.phase = "none" THEN [t |-> t, w |-> wire]
                 ELSE FoldLeft(LAMBDA a, m : SctpWrite(a, x, m), [t |-> t, w |-> wire], t.outs)} :
         /\ s' = [s EXCEPT ![x] = [b.t EXCEPT !.outs = <<>>]]
         /\ wire' = b.w
  /\ UNCHANGED plan

(* RTCPeerConnection::poll_event walks all the queued events up the pipeline *)
PollEvent(x) ==
  /\ s[x].hev # <<>>
  /\ s' = [s EXCEPT ![x] = FoldLeft(LAMBDA t, e : HandleEvent(t, x, e, plan.max),
                                    [@ EXCEPT !.hev = <<>>], s[x].hev)]
  /\ UNCHANGED <<plan, wire>>

(* Which queued item SCTP may hand over next: an unordered message any time, *)
(* an ordered one after the ordered ones before it, a reset after everything *)
Ready(q, i) ==
  IF q[i].k = "reset" THEN i = 1
  ELSE q[i].unord \/ \A j \in 1 .. (i - 1) : q[j].unord

(* Messages wait for the association to come up.  A message creates its      *)
(* stream; a closed stream cannot be read.  The sender learns of the release. *)
Receive(x, id, i) ==
  LET q == wire[Peer(x)][id]
      m == q[i]
      t == IF id \in DOMAIN s[x].st THEN s[x]
           ELSE [s[x] EXCEPT !.st = Put(@, id, [open |-> TRUE, unord |-> FALSE])] IN
  /\ i \in 1 .. Len(q)
  /\ s[x].phase = "up" /\ s[Peer(x)].phase = "up"
  /\ Ready(q, i)
  /\ m.k # "reset"
  /\ wire' = [wire EXCEPT ![Peer(x)][id] = RemoveAt(q, i)]
  /\ s' = [s EXCEPT ![x] = IF t.st[id].open THEN ChannelRead(t, m) ELSE t,
                    ![Peer(x)].hev = IF m.k = "user"
                                     THEN Append(@, [k |-> "released", id |-> id]) ELSE @]
  /\ UNCHANGED plan

(* A reset of the peer's outgoing stream unregisters the stream here, and is *)
(* answered by a reset of ours (reset_streams_if_any)                        *)
ReceiveReset(x, id) ==
  LET q == wire[Peer(x)][id] IN
  /\ q # <<>> /\ q[1].k = "reset"
  /\ wire' = [wire EXCEPT ![Peer(x)][id] = Tail(q),
                          ![x][id] = IF id \in DOMAIN s[x].st
                                     THEN Append(@, Msg(id, "reset", 0, 0)) ELSE @]
  /\ s' = [s EXCEPT ![x] = IF id \in DOMAIN @.st
                           THEN [@ EXCEPT !.st = Drop(@, id),
                                          !.hev = Append(@, [k |-> "closed", id |-> id])]
                           ELSE @]
  /\ UNCHANGED plan

Next ==
  \E x \in Sides :
    \/ Create(x)
    \/ Associate(x)
    \/ Establish(x)
    \/ \E h \in DOMAIN s[x].chans : Send(x, h)
    \/ \E h \in DOMAIN s[x].chans : Close(x, h)
    \/ Timeout(x)
    \/ PollWrite(x)
    \/ PollEvent(x)
    \/ \E id \in DOMAIN wire[x] : \E i \in 1 .. Len(wire[Peer(x)][id]) : Receive(x, id, i)
    \/ \E id \in DOMAIN wire[x] : ReceiveReset(x, id)

Spec == Init /\ [][Next]_vars

-----------------------------------------------------------------------------
(* What the two applications see, and the channel service it implements.    *)

CONSTANT AllLabels   \* the labels of the channels in the plans

Of(x, k, l) == SelectSeq(s[x].log, LAMBDA e : e.k = k /\ e.l = l)
Values(q) == [i \in DOMAIN q |-> q[i].m]

PhaseOf(l, x) ==
  IF Of(x, "close", l) # <<>> \/ Of(x, "closing", l) # <<>> THEN "closed"
  ELSE IF Of(x, "open", l) # <<>> THEN "open"
  ELSE IF \E h \in DOMAIN s[x].chans : s[x].chans[h].l = l THEN "connecting"
  ELSE "none"

(* In-band ordered channels promise the prefix; unordered ones, and          *)
(* negotiated ones (a message that arrives before the connected procedure is *)
(* refused), only that nothing comes twice                                   *)
Ordered(l) == l < 50

Service == INSTANCE Channel WITH
  Labels <- AllLabels,
  InOrder <- Ordered,
  phase <- [l \in AllLabels |-> [x \in Sides |-> PhaseOf(l, x)]],
  sent <- [l \in AllLabels |-> [x \in Sides |-> Values(Of(x, "send", l))]],
  got <- [l \in AllLabels |-> [x \in Sides |-> Values(Of(x, "msg", l))]]

(* The channels that share a stream id with one that is not gone yet.  The   *)
(* registry allows it ("unused" is by_stream alone), and what is left of one *)
(* then reaches the other: nothing is claimed of them.                       *)
Reused == UNION {s[x].reused : x \in Sides}

(* The two peers implement the channel service: every channel opens once,    *)
(* only after it was created, hands messages over only while open, in order  *)
(* and without gaps when it is ordered, and closes for good, whatever the    *)
(* order in which reads, events, writes and timeouts are polled.             *)
ChannelInit == Service!Init
ChannelStep == \A l \in AllLabels \ Reused' : Service!Keeps(l)

(* by_stream and the channels' own stream ids are inverse to each other, and *)
(* a channel opened in-band sits on a stream of its opener's parity, so that *)
(* both peers can open channels at once (registry.rs, RFC 8832 section 6).   *)
StreamsRegistered ==
  \A x \in Sides : LET t == s[x] IN
    /\ \A id \in DOMAIN t.by : t.by[id] \in DOMAIN t.chans /\ t.chans[t.by[id]].id = id
    /\ \A h \in DOMAIN t.chans : LET c == t.chans[h] IN
         c.id # NoStream => /\ c.id \in DOMAIN t.by
                            /\ t.by[c.id] = h
                            /\ ~c.neg => c.id % 2 = (IF c.l % 50 < 10 THEN 0 ELSE 1)

UserMsgs(q) == Len(SelectSeq(q, LAMBDA m : m.k = "user"))

(* outstanding_bytes counts exactly the messages between send() and their    *)
(* release by SCTP, wherever they are: in the endpoint's queue, the          *)
(* handler's, on the stream, or in a release event not yet polled.           *)
OutstandingExact ==
  \A x \in Sides : LET t == s[x] IN
    \A h \in DOMAIN t.chans : LET c == t.chans[h] IN
      (c.l \notin Reused /\ c.id \in DOMAIN t.st /\ t.st[c.id].open) =>
        c.outstanding = Len(SelectSeq(t.ep, LAMBDA e : e.h = h))
                        + UserMsgs(SelectSeq(t.outs, LAMBDA m : m.id = c.id))
                        + UserMsgs(wire[x][c.id])
                        + Len(SelectSeq(t.hev, LAMBDA e : e.k = "released" /\ e.id = c.id))

(* Nothing is queued anywhere, and both associations are up *)
Quiet ==
  \A x \in Sides :
    /\ s[x].phase = "up"
    /\ s[x].ep = <<>> /\ s[x].outs = <<>> /\ s[x].hev = <<>>
    /\ \A h \in DOMAIN s[x].chans : s[x].chans[h].wr = <<>>
    /\ \A id \in DOMAIN wire[x] : wire[x][id] = <<>>

(* The association has a stream for every channel *)
Enough ==
  \A x \in Sides :
    2 * Len(SelectSeq(plan.create[x], LAMBDA c : c.neg = NoStream)) < plan.max

(* Once everything has been polled, an in-band channel is open at both ends  *)
(* with all its messages handed over, or closed (or never announced) at      *)
(* both: neither a timeout nor a close leaves one end open alone.  A channel *)
(* created on a stream id whose last user is gone at both ends is as any.    *)
ChannelsSettle ==
  (Quiet /\ Enough) =>
    \A l \in AllLabels \ Reused, x \in Sides :
      (l < 50 /\ PhaseOf(l, x) \in {"connecting", "open"}) =>
        /\ PhaseOf(l, x) = "open" /\ PhaseOf(l, Peer(x)) = "open"
        /\ Values(Of(x, "msg", l)) = Values(Of(Peer(x), "send", l))

=============================================================================
