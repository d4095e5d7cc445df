--------------------------------- MODULE Chain ---------------------------------
(***************************************************************************)
(* The interceptor chain: the registry that orders interceptors by slot,    *)
(* the walks that carry packets through them, the interceptor that asks for *)
(* keyframes and the terminus in full, and of the others only what matters  *)
(* to a walk: a pacer holds what is written until a timeout, a jitter       *)
(* buffer what is read, and a responder answers RTCP with a packet.         *)
(***************************************************************************)
EXTENDS Integers, Sequences, FiniteSets, FiniteSetsExt, SequencesExt

CONSTANTS Registrations,    \* calls of Registry::with, in order
          Interval,         \* of keyframe requests
          Streams, Packets, Ticks, Changes

VARIABLES chain, read_outs, write_outs,
          streams, pending_immediate, next_timeout,  \* IntervalPliInterceptor
          now, packets, changes,
          read, wrote,      \* what the application polled, and what it sent on the wire
          observed, asked   \* per stream: first instant seen since it was bound, last request
vars == <<chain, read_outs, write_outs, streams, pending_immediate, next_timeout, now, packets, changes,
          read, wrote, observed, asked>>

None == -1

(***************************************************************************)
(* Registry                                                                 *)
(***************************************************************************)
NOOP == 99
Interceptor(kind, slot) == [kind |-> kind, slot |-> slot, reads |-> <<>>, writes |-> <<>>, held |-> <<>>]
\* one interceptor per slot: a later registration replaces an earlier one
with(held, r) == [s \in DOMAIN held \cup {r.slot} |-> IF s = r.slot THEN r.kind ELSE held[s]]
build(registrations) ==
    LET held == FoldLeft(with, [s \in {} |-> ""], registrations)
        slots == SetToSortSeq(DOMAIN held, <)
    IN [i \in 1 .. Len(slots) |-> Interceptor(held[slots[i]], slots[i])] \o <<Interceptor("noop", NOOP)>>

(***************************************************************************)
(* Packets keep the slots they went through, for the properties.            *)
(***************************************************************************)
Packet(kind, from, asks) == [kind |-> kind, from |-> from, asks |-> asks, trail |-> <<>>]
APPLICATION == 100
WIRE == 0
Visited(p, i) == [p EXCEPT !.trail = Append(@, i.slot)]

(***************************************************************************)
(* handle_read and handle_write of one interceptor                          *)
(***************************************************************************)
Pli(asks) == Packet("rtcp", 12, asks)
\* observe: the requests that bound streams still wait for
Observed(i) ==
    IF i.kind = "pli" /\ pending_immediate # {} THEN [i EXCEPT !.writes = Append(@, Pli(pending_immediate))] ELSE i
handle_read(i, p) ==
    IF i.kind = "jitter" /\ p.kind = "rtp" THEN [i EXCEPT !.held = Append(@, Visited(p, i))]
    ELSE IF i.kind = "noop" /\ p.kind = "rtcp" THEN i
    ELSE IF i.kind = "responder" /\ p.kind = "rtcp"
    THEN [i EXCEPT !.reads = Append(@, Visited(p, i)), !.writes = Append(@, Packet("rtp", i.slot, {}))]
    ELSE [i EXCEPT !.reads = Append(@, Visited(p, i))]
handle_write(i, p) ==
    IF i.kind = "pacer" THEN [i EXCEPT !.held = Append(@, Visited(p, i))]
    ELSE [i EXCEPT !.writes = Append(@, Visited(p, i))]

(***************************************************************************)
(* Chain::walk                                                              *)
(***************************************************************************)
\* an interceptor takes what is on the belt, and what it has ready goes on the belt
Taken(i, belt, reading) ==
    LET seen == IF belt = <<>> THEN i ELSE Observed(i)
    IN IF reading THEN FoldLeft(handle_read, seen, belt) ELSE FoldLeft(handle_write, seen, belt)
Emptied(i, reading) == IF reading THEN [i EXCEPT !.reads = <<>>] ELSE [i EXCEPT !.writes = <<>>]
Ready(i, reading) == IF reading THEN i.reads ELSE i.writes
Step(at, n, i, reading) ==
    [chain |-> [at.chain EXCEPT ![n] = Emptied(i, reading)], belt |-> Ready(i, reading),
     observed |-> at.observed \/ (i.kind = "pli" /\ at.belt # <<>>)]
(* mutant: what an interceptor makes is not carried to the others *)
walk_bypassed(all, belt, reading) ==
    LET order == IF reading THEN [n \in 1 .. Len(all) |-> n] ELSE Reverse([n \in 1 .. Len(all) |-> n])
        carried == FoldLeft(LAMBDA at, n : Step(at, n, Taken([at.chain[n] EXCEPT !.writes = <<>>], at.belt, reading), reading),
                            [chain |-> all, belt |-> belt, observed |-> FALSE], order)
    IN [carried EXCEPT !.belt = @ \o (IF reading THEN <<>> ELSE FlattenSeq([n \in 1 .. Len(all) |-> all[n].writes]))]
walk(all, belt, reading) ==
    LET order == IF reading THEN [n \in 1 .. Len(all) |-> n] ELSE Reverse([n \in 1 .. Len(all) |-> n])
    IN FoldLeft(LAMBDA at, n : Step(at, n, Taken(at.chain[n], at.belt, reading), reading),
                [chain |-> all, belt |-> belt, observed |-> FALSE], order)

\* the keyframe interceptor's own state, when it was handed an instant
arm(bound, timer) == IF timer = None /\ bound # {} THEN now + Interval ELSE timer
Observe(seen) ==
    IF seen
    THEN /\ pending_immediate' = {}
         /\ next_timeout' = arm(streams, next_timeout)
         /\ observed' = [s \in Streams |-> IF s \in streams /\ observed[s] = None THEN now ELSE observed[s]]
         /\ asked' = [s \in Streams |-> IF s \in pending_immediate THEN now ELSE asked[s]]
    ELSE UNCHANGED <<pending_immediate, next_timeout, observed, asked>>

(***************************************************************************)
(* Protocol for Chain                                                       *)
(***************************************************************************)
Walked(w, reading) ==
    /\ chain' = w.chain
    /\ Observe(w.observed)
    /\ IF reading THEN read_outs' = read_outs \o w.belt /\ UNCHANGED write_outs
       ELSE write_outs' = write_outs \o w.belt /\ UNCHANGED read_outs
HandleRead(kind) ==
    /\ packets < Packets /\ packets' = packets + 1
    /\ Walked(walk(chain, <<Packet(kind, WIRE, {})>>, TRUE), TRUE)
    /\ UNCHANGED <<streams, now, changes, read, wrote>>
HandleWrite ==
    /\ packets < Packets /\ packets' = packets + 1
    /\ Walked(walk(chain, <<Packet("rtp", APPLICATION, {})>>, FALSE), FALSE)
    /\ UNCHANGED <<streams, now, changes, read, wrote>>
\* with nothing pending, a walk with an empty belt first
Polled(outs, reading) == IF outs = <<>> THEN walk(chain, <<>>, reading) ELSE [chain |-> chain, belt |-> outs]
PollRead ==
    LET w == Polled(read_outs, TRUE)
    IN /\ chain' = w.chain
       /\ read_outs' = IF w.belt = <<>> THEN <<>> ELSE Tail(w.belt)
       /\ read' = IF w.belt = <<>> THEN read ELSE read \cup {Head(w.belt)}
       /\ UNCHANGED <<write_outs, streams, pending_immediate, next_timeout, now, packets, changes, wrote, observed, asked>>
PollWrite ==
    LET w == Polled(write_outs, FALSE)
    IN /\ chain' = w.chain
       /\ write_outs' = IF w.belt = <<>> THEN <<>> ELSE Tail(w.belt)
       /\ wrote' = IF w.belt = <<>> THEN wrote ELSE wrote \cup {Head(w.belt)}
       /\ UNCHANGED <<read_outs, streams, pending_immediate, next_timeout, now, packets, changes, read, observed, asked>>

\* a held packet goes on; the keyframe interceptor asks when its interval is over
TimedOut(i, due) ==
    IF i.kind = "pacer" THEN [i EXCEPT !.writes = @ \o i.held, !.held = <<>>]
    ELSE IF i.kind = "jitter" THEN [i EXCEPT !.reads = @ \o i.held, !.held = <<>>]
    ELSE IF i.kind = "pli" /\ due THEN [Observed(i) EXCEPT !.writes = Append(@, Pli(streams))]
    ELSE Observed(i)
HandleTimeout ==
    LET due == next_timeout # None /\ now >= next_timeout
    IN /\ chain' = [n \in DOMAIN chain |-> TimedOut(chain[n], due)]
       /\ pending_immediate' = {}
       /\ next_timeout' = IF due THEN now + Interval ELSE arm(streams, next_timeout)
       /\ observed' = [s \in Streams |-> IF s \in streams /\ observed[s] = None THEN now ELSE observed[s]]
       /\ asked' = [s \in Streams |-> IF s \in pending_immediate \/ (due /\ s \in streams) THEN now ELSE asked[s]]
       /\ UNCHANGED <<read_outs, write_outs, streams, now, packets, changes, read, wrote>>
poll_timeout == next_timeout
\* the driver calls handle_timeout at the instant poll_timeout names
Tick ==
    /\ now < Ticks /\ (poll_timeout = None \/ now < poll_timeout)
    /\ now' = now + 1
    /\ UNCHANGED <<chain, read_outs, write_outs, streams, pending_immediate, next_timeout, packets, changes, read,
                   wrote, observed, asked>>

BindRemoteStream(s) ==
    /\ changes < Changes /\ changes' = changes + 1
    /\ streams' = streams \cup {s} /\ pending_immediate' = pending_immediate \cup {s}
    /\ UNCHANGED <<chain, read_outs, write_outs, next_timeout, now, packets, read, wrote, observed, asked>>
UnbindRemoteStream(s) ==
    /\ changes < Changes /\ changes' = changes + 1
    /\ streams' = streams \ {s} /\ pending_immediate' = pending_immediate \ {s}
    /\ next_timeout' = IF streams' = {} THEN None ELSE next_timeout
    /\ observed' = [observed EXCEPT ![s] = None] /\ asked' = [asked EXCEPT ![s] = None]
    /\ UNCHANGED <<chain, read_outs, write_outs, now, packets, read, wrote>>

Init ==
    /\ chain = build(Registrations)
    /\ read_outs = <<>> /\ write_outs = <<>> /\ streams = {} /\ pending_immediate = {} /\ next_timeout = None
    /\ now = 0 /\ packets = 0 /\ changes = 0 /\ read = {} /\ wrote = {}
    /\ observed = [s \in Streams |-> None] /\ asked = [s \in Streams |-> None]
Next ==
    \/ \E kind \in {"rtp", "rtcp"} : HandleRead(kind)
    \/ HandleWrite \/ PollRead \/ PollWrite \/ HandleTimeout \/ Tick
    \/ \E s \in Streams : BindRemoteStream(s) \/ UnbindRemoteStream(s)
Spec == Init /\ [][Next]_vars

(***************************************************************************)
(* Properties.                                                              *)
(***************************************************************************)
\* the interceptors ahead of a packet that starts at a slot, in the order it meets them
Ahead(slot, reading) ==
    LET slots == {chain[n].slot : n \in DOMAIN chain}
    IN IF reading THEN SetToSortSeq({s \in slots : s > slot}, <) ELSE SetToSortSeq({s \in slots : s < slot}, >)
\* No packet goes round an interceptor: what reaches the wire or the application, held, answered or
\* generated, was handled once by each one between it and where it came from; no RTCP reaches the
\* application.
NoBypass ==
    /\ \A p \in read : p.trail = Ahead(p.from, TRUE) /\ p.kind = "rtp"
    /\ \A p \in wrote : p.trail = Ahead(p.from, FALSE)

\* A stream is asked for a keyframe as soon as the interceptor is handed an instant after it was
\* bound, and again before an interval is over, when the driver keeps to the timer.
KeyframesAsked ==
    \A s \in streams : (observed[s] # None) => (asked[s] # None /\ now - asked[s] <= Interval)
=============================================================================
