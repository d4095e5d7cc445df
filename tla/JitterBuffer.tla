----------------------------- MODULE JitterBuffer -----------------------------
(***************************************************************************)
(* The jitter buffer interceptor on one stream: packets are held for Depth  *)
(* and released in order, on a timeline that one packet anchors.            *)
(*                                                                          *)
(* The source samples packet n at instant n \div PerTick and may restart    *)
(* its timestamps at packet plan.restart; the network delays, reorders,     *)
(* repeats and loses packets.                                               *)
(***************************************************************************)
EXTENDS Integers, Sequences, FiniteSets, FiniteSetsExt, Functions

CONSTANTS SeqSpace, TsSpace,
          DISCONTINUITY,    \* a longer jump is a restart: ten seconds in the code
          Depth, Capacity,
          FirstPacket, Packets, PerTick,
          Ticks, Reorder,
          Opening,          \* the first packet to arrive is one of so many
          MaxRestarts,      \* packets that would restart the timeline once more stay away
          Plans             \* the first timestamp, the packet that restarts them, and by how much they jump

VARIABLES plan, now,
          packets,          \* JitterBuffer: extended number -> packet
          extender, released_through, state,
          timestamps, anchor, deadlines,        \* Stream
          anchored,         \* the packet that anchored the timeline
          run,              \* history: how often the timeline was restarted
          highest,          \* the highest packet that arrived
          emitted           \* packets released, with the instant and the run
buffer == <<packets, extender, released_through, state>>
stream == <<buffer, timestamps, anchor, deadlines>>
vars == <<plan, now, stream, anchored, run, highest, emitted>>

None == -1
Numbers == 0 .. Packets - 1
Seq_of(n) == (FirstPacket + n) % SeqSpace
Restarted(n) == plan.restart # None /\ n >= plan.restart
Media(n) == n \div PerTick + IF Restarted(n) THEN plan.jump ELSE 0
Ts_of(n) == (plan.first_ts + Media(n)) % TsSpace
Larger(a, b) == IF a > b THEN a ELSE b

\* the nearest cycle to the highest value, and nothing below the origin
extend(top, value, space) ==
    LET distance == (value - top) % space
    IN IF top = None THEN value
       ELSE Larger(0, top + IF distance >= space \div 2 THEN distance - space ELSE distance)

(***************************************************************************)
(* handle_read                                                              *)
(***************************************************************************)
Gap(a, b) == IF a > b THEN a - b ELSE b - a
\* the first packet anchors the timeline; one across a discontinuity starts it again
Restarts(ts) == anchor.arrived # None /\ Gap(ts, anchor.timestamp) > DISCONTINUITY
Anchor(ts) == IF anchor.arrived = None \/ Restarts(ts) THEN [arrived |-> now, timestamp |-> ts] ELSE anchor
Deadline(a, ts) == a.arrived + Depth + Larger(0, ts - a.timestamp)

\* push on what the buffer holds, b, the highest number, top, and the released one
Full(b) == Cardinality(DOMAIN b) >= Capacity
Refused(b, released, ext) ==
    \/ ext <= released
    \/ ext \in DOMAIN b
    \/ Full(b) /\ ext < Min(DOMAIN b)
Stored(b, n, ext) ==
    LET room == IF Full(b) THEN Restrict(b, DOMAIN b \ {Min(DOMAIN b)}) ELSE b
    IN [e \in DOMAIN room \cup {ext} |-> IF e = ext THEN n ELSE room[e]]
push(b, due, top, released, n, ext, deadline) ==
    /\ extender' = Larger(top, ext)
    /\ released_through' = released
    /\ packets' = IF Refused(b, released, ext) THEN b ELSE Stored(b, n, ext)
    /\ deadlines' = IF Refused(b, released, ext) THEN due
                    ELSE [e \in DOMAIN due \cup {ext} |-> IF e = ext THEN deadline ELSE due[e]]
Read(n, ts) ==
    /\ timestamps' = Larger(timestamps, ts)
    /\ anchor' = Anchor(ts)
    /\ anchored' = IF anchor' = anchor THEN anchored ELSE n
    /\ run' = IF Restarts(ts) THEN run + 1 ELSE run
    /\ run' <= MaxRestarts
    /\ IF Restarts(ts)
       THEN push(<<>>, <<>>, None, None, n, Seq_of(n), Deadline(anchor', ts)) /\ state' = "Buffering"
       ELSE /\ push(packets, deadlines, extender, released_through, n, extend(extender, Seq_of(n), SeqSpace),
                    Deadline(anchor', ts))
            /\ state' = state
ReadRtp(n) ==
    /\ now >= n \div PerTick
    /\ n >= highest - Reorder
    \* neither numbers nor timestamps wrap before the stream's first packet
    /\ highest = None => n < Opening
    /\ highest' = Larger(highest, n)
    /\ Read(n, extend(timestamps, Ts_of(n), TsSpace))
    /\ UNCHANGED <<plan, now, emitted>>

(***************************************************************************)
(* poll_timeout and handle_timeout                                          *)
(***************************************************************************)
Front == Min(DOMAIN packets)
next_deadline == IF DOMAIN packets = {} THEN None ELSE deadlines[Front]
\* from the front, up to the first packet that is not due
Due == {e \in DOMAIN packets : \A f \in DOMAIN packets : f <= e => deadlines[f] <= now}
InOrder(S) == [i \in 1 .. Cardinality(S) |-> CHOOSE e \in S : Cardinality({f \in S : f < e}) = i - 1]
Released(S) == [i \in 1 .. Cardinality(S) |-> [num |-> packets[InOrder(S)[i]], at |-> now, run |-> run]]
(* mutant: the timeline is kept when the stream runs dry, but not what was released *)
Drained_forgotten(left) ==
    /\ anchor' = IF left = {} THEN [arrived |-> None, timestamp |-> 0] ELSE anchor
    /\ state' = IF left = {} THEN "Buffering" ELSE "Emitting"
    /\ released_through' = IF left = {} THEN None ELSE Max({released_through} \cup Due)
\* run dry: fill again, on a new timeline; what was released stays known
Drained(left) ==
    /\ anchor' = IF left = {} THEN [arrived |-> None, timestamp |-> 0] ELSE anchor
    /\ state' = IF left = {} THEN "Buffering" ELSE "Emitting"
    /\ released_through' = Max({released_through} \cup Due)
HandleTimeout ==
    /\ next_deadline # None /\ next_deadline <= now
    /\ emitted' = emitted \o Released(Due)
    /\ packets' = Restrict(packets, DOMAIN packets \ Due)
    /\ deadlines' = Restrict(deadlines, DOMAIN deadlines \ Due)
    /\ Drained(DOMAIN packets \ Due)
    /\ UNCHANGED <<plan, now, extender, timestamps, anchored, run, highest>>

Tick ==
    /\ now < Ticks
    /\ now' = now + 1
    /\ UNCHANGED <<plan, stream, anchored, run, highest, emitted>>

Init ==
    /\ plan \in Plans /\ now = 0
    /\ packets = <<>> /\ extender = None /\ released_through = None /\ state = "Buffering"
    /\ timestamps = None /\ anchor = [arrived |-> None, timestamp |-> 0] /\ deadlines = <<>>
    /\ anchored = None /\ run = 0 /\ highest = None /\ emitted = <<>>
Next == HandleTimeout \/ Tick \/ \E n \in Numbers : ReadRtp(n)
Spec == Init /\ [][Next]_vars

(***************************************************************************)
(* Properties.                                                              *)
(***************************************************************************)
\* Packets leave in the order they were sent and none leaves twice, whatever the network repeats,
\* delays or reorders, across the wrap of the sequence numbers, overflow and running dry, as long
\* as the timeline is not restarted. A restart forgets what was released, so a packet of before it
\* may leave after it, or again: whether the source's timestamps jump or the stream has gone on
\* for DISCONTINUITY without running dry.
PlayedInOrder ==
    \A i \in 1 .. Len(emitted) - 1 :
        emitted[i].run = emitted[i + 1].run => emitted[i].num < emitted[i + 1].num

\* Playout keeps the spacing of the source: every packet held is due Depth after the anchor arrived
\* plus the media time between the two, although timestamps wrap; and the timer is set for the
\* earliest of them, so none outstays its instant.
PlayoutSteady ==
    \A e \in DOMAIN packets :
        /\ deadlines[e] = anchor.arrived + Depth + Larger(0, Media(packets[e]) - Media(anchored))
        /\ next_deadline <= deadlines[e]
=============================================================================
