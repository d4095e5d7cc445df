-------------------------------- MODULE Pacing --------------------------------
(***************************************************************************)
(* The pacer interceptor: a leaky bucket of bits and the queue it meters.   *)
(* A tick is the least time a Duration tells apart, a nanosecond; bits are   *)
(* counted in a unit of which a rate brings a whole number in a tick.       *)
(***************************************************************************)
EXTENDS Integers, Sequences, FiniteSets, FiniteSetsExt, SequencesExt

CONSTANTS MIN_BURST_BITS,   \* one packet of 1500 bytes in the code
          BurstTicks,       \* a derived burst is this many ticks of the rate
          QueueLimit, Sizes, Packets, Ticks,
          Changes,          \* times the estimator changes the rate, at most
          Configurations    \* the configured burst, or None, and the rates

VARIABLES configuration, now,
          bitrate, budget_bits, last_refill,        \* Pacer
          queue, dropped,
          written,          \* packets written
          era,              \* changes of the rate
          released          \* what left: number, bits, instant, era
vars == <<configuration, now, bitrate, budget_bits, last_refill, queue, dropped, written, era, released>>

None == -1
Smaller(a, b) == IF a < b THEN a ELSE b
Larger(a, b) == IF a > b THEN a ELSE b
burst_for(rate) == Larger(rate * BurstTicks, MIN_BURST_BITS)
burst_at(rate) ==
    IF configuration.burst = None THEN burst_for(rate) ELSE Larger(configuration.burst, MIN_BURST_BITS)
burst_bits == burst_at(bitrate)

(* mutant: an idle sender saves up without limit *)
refill_uncapped(t) == IF last_refill = None THEN budget_bits ELSE budget_bits + (t - last_refill) * bitrate
\* the budget at an instant
refill(t) ==
    IF last_refill = None THEN budget_bits
    ELSE Smaller(budget_bits + (t - last_refill) * bitrate, burst_bits)
\* a packet larger than a burst waits for the whole of it
can_release(budget, bits) == budget >= Smaller(bits, burst_bits)
\* Duration::from_secs_f64 rounds to the nearest tick, and to an even one between two
Nearest(bits, rate) ==
    LET ticks == bits \div rate
        over == 2 * (bits % rate)
    IN IF over < rate \/ (over = rate /\ ticks % 2 = 0) THEN ticks ELSE ticks + 1
time_until_affordable(bits) ==
    IF budget_bits >= bits THEN 0
    ELSE IF bitrate = 0 THEN None
    ELSE Nearest(bits - budget_bits, bitrate)
releasable_at(bits) ==
    LET wait == time_until_affordable(Smaller(bits, burst_bits))
    IN IF last_refill = None \/ wait = None THEN None ELSE last_refill + wait
next_release == IF queue = <<>> THEN None ELSE releasable_at(Head(queue).bits)

set_target_bitrate(rate) ==
    /\ bitrate' = rate
    /\ budget_bits' = Smaller(budget_bits, burst_at(rate))
\* handle_read of feedback that carries a new estimate
ReadEstimate(rate) ==
    /\ era < Changes /\ rate # bitrate
    /\ era' = era + 1
    /\ set_target_bitrate(rate)
    /\ UNCHANGED <<configuration, now, last_refill, queue, dropped, written, released>>

\* handle_write of an RTP packet: refused when the queue is full
Write(bits) ==
    /\ written < Packets
    /\ written' = written + 1
    /\ budget_bits' = refill(now) /\ last_refill' = now
    /\ IF Len(queue) >= QueueLimit THEN dropped' = dropped + 1 /\ UNCHANGED queue
       ELSE queue' = Append(queue, [num |-> written, bits |-> bits]) /\ UNCHANGED dropped
    /\ UNCHANGED <<configuration, now, bitrate, era, released>>

\* how many packets the budget releases, from the head on
Spent(n) == FoldLeft(LAMBDA sum, p : sum + p.bits, 0, SubSeq(queue, 1, n))
Releases(budget) ==
    CHOOSE n \in 0 .. Len(queue) :
        /\ \A m \in 0 .. n - 1 : can_release(budget - Spent(m), queue[m + 1].bits)
        /\ n = Len(queue) \/ ~can_release(budget - Spent(n), queue[n + 1].bits)
Release(budget, n) ==
    /\ budget_bits' = budget - Spent(n)
    /\ released' = released \o [i \in 1 .. n |-> [num |-> queue[i].num, bits |-> queue[i].bits, at |-> now, era |-> era]]
    /\ queue' = SubSeq(queue, n + 1, Len(queue))
HandleTimeout ==
    /\ next_release # None /\ now >= next_release
    /\ last_refill' = now
    /\ Release(refill(now), Releases(refill(now)))
    /\ UNCHANGED <<configuration, now, bitrate, dropped, written, era>>

Tick ==
    /\ now < Ticks
    /\ now' = now + 1
    /\ UNCHANGED <<configuration, bitrate, budget_bits, last_refill, queue, dropped, written, era, released>>

Init ==
    /\ configuration \in Configurations
    /\ now = 0 /\ bitrate \in configuration.rates /\ last_refill = None
    /\ budget_bits = Smaller(burst_for(bitrate), burst_at(bitrate))
    /\ queue = <<>> /\ dropped = 0 /\ written = 0 /\ era = 0 /\ released = <<>>
Next ==
    \/ HandleTimeout \/ Tick
    \/ \E bits \in Sizes : Write(bits)
    \/ \E rate \in configuration.rates : ReadEstimate(rate)
Spec == Init /\ [][Next]_vars

(***************************************************************************)
(* Properties.                                                              *)
(***************************************************************************)
Bits(i, j) == FoldLeft(LAMBDA sum, p : sum + p.bits, 0, SubSeq(released, i, j))
\* What leaves while a rate is in force never exceeds a burst and the rate times the time passed,
\* but for the excess of one packet larger than a burst; a change of the rate leaves no budget
\* behind.  Packets leave in order, and only those refused at a full queue are missing.
Paced ==
    /\ \A i, j \in 1 .. Len(released) :
        (i <= j /\ released[i].era = era /\ released[j].era = era) =>
            Bits(i, j) <= burst_bits + bitrate * (released[j].at - released[i].at)
                            + Larger(0, released[j].bits - burst_bits)
    /\ \A i \in 1 .. Len(released) - 1 : released[i].num < released[i + 1].num
    /\ Len(released) + Len(queue) + dropped = written

\* what the head of the queue waits for, rounded away: no more than half a tick brings
RoundedAway == queue # <<>> /\ 2 * (Smaller(Head(queue).bits, burst_bits) - budget_bits) <= bitrate
\* The timer is worth its wake-up: when it fires the head of the queue leaves and the next instant
\* is later, or the budget misses less than half a tick of the rate, which the deadline's rounding
\* took away; then the firing of a tick later releases it.  A queue that a rate can serve has a
\* timer.
TimerUseful ==
       /\ HandleTimeout => /\ Len(queue') < Len(queue) \/ (now = next_release /\ RoundedAway')
                           /\ next_release' = None \/ next_release' > now \/ RoundedAway'
       /\ (queue' # <<>> /\ bitrate' > 0) => next_release' # None
=============================================================================
