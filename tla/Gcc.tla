---------------------------------- MODULE Gcc ----------------------------------
(***************************************************************************)
(* The Google congestion control estimator: the reports that feedback gives *)
(* on packets go through burst groups, the delay filter and the overuse     *)
(* detector to the rate controller, and to the loss controller; the target  *)
(* is the lower of the two.                                                 *)
(*                                                                          *)
(* Rates are integers.  The Kalman filter moves its estimate some way       *)
(* towards the measurement, and the adaptive threshold some way towards the *)
(* estimate; how far is left open.                                          *)
(***************************************************************************)
EXTENDS Integers, Sequences, FiniteSets, FiniteSetsExt, SequencesExt

CONSTANTS BURST_INTERVAL, OVERUSE_TIME, RATE_CONTROL_INTERVAL, LOSS_INTERVAL, WINDOW,
          LOW_LOSS, HIGH_LOSS,      \* per cent
          MinThreshold, MaxThreshold, WildMargin,
          MinRate, MaxRate, InitialRate, Mtu,
          PacketSize,               \* bytes of a packet
          Paths                     \* ticks between packets, packets of a batch, their delays or loss;
                                    \* bound: batches of reports

VARIABLES now, batches, path,
          signal,           \* SlopeEstimator and OveruseDetector; with the times of the trends above the
                            \* threshold since one was not, newest first
          samples,          \* RateCalculator
          delay_control, loss_control, target,
          climbs            \* when the delay controller last backed off, and its increases since
vars == <<now, batches, path, signal, samples, delay_control, loss_control, target, climbs>>

None == -1
NoGroup == [first_departure |-> None, departure |-> None, arrival |-> None]
Larger(a, b) == IF a > b THEN a ELSE b
Smaller(a, b) == IF a < b THEN a ELSE b
Clamped(rate) == Larger(MinRate, Smaller(rate, MaxRate))
Magnitude(x) == IF x < 0 THEN -x ELSE x
Between(a, b) == Smaller(a, b) .. Larger(a, b)

(***************************************************************************)
(* SlopeEstimator                                                           *)
(***************************************************************************)
GroupOf(r) == [first_departure |-> r.departure, departure |-> r.departure, arrival |-> r.arrival]
SameBurst(g, r) == r.departure - g.first_departure <= BURST_INTERVAL
Extended(g, r) == [g EXCEPT !.departure = Larger(@, r.departure), !.arrival = Larger(@, r.arrival)]
\* a report that starts a group closes the one before
accumulate(s, r) ==
    IF s.current = NoGroup THEN [s EXCEPT !.current = GroupOf(r)]
    ELSE IF SameBurst(s.current, r) THEN [s EXCEPT !.current = Extended(@, r)]
    ELSE [s EXCEPT !.current = GroupOf(r), !.previous = s.current]
Measures(s, r) == s.previous # NoGroup /\ ~SameBurst(s.current, r)
gradient(previous, closed) ==
    (closed.arrival - previous.arrival) - Larger(0, closed.departure - previous.departure)

(***************************************************************************)
(* OveruseDetector and AdaptiveThreshold                                    *)
(***************************************************************************)
Usage(s, at, trend) ==
    IF trend > s.threshold
    THEN IF /\ at - (IF s.outside_since = None THEN at ELSE s.outside_since) >= OVERUSE_TIME
            /\ trend >= s.previous_estimate
            /\ s.consecutive + 1 > 1
         THEN "Over" ELSE s.usage
    ELSE IF trend < -s.threshold THEN "Under" ELSE "Normal"
\* the first update only notes the time; a wild sample moves nothing
adapted(s, trend) ==
    IF ~s.updated \/ Magnitude(trend) > s.threshold + WildMargin THEN {s.threshold}
    ELSE Between(s.threshold, Magnitude(trend)) \cap MinThreshold .. MaxThreshold
detect(s, at, trend) ==
    {[s EXCEPT !.estimate = trend, !.usage = Usage(s, at, trend), !.previous_estimate = trend,
               !.outside_since = IF trend <= s.threshold THEN None ELSE IF @ = None THEN at ELSE @,
               !.consecutive = IF trend <= s.threshold THEN 0 ELSE Smaller(@ + 1, 2),
               !.updated = TRUE, !.threshold = t,
               !.readings = IF trend > s.threshold THEN <<at>> \o @ ELSE <<>>] : t \in adapted(s, trend)}
\* one report: a packet that is lost carries no timing
Observed(s, r) ==
    IF ~r.arrived THEN {s}
    ELSE IF Measures(s, r)
    THEN UNION {detect(accumulate(s, r), s.current.departure, trend) :
                  trend \in Between(s.estimate, gradient(s.previous, s.current))}
    ELSE {accumulate(s, r)}
\* all the reports of a batch, in the order sent; the last usage counts
Readings(s, reports) ==
    FoldLeft(LAMBDA states, r : UNION {Observed(t, r) : t \in states}, {s}, reports)

(***************************************************************************)
(* RateCalculator                                                           *)
(***************************************************************************)
Kept(all) == SelectSeq(all, LAMBDA s : s.at >= now' - WINDOW)
Octets(all) == FoldLeft(LAMBDA sum, s : sum + s.size, 0, all)
rate_bits_per_second(all) ==
    IF Len(all) < 2 \/ now' = all[1].at THEN None
    ELSE (Octets(all) * 8) \div (now' - all[1].at)

(***************************************************************************)
(* RateController and LossController                                        *)
(***************************************************************************)
next_state(state, usage) ==
    IF usage = "Over" THEN "Decrease"
    ELSE IF usage = "Under" \/ state = "Decrease" THEN "Hold" ELSE "Increase"
Waiting(control, interval) == control.last_change # None /\ now' - control.last_change < interval
Decreased(control, received) ==
    IF received = None THEN control
    ELSE [control EXCEPT !.target = Clamped((received * 85) \div 100), !.last_decrease_rate = received,
                         !.last_change = now']
near_the_ceiling(control) ==
    control.last_decrease_rate # None /\ control.target * 100 > control.last_decrease_rate * 85
Grown(control) ==
    LET elapsed == IF control.last_change = None THEN RATE_CONTROL_INTERVAL ELSE now' - control.last_change
    IN control.target + (control.target * 8 * Smaller(elapsed, 10)) \div 1000
Increased(control) ==
    [control EXCEPT !.target = Clamped(IF near_the_ceiling(control) THEN @ + Mtu ELSE Grown(control)),
                    !.last_change = now']
(* mutant: the pause between two changes is not kept *)
Controlled_restless(control, received) ==
    IF control.state = "Decrease" THEN Decreased(control, received)
    ELSE IF control.state = "Increase" THEN Increased(control)
    ELSE control
Controlled(control, received) ==
    IF control.state = "Decrease" THEN Decreased(control, received)
    ELSE IF control.state = "Increase" /\ ~Waiting(control, RATE_CONTROL_INTERVAL) THEN Increased(control)
    ELSE control
control_delay(usage, received) ==
    Controlled([delay_control EXCEPT !.state = next_state(@, usage)], received)

Average(sample) == IF loss_control.average = None THEN sample ELSE (4 * loss_control.average + sample) \div 5
Lossy(average, sample) ==
    LET control == [loss_control EXCEPT !.average = average]
    IN IF Waiting(control, LOSS_INTERVAL) THEN control
       ELSE IF Larger(average, sample) < LOW_LOSS
       THEN [control EXCEPT !.target = Clamped((@ * 105) \div 100), !.last_change = now']
       ELSE IF Smaller(average, sample) > HIGH_LOSS
       THEN [control EXCEPT !.target = Clamped((@ * (200 - average)) \div 200), !.last_change = now']
       ELSE control
control_loss(sample) == Lossy(Average(sample), sample)

(***************************************************************************)
(* on_reports: a batch of packets, each with its delay or lost.             *)
(***************************************************************************)
Arrived(reports) == SelectSeq(reports, LAMBDA r : r.arrived)
Sampled(reports) == samples \o [i \in 1 .. Len(Arrived(reports)) |-> [at |-> now', size |-> PacketSize]]
Counted(received) ==
    IF delay_control'.state = "Decrease" /\ received # None THEN [since |-> now', count |-> 0]
    ELSE IF delay_control'.last_change # delay_control.last_change THEN [climbs EXCEPT !.count = @ + 1] ELSE climbs
Reported(received, lost, total) ==
    /\ delay_control' = control_delay(signal'.usage, received)
    /\ loss_control' = control_loss((100 * lost) \div total)
    /\ target' = Clamped(Smaller(delay_control'.target, loss_control'.target))
    /\ climbs' = Counted(received)
on_reports(reports) ==
    /\ samples' = Kept(Sampled(reports))
    /\ signal' \in Readings(signal, reports)
    /\ Reported(rate_bits_per_second(samples'), Len(reports) - Len(Arrived(reports)), Len(reports))
\* the packets sent since the last batch
Batch(fates) ==
    [i \in 1 .. Len(fates) |->
        [arrived |-> fates[i] # None, departure |-> now + i * path.spacing, arrival |-> now + i * path.spacing + fates[i]]]
OnReports(fates) ==
    /\ batches < path.batches
    /\ batches' = batches + 1
    /\ now' = now + Len(fates) * path.spacing
    /\ on_reports(Batch(fates))
    /\ UNCHANGED path

Init ==
    /\ now = 0 /\ batches = 0 /\ path \in Paths
    /\ signal = [current |-> NoGroup, previous |-> NoGroup, estimate |-> 0, threshold |-> MinThreshold + 1,
                 updated |-> FALSE, usage |-> "Normal", previous_estimate |-> 0, outside_since |-> None,
                 consecutive |-> 0, readings |-> <<>>]
    /\ samples = <<>>
    /\ delay_control = [state |-> "Hold", target |-> Clamped(InitialRate), last_decrease_rate |-> None, last_change |-> None]
    /\ loss_control = [target |-> Clamped(InitialRate), average |-> None, last_change |-> None]
    /\ target = Clamped(InitialRate) /\ climbs = [since |-> None, count |-> 0]
Next == \E packets \in path.packets : \E fates \in [1 .. packets -> path.fates] : OnReports(fates)
Spec == Init /\ [][Next]_vars

(***************************************************************************)
(* Properties.                                                              *)
(***************************************************************************)
\* Overuse is declared only on trends that stayed above the threshold for OVERUSE_TIME, by two
\* readings or more; one reading that is not ends it, although the threshold itself moves.
OveruseConfirmed ==
    signal.usage = "Over" =>
        LET readings == signal.readings
        IN Len(readings) >= 2 /\ readings[1] - readings[Len(readings)] >= OVERUSE_TIME

\* After a backoff the delay controller climbs once in RATE_CONTROL_INTERVAL at most, and carefully:
\* it comes near the rate it backed off from by at most 8 per cent above the point where it turns
\* additive, and from there by one packet for each climb.
ClimbsCarefully ==
    climbs.since # None =>
        /\ climbs.count * RATE_CONTROL_INTERVAL <= now - climbs.since
        /\ \/ delay_control.target * 10000 <= delay_control.last_decrease_rate * 85 * 108
                                               + climbs.count * Mtu * 10000
           \/ delay_control.target <= MinRate + climbs.count * Mtu

\* The delay controller raises its target only on a quiet path, after a batch in which it was not
\* backing off; but during overuse it takes 85 per cent of what arrives, which may be above the
\* target.  What it takes then is below the rate that arrived.
RaisesOnQuiet ==
    delay_control'.target > delay_control.target =>
        \/ delay_control.state # "Decrease" /\ signal'.usage = "Normal"
        \/ /\ signal'.usage = "Over"
           /\ delay_control'.target < rate_bits_per_second(samples')
=============================================================================
