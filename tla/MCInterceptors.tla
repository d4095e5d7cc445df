--------------------------- MODULE MCInterceptors ---------------------------
(*****************************************************************************)
(* The interceptors of rtc-interceptor.  They share no state: a behaviour is *)
(* a behaviour of one of them, component says which, and the variables of    *)
(* the others stay where they are.  The reports are those of the module it   *)
(* extends, Reports, and the others are instances.  Times, windows and       *)
(* sequence spaces are small, and packets are numbered around the wrap.      *)
(*****************************************************************************)
EXTENDS Reports

CONSTANT Components     \* the parts that a run covers

VARIABLES
    component,
    \* of Nack
    scenario, nack_sent, buf, rtx_sequence_number, nacks, resent, nack_lost, logs,
    nack_counts, nack_next_timeout, nack_base, nack_arrived, delivered, nack_asked,
    \* of CongestionFeedback
    feedback_plan, feedback_now, feedback_sent, next_id, feedback_packets, seq_index,
    highest_acknowledged, next_to_report, start_time, recorder, log, feedback_next_timeout,
    arrivals, feedback, clean, verdicts,
    \* of JitterBuffer
    jitter_plan, jitter_now, jitter_packets, extender, released_through, state, timestamps,
    anchor, deadlines, anchored, run, highest, emitted,
    \* of Pacing
    configuration, pacer_now, bitrate, budget_bits, last_refill, queue, dropped,
    pacer_written, era, released,
    \* of Gcc
    gcc_now, batches, gcc_path, signal, samples, delay_control, loss_control, target, climbs,
    \* of FlexFec
    stamped, num_media_packets, fec_written, block, next_repair, fec_path, fec_lost, repeated, recovered,
    repair_packets, passed,
    \* of Chain
    chain, read_outs, write_outs, streams, pending_immediate, chain_next_timeout, chain_now,
    chain_packets, changes, read, wrote, observed, chain_asked

-----------------------------------------------------------------------------
\* NACK: packets around the wrap of a sequence of 16 numbers, with and without RTX, a limit
\* on the NACKs of a packet, and ageing.

AScenario(rtx, skip, max_nacks, ages, count) ==
    [rtx |-> rtx, skip |-> skip, max_nacks |-> max_nacks, ages |-> ages, packets |-> count]
Scenarios ==
    {AScenario(FALSE, 0, 0, FALSE, 6), AScenario(FALSE, 1, 2, FALSE, 5), AScenario(TRUE, 0, 1, FALSE, 4),
     AScenario(FALSE, 0, 1, TRUE, 4)}

Nacks == INSTANCE Nack WITH
    SeqSpace <- 16, LogSize <- 4, MaskBits <- 2, BufSize <- 4, MaxBytes <- 5, MaxAge <- 2,
    Interval <- 1, FirstPacket <- 13, Delay <- 1, Losses <- 1, InFlight <- 1,
    Scenarios <- Scenarios, sent <- nack_sent, lost <- nack_lost,
    next_timeout <- nack_next_timeout, base <- nack_base, arrived <- nack_arrived,
    asked <- nack_asked

nacksVars == <<scenario, nack_sent, buf, rtx_sequence_number, nacks, resent, nack_lost,
               logs, nack_counts, nack_next_timeout, nack_base, nack_arrived, delivered,
               nack_asked>>
NacksIdle == /\ scenario = "-" /\ nack_sent = "-" /\ buf = "-" /\ rtx_sequence_number = "-"
             /\ nacks = "-" /\ resent = "-" /\ nack_lost = "-" /\ logs = "-"
             /\ nack_counts = "-" /\ nack_next_timeout = "-" /\ nack_base = "-"
             /\ nack_arrived = "-" /\ delivered = "-" /\ nack_asked = "-"

\* A round asks for exactly the packets that are missing and none too often, an answer holds
\* only what was asked for, and the history holds what its limits allow, across the wrap
\* (generator.rs, responder.rs, receive_log.rs, send_buffer.rs).
GapsAsked ==
    [][component = "nack" =>
          /\ Nacks!AsksForGaps /\ Nacks!AnswersRequest
          /\ <<nack_sent, buf>>' # <<nack_sent, buf>> => Nacks!HistoryExact']_nacksVars

-----------------------------------------------------------------------------
\* RTCP reports: the sender's while it writes, and the receiver's while it reads.

\* The last is a long stream, of which little arrives: the losses reach their most, and the wraps
\* of the sequence number start over.
ReportPlans ==
    {[use_latest_packet |-> latest, last |-> 13, at_once |-> FALSE, arrive |-> {9}, ticks |-> 3] : latest \in BOOLEAN}
    \cup {[use_latest_packet |-> FALSE, last |-> 14, at_once |-> TRUE, arrive |-> 9 .. 14, ticks |-> 3],
          [use_latest_packet |-> FALSE, last |-> 24, at_once |-> TRUE, arrive |-> {9, 12, 16, 20, 24}, ticks |-> 4]}

ASSUME ReportParameters == Parameters

\* The reports before anything is written.
ReportsIdle == Init /\ plan = CHOOSE p \in Plans : TRUE

-----------------------------------------------------------------------------
\* Congestion feedback: both formats, over a path that repeats packets and one that loses and
\* reorders reports; and RFC 8888 where packets are sent again under their numbers.

FeedbackPlan(format, overtakes, resends) ==
    [format |-> format, overtakes |-> overtakes, repeats |-> ~overtakes /\ ~resends, resends |-> resends]
FeedbackPlans == {FeedbackPlan(f, o, FALSE) : f \in {"twcc", "ccfb"}, o \in BOOLEAN}
                 \cup {FeedbackPlan("ccfb", TRUE, TRUE)}

Feedback == INSTANCE CongestionFeedback WITH
    SeqSpace <- 16, MIN_CAPACITY <- 2, MAX_NUMBER_OF_PACKETS <- 8, PACKET_WINDOW <- 2,
    MAX_MISSING <- 3, TICK <- 4, SCALE <- 2, SMALL <- 1, LARGE <- 2,
    MAX_RUN_LENGTH_CAP <- 4, MAX_ONE_BIT_CAP <- 3, MAX_TWO_BIT_CAP <- 2, MAX_REPORTS <- 3,
    OFFSET_MAX <- 3, Interval <- 2, PruneHorizon <- 3, FirstSeq <- 14, Packets <- 4,
    Ticks <- 4, Reorder <- 1, InFlight <- 2, Plans <- FeedbackPlans, plan <- feedback_plan,
    now <- feedback_now, sent <- feedback_sent, packets <- feedback_packets,
    next_timeout <- feedback_next_timeout

feedbackVars == <<feedback_plan, feedback_now, feedback_sent, next_id, feedback_packets,
                  seq_index, highest_acknowledged, next_to_report, start_time, recorder,
                  log, feedback_next_timeout, arrivals, feedback, clean, verdicts>>
FeedbackIdle == /\ feedback_plan = "-" /\ feedback_now = "-" /\ feedback_sent = "-"
                /\ next_id = "-" /\ feedback_packets = "-" /\ seq_index = "-"
                /\ highest_acknowledged = "-" /\ next_to_report = "-" /\ start_time = "-"
                /\ recorder = "-" /\ log = "-" /\ feedback_next_timeout = "-"
                /\ arrivals = "-" /\ feedback = "-" /\ clean = "-" /\ verdicts = "-"

\* What the estimator is told of a packet is true and told once, and only a packet that had
\* not arrived is told lost as long as no report is lost or overtaken (the TWCC and RFC 8888
\* recorders, convert.rs, the acknowledgement history).  Of a packet sent again under its number it
\* is told, with RFC 8888 reports, what became of one of the transmissions.
VerdictsTrue ==
    [][component = "feedback" =>
         Feedback!LossesReal /\ Feedback!OffsetsTrue /\ Feedback!VerdictsTrue']_feedbackVars

-----------------------------------------------------------------------------
\* The jitter buffer: no restart, and a restart of the timestamps forwards and backwards.

PlayoutPlan(first_ts, restart, jump) == [first_ts |-> first_ts, restart |-> restart, jump |-> jump]
PlayoutPlans == {PlayoutPlan(61, -1, 0), PlayoutPlan(61, 3, 16), PlayoutPlan(40, 3, -16)}

Playout == INSTANCE JitterBuffer WITH
    SeqSpace <- 16, TsSpace <- 64, DISCONTINUITY <- 3, Depth <- 1, Capacity <- 2,
    FirstPacket <- 13, Packets <- 5, PerTick <- 1, Ticks <- 5, Reorder <- 2, Opening <- 2, MaxRestarts <- 2,
    Plans <- PlayoutPlans, plan <- jitter_plan, now <- jitter_now, packets <- jitter_packets

playoutVars == <<jitter_plan, jitter_now, jitter_packets, extender, released_through, state,
                 timestamps, anchor, deadlines, anchored, run, highest, emitted>>
PlayoutIdle == /\ jitter_plan = "-" /\ jitter_now = "-" /\ jitter_packets = "-"
               /\ extender = "-" /\ released_through = "-" /\ state = "-"
               /\ timestamps = "-" /\ anchor = "-" /\ deadlines = "-" /\ anchored = "-" /\ run = "-"
               /\ highest = "-" /\ emitted = "-"

\* Until the timeline is restarted packets leave in the order they were sent, none twice; each is
\* due at its instant on the source's timeline, and the timer covers the earliest of them
\* (buffer.rs, receiver.rs).
PlayedOut == component = "jitter" => Playout!PlayedInOrder /\ Playout!PlayoutSteady

-----------------------------------------------------------------------------
\* The pacer: a burst that follows the rate, and one that the application chose.

PacerConfigurations == {[burst |-> -1, rates |-> {0, 1, 3}], [burst |-> 5, rates |-> {1, 2}]}

Pacer == INSTANCE Pacing WITH
    MIN_BURST_BITS <- 3, BurstTicks <- 2, QueueLimit <- 2, Sizes <- {2, 7}, Packets <- 4,
    Ticks <- 4, Changes <- 1, Configurations <- PacerConfigurations, now <- pacer_now,
    written <- pacer_written

pacerVars == <<configuration, pacer_now, bitrate, budget_bits, last_refill, queue, dropped,
               pacer_written, era, released>>
PacerIdle == /\ configuration = "-" /\ pacer_now = "-" /\ bitrate = "-" /\ budget_bits = "-"
             /\ last_refill = "-" /\ queue = "-" /\ dropped = "-" /\ pacer_written = "-"
             /\ era = "-" /\ released = "-"

\* What leaves at a rate never exceeds a burst and the rate times the time passed, nothing is
\* missing or out of order, and the timer releases the head of the queue when it fires, a tick
\* later where its deadline was rounded down (the pacer's bucket and queue).
PacedOut == [][component = "pacer" => Pacer!TimerUseful /\ Pacer!Paced']_pacerVars

-----------------------------------------------------------------------------
\* The bandwidth estimator: a path that queues bursts, one that queues packets sent apart, and one
\* that also loses (-1).

Paths == {[spacing |-> 1, packets |-> {2}, fates |-> {0, 2, 5}, batches |-> 5],
          [spacing |-> 2, packets |-> {1, 2}, fates |-> {0, 3}, batches |-> 5],
          [spacing |-> 2, packets |-> {1}, fates |-> {-1, 0, 3}, batches |-> 8]}

Estimator == INSTANCE Gcc WITH
    BURST_INTERVAL <- 1, OVERUSE_TIME <- 2, RATE_CONTROL_INTERVAL <- 3, LOSS_INTERVAL <- 3,
    WINDOW <- 4, LOW_LOSS <- 2, HIGH_LOSS <- 10, MinThreshold <- 1, MaxThreshold <- 2,
    WildMargin <- 1, MinRate <- 100, MaxRate <- 1000, InitialRate <- 300, Mtu <- 12,
    PacketSize <- 50, Paths <- Paths, now <- gcc_now, path <- gcc_path

estimatorVars == <<gcc_now, batches, gcc_path, signal, samples, delay_control, loss_control,
                   target, climbs>>
EstimatorIdle == /\ gcc_now = "-" /\ batches = "-" /\ gcc_path = "-" /\ signal = "-"
                 /\ samples = "-" /\ delay_control = "-" /\ loss_control = "-"
                 /\ target = "-" /\ climbs = "-"

\* Overuse is declared only on trends that stayed above the threshold; after it the delay-based
\* target climbs once an interval and slowly near the rate it backed off from, and but for what
\* overuse itself sets it to, only on a quiet path (overuse.rs, rate_control.rs).
RateCautious ==
    [][component = "gcc" => /\ Estimator!RaisesOnQuiet
                            /\ (Estimator!ClimbsCarefully /\ Estimator!OveruseConfirmed)']_estimatorVars

-----------------------------------------------------------------------------
\* FlexFEC: two repair packets to a block.  The masks have three positions and MAX_MEDIA_PACKETS is
\* four (109 and 110 in the code): blocks that fit the masks, without and with a TWCC sender after
\* the encoder, blocks of MAX_MEDIA_PACKETS, and blocks longer than that.

Fec == INSTANCE FlexFec WITH
    SeqSpace <- 16, W1 <- 1, W2 <- 1, W3 <- 1, MAX_MEDIA_PACKETS <- 4,
    HELD_MEDIA_PACKETS <- 5, MAX_FEC_PACKETS <- 4, RETAINED_RECOVERED_PACKETS <- 5,
    STALE_SEQUENCE_DISTANCE <- 3, Repairs <- 2, FirstSeq <- 14,
    Packets <- 6, InFlight <- 2, Losses <- 2, Repeats <- 1,
    Settings <- {<<FALSE, 3>>, <<TRUE, 3>>, <<FALSE, 4>>, <<FALSE, 5>>},
    written <- fec_written, path <- fec_path, lost <- fec_lost

fecVars == <<stamped, num_media_packets, fec_written, block, next_repair, fec_path, fec_lost, repeated,
             recovered, repair_packets, passed>>
FecIdle == /\ stamped = "-" /\ num_media_packets = "-" /\ fec_written = "-" /\ block = "-" /\ next_repair = "-"
           /\ fec_path = "-" /\ fec_lost = "-" /\ repeated = "-" /\ recovered = "-"
           /\ repair_packets = "-" /\ passed = "-"

\* A recovered packet has the number of one that was written.  Where no TWCC sender stamps packets
\* after the encoder and the masks have a position for each packet of a block, it is that packet,
\* and a full block that lost no repair packet and at most one packet under each of them is
\* complete in the end, whatever the order of arrival (coverage.rs, encoder.rs, decoder.rs).
LossRepaired == component = "fec" => Fec!RecoveredTrue /\ Fec!LossRepaired

-----------------------------------------------------------------------------
\* The chain: a registration out of order, and one that another replaces.

At(slot, kind) == [slot |-> slot, kind |-> kind]
Registrations == <<At(13, "jitter"), At(4, "pacer"), At(3, "pacer"), At(12, "pli"), At(4, "responder")>>

Order == INSTANCE Chain WITH
    Interval <- 1, Packets <- 2, Ticks <- 3, Changes <- 2, Registrations <- Registrations,
    Streams <- {"s1"}, next_timeout <- chain_next_timeout, now <- chain_now,
    packets <- chain_packets, asked <- chain_asked

orderVars == <<chain, read_outs, write_outs, streams, pending_immediate, chain_next_timeout,
               chain_now, chain_packets, changes, read, wrote, observed, chain_asked>>
OrderIdle == /\ chain = "-" /\ read_outs = "-" /\ write_outs = "-" /\ streams = "-"
             /\ pending_immediate = "-" /\ chain_next_timeout = "-" /\ chain_now = "-"
             /\ chain_packets = "-" /\ changes = "-" /\ read = "-" /\ wrote = "-"
             /\ observed = "-" /\ chain_asked = "-"

\* No packet, received, written, held or generated, goes round an interceptor between it and
\* where it came from; and a bound stream is asked for a keyframe at once and then at every
\* interval (registry.rs, chain.rs, the interval PLI interceptor).
NoBypass == component = "chain" => Order!NoBypass /\ Order!KeyframesAsked

-----------------------------------------------------------------------------
interceptorVars == <<component, nacksVars, vars, feedbackVars, playoutVars, pacerVars,
                     estimatorVars, fecVars, orderVars>>

InterceptorsInit ==
    /\ component \in Components
    /\ IF component = "nack" THEN Nacks!Init ELSE NacksIdle
    /\ IF component = "reports" THEN Init ELSE ReportsIdle
    /\ IF component = "feedback" THEN Feedback!Init ELSE FeedbackIdle
    /\ IF component = "jitter" THEN Playout!Init ELSE PlayoutIdle
    /\ IF component = "pacer" THEN Pacer!Init ELSE PacerIdle
    /\ IF component = "gcc" THEN Estimator!Init ELSE EstimatorIdle
    /\ IF component = "fec" THEN Fec!Init ELSE FecIdle
    /\ IF component = "chain" THEN Order!Init ELSE OrderIdle

InterceptorsNext ==
    \/ component = "nack" /\ Nacks!Next
       /\ UNCHANGED <<component, vars, feedbackVars, playoutVars, pacerVars,
                      estimatorVars, fecVars, orderVars>>
    \/ component = "reports" /\ Next
       /\ UNCHANGED <<component, nacksVars, feedbackVars, playoutVars, pacerVars,
                      estimatorVars, fecVars, orderVars>>
    \/ component = "feedback" /\ Feedback!Next
       /\ UNCHANGED <<component, nacksVars, vars, playoutVars, pacerVars, estimatorVars,
                      fecVars, orderVars>>
    \/ component = "jitter" /\ Playout!Next
       /\ UNCHANGED <<component, nacksVars, vars, feedbackVars, pacerVars,
                      estimatorVars, fecVars, orderVars>>
    \/ component = "pacer" /\ Pacer!Next
       /\ UNCHANGED <<component, nacksVars, vars, feedbackVars, playoutVars,
                      estimatorVars, fecVars, orderVars>>
    \/ component = "gcc" /\ Estimator!Next
       /\ UNCHANGED <<component, nacksVars, vars, feedbackVars, playoutVars, pacerVars,
                      fecVars, orderVars>>
    \/ component = "fec" /\ Fec!Next
       /\ UNCHANGED <<component, nacksVars, vars, feedbackVars, playoutVars, pacerVars,
                      estimatorVars, orderVars>>
    \/ component = "chain" /\ Order!Next
       /\ UNCHANGED <<component, nacksVars, vars, feedbackVars, playoutVars, pacerVars,
                      estimatorVars, fecVars>>

InterceptorsSpec == InterceptorsInit /\ [][InterceptorsNext]_interceptorVars
=============================================================================
