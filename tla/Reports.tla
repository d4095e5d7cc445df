-------------------------------- MODULE Reports --------------------------------
(***************************************************************************)
(* RTCP sender and receiver reports on one media stream: the                *)
(* SenderReportInterceptor of the peer that sends it and the                *)
(* ReceiverReportInterceptor of the peer that receives it.                  *)
(*                                                                          *)
(* Packet n has the sequence number n % SeqSpace and belongs to frame       *)
(* n \div 2.  The clocks of the two peers, the system clock behind the NTP  *)
(* times and the sampling clock behind the RTP timestamps tick together; a  *)
(* frame is sampled when its first packet is written.                       *)
(***************************************************************************)
EXTENDS Integers, Sequences, FiniteSets, FiniteSetsExt

(***************************************************************************)
(* Runs of a circular receipt bitmap of cap bits.  A bitmap is the set of   *)
(* the positions whose bit is set; a run starts anywhere, may wrap past the *)
(* end, and comes round again when it is longer than the bitmap.            *)
(***************************************************************************)
\* a bit is counted once per visit
count_zeros(bits, cap, start, len) == Cardinality({o \in 0 .. len - 1 : (start + o) % cap \notin bits})
clear_run(bits, cap, start, len) ==
    IF len >= cap THEN {} ELSE bits \ {(start + o) % cap : o \in 0 .. len - 1}

CONSTANTS SeqSpace,     \* 2^16 in the code
          Capacity,     \* packets that the receiver's bitmap tracks: 8192 in the code
          TsSpace,      \* RTP timestamps: 2^32 in the code
          StartTime,    \* RTP timestamp at the start of the clock
          Interval,     \* ticks between two reports
          CycleSpace,   \* wraps of the sequence number that are counted: 2^16 in the code
          MAX_LOST,     \* the most losses that a report holds: 0xFFFFFF in the code
          FirstPacket,
          Reorder,      \* how many numbers late a packet is written, and arrives, at most
          InFlight,     \* sender reports on their way at a time
          Plans         \* use_latest_packet; the last packet; whether all is written at once; the packets that
                        \* arrive; the ticks of the clock

VARIABLES now,
          plan,
          sampled,      \* when each frame was sampled
          written,      \* numbers of the packets written
          sender,       \* SenderStream
          sender_timeout,
          reports,      \* sender reports on their way
          receiver,     \* ReceiverStream
          receiver_timeout,
          arrived,      \* numbers of the packets that the receiver was given
          base,         \* the first of them
          reported,     \* the highest number at the last receiver report
          report        \* the last receiver report
senderVars == <<plan, sampled, written, sender, sender_timeout>>
receiverVars == <<receiver, receiver_timeout, arrived, base, reported, report>>
vars == <<now, senderVars, reports, receiverVars>>

Never == -1
Seq_of(n) == n % SeqSpace
Frame_of(n) == n \div 2
Size_of(n) == n % 2
Diff(a, b) == (a - b) % SeqSpace
Forward(diff) == diff > 0 /\ diff < SeqSpace \div 2
Highest(S) == IF S = {} THEN FirstPacket - 1 ELSE Max(S)

(***************************************************************************)
(* SenderStream.                                                            *)
(***************************************************************************)
NewSender ==
    [started |-> FALSE, last_rtp_sn |-> 0, last_rtp_time_rtp |-> 0, last_rtp_time_time |-> Never,
     packets |-> 0, octets |-> 0]
\* the counters count every packet; the time mapping moves with the first packet of a frame
sender_process_rtp(s, seq, timestamp, size) ==
    LET counted == [s EXCEPT !.packets = @ + 1, !.octets = @ + size]
        accepted == [counted EXCEPT !.started = TRUE, !.last_rtp_sn = seq]
    IN IF ~(plan.use_latest_packet \/ ~s.started \/ Forward(Diff(seq, s.last_rtp_sn))) THEN counted
       ELSE IF s.last_rtp_time_time = Never \/ timestamp # s.last_rtp_time_rtp
       THEN [accepted EXCEPT !.last_rtp_time_rtp = timestamp, !.last_rtp_time_time = now]
       ELSE accepted
\* with a clock rate of one: as many units passed as ticks
sender_report(s) ==
    [ntp_time |-> now, rtp_time |-> (s.last_rtp_time_rtp + (now - s.last_rtp_time_time)) % TsSpace,
     packet_count |-> s.packets, octet_count |-> s.octets]

(***************************************************************************)
(* ReceiverStream.                                                          *)
(***************************************************************************)
NewReceiver ==
    [packets |-> {}, started |-> FALSE, seq_num_cycles |-> 0, last_seq_num |-> 0, last_report_seq_num |-> 0,
     last_sender_report |-> 0, last_sender_report_time |-> Never, total_lost |-> 0]
set_received(r, seq) == [r EXCEPT !.packets = @ \cup {seq % Capacity}]
(* mutant: the numbers that are skipped keep the receipts of a window ago *)
Later_uncleared(r, seq, diff) ==
    [r EXCEPT !.seq_num_cycles = IF seq < r.last_seq_num THEN (@ + 1) % CycleSpace ELSE @, !.last_seq_num = seq]
Later(r, seq, diff) ==
    [r EXCEPT !.seq_num_cycles = IF seq < r.last_seq_num THEN (@ + 1) % CycleSpace ELSE @,
              !.packets = clear_run(@, Capacity, r.last_seq_num + 1, diff - 1), !.last_seq_num = seq]
receiver_process_rtp(r, seq) ==
    IF ~r.started
    THEN [set_received(r, seq) EXCEPT !.started = TRUE, !.last_seq_num = seq, !.last_report_seq_num = Diff(seq, 1)]
    ELSE IF Forward(Diff(seq, r.last_seq_num)) THEN Later(set_received(r, seq), seq, Diff(seq, r.last_seq_num))
    ELSE set_received(r, seq)
process_sender_report(r, sr) == [r EXCEPT !.last_sender_report = sr.ntp_time, !.last_sender_report_time = now]

\* the last packet itself was received, so it is not looked up
lost_since_report(r, total) ==
    IF total = 0 THEN 0 ELSE count_zeros(r.packets, Capacity, r.last_report_seq_num + 1, total - 1)
\* allow up to 24 bits
Capped(lost) == IF lost > MAX_LOST THEN MAX_LOST ELSE lost
receiver_report(r, total, lost) ==
    [last_sequence_number |-> r.seq_num_cycles * SeqSpace + r.last_seq_num,
     last_sender_report |-> r.last_sender_report,
     delay |-> IF r.last_sender_report_time = Never THEN 0 ELSE now - r.last_sender_report_time,
     fraction_lost |-> IF total = 0 THEN 0 ELSE (Capped(lost) * 256) \div total,
     total_lost |-> Capped(r.total_lost + lost)]
After_report(r, lost) == [r EXCEPT !.total_lost = Capped(@ + lost), !.last_report_seq_num = r.last_seq_num]

(***************************************************************************)
(* The interceptors.  A report timer starts with the first packet.          *)
(***************************************************************************)
Armed(timeout) == IF timeout = Never THEN now + Interval ELSE timeout
Write(n) ==
    /\ n \notin written
    /\ plan.at_once => now = 0 /\ n = Highest(written) + 1
    /\ n >= Highest(written) - (IF plan.use_latest_packet THEN 0 ELSE Reorder)
    \* nor does the application skip half of the numbers
    /\ n - Highest(written) < SeqSpace \div 2
    /\ sampled' = [sampled EXCEPT ![Frame_of(n)] = IF @ = Never THEN now ELSE @]
    /\ written' = written \cup {n}
    /\ sender' = sender_process_rtp(sender, Seq_of(n), (StartTime + sampled'[Frame_of(n)]) % TsSpace, Size_of(n))
    /\ sender_timeout' = Armed(sender_timeout)
    /\ UNCHANGED <<now, plan, reports, receiverVars>>
SenderTimeout ==
    /\ sender_timeout # Never /\ now >= sender_timeout
    /\ Cardinality(reports) < InFlight
    /\ sender_timeout' = now + Interval
    /\ reports' = reports \cup (IF sender.last_rtp_time_time = Never THEN {} ELSE {sender_report(sender)})
    /\ UNCHANGED <<now, plan, sampled, written, sender, receiverVars>>
ReadRtp(n) ==
    /\ n \in written \cap plan.arrive
    /\ plan.at_once => plan.last \in written
    /\ n >= Highest(arrived) - Reorder
    \* no more packets than the bitmap holds come between two reports
    /\ n - reported <= Capacity
    /\ receiver' = receiver_process_rtp(receiver, Seq_of(n))
    /\ receiver_timeout' = Armed(receiver_timeout)
    /\ arrived' = arrived \cup {n}
    /\ base' = IF arrived = {} THEN n ELSE base
    /\ reported' = IF arrived = {} THEN n - 1 ELSE reported
    /\ UNCHANGED <<now, senderVars, reports, report>>
ReadReport(sr) ==
    /\ receiver' = process_sender_report(receiver, sr)
    /\ reports' = reports \ {sr}
    /\ UNCHANGED <<now, senderVars, receiver_timeout, arrived, base, reported, report>>
generate_report(total, lost) ==
    /\ report' = receiver_report(receiver, total, lost)
    /\ receiver' = After_report(receiver, lost)
Total == Diff(receiver.last_seq_num, receiver.last_report_seq_num)
ReceiverTimeout ==
    /\ receiver_timeout # Never /\ now >= receiver_timeout
    /\ receiver_timeout' = now + Interval
    /\ generate_report(Total, lost_since_report(receiver, Total))
    /\ reported' = Max(arrived)
    /\ UNCHANGED <<now, senderVars, reports, arrived, base>>
Tick ==
    /\ now < plan.ticks
    /\ now' = now + 1
    /\ UNCHANGED <<senderVars, reports, receiverVars>>

NoReport == receiver_report(NewReceiver, 0, 0)
Init ==
    /\ now = 0 /\ plan \in Plans
    /\ sampled = [f \in Frame_of(FirstPacket) .. Frame_of(plan.last) |-> Never] /\ written = {}
    /\ sender = NewSender /\ sender_timeout = Never /\ reports = {}
    /\ receiver = NewReceiver /\ receiver_timeout = Never
    /\ arrived = {} /\ base = FirstPacket /\ reported = FirstPacket - 1 /\ report = NoReport
Next ==
    \/ \E n \in FirstPacket .. plan.last : Write(n) \/ ReadRtp(n)
    \/ \E sr \in reports : ReadReport(sr)
    \/ SenderTimeout \/ ReceiverTimeout \/ Tick
Spec == Init /\ [][Next]_vars

(***************************************************************************)
(* Properties.                                                              *)
(***************************************************************************)
LostSince == {n \in reported + 1 .. Max(arrived) : n \notin arrived}
\* A receiver report counts the packets that are missing among those since the report before,
\* each once, across reordering and the wrap of the sequence numbers, and adds them up to MAX_LOST and
\* no further; its fraction is theirs, fits its octet, and its extended sequence number is the highest
\* number received, under the wraps since the first, which start over after CycleSpace of them.
LossExact ==
    ReceiverTimeout =>
         /\ report'.total_lost = Min({receiver.total_lost + Cardinality(LostSince), MAX_LOST})
         /\ report'.fraction_lost < 256
         /\ Max(arrived) > reported =>
              report'.fraction_lost = (256 * Cardinality(LostSince)) \div (Max(arrived) - reported)
         /\ report'.last_sequence_number =
                ((Max(arrived) \div SeqSpace - base \div SeqSpace) % CycleSpace) * SeqSpace + Seq_of(Max(arrived))

\* A sender report relates the two clocks as the sampling clock runs: packets written out of order,
\* a frame whose packets are written late and a timestamp that wraps do not disturb it.
ClockMapped == \A sr \in reports : sr.rtp_time = (StartTime + sr.ntp_time) % TsSpace

\* Both, as long as reports are made.
ReportsExact == [][LossExact /\ ClockMapped']_vars

(***************************************************************************)
(* What the proofs add (ReportsProofs).                                     *)
(***************************************************************************)
Parameters ==
    /\ Capacity \in Nat \ {0} /\ SeqSpace \in Nat /\ SeqSpace % Capacity = 0 /\ Capacity < SeqSpace \div 2
    /\ Reorder \in Nat /\ Reorder < Capacity /\ CycleSpace \in Nat \ {0} /\ MAX_LOST \in Nat /\ Capacity <= MAX_LOST
    /\ TsSpace \in Nat \ {0} /\ StartTime \in Nat /\ Interval \in Nat /\ FirstPacket \in Nat
    /\ \A p \in Plans : p.last \in Nat

\* The greatest of what there is.
Topped(S) == S # {} => Max(S) \in S /\ \A n \in S : n <= Max(S)
SenderFields == {"started", "last_rtp_sn", "last_rtp_time_rtp", "last_rtp_time_time", "packets", "octets"}
ReceiverFields ==
    {"packets", "started", "seq_num_cycles", "last_seq_num", "last_report_seq_num", "last_sender_report",
     "last_sender_report_time", "total_lost"}
TypeOK ==
    /\ now \in Nat /\ plan.last \in Nat
    /\ written \in SUBSET (FirstPacket .. plan.last) /\ Topped(written)
    /\ arrived \in SUBSET (FirstPacket .. plan.last) /\ Topped(arrived)
    /\ DOMAIN sender = SenderFields /\ DOMAIN receiver = ReceiverFields
    /\ DOMAIN sampled = Frame_of(FirstPacket) .. Frame_of(plan.last)
    /\ \A f \in DOMAIN sampled : sampled[f] \in Nat \cup {Never}
    /\ receiver.total_lost \in Nat /\ receiver.seq_num_cycles \in Nat /\ receiver_timeout \in Nat \cup {Never}
\* The sender has mapped the clocks with the newest packet.
Mapped ==
    /\ sender.started <=> written # {}
    /\ sender.last_rtp_time_time = Never <=> written = {}
    /\ \A f \in DOMAIN sampled : sampled[f] # Never <=> \E n \in written : Frame_of(n) = f
    /\ written # {} =>
         /\ sender.last_rtp_sn = Seq_of(Max(written))
         /\ sender.last_rtp_time_time \in Nat
         /\ sender.last_rtp_time_rtp = (StartTime + sender.last_rtp_time_time) % TsSpace
         /\ sender.last_rtp_time_rtp = (StartTime + sampled[Frame_of(Max(written))]) % TsSpace
\* The bitmap has the packets since the last report, and the receiver knows the newest.
Tracked ==
    /\ receiver.started <=> arrived # {}
    /\ receiver_timeout # Never => arrived # {}
    /\ arrived = {} => receiver.packets = {} /\ receiver.seq_num_cycles = 0
    /\ arrived # {} =>
         /\ base \in arrived /\ reported \in Int /\ reported <= Max(arrived) /\ Max(arrived) - reported <= Capacity
         /\ receiver.last_seq_num = Seq_of(Max(arrived)) /\ receiver.last_report_seq_num = Seq_of(reported)
         /\ receiver.seq_num_cycles = (Max(arrived) \div SeqSpace - base \div SeqSpace) % CycleSpace
         /\ \A n \in reported + 1 .. Max(arrived) : n % Capacity \in receiver.packets <=> n \in arrived
IInv == TypeOK /\ Mapped /\ Tracked /\ ClockMapped
=============================================================================
