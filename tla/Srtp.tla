-------------------------------- MODULE Srtp --------------------------------
(***************************************************************************)
(* The SRTP context of rtc-srtp for one stream.  An RTP packet carries only *)
(* the low part of its index, the sequence number; sender and receiver each *)
(* reconstruct the rollover counter, which the authentication tag covers,   *)
(* so a packet opens only under the counter it was sealed with.  The        *)
(* receiver refuses packets that its sliding window says it has seen.       *)
(*                                                                          *)
(* Packets are numbered as they are sent: packet i of a stream has the      *)
(* sequence number i % Cycle and should be sealed under the counter         *)
(* i \div Cycle.  The sender may seal a packet again (a retransmission), and *)
(* the network loses, repeats and reorders packets, within a bounded delay. *)
(***************************************************************************)
EXTENDS Integers

(***************************************************************************)
(* The replay window of rtc-shared, over sequence numbers 0 .. max_seq that  *)
(* wrap.  The mask holds a bit for each number seen, counted back from the   *)
(* latest.                                                                  *)
(***************************************************************************)

CONSTANTS Window,       \* width of the replay window: 64 by default
          WordBits      \* bits in a word of the window's mask: 64 in the code

ASSUME WindowAssumption == Window \in Nat /\ Window > 0 /\ WordBits \in Nat /\ WordBits > 0

(***************************************************************************)
(* FixedBigInt: the bits set of an n-bit mask kept in words.  A shift keeps *)
(* of the last word what msb_mask lets through: the number of bits that n   *)
(* leaves free there, which may be fewer than n uses.                       *)
(***************************************************************************)
Chunks(n) == (n + WordBits - 1) \div WordBits
KeptOfLast(n) == IF n % WordBits = 0 THEN WordBits ELSE WordBits - (n % WordBits)
Width(n) == WordBits * (Chunks(n) - 1) + KeptOfLast(n)
lsh(mask, by, n) == {b \in {a + by : a \in mask} : b < Width(n)}
set_bit(mask, i, n) == IF i >= n THEN mask ELSE mask \cup {i}

(***************************************************************************)
(* WrappedSlidingWindowDetector.                                            *)
(***************************************************************************)
Detector == [init |-> FALSE, latest_seq |-> 0, mask |-> {}]
Wrapped(d, max_seq) ==
    IF d > max_seq \div 2 THEN d - (max_seq + 1)
    ELSE IF d <= -(max_seq \div 2) THEN d + (max_seq + 1)
    ELSE d
Initialised(det, seq, max_seq) ==
    IF det.init THEN det
    ELSE [init |-> TRUE, latest_seq |-> IF seq # 0 THEN seq - 1 ELSE max_seq, mask |-> det.mask]
behind(det, seq, max_seq) == Wrapped(det.latest_seq - seq, max_seq)
passes(det, seq, max_seq) ==
    /\ behind(det, seq, max_seq) < Window
    /\ behind(det, seq, max_seq) >= 0 => behind(det, seq, max_seq) \notin det.mask
(* mutant: the packet accepted is not marked *)
Moved_unmarked(det, seq, d) ==
    [init |-> TRUE,
     latest_seq |-> IF d < 0 THEN seq ELSE det.latest_seq,
     mask |-> IF d < 0 THEN lsh(det.mask, -d, Window) ELSE det.mask]

Moved(det, seq, d) ==
    [init |-> TRUE,
     latest_seq |-> IF d < 0 THEN seq ELSE det.latest_seq,
     mask |-> IF d < 0 THEN set_bit(lsh(det.mask, -d, Window), 0, Window) ELSE set_bit(det.mask, d, Window)]
accept(det, seq, max_seq) == Moved(det, seq, behind(det, seq, max_seq))

-----------------------------------------------------------------------------
CONSTANTS Cycle,        \* sequence numbers: 2^16 in the code (SEQ_NUM_MAX + 1)
          Starts,       \* first sequence numbers
          Delay,        \* how many packets later a packet may still arrive
          Last          \* how many packets are sent, at most

ASSUME CycleAssumption == Cycle \in Nat /\ Cycle > 4 /\ Cycle % 2 = 0
ASSUME StartsAssumption == Starts \subseteq 0 .. Cycle - 1
ASSUME DelayAssumption == Delay \in Nat /\ 4 * Delay + 2 < Cycle
ASSUME LastAssumption == Last \in Nat

VARIABLES first,      \* number of the first packet
          next,       \* number of the next packet to send
          local,      \* the sender's state for the stream
          net,        \* sealed packets: number and rollover counter
          remote,     \* the receiver's state for the stream
          window,     \* the receiver's replay window for the stream
          known,      \* the receiver keeps a state for the stream
          opened,     \* the numbers of the packets opened
          top,        \* the highest of them
          again       \* how far behind the highest packets were that opened a second time
vars == <<first, next, local, net, remote, window, known, opened, top, again>>

SEQ_NUM_MEDIAN == Cycle \div 2

(***************************************************************************)
(* SrtpSsrcState.                                                           *)
(***************************************************************************)
SsrcState == [index |-> 0, rollover_has_processed |-> FALSE]
local_roc(s) == s.index \div Cycle
local_seq(s) == s.index % Cycle
Guess(roc, diff) == [roc |-> roc, diff |-> diff]
(* mutant: a packet of before the rollover is taken for one of after it *)
next_rollover_count_forward(s, seq) ==
    IF ~s.rollover_has_processed THEN Guess(local_roc(s), 0)
    ELSE IF s.index <= SEQ_NUM_MEDIAN \/ local_seq(s) < SEQ_NUM_MEDIAN
    THEN Guess(local_roc(s), seq - local_seq(s))
    ELSE IF local_seq(s) - SEQ_NUM_MEDIAN > seq THEN Guess(local_roc(s) + 1, seq - local_seq(s) + Cycle)
         ELSE Guess(local_roc(s), seq - local_seq(s))

\* with the index past the first half cycle, a jump of more than half a cycle is a rollover
next_rollover_count(s, seq) ==
    IF ~s.rollover_has_processed THEN Guess(local_roc(s), 0)
    ELSE IF s.index <= SEQ_NUM_MEDIAN THEN Guess(local_roc(s), seq - local_seq(s))
    ELSE IF local_seq(s) < SEQ_NUM_MEDIAN
    THEN IF seq - local_seq(s) > SEQ_NUM_MEDIAN THEN Guess(local_roc(s) - 1, seq - local_seq(s) - Cycle)
         ELSE Guess(local_roc(s), seq - local_seq(s))
    ELSE IF local_seq(s) - SEQ_NUM_MEDIAN > seq THEN Guess(local_roc(s) + 1, seq - local_seq(s) + Cycle)
         ELSE Guess(local_roc(s), seq - local_seq(s))
update_rollover_count(s, seq, diff) ==
    [index |-> s.index + (IF s.rollover_has_processed THEN diff ELSE seq),
     rollover_has_processed |-> TRUE]

(***************************************************************************)
(* encrypt_rtp_under_state and decrypt_rtp_under_state.                     *)
(***************************************************************************)
Number(i) == i % Cycle
Sealed(i, g) ==
    /\ net' = net \cup {[num |-> i, roc |-> g.roc]}
    /\ local' = update_rollover_count(local, Number(i), g.diff)
    /\ UNCHANGED <<first, remote, window, known, opened, top, again>>
EncryptRtp ==
    /\ next < first + Last
    \* the network never loses every packet of a long stretch
    /\ next - top <= Delay
    /\ Sealed(next, next_rollover_count(local, Number(next)))
    /\ next' = next + 1
\* a retransmission is sealed like any packet
Retransmit ==
    /\ \E i \in first .. next - 1 :
         /\ next - i <= Delay
         /\ Sealed(i, next_rollover_count(local, Number(i)))
    /\ UNCHANGED next

Arrives(p) == next - p.num <= Delay
State == IF known THEN remote ELSE SsrcState
Window_for(p) == Initialised(IF known THEN window ELSE Detector, Number(p.num), Cycle - 1)
Authentic(p) == next_rollover_count(State, Number(p.num)).roc = p.roc
Opens(p) == passes(Window_for(p), Number(p.num), Cycle - 1) /\ Authentic(p)
\* the state made for a packet of an unknown stream is kept only if the packet opens
DecryptRtp ==
    /\ \E p \in net :
         /\ Arrives(p)
         /\ Opens(p)
         /\ remote' = update_rollover_count(State, Number(p.num),
                                            next_rollover_count(State, Number(p.num)).diff)
         /\ window' = accept(Window_for(p), Number(p.num), Cycle - 1)
         /\ opened' = opened \cup {p.num}
         /\ top' = IF p.num > top THEN p.num ELSE top
         /\ again' = again \cup {top - i : i \in {p.num} \cap opened}
    /\ known' = TRUE
    /\ UNCHANGED <<first, next, local, net>>

Init ==
    /\ first \in Starts /\ next = first
    /\ local = SsrcState /\ net = {} /\ remote = SsrcState /\ window = Detector /\ known = FALSE
    /\ opened = {} /\ top = first /\ again = {}
Next == EncryptRtp \/ Retransmit \/ DecryptRtp
Spec == Init /\ [][Next]_vars

(***************************************************************************)
(* Properties.                                                              *)
(***************************************************************************)
\* Every packet is sealed under the rollover counter of its number, also when
\* retransmissions move the sender's index back and forth across a rollover.
SealedUnderCounter == \A p \in net : p.roc = p.num \div Cycle

\* No packet is opened twice as long as the mask remembers it, also when the sequence
\* numbers have wrapped: only one inside the window but Width(Window) or more behind the
\* highest may be - none at all where the mask is as wide as the window.
OpenedOnce == \A d \in again : Width(Window) <= d /\ d < Window

\* A packet that arrives for the first time opens, if it is not older than the
\* window: the receiver's counter follows the sender's, and the window does not
\* take one packet for another.
FreshOpens ==
    \A p \in net : known /\ Arrives(p) /\ p.num \notin opened /\ top - p.num < Window => Opens(p)

-----------------------------------------------------------------------------
(***************************************************************************)
(* The SRTCP context of rtc-srtp for one stream: every packet carries its    *)
(* whole index, which the sender counts and wraps, and the receiver's        *)
(* sliding window refuses the ones it has seen.  Packets are numbered as     *)
(* they are sent; the network loses, repeats and reorders them within a      *)
(* bounded delay.                                                           *)
(***************************************************************************)

CONSTANTS IndexCycle,   \* SRTCP indices: 2^31 in the code (MAX_SRTCP_INDEX + 1)
          RtcpDelay,    \* how many packets later a packet may still arrive
          RtcpLast      \* how many packets are sent, at most

ASSUME IndexCycleAssumption == IndexCycle \in Nat /\ IndexCycle > 4 /\ IndexCycle % 2 = 0
ASSUME RtcpDelayAssumption == RtcpDelay \in Nat /\ 4 * RtcpDelay + 2 < IndexCycle
ASSUME RtcpLastAssumption == RtcpLast \in Nat

VARIABLES num,          \* number of the last packet sent
          srtcp_index,  \* the sender's index
          reports,      \* sealed packets: number and index
          seen,         \* the receiver's window
          read,         \* numbers of the packets opened
          highest,      \* the highest of them
          twice         \* how far behind the highest packets were that opened a second time
rtcpVars == <<num, srtcp_index, reports, seen, read, highest, twice>>

(* mutant: the index wraps to 1 *)
Advanced_to_one(i) == IF i + 1 > IndexCycle - 1 THEN 1 ELSE i + 1

Advanced(i) == IF i + 1 > IndexCycle - 1 THEN 0 ELSE i + 1
EncryptRtcp ==
    /\ num < RtcpLast
    /\ num - highest < RtcpDelay
    /\ num' = num + 1
    /\ srtcp_index' = Advanced(srtcp_index)
    /\ reports' = reports \cup {[num |-> num + 1, index |-> Advanced(srtcp_index)]}
    /\ UNCHANGED <<seen, read, highest, twice>>

Pending(p) == num - p.num < RtcpDelay
Window_at(p) == Initialised(seen, p.index, IndexCycle - 1)
Readable(p) == passes(Window_at(p), p.index, IndexCycle - 1)
DecryptRtcp ==
    /\ \E p \in reports :
         /\ Pending(p)
         /\ Readable(p)
         /\ seen' = accept(Window_at(p), p.index, IndexCycle - 1)
         /\ read' = read \cup {p.num}
         /\ highest' = IF p.num > highest THEN p.num ELSE highest
         /\ twice' = twice \cup {highest - i : i \in {p.num} \cap read}
    /\ UNCHANGED <<num, srtcp_index, reports>>

RtcpInit ==
    /\ num = 0 /\ srtcp_index = 0 /\ reports = {} /\ seen = Detector
    /\ read = {} /\ highest = 0 /\ twice = {}
RtcpNext == EncryptRtcp \/ DecryptRtcp
RtcpSpec == RtcpInit /\ [][RtcpNext]_rtcpVars

\* No SRTCP packet is opened twice as long as the mask remembers it, also when the index has
\* wrapped to 0.
ReadOnce == \A d \in twice : Width(Window) <= d /\ d < Window

\* An SRTCP packet that arrives for the first time passes the window, if it is
\* not older than the window.
FreshReads ==
    \A p \in reports : Pending(p) /\ p.num \notin read /\ highest - p.num < Window => Readable(p)
=============================================================================
