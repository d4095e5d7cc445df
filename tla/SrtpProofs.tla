----------------------------- MODULE SrtpProofs -----------------------------
(***************************************************************************)
(* Proofs about Srtp, for every cycle, window, delay and starting number.   *)
(***************************************************************************)
EXTENDS Srtp, TLAPS

(***************************************************************************)
(* Lemmas about numbers that wrap and about the replay window over them.    *)
(***************************************************************************)

(***************************************************************************)
(* Arithmetic of numbers that wrap.                                         *)
(***************************************************************************)
\* Division with remainder by the length of a cycle.
LEMMA DivMod ==
    ASSUME NEW C \in Nat, C > 0, NEW x \in Int
    PROVE  /\ x \div C \in Int
           /\ x % C \in 0 .. C - 1
           /\ x = C * (x \div C) + (x % C)
OBVIOUS

\* A multiple of C strictly between -2C and 2C is -C, 0 or C.
LEMMA SmallMultiple ==
    ASSUME NEW C \in Nat, C > 0, NEW k \in Int, -2 * C < C * k, C * k < 2 * C
    PROVE  k \in {-1, 0, 1}
<1>1. CASE k >= 2
  BY <1>1, C * k >= C * 2
<1>2. CASE k <= -2
  BY <1>2, C * k <= C * (-2)
<1> QED BY <1>1, <1>2

\* Two numbers less than a cycle apart differ by at most one in their cycle,
\* and their sequence numbers differ by as much as they do, up to one cycle.
LEMMA ModDiff ==
    ASSUME NEW C \in Nat, C > 0, NEW a \in Int, NEW b \in Int, -C < a - b, a - b < C
    PROVE  \/ a \div C = b \div C /\ a % C = (b % C) + (a - b)
           \/ a \div C = (b \div C) + 1 /\ a % C = (b % C) + (a - b) - C
           \/ a \div C = (b \div C) - 1 /\ a % C = (b % C) + (a - b) + C
<1> DEFINE k == (a \div C) - (b \div C)
<1>1. /\ k \in Int
      /\ a % C \in 0 .. C - 1 /\ b % C \in 0 .. C - 1
      /\ a = C * (a \div C) + (a % C) /\ b = C * (b \div C) + (b % C)
  BY DivMod
<1>2. C * k = C * (a \div C) - C * (b \div C)
  BY DivMod
<1>3. C * k = (a - b) - (a % C) + (b % C)
  BY <1>1, <1>2, DivMod
<1>4. k \in {-1, 0, 1}
  BY <1>1, <1>3, SmallMultiple
<1> QED BY <1>1, <1>3, <1>4, DivMod

\* A number of the first cycle is its own sequence number.
LEMMA FirstCycle ==
    ASSUME NEW C \in Nat, C > 0, NEW x \in 0 .. C - 1
    PROVE  x \div C = 0 /\ x % C = x
OBVIOUS

\* Half a cycle of even length, as the window computes it.
LEMMA HalfCycle ==
    ASSUME NEW C \in Nat, C > 4, C % 2 = 0
    PROVE  /\ C \div 2 \in Nat /\ 2 * (C \div 2) = C /\ C \div 2 > 2
           /\ (C - 1) \div 2 = (C \div 2) - 1
OBVIOUS

(***************************************************************************)
(* The window.                                                              *)
(***************************************************************************)
\* The window's distance between two numbers is the true one, when they are
\* less than half a cycle apart (check of WrappedSlidingWindowDetector).
LEMMA TrueDistance ==
    ASSUME NEW C \in Nat, C > 4, C % 2 = 0, NEW t \in Nat, NEW i \in Nat,
           -((C \div 2) - 1) < t - i, t - i < (C \div 2) - 1
    PROVE  Wrapped((t % C) - (i % C), C - 1) = t - i
<1> DEFINE h == C \div 2
<1>1. h \in Nat /\ 2 * h = C /\ (C - 1) \div 2 = h - 1
  BY HalfCycle, Zenon
<1>2. \/ t % C = (i % C) + (t - i)
      \/ t % C = (i % C) + (t - i) - C
      \/ t % C = (i % C) + (t - i) + C
  <2>1. t \in Int /\ i \in Int /\ -C < t - i /\ t - i < C /\ C > 0
    BY <1>1
  <2> QED BY <2>1, ModDiff, Zenon
<1>3. t % C \in 0 .. C - 1 /\ i % C \in 0 .. C - 1
  BY DivMod
<1> HIDE DEF h
<1> QED BY <1>1, <1>2, <1>3 DEF Wrapped

\* What accepting the first number, one of the first cycle, makes of a new window.
LEMMA FirstAccepted ==
    ASSUME NEW C \in Nat, C > 4, C % 2 = 0, NEW i \in 0 .. C - 1
    PROVE  /\ passes(Initialised(Detector, i, C - 1), i, C - 1)
           /\ accept(Initialised(Detector, i, C - 1), i, C - 1) =
                [init |-> TRUE, latest_seq |-> i, mask |-> {0}]
<1> DEFINE fresh == Initialised(Detector, i, C - 1)
<1>1. fresh = [init |-> TRUE, latest_seq |-> IF i # 0 THEN i - 1 ELSE C - 1, mask |-> {}]
  BY Zenon DEF Initialised, Detector
<1>2. behind(fresh, i, C - 1) = -1
  <2>1. (C - 1) \div 2 = (C \div 2) - 1 /\ C \div 2 > 2 /\ C \div 2 \in Nat /\ 2 * (C \div 2) = C
    BY HalfCycle, Zenon
  <2>2. fresh.latest_seq - i = IF i # 0 THEN -1 ELSE C - 1
    BY <1>1
  <2> QED BY <2>1, <2>2 DEF behind, Wrapped
<1>3. set_bit(lsh(fresh.mask, 1, Window), 0, Window) = {0}
  BY <1>1, WindowAssumption DEF lsh, set_bit
<1>4. PICK d \in Int : d + 1 = 0
  OBVIOUS
<1>5. d < 0 /\ -d = 1
  BY <1>4
<1>6. accept(fresh, i, C - 1) = Moved(fresh, i, d) /\ behind(fresh, i, C - 1) = d
  BY <1>2, <1>4 DEF accept
<1>7. passes(fresh, i, C - 1)
  BY <1>5, <1>6, WindowAssumption DEF passes
<1>8. accept(fresh, i, C - 1) = [init |-> TRUE, latest_seq |-> i, mask |-> {0}]
  BY <1>3, <1>5, <1>6, Zenon DEF Moved
<1> QED BY <1>7, <1>8, Zenon

\* The bits of the mask after a packet is accepted, at the distance d behind
\* (d >= 0) or -d ahead (d < 0) of the latest number.
LEMMA MovedMask ==
    ASSUME NEW det, NEW seq, NEW d \in Int, d < Window, det.mask \subseteq Nat
    PROVE  LET m == Moved(det, seq, d).mask IN
           /\ m \subseteq Nat
           /\ d < 0 => /\ 0 \in m
                       /\ \A b \in m : b = 0 \/ b + d \in det.mask
                       /\ \A a \in det.mask : a - d < Width(Window) => a - d \in m
           /\ d >= 0 => m = det.mask \cup {d}
<1>1. CASE d < 0
  <2>1. Moved(det, seq, d).mask = lsh(det.mask, -d, Window) \cup {0}
    BY <1>1, WindowAssumption DEF Moved, set_bit
  <2>2. -d \in Nat /\ \A a \in Nat : a + (-d) = a - d /\ (a - d) + d = a /\ a - d \in Nat
    BY <1>1
  <2>3. lsh(det.mask, -d, Window) = {b \in {a - d : a \in det.mask} : b < Width(Window)}
    BY <2>2, Zenon DEF lsh
  <2>4. lsh(det.mask, -d, Window) \subseteq Nat
    BY <2>2, <2>3, Zenon
  <2>5. \A b \in lsh(det.mask, -d, Window) : b + d \in det.mask
    BY <2>2, <2>3, Zenon
  <2>6. \A a \in det.mask : a - d < Width(Window) => a - d \in lsh(det.mask, -d, Window)
    BY <2>3, Zenon
  <2> QED BY <1>1, <2>1, <2>4, <2>5, <2>6
<1>2. CASE d >= 0
  BY <1>2, WindowAssumption DEF Moved, set_bit
<1> QED BY <1>1, <1>2

\* what the mask is sure to hold: the window, as far as msb_mask keeps it
Remembered(d) == d < Window /\ d < Width(Window)

\* Accepting number i, at its true distance from the highest number t accepted,
\* keeps the mask a record of the numbers accepted: a bit stands for one of
\* them, and each that the window covers and a shift keeps has its bit.
LEMMA AcceptedMask ==
    ASSUME NEW det, NEW seq, NEW t \in Nat, NEW i \in Nat, NEW T \in Nat, NEW old \in SUBSET Nat,
           T = IF i > t THEN i ELSE t, t - i < Window, det.mask \subseteq Nat,
           \A b \in det.mask : t - b \in old
    PROVE  /\ Moved(det, seq, t - i).mask \subseteq Nat
           /\ \A b \in Moved(det, seq, t - i).mask : T - b \in old \cup {i}
           /\ (\A j \in old : j <= t /\ (Remembered(t - j) => t - j \in det.mask))
              => \A j \in old \cup {i} : Remembered(T - j) => T - j \in Moved(det, seq, t - i).mask
<1> DEFINE m == Moved(det, seq, t - i).mask
<1>w. Window \in Nat /\ Window > 0 /\ Width(Window) \in Int
  BY WindowAssumption DEF Width, Chunks, KeptOfLast
<1>1. CASE i > t
  <2>1. /\ m \subseteq Nat /\ 0 \in m
        /\ \A b \in m : b = 0 \/ b + (t - i) \in det.mask
        /\ \A a \in det.mask : a - (t - i) < Width(Window) => a - (t - i) \in m
    BY <1>1, MovedMask
  <2>2. T = i /\ \A b \in Nat : i - b = t - (b + (t - i)) /\ i - 0 = i
    BY <1>1
  <2>3. \A b \in m : T - b \in old \cup {i}
    BY <2>1, <2>2, Zenon
  <2>4. ASSUME \A j \in old : j <= t /\ (Remembered(t - j) => t - j \in det.mask),
               NEW j \in old \cup {i}, Remembered(T - j)
        PROVE  T - j \in m
    <3>1. CASE j = i
      <4>1. i - i = 0 OBVIOUS
      <4> QED BY <2>1, <2>2, <3>1, <4>1, Zenon
    <3>2. CASE j \in old
      <4>1. Remembered(t - j) /\ (t - j) - (t - i) = i - j /\ i - j < Width(Window)
        BY <1>w, <1>1, <2>2, <2>4, <3>2 DEF Remembered
      <4> QED BY <2>1, <2>2, <2>4, <3>2, <4>1, Zenon
    <3> QED BY <3>1, <3>2, Zenon
  <2> QED BY <2>1, <2>3, <2>4, Zenon
<1>2. CASE ~(i > t)
  <2>1. m = det.mask \cup {t - i} /\ t - i \in Nat
    BY <1>2, MovedMask
  <2>2. T = t /\ t - (t - i) = i
    BY <1>2
  <2> QED BY <2>1, <2>2, Zenon
<1> QED BY <1>1, <1>2, Zenon

-----------------------------------------------------------------------------
\* Half a cycle, as the code computes it for the counter and for the window.
LEMMA Halves ==
    /\ SEQ_NUM_MEDIAN \in Nat
    /\ 2 * SEQ_NUM_MEDIAN = Cycle
    /\ (Cycle - 1) \div 2 = SEQ_NUM_MEDIAN - 1
BY CycleAssumption DEF SEQ_NUM_MEDIAN

(***************************************************************************)
(* The operators of the code.                                               *)
(***************************************************************************)
\* The counter and the distance that the comparisons of next_rollover_count
\* select, for an index x and a packet i less than half a cycle away.
LEMMA RolloverCases ==
    ASSUME NEW x \in Nat, NEW i \in Nat,
           -SEQ_NUM_MEDIAN < i - x, i - x < SEQ_NUM_MEDIAN
    PROVE  /\ x <= SEQ_NUM_MEDIAN => i \div Cycle = x \div Cycle /\ i - x = (i % Cycle) - (x % Cycle)
           /\ x % Cycle < SEQ_NUM_MEDIAN =>
                IF (i % Cycle) - (x % Cycle) > SEQ_NUM_MEDIAN
                THEN i \div Cycle = (x \div Cycle) - 1 /\ i - x = (i % Cycle) - (x % Cycle) - Cycle
                ELSE i \div Cycle = x \div Cycle /\ i - x = (i % Cycle) - (x % Cycle)
           /\ ~(x % Cycle < SEQ_NUM_MEDIAN) =>
                IF (x % Cycle) - SEQ_NUM_MEDIAN > i % Cycle
                THEN i \div Cycle = (x \div Cycle) + 1 /\ i - x = (i % Cycle) - (x % Cycle) + Cycle
                ELSE i \div Cycle = x \div Cycle /\ i - x = (i % Cycle) - (x % Cycle)
<1>1. /\ Cycle \in Nat /\ Cycle > 0
      /\ SEQ_NUM_MEDIAN \in Nat /\ 2 * SEQ_NUM_MEDIAN = Cycle
  BY CycleAssumption, Halves
<1>2. \/ i \div Cycle = x \div Cycle /\ i % Cycle = (x % Cycle) + (i - x)
      \/ i \div Cycle = (x \div Cycle) + 1 /\ i % Cycle = (x % Cycle) + (i - x) - Cycle
      \/ i \div Cycle = (x \div Cycle) - 1 /\ i % Cycle = (x % Cycle) + (i - x) + Cycle
  <2>1. i \in Int /\ x \in Int /\ -Cycle < i - x /\ i - x < Cycle
    BY <1>1
  <2> QED BY <1>1, <2>1, ModDiff, ZenonT(90)
<1>3. /\ x % Cycle \in 0 .. Cycle - 1 /\ i % Cycle \in 0 .. Cycle - 1
      /\ x \div Cycle \in Int /\ i \div Cycle \in Int
  BY <1>1, DivMod
<1>4. ASSUME x <= SEQ_NUM_MEDIAN
      PROVE  i \div Cycle = x \div Cycle /\ i - x = (i % Cycle) - (x % Cycle)
  <2>1. x \in 0 .. Cycle - 1 /\ i \in 0 .. Cycle - 1
    BY <1>1, <1>4
  <2> QED BY <1>1, <2>1, FirstCycle, Zenon
<1> QED BY <1>1, <1>2, <1>3, <1>4, SMTT(30)

\* next_rollover_count finds the counter and the index of a packet less than
\* half a cycle from the index the state holds.
LEMMA RolloverGuess ==
    ASSUME NEW s, s.rollover_has_processed = TRUE, NEW x \in Nat, s.index = x,
           NEW i \in Nat,
           -SEQ_NUM_MEDIAN < i - x, i - x < SEQ_NUM_MEDIAN
    PROVE  next_rollover_count(s, Number(i)) = Guess(i \div Cycle, i - x)
BY RolloverCases, Zenon DEF next_rollover_count, Guess, Number, local_roc, local_seq

(***************************************************************************)
(* The inductive invariant.                                                 *)
(***************************************************************************)
Packet == [num : Nat, roc : Int]
\* what is numbered lies between the first packet and the next one
Numbered ==
    /\ first \in Starts /\ next \in Nat /\ first <= next
    /\ net \subseteq Packet
    /\ \A p \in net : first <= p.num /\ p.num < next
    /\ opened \subseteq Nat
    /\ top \in Nat /\ first <= top /\ top <= next
    /\ \A i \in opened : i <= top
    /\ known => top < next
    /\ next - top <= Delay + 1
\* the sender's index is the number of the last packet it sealed
SenderFollows ==
    /\ local.index \in Nat /\ local.rollover_has_processed \in BOOLEAN
    /\ ~local.rollover_has_processed => local.index = 0 /\ next = first
    /\ local.rollover_has_processed =>
         /\ first <= local.index /\ local.index < next
         /\ next - local.index <= Delay + 1
\* the receiver's index is the number of a packet it opened not long ago
ReceiverFollows ==
    /\ known =>
         /\ remote.index \in Nat /\ remote.rollover_has_processed = TRUE
         /\ window.init = TRUE /\ window.mask \subseteq Nat
         /\ top - Delay <= remote.index /\ remote.index <= top
         /\ window.latest_seq = Number(top)
         /\ \A b \in window.mask : top - b \in opened
    /\ ~known => opened = {} /\ top = first
\* the mask has a bit for every packet opened that it still remembers
WindowCovers ==
    known => \A i \in opened : Remembered(top - i) => top - i \in window.mask
Inv == Numbered /\ SenderFollows /\ ReceiverFollows /\ SealedUnderCounter

\* The invariant holds before any packet is sent.
LEMMA InitInv == Init => Inv /\ WindowCovers /\ OpenedOnce
<1> SUFFICES ASSUME Init PROVE Inv /\ WindowCovers /\ OpenedOnce
  BY Zenon
<1>1. first \in Nat
  BY StartsAssumption, CycleAssumption DEF Init
<1>2. Numbered
  BY <1>1, DelayAssumption DEF Init, Numbered
<1>3. SenderFollows
  BY Zenon DEF Init, SenderFollows, SsrcState
<1> QED BY <1>2, <1>3, Zenon DEF Init, Inv, ReceiverFollows, SealedUnderCounter, WindowCovers, OpenedOnce

\* The constants are the numbers the arithmetic needs.
LEMMA Numbers ==
    /\ Cycle \in Nat /\ Cycle > 4 /\ Delay \in Nat /\ 2 * Delay + 1 < SEQ_NUM_MEDIAN
    /\ SEQ_NUM_MEDIAN \in Nat /\ 2 * SEQ_NUM_MEDIAN = Cycle
    /\ Window \in Nat /\ Window > 0
    /\ \A i \in Nat : Number(i) \in 0 .. Cycle - 1 /\ i \div Cycle \in Int
<1>1. \A i \in Nat : Number(i) \in 0 .. Cycle - 1 /\ i \div Cycle \in Int
  BY CycleAssumption, DivMod DEF Number
<1> QED BY <1>1, CycleAssumption, DelayAssumption, WindowAssumption, Halves

\* Sealing packet i, new or sent again, uses the counter of i and leaves i as
\* the sender's index.
LEMMA SealingStep ==
    ASSUME Inv, NEW i \in Nat, first <= i, i <= next, next - i <= Delay,
           ~local.rollover_has_processed => i = next
    PROVE  /\ next_rollover_count(local, Number(i)).roc = i \div Cycle
           /\ update_rollover_count(local, Number(i), next_rollover_count(local, Number(i)).diff) =
                 [index |-> i, rollover_has_processed |-> TRUE]
<1> DEFINE g == next_rollover_count(local, Number(i))
<1>1. CASE ~local.rollover_has_processed
  <2>1. i \in 0 .. Cycle - 1 /\ local.index = 0
    BY <1>1, StartsAssumption, Numbers, Zenon DEF Inv, Numbered, SenderFollows
  <2>2. i \div Cycle = 0 /\ Number(i) = i /\ 0 \div Cycle = 0
    BY <2>1, Numbers, FirstCycle DEF Number
  <2>3. g = Guess(0, 0)
    BY <1>1, <2>1, <2>2, Zenon DEF next_rollover_count, local_roc
  <2>4. g.roc = 0 /\ g.diff = 0
    BY <2>3 DEF Guess
  <2>5. update_rollover_count(local, i, 0) =
           [index |-> i, rollover_has_processed |-> TRUE]
    BY <1>1, <2>1 DEF update_rollover_count
  <2> QED BY <2>2, <2>4, <2>5, Zenon
<1>2. CASE local.rollover_has_processed
  <2>1. local.index \in Nat /\ local.rollover_has_processed = TRUE
    BY <1>2, Zenon DEF Inv, SenderFollows
  <2>2. -SEQ_NUM_MEDIAN < i - local.index /\ i - local.index < SEQ_NUM_MEDIAN
    BY <1>2, Numbers DEF Inv, Numbered, SenderFollows
  <2>3. g = Guess(i \div Cycle, i - local.index)
    BY <2>1, <2>2, RolloverGuess, Zenon
  <2>4. g.roc = i \div Cycle /\ g.diff = i - local.index
    BY <2>3 DEF Guess
  <2>5. update_rollover_count(local, Number(i), i - local.index) =
           [index |-> i, rollover_has_processed |-> TRUE]
    <3>1. local.index + (i - local.index) = i
      BY <2>1
    <3> QED BY <2>1, <3>1, Zenon DEF update_rollover_count
  <2> QED BY <2>4, <2>5, Zenon
<1> QED BY <1>1, <1>2, Zenon

\* Encrypting the next packet preserves the invariant.
LEMMA EncryptInv == Inv /\ EncryptRtp => Inv'
<1> SUFFICES ASSUME Inv, EncryptRtp PROVE Inv'
  BY Zenon
<1> DEFINE g == next_rollover_count(local, Number(next))
<1>1. /\ next \in Nat /\ next' = next + 1
      /\ net' = net \cup {[num |-> next, roc |-> g.roc]}
      /\ local' = update_rollover_count(local, Number(next), g.diff)
      /\ UNCHANGED <<first, remote, window, known, opened, top, again>>
      /\ next - top <= Delay
  BY Zenon DEF EncryptRtp, Sealed, Inv, Numbered
<1>2. /\ g.roc = next \div Cycle /\ g.roc \in Int
      /\ local' = [index |-> next, rollover_has_processed |-> TRUE]
  BY <1>1, SealingStep, Numbers DEF Inv, Numbered
<1>3. Numbered'
  <2>1. [num |-> next, roc |-> g.roc] \in Packet /\ first \in Nat
    BY <1>1, <1>2, StartsAssumption, Numbers DEF Packet, Inv, Numbered
  <2>2. \A p \in net' : p \in Packet /\ first <= p.num /\ p.num < next + 1
    BY <1>1, <2>1 DEF Inv, Numbered, Packet
  <2>3. first <= next + 1 /\ top <= next + 1 /\ top < next + 1 /\ (next + 1) - top <= Delay + 1
    BY <1>1, <2>1, Numbers DEF Inv, Numbered
  <2> QED BY <1>1, <2>2, <2>3 DEF Inv, Numbered
<1>4. SenderFollows'
  BY <1>1, <1>2, Numbers DEF Inv, Numbered, SenderFollows
<1>5. ReceiverFollows'
  BY <1>1, Zenon DEF Inv, ReceiverFollows
<1>6. SealedUnderCounter'
  BY <1>1, <1>2 DEF Inv, SealedUnderCounter
<1> QED BY <1>3, <1>4, <1>5, <1>6, Zenon DEF Inv

\* Sealing a packet again preserves the invariant.
LEMMA RetransmitInv == Inv /\ Retransmit => Inv'
<1> SUFFICES ASSUME Inv, Retransmit PROVE Inv'
  BY Zenon
<1>1. PICK i \in first .. next - 1 :
         /\ next - i <= Delay
         /\ Sealed(i, next_rollover_count(local, Number(i)))
  BY Zenon DEF Retransmit
<1> DEFINE g == next_rollover_count(local, Number(i))
<1>2. i \in Nat /\ first <= i /\ i < next /\ next \in Nat
  BY StartsAssumption, Numbers DEF Inv, Numbered
<1>3. local.rollover_has_processed
  BY <1>2 DEF Inv, Numbered, SenderFollows
<1>4. /\ g.roc = i \div Cycle /\ g.roc \in Int
      /\ local' = [index |-> i, rollover_has_processed |-> TRUE]
  BY <1>1, <1>2, <1>3, SealingStep, Numbers DEF Sealed
<1>5. /\ net' = net \cup {[num |-> i, roc |-> g.roc]}
      /\ UNCHANGED <<first, next, remote, window, known, opened, top, again>>
  BY <1>1, Zenon DEF Sealed, Retransmit
<1>6. Numbered'
  BY <1>2, <1>4, <1>5 DEF Inv, Numbered, Packet
<1>7. SenderFollows'
  BY <1>1, <1>2, <1>4, <1>5, Numbers DEF Inv, Numbered, SenderFollows
<1>8. ReceiverFollows'
  BY <1>5, Zenon DEF Inv, ReceiverFollows
<1>9. SealedUnderCounter'
  BY <1>4, <1>5 DEF Inv, SealedUnderCounter
<1> QED BY <1>6, <1>7, <1>8, <1>9, Zenon DEF Inv

\* What opening a packet of a known stream computes: the true distance from the
\* highest packet opened, and the packet's own number as the new index.
LEMMA KnownStream ==
    ASSUME Inv, known, NEW p \in net, Arrives(p)
    PROVE  /\ p.num \in Nat /\ top \in Nat /\ next \in Nat /\ p.num < next /\ top < next
           /\ Window_for(p) = window
           /\ behind(window, Number(p.num), Cycle - 1) = top - p.num
           /\ next_rollover_count(State, Number(p.num)).roc = p.num \div Cycle
           /\ update_rollover_count(State, Number(p.num), next_rollover_count(State, Number(p.num)).diff) =
                [index |-> p.num, rollover_has_processed |-> TRUE]
<1> DEFINE i == p.num  x == remote.index
<1>1. i \in Nat /\ top \in Nat /\ next \in Nat /\ i < next /\ next - i <= Delay
  BY Zenon DEF Inv, Numbered, Packet, Arrives
<1>2. x \in Nat /\ top - Delay <= x /\ x <= top /\ remote.rollover_has_processed = TRUE
  BY Zenon DEF Inv, ReceiverFollows
<1>3. top < next /\ next - top <= Delay + 1
  BY Zenon DEF Inv, Numbered
<1>4. -SEQ_NUM_MEDIAN < i - x /\ i - x < SEQ_NUM_MEDIAN
  BY <1>1, <1>2, <1>3, Numbers
<1>5. -(SEQ_NUM_MEDIAN - 1) < top - i /\ top - i < SEQ_NUM_MEDIAN - 1
  BY <1>1, <1>3, Numbers
<1>6. behind(window, Number(i), Cycle - 1) = top - i
  <2>1. Wrapped((top % Cycle) - (i % Cycle), Cycle - 1) = top - i
    BY <1>1, <1>5, CycleAssumption, TrueDistance, ZenonT(30) DEF SEQ_NUM_MEDIAN
  <2> QED BY <2>1, Zenon DEF behind, Number, Inv, ReceiverFollows
<1>7. Window_for(p) = window
  BY Zenon DEF Window_for, Initialised, Inv, ReceiverFollows
<1>8. next_rollover_count(remote, Number(i)) = Guess(i \div Cycle, i - x)
  BY <1>1, <1>2, <1>4, RolloverGuess, Zenon
<1>9. update_rollover_count(remote, Number(i), i - x) = [index |-> i, rollover_has_processed |-> TRUE]
  <2>1. x + (i - x) = i
    BY <1>1, <1>2
  <2> QED BY <1>2, <2>1, Zenon DEF update_rollover_count
<1>10. State = remote
  BY Zenon DEF State
<1> QED BY <1>1, <1>3, <1>6, <1>7, <1>8, <1>9, <1>10 DEF Guess

\* What opening the first packet of a stream computes.
LEMMA NewStream ==
    ASSUME Inv, ~known, NEW p \in net, Opens(p)
    PROVE  /\ p.num \in Nat /\ next \in Nat /\ p.num < next
           /\ accept(Window_for(p), Number(p.num), Cycle - 1) =
                [init |-> TRUE, latest_seq |-> Number(p.num), mask |-> {0}]
           /\ update_rollover_count(State, Number(p.num), next_rollover_count(State, Number(p.num)).diff) =
                [index |-> p.num, rollover_has_processed |-> TRUE]
<1> DEFINE i == p.num
<1>1. i \in Nat /\ next \in Nat /\ i < next
  BY Zenon DEF Inv, Numbered, Packet
<1>2. 0 \div Cycle = 0
  BY Numbers, FirstCycle
<1>3. State = SsrcState /\ next_rollover_count(State, Number(i)) = Guess(0, 0)
  BY <1>2, Zenon DEF next_rollover_count, SsrcState, State, local_roc
<1>4. p.roc = 0
  BY <1>3 DEF Guess, Opens, Authentic
<1>5. i \div Cycle = 0
  BY <1>4, Zenon DEF Inv, SealedUnderCounter
<1>6. Number(i) = i /\ i \in 0 .. Cycle - 1
  <2>1. i = Cycle * 0 + (i % Cycle) /\ i % Cycle \in 0 .. Cycle - 1
    BY <1>1, <1>5, DivMod, Numbers
  <2> QED BY <2>1, Numbers DEF Number
<1>7. accept(Window_for(p), i, Cycle - 1) = [init |-> TRUE, latest_seq |-> i, mask |-> {0}]
  <2>1. Window_for(p) = Initialised(Detector, i, Cycle - 1)
    BY <1>6, Zenon DEF Window_for
  <2> QED BY <1>6, <2>1, CycleAssumption, FirstAccepted, Zenon
<1>8. update_rollover_count(State, i, 0) = [index |-> i, rollover_has_processed |-> TRUE]
  <2>1. 0 + i = i
    BY <1>1
  <2> QED BY <1>3, <2>1, Zenon DEF update_rollover_count, SsrcState
<1> QED BY <1>1, <1>3, <1>6, <1>7, <1>8 DEF Guess

\* Opening a packet preserves the invariant.
LEMMA DecryptInv == Inv /\ DecryptRtp => Inv'
<1> SUFFICES ASSUME Inv, DecryptRtp PROVE Inv'
  BY Zenon
<1>1. PICK p \in net :
         /\ Arrives(p) /\ Opens(p)
         /\ remote' = update_rollover_count(State, Number(p.num), next_rollover_count(State, Number(p.num)).diff)
         /\ window' = accept(Window_for(p), Number(p.num), Cycle - 1)
         /\ opened' = opened \cup {p.num}
         /\ top' = IF p.num > top THEN p.num ELSE top
  BY Zenon DEF DecryptRtp
<1>2. known' = TRUE /\ UNCHANGED <<first, next, local, net>>
  BY Zenon DEF DecryptRtp
<1> DEFINE i == p.num
<1>3. /\ i \in Nat /\ top \in Nat /\ next \in Nat /\ first \in Nat
      /\ i < next /\ first <= i /\ next - i <= Delay
      /\ remote' = [index |-> i, rollover_has_processed |-> TRUE]
  <2>1. first \in Nat /\ first <= i /\ top \in Nat /\ next - i <= Delay
    BY <1>1, StartsAssumption, Numbers DEF Inv, Numbered, Arrives
  <2>2. CASE known
    BY <1>1, <2>1, <2>2, KnownStream, Zenon
  <2>3. CASE ~known
    BY <1>1, <2>1, <2>3, NewStream, Zenon
  <2> QED BY <2>2, <2>3, Zenon
<1>4. Numbered'
  <2>1. known \/ top = first
    BY Zenon DEF Inv, ReceiverFollows
  <2>2. top' \in Nat /\ first <= top' /\ top' < next /\ top <= top' /\ i <= top'
    BY <1>1, <1>3, <2>1 DEF Inv, Numbered
  <2>3. \A j \in opened' : j \in Nat /\ j <= top'
    BY <1>1, <1>3, <2>2 DEF Inv, Numbered
  <2>4. next - top' <= Delay + 1
    <3>1. next - top <= Delay + 1
      BY Zenon DEF Inv, Numbered
    <3>2. next \in Int /\ top \in Int /\ top' \in Int /\ Delay \in Int /\ top <= top'
      BY <1>3, <2>2, DelayAssumption
    <3>3. \A a, b, c, d \in Int : a - b <= d + 1 /\ b <= c => a - c <= d + 1
      OBVIOUS
    <3> QED BY <3>1, <3>2, <3>3, Zenon
  <2> QED BY <1>2, <1>3, <2>2, <2>3, <2>4 DEF Inv, Numbered
<1>5. SenderFollows'
  BY <1>2, Zenon DEF Inv, SenderFollows
<1>6. ReceiverFollows'
  <2>1. CASE known
    <3>1. window' = Moved(window, Number(i), top - i) /\ top - i < Window
      BY <1>1, <2>1, KnownStream, Zenon DEF accept, Opens, passes
    <3>2. window.mask \subseteq Nat /\ window.latest_seq = Number(top) /\ \A b \in window.mask : top - b \in opened
      BY <2>1, Zenon DEF Inv, ReceiverFollows
    <3>3. top < next /\ top - Delay <= i
      BY <1>3, <2>1, Numbers DEF Inv, Numbered
    <3>4. window'.init = TRUE /\ window'.latest_seq = Number(top')
      BY <1>1, <1>3, <3>1, <3>2 DEF Moved
    <3>5. window'.mask \subseteq Nat /\ \A b \in window'.mask : top' - b \in opened'
      <4>1. opened \in SUBSET Nat /\ top' \in Nat /\ top' = IF i > top THEN i ELSE top
        BY <1>1, <1>3, Zenon DEF Inv, Numbered
      <4>2. /\ Moved(window, Number(i), top - i).mask \subseteq Nat
            /\ \A b \in Moved(window, Number(i), top - i).mask : top' - b \in opened \cup {i}
        BY <1>3, <3>1, <3>2, <4>1, AcceptedMask, ZenonT(30)
      <4> QED BY <1>1, <3>1, <4>2, Zenon
    <3>6. top' - Delay <= i /\ i <= top'
      BY <1>1, <1>3, <3>3, Numbers
    <3> QED BY <1>2, <1>3, <3>4, <3>5, <3>6, Zenon DEF ReceiverFollows
  <2>2. CASE ~known
    <3>1. window' = [init |-> TRUE, latest_seq |-> Number(i), mask |-> {0}]
      BY <1>1, <2>2, NewStream, Zenon
    <3>2. top' = i /\ i - 0 = i /\ i - Delay <= i
      BY <1>1, <1>3, <2>2, Numbers DEF Inv, ReceiverFollows
    <3> QED BY <1>1, <1>2, <1>3, <3>1, <3>2 DEF ReceiverFollows
  <2> QED BY <2>1, <2>2, Zenon
<1>7. SealedUnderCounter'
  BY <1>2, Zenon DEF Inv, SealedUnderCounter
<1> QED BY <1>4, <1>5, <1>6, <1>7, Zenon DEF Inv

\* The invariant is inductive.
LEMMA StepInv == Inv /\ [Next]_vars => Inv'
<1> SUFFICES ASSUME Inv, [Next]_vars PROVE Inv'
  BY Zenon
<1>1. CASE UNCHANGED vars
  BY <1>1, Zenon DEF vars, Inv, Numbered, SenderFollows, ReceiverFollows, SealedUnderCounter
<1> QED BY <1>1, EncryptInv, RetransmitInv, DecryptInv, Zenon DEF Next

\* Every packet is sealed under the rollover counter of its number, however
\* sending and retransmitting alternate (encrypt_rtp under next_rollover_count),
\* for every cycle length, starting number and delay of less than a quarter cycle.
THEOREM SealedRight == Spec => []SealedUnderCounter
<1>1. Inv => SealedUnderCounter
  BY Zenon DEF Inv
<1> QED BY <1>1, InitInv, StepInv, PTL DEF Spec

\* Opening keeps what the mask remembers complete, and opens a packet a second time
\* only if the mask does not remember it.
LEMMA OpenedStep ==
    Inv /\ WindowCovers /\ OpenedOnce /\ [Next]_vars => (WindowCovers /\ OpenedOnce)'
<1> SUFFICES ASSUME Inv, WindowCovers, OpenedOnce, [Next]_vars
             PROVE  WindowCovers' /\ OpenedOnce'
  BY SMTT(30)
<1>1. CASE UNCHANGED vars \/ EncryptRtp \/ Retransmit
  BY <1>1 DEF vars, EncryptRtp, Retransmit, Sealed, WindowCovers, OpenedOnce
<1>2. CASE DecryptRtp
  <2>1. PICK p \in net :
           /\ Arrives(p) /\ Opens(p)
           /\ window' = accept(Window_for(p), Number(p.num), Cycle - 1)
           /\ opened' = opened \cup {p.num}
           /\ top' = IF p.num > top THEN p.num ELSE top
           /\ again' = again \cup {top - i : i \in {p.num} \cap opened}
    BY <1>2, Zenon DEF DecryptRtp
  <2> DEFINE i == p.num
  <2>2. opened \subseteq Nat /\ top \in Nat /\ Window \in Nat /\ Width(Window) \in Int
    BY WindowAssumption DEF Inv, Numbered, Width, Chunks, KeptOfLast
  <2>3. CASE known
    <3>1. /\ i \in Nat /\ window' = Moved(window, Number(i), top - i) /\ top - i < Window
          /\ top - i >= 0 => top - i \notin window.mask
      BY <2>1, <2>3, KnownStream, Zenon DEF accept, Opens, passes
    <3>2. window.mask \subseteq Nat /\ \A j \in opened : j <= top /\ (Remembered(top - j) => top - j \in window.mask)
      BY <2>3, Zenon DEF Inv, Numbered, ReceiverFollows, WindowCovers
    <3>3. i \in opened => Width(Window) <= top - i /\ top - i < Window
      BY <2>2, <3>1, <3>2 DEF Remembered
    <3>4. \A j \in opened' : Remembered(top' - j) => top' - j \in window'.mask
      <4>1. top' \in Nat /\ \A b \in window.mask : top - b \in opened
        BY <2>1, <2>2, <2>3, <3>1, Zenon DEF Inv, ReceiverFollows
      <4>2. top' = IF i > top THEN i ELSE top
        BY <2>1, Zenon
      <4>3. \A j \in opened \cup {i} :
               Remembered(top' - j) => top' - j \in Moved(window, Number(i), top - i).mask
        BY <2>2, <3>1, <3>2, <4>1, <4>2, AcceptedMask, Zenon
      <4> QED BY <2>1, <3>1, <4>3, Zenon
    <3> QED BY <2>1, <3>3, <3>4, Zenon DEF WindowCovers, OpenedOnce
  <2>4. CASE ~known
    <3>1. i \in Nat /\ window' = [init |-> TRUE, latest_seq |-> Number(i), mask |-> {0}]
      BY <2>1, <2>4, NewStream, Zenon
    <3>2. opened = {} /\ top = first /\ first <= i
      BY <2>4, Zenon DEF Inv, Numbered, ReceiverFollows
    <3>3. top' = i
      BY <2>1, <2>2, <3>1, <3>2
    <3>4. i - i = 0
      BY <3>1
    <3>5. WindowCovers'
      BY <2>1, <3>1, <3>2, <3>3, <3>4 DEF WindowCovers
    <3>6. OpenedOnce'
      BY <2>1, <3>2, Zenon DEF OpenedOnce
    <3> QED BY <3>5, <3>6, Zenon
  <2> QED BY <2>3, <2>4, Zenon
<1> QED BY <1>1, <1>2, Zenon DEF Next

\* For every window and word size, across any number of rollovers, a packet of a
\* stream is opened a second time only where a shift of the mask has dropped its
\* bit, Width(Window) or more behind the highest and still inside the window
\* (check and accept of WrappedSlidingWindowDetector, lsh of FixedBigInt).
THEOREM NeverTwice == Spec => []OpenedOnce
<1>1. Init => Inv /\ WindowCovers /\ OpenedOnce
  BY InitInv, Zenon
<1>2. Inv /\ WindowCovers /\ OpenedOnce /\ [Next]_vars => (Inv /\ WindowCovers /\ OpenedOnce)'
  BY StepInv, OpenedStep, Zenon
<1> QED BY <1>1, <1>2, PTL DEF Spec

\* msb_mask keeps the whole window if it ends with a word, as the default of 64
\* does, or at most half way through one.
LEMMA WideEnough ==
    ASSUME 2 * (Window % WordBits) <= WordBits
    PROVE  Width(Window) >= Window
<1> DEFINE W == WordBits  q == Window \div WordBits  r == Window % WordBits
           c == (Window + WordBits - 1) \div WordBits  e == (Window + WordBits - 1) % WordBits
<1>1. W \in Nat /\ W > 0 /\ Window \in Nat /\ Window + W - 1 \in Int
  BY WindowAssumption
<1>2. q \in Int /\ r \in 0 .. W - 1 /\ Window = W * q + r
  BY <1>1, DivMod
<1>3. c \in Int /\ e \in 0 .. W - 1 /\ Window + W - 1 = W * c + e
  BY <1>1, DivMod
<1>4. Width(Window) = W * (c - 1) + (IF r = 0 THEN W ELSE W - r)
  BY Zenon DEF Width, Chunks, KeptOfLast
<1>5. W * (c - 1) = W * c - W
  BY <1>1, <1>3
<1>6. r <= W - r
  BY <1>1, <1>2
<1> HIDE DEF q, r, c, e
<1>7. CASE r = 0
  BY <1>1, <1>2, <1>3, <1>4, <1>5, <1>7
<1>8. CASE r # 0
  <2>1. W * c > W * q
    BY <1>1, <1>2, <1>3, <1>8
  <2>2. c >= q + 1
    <3>1. CASE c <= q
      <4>1. W * c <= W * q
        BY <1>1, <1>2, <1>3, <3>1
      <4>2. W * c \in Int /\ W * q \in Int
        BY <1>1, <1>2, <1>3
      <4> QED BY <2>1, <4>1, <4>2
    <3> QED BY <1>2, <1>3, <3>1
  <2>3. W * c >= W * (q + 1) /\ W * (q + 1) = W * q + W
    BY <1>1, <1>2, <1>3, <2>2
  <2>4. W * c \in Int /\ W * q \in Int
    BY <1>1, <1>2, <1>3
  <2> QED BY <1>1, <1>2, <1>4, <1>5, <1>6, <1>8, <2>3, <2>4
<1> QED BY <1>7, <1>8

\* With a window that ends at most half way through a word of the mask, or with
\* one, no packet of a stream is ever opened a second time.
THEOREM NeverTwiceAtAll == 2 * (Window % WordBits) <= WordBits => (Spec => [](again = {}))
<1> SUFFICES ASSUME 2 * (Window % WordBits) <= WordBits PROVE Spec => [](again = {})
  BY Zenon
<1>1. Width(Window) >= Window /\ Window \in Int /\ Width(Window) \in Int
  BY WideEnough, WindowAssumption DEF Width, Chunks, KeptOfLast
<1>2. Init => again \in SUBSET Int
  BY DEF Init
<1>3. Inv /\ again \in SUBSET Int /\ [Next]_vars => (again \in SUBSET Int)'
  <2> SUFFICES ASSUME Inv, again \in SUBSET Int, [Next]_vars PROVE again' \in SUBSET Int
    BY Zenon
  <2>1. CASE DecryptRtp
    <3>1. PICK p \in net : again' = again \cup {top - i : i \in {p.num} \cap opened}
      BY <2>1, Zenon DEF DecryptRtp
    <3>2. top \in Nat /\ opened \subseteq Nat
      BY Zenon DEF Inv, Numbered
    <3>3. {top - i : i \in {p.num} \cap opened} \subseteq Int
      <4>1. \A i \in opened : top - i \in Int
        BY <3>2
      <4> QED BY <4>1, Zenon
    <3> QED BY <3>1, <3>3, Zenon
  <2>2. CASE EncryptRtp \/ Retransmit \/ UNCHANGED vars
    <3>1. again' = again
      BY <2>2, Zenon DEF vars, EncryptRtp, Retransmit, Sealed
    <3> QED BY <3>1, Zenon
  <2> QED BY <2>1, <2>2, Zenon DEF Next
<1>4. OpenedOnce /\ again \in SUBSET Int => again = {}
  BY <1>1 DEF OpenedOnce
<1> QED BY <1>2, <1>3, <1>4, InitInv, StepInv, NeverTwice, PTL DEF Spec

\* A packet that arrives for the first time and is not older than the window
\* opens (decrypt_rtp_under_state): the receiver's counter is the sender's and
\* its window mistakes no packet for another.
THEOREM FreshPacketOpens == Spec => []FreshOpens
<1>1. Inv => FreshOpens
  <2> SUFFICES ASSUME Inv, NEW p \in net, known, Arrives(p), p.num \notin opened, top - p.num < Window
               PROVE  Opens(p)
    BY Zenon DEF FreshOpens
  <2>1. /\ p.num \in Nat /\ top \in Nat /\ Window_for(p) = window
        /\ behind(window, Number(p.num), Cycle - 1) = top - p.num
        /\ next_rollover_count(State, Number(p.num)).roc = p.num \div Cycle
    BY KnownStream, Zenon
  <2>2. p.roc = p.num \div Cycle
    BY Zenon DEF Inv, SealedUnderCounter
  <2>3. top - p.num \notin window.mask
    <3>1. top - (top - p.num) = p.num
      BY <2>1
    <3> QED BY <3>1, Zenon DEF Inv, ReceiverFollows
  <2> QED BY <2>1, <2>2, <2>3, Zenon DEF Opens, passes, Authentic
<1> QED BY <1>1, InitInv, StepInv, PTL DEF Spec

-----------------------------------------------------------------------------
(***************************************************************************)
(* Proofs about Srtcp, for every number of indices, window and delay.       *)
(***************************************************************************)

\* what is numbered lies between 1 and the last packet, and carries its index
IndexFollows ==
    /\ num \in Nat /\ srtcp_index = num % IndexCycle
    /\ reports \subseteq [num : Nat, index : Nat]
    /\ \A p \in reports : p.num <= num /\ p.index = p.num % IndexCycle
    /\ read \subseteq Nat /\ highest \in Nat /\ highest <= num
    /\ \A j \in read : j <= highest
    /\ num - highest <= RtcpDelay
\* the mask stands for packets opened
WindowFollows ==
    /\ read = {} => seen = Detector /\ highest = 0
    /\ read # {} =>
         /\ seen.init = TRUE /\ seen.latest_seq = highest % IndexCycle
         /\ seen.mask \subseteq Nat
         /\ \A b \in seen.mask : highest - b \in read
RtcpInv == IndexFollows /\ WindowFollows
\* the mask has a bit for every packet opened that it still remembers
WindowComplete ==
    read # {} => \A j \in read : Remembered(highest - j) => highest - j \in seen.mask

\* The constants are the numbers the arithmetic needs.
LEMMA RtcpNumbers ==
    /\ IndexCycle \in Nat /\ IndexCycle > 4 /\ IndexCycle % 2 = 0
    /\ RtcpDelay \in Nat /\ RtcpDelay < (IndexCycle \div 2) - 1
    /\ IndexCycle \div 2 \in Nat /\ Window \in Nat /\ Window > 0
BY IndexCycleAssumption, RtcpDelayAssumption, WindowAssumption, HalfCycle

\* The invariant holds before any packet is sent.
LEMMA RtcpInitInv == RtcpInit => RtcpInv /\ WindowComplete /\ ReadOnce
<1> SUFFICES ASSUME RtcpInit PROVE RtcpInv /\ WindowComplete /\ ReadOnce
  BY Zenon
<1>1. 0 % IndexCycle = 0
  BY RtcpNumbers, FirstCycle
<1>2. IndexFollows
  BY <1>1, RtcpNumbers DEF RtcpInit, IndexFollows
<1> QED BY <1>2, Zenon DEF RtcpInit, RtcpInv, WindowFollows, WindowComplete, ReadOnce

\* The sender's index, counted and wrapped, is the number of the packet modulo
\* the number of indices.
LEMMA AdvancedIndex ==
    ASSUME NEW n \in Nat
    PROVE  Advanced(n % IndexCycle) = (n + 1) % IndexCycle
<1> DEFINE C == IndexCycle
<1>1. C \in Nat /\ C > 4 /\ C > 0
  BY RtcpNumbers
<1>2. \/ (n + 1) % C = (n % C) + 1
      \/ (n + 1) % C = (n % C) + 1 - C
      \/ (n + 1) % C = (n % C) + 1 + C
  <2>1. n \in Int /\ n + 1 \in Int /\ (n + 1) - n = 1 /\ -C < (n + 1) - n /\ (n + 1) - n < C
    BY <1>1
  <2>2. \/ (n + 1) % C = (n % C) + ((n + 1) - n)
        \/ (n + 1) % C = (n % C) + ((n + 1) - n) - C
        \/ (n + 1) % C = (n % C) + ((n + 1) - n) + C
    BY <1>1, <2>1, ModDiff, Zenon
  <2> QED BY <2>1, <2>2, Zenon
<1>3. n % C \in 0 .. C - 1 /\ (n + 1) % C \in 0 .. C - 1
  BY <1>1, DivMod
<1> HIDE DEF C
<1>4. (n + 1) % C = IF (n % C) + 1 > C - 1 THEN 0 ELSE (n % C) + 1
  BY <1>1, <1>2, <1>3
<1> QED BY <1>4, Zenon DEF C, Advanced

\* Encrypting the next packet preserves the invariant.
LEMMA EncryptRtcpInv == RtcpInv /\ EncryptRtcp => RtcpInv'
<1> SUFFICES ASSUME RtcpInv, EncryptRtcp PROVE RtcpInv'
  BY Zenon
<1>1. /\ num \in Nat /\ num' = num + 1 /\ num - highest < RtcpDelay
      /\ srtcp_index' = Advanced(srtcp_index)
      /\ reports' = reports \cup {[num |-> num + 1, index |-> Advanced(srtcp_index)]}
      /\ UNCHANGED <<seen, read, highest, twice>>
  BY Zenon DEF EncryptRtcp, RtcpInv, IndexFollows
<1>2. Advanced(srtcp_index) = (num + 1) % IndexCycle /\ (num + 1) % IndexCycle \in Nat
  <2>1. num + 1 \in Nat /\ srtcp_index = num % IndexCycle
    BY <1>1 DEF RtcpInv, IndexFollows
  <2>2. (num + 1) % IndexCycle \in Nat
    BY <2>1, RtcpNumbers, DivMod
  <2> QED BY <1>1, <2>1, <2>2, AdvancedIndex, Zenon
<1>3. \A p \in reports' : /\ p \in [num : Nat, index : Nat]
                          /\ p.num <= num + 1 /\ p.index = p.num % IndexCycle
  BY <1>1, <1>2 DEF RtcpInv, IndexFollows
<1>4. highest <= num + 1 /\ (num + 1) - highest <= RtcpDelay
  BY <1>1, RtcpNumbers DEF RtcpInv, IndexFollows
<1>5. IndexFollows'
  BY <1>1, <1>2, <1>3, <1>4 DEF RtcpInv, IndexFollows
<1>6. WindowFollows'
  BY <1>1, Zenon DEF RtcpInv, WindowFollows
<1> QED BY <1>5, <1>6, Zenon DEF RtcpInv

\* What opening the first packet makes of the window.
LEMMA FirstReport ==
    ASSUME RtcpInv, NEW p \in reports, read = {}
    PROVE  /\ p.num \in Nat /\ highest = 0
           /\ Readable(p)
           /\ accept(Window_at(p), p.index, IndexCycle - 1) =
                [init |-> TRUE, latest_seq |-> p.num % IndexCycle, mask |-> {0}]
<1>1. p.num \in Nat /\ p.num <= num /\ num \in Nat /\ num <= RtcpDelay /\ highest = 0 /\ seen = Detector
  BY RtcpNumbers DEF RtcpInv, IndexFollows, WindowFollows
<1>2. RtcpDelay < IndexCycle
  BY RtcpNumbers, HalfCycle
<1>3. p.num \in 0 .. IndexCycle - 1
  BY <1>1, <1>2, RtcpNumbers
<1>4. p.index = p.num /\ p.num % IndexCycle = p.num
  BY <1>3, RtcpNumbers, FirstCycle DEF RtcpInv, IndexFollows
<1> QED BY <1>1, <1>3, <1>4, FirstAccepted, RtcpNumbers DEF Readable, Window_at

\* What opening a later packet computes: its true distance from the highest.
LEMMA LaterReport ==
    ASSUME RtcpInv, NEW p \in reports, Pending(p), read # {}
    PROVE  /\ p.num \in Nat /\ highest \in Nat
           /\ Window_at(p) = seen
           /\ behind(seen, p.index, IndexCycle - 1) = highest - p.num
<1>1. /\ p.num \in Nat /\ num \in Nat /\ highest \in Nat /\ p.num <= num /\ highest <= num
      /\ num - p.num < RtcpDelay /\ num - highest <= RtcpDelay
      /\ p.index = p.num % IndexCycle
  BY Zenon DEF RtcpInv, IndexFollows, Pending
<1>2. -((IndexCycle \div 2) - 1) < highest - p.num /\ highest - p.num < (IndexCycle \div 2) - 1
  BY <1>1, RtcpNumbers
<1>3. Wrapped((highest % IndexCycle) - (p.num % IndexCycle), IndexCycle - 1) = highest - p.num
  BY <1>1, <1>2, IndexCycleAssumption, TrueDistance, ZenonT(30)
<1>4. Window_at(p) = seen
  BY Zenon DEF Window_at, Initialised, RtcpInv, WindowFollows
<1> QED BY <1>1, <1>3, <1>4, Zenon DEF behind, RtcpInv, WindowFollows

\* Opening a packet preserves the invariant; what the mask remembers stays complete
\* and only a packet that it does not remember is opened again.
LEMMA DecryptRtcpInv ==
    RtcpInv /\ DecryptRtcp =>
        /\ RtcpInv'
        /\ WindowComplete /\ ReadOnce => WindowComplete' /\ ReadOnce'
<1> SUFFICES ASSUME RtcpInv, DecryptRtcp
             PROVE  /\ RtcpInv'
                    /\ WindowComplete /\ ReadOnce => WindowComplete' /\ ReadOnce'
  BY Zenon
<1>1. PICK p \in reports :
         /\ Pending(p) /\ Readable(p)
         /\ seen' = accept(Window_at(p), p.index, IndexCycle - 1)
         /\ read' = read \cup {p.num}
         /\ highest' = IF p.num > highest THEN p.num ELSE highest
         /\ twice' = twice \cup {highest - j : j \in {p.num} \cap read}
  BY Zenon DEF DecryptRtcp
<1>2. UNCHANGED <<num, srtcp_index, reports>>
  BY Zenon DEF DecryptRtcp
<1> DEFINE i == p.num
<1>3. /\ i \in Nat /\ num \in Nat /\ highest \in Nat /\ i <= num /\ highest <= num
      /\ num - highest <= RtcpDelay /\ read \in SUBSET Nat
      /\ p.index = i % IndexCycle
  BY Zenon DEF RtcpInv, IndexFollows
<1>4. highest' \in Nat /\ highest' <= num /\ highest <= highest' /\ i <= highest'
  BY <1>1, <1>3
<1>5. IndexFollows'
  <2>1. \A j \in read' : j \in Nat /\ j <= highest'
    BY <1>1, <1>3, <1>4 DEF RtcpInv, IndexFollows
  <2>2. \A a, b, c, d \in Int : a - b <= d /\ b <= c => a - c <= d
    OBVIOUS
  <2>3. num - highest' <= RtcpDelay
    <3>1. num \in Int /\ highest \in Int /\ highest' \in Int /\ RtcpDelay \in Int
      BY <1>3, <1>4, RtcpDelayAssumption
    <3> QED BY <1>3, <1>4, <2>2, <3>1, Zenon
  <2> QED BY <1>2, <1>4, <2>1, <2>3, Zenon DEF RtcpInv, IndexFollows
<1>6. CASE read = {}
  <2>1. /\ highest = 0 /\ highest' = i /\ i - 0 = i /\ i - i = 0
        /\ seen' = [init |-> TRUE, latest_seq |-> i % IndexCycle, mask |-> {0}]
    BY <1>1, <1>3, <1>6, FirstReport
  <2>2. WindowFollows'
    BY <1>1, <1>6, <2>1 DEF WindowFollows
  <2>3. WindowComplete'
    BY <1>1, <1>6, <2>1 DEF WindowComplete
  <2>4. ReadOnce => ReadOnce'
    BY <1>1, <1>6, Zenon DEF ReadOnce
  <2> QED BY <1>5, <2>2, <2>3, <2>4, Zenon DEF RtcpInv
<1>7. CASE read # {}
  <2>1. /\ seen' = Moved(seen, p.index, highest - i) /\ highest - i < Window
        /\ highest - i >= 0 => highest - i \notin seen.mask
    BY <1>1, <1>7, LaterReport, Zenon DEF accept, Readable, passes
  <2>2. /\ seen.mask \subseteq Nat /\ \A b \in seen.mask : highest - b \in read
        /\ seen.latest_seq = highest % IndexCycle
    BY <1>7, Zenon DEF RtcpInv, WindowFollows
  <2>3. highest' = IF i > highest THEN i ELSE highest
    BY <1>1, Zenon
  <2>4. /\ Moved(seen, p.index, highest - i).mask \subseteq Nat
        /\ \A b \in Moved(seen, p.index, highest - i).mask : highest' - b \in read \cup {i}
    BY <1>3, <1>4, <2>1, <2>2, <2>3, AcceptedMask, ZenonT(30)
  <2>5. seen'.init = TRUE /\ seen'.latest_seq = highest' % IndexCycle
    BY <1>3, <2>1, <2>2, <2>3 DEF Moved
  <2>6. WindowFollows'
    BY <1>1, <2>1, <2>4, <2>5, Zenon DEF WindowFollows
  <2>7. ASSUME WindowComplete, ReadOnce
        PROVE  WindowComplete' /\ ReadOnce'
    <3>1. \A j \in read : j <= highest /\ (Remembered(highest - j) => highest - j \in seen.mask)
      BY <1>7, <2>7, Zenon DEF WindowComplete, RtcpInv, IndexFollows
    <3>2. \A j \in read \cup {i} :
             Remembered(highest' - j) => highest' - j \in Moved(seen, p.index, highest - i).mask
      BY <1>3, <1>4, <2>1, <2>2, <2>3, <2>7, <3>1, AcceptedMask, Zenon
    <3>3. WindowComplete'
      BY <1>1, <2>1, <3>2, Zenon DEF WindowComplete
    <3>4. i \in read => Width(Window) <= highest - i /\ highest - i < Window
      <4>1. Window \in Nat /\ Width(Window) \in Int
        BY WindowAssumption DEF Width, Chunks, KeptOfLast
      <4> QED BY <1>3, <2>1, <3>1, <4>1 DEF Remembered
    <3>5. ReadOnce'
      BY <1>1, <2>7, <3>4, Zenon DEF ReadOnce
    <3> QED BY <3>3, <3>5, Zenon
  <2> QED BY <1>5, <2>6, <2>7, Zenon DEF RtcpInv
<1> QED BY <1>6, <1>7, Zenon

\* The invariant is inductive.
LEMMA RtcpStepInv == RtcpInv /\ [RtcpNext]_rtcpVars => RtcpInv'
<1> SUFFICES ASSUME RtcpInv, [RtcpNext]_rtcpVars PROVE RtcpInv'
  BY Zenon
<1>1. CASE UNCHANGED rtcpVars
  BY <1>1, Zenon DEF rtcpVars, RtcpInv, IndexFollows, WindowFollows
<1> QED BY <1>1, EncryptRtcpInv, DecryptRtcpInv, Zenon DEF RtcpNext

\* For every window and word size, across any number of wraps of the index, an
\* SRTCP packet is opened a second time only where a shift of the mask has dropped
\* its bit (decrypt_rtcp).
THEOREM ReportNeverTwice == RtcpSpec => []ReadOnce
<1>1. RtcpInit => RtcpInv /\ WindowComplete /\ ReadOnce
  BY RtcpInitInv, Zenon
<1>2. RtcpInv /\ WindowComplete /\ ReadOnce /\ [RtcpNext]_rtcpVars
         => (RtcpInv /\ WindowComplete /\ ReadOnce)'
  <2> SUFFICES ASSUME RtcpInv, WindowComplete, ReadOnce, [RtcpNext]_rtcpVars
               PROVE  WindowComplete' /\ ReadOnce'
    BY RtcpStepInv, Zenon
  <2>1. CASE UNCHANGED rtcpVars \/ EncryptRtcp
    BY <2>1 DEF rtcpVars, EncryptRtcp, WindowComplete, ReadOnce
  <2> QED BY <2>1, DecryptRtcpInv, Zenon DEF RtcpNext
<1> QED BY <1>1, <1>2, PTL DEF RtcpSpec

\* An SRTCP packet that arrives for the first time, and is not older than the
\* window, passes it (check in decrypt_rtcp).
THEOREM FreshReportReads == RtcpSpec => []FreshReads
<1>1. RtcpInv => FreshReads
  <2> SUFFICES ASSUME RtcpInv, NEW p \in reports, Pending(p), p.num \notin read, highest - p.num < Window
               PROVE  Readable(p)
    BY Zenon DEF FreshReads
  <2>1. CASE read = {}
    BY <2>1, FirstReport, Zenon
  <2>2. CASE read # {}
    <3>1. /\ p.num \in Nat /\ highest \in Nat /\ Window_at(p) = seen
          /\ behind(seen, p.index, IndexCycle - 1) = highest - p.num
      BY <2>2, LaterReport, Zenon
    <3>2. highest - p.num \notin seen.mask
      <4>1. highest - (highest - p.num) = p.num
        BY <3>1
      <4> QED BY <2>2, <4>1, Zenon DEF RtcpInv, WindowFollows
    <3> QED BY <3>1, <3>2, Zenon DEF Readable, passes
  <2> QED BY <2>1, <2>2, Zenon
<1> QED BY <1>1, RtcpInitInv, RtcpStepInv, PTL DEF RtcpSpec
=============================================================================
