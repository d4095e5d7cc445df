---------------------------- MODULE ReportsProofs ----------------------------
(***************************************************************************)
(* Proofs about the sender and receiver reports (Reports), for any sequence *)
(* space that the bitmap divides, any order of packets within the reach of  *)
(* the bitmap and any losses: a receiver report counts each missing packet  *)
(* once, and a sender report maps the clocks as the sampling clock runs.    *)
(***************************************************************************)
EXTENDS Reports, FiniteSetTheorems, TLAPS

\* Division with remainder.
LEMMA DivMod ==
    ASSUME NEW C \in Nat \ {0}, NEW x \in Int
    PROVE  x \div C \in Int /\ x % C \in 0 .. C - 1 /\ x = C * (x \div C) + (x % C)
OBVIOUS

\* A multiple between -C and C.
LEMMA NoMultiple == ASSUME NEW C \in Nat \ {0}, NEW k \in Int, -C < C * k, C * k < C PROVE k = 0
<1>1. CASE k >= 1 BY <1>1, C * k >= C * 1
<1>2. CASE k <= -1 BY <1>2, C * k <= C * (-1)
<1> QED BY <1>1, <1>2

\* What is left by a division is determined by it.
LEMMA Remainder ==
    ASSUME NEW C \in Nat \ {0}, NEW x \in Int, NEW q \in Int, NEW r \in 0 .. C - 1, x = C * q + r
    PROVE  x \div C = q /\ x % C = r
<1>1. x \div C \in Int /\ x % C \in 0 .. C - 1 /\ x = C * (x \div C) + (x % C) BY DivMod, Zenon
<1> DEFINE k == (x \div C) - q
<1>2. k \in Int BY <1>1
<1>3. C * k = C * (x \div C) - C * q BY <1>1
<1>4. C * k = r - (x % C)
  <2> DEFINE u == C * (x \div C)
  <2> DEFINE v == C * q
  <2>1. u \in Int /\ v \in Int BY <1>1
  <2>2. x = u + (x % C) /\ x = v + r /\ C * k = u - v BY <1>1, <1>3, Zenon
  <2> HIDE DEF u, v, k
  <2> QED BY <1>1, <2>1, <2>2
<1> HIDE DEF k
<1>5. k = 0 BY <1>1, <1>2, <1>4, NoMultiple
<1>6. x \div C = q BY <1>1, <1>5 DEF k
<1> QED BY <1>1, <1>4, <1>5, <1>6

\* Whole cycles do not count.
LEMMA Period == ASSUME NEW C \in Nat \ {0}, NEW x \in Int, NEW k \in Int PROVE (x + C * k) % C = x % C
<1>1. x \div C \in Int /\ x % C \in 0 .. C - 1 /\ x = C * (x \div C) + (x % C) BY DivMod, Zenon
<1> DEFINE q == (x \div C) + k
<1>2. q \in Int BY <1>1
<1>3. C * q = C * (x \div C) + C * k BY <1>1
<1>4. x + C * k = C * q + (x % C) BY <1>1, <1>3
<1>5. C * k \in Int OBVIOUS
<1> HIDE DEF q
<1>6. x + C * k \in Int BY <1>5
<1> QED BY <1>1, <1>2, <1>4, <1>6, Remainder, Zenon

\* One more, when whole cycles were left out before.
LEMMA OneMore == ASSUME NEW C \in Nat \ {0}, NEW x \in Int PROVE ((x % C) + 1) % C = (x + 1) % C
<1>1. x \div C \in Int /\ x % C \in 0 .. C - 1 /\ x = C * (x \div C) + (x % C) BY DivMod, Zenon
<1> DEFINE q == x \div C
<1> DEFINE r == (x % C) + 1
<1> DEFINE u == C * q
<1>2. q \in Int /\ r \in Int /\ u \in Int BY <1>1
<1>3. x + 1 = r + C * q
  <2>1. x = u + (x % C) BY <1>1, Zenon
  <2>2. r = (x % C) + 1 /\ x % C \in Int BY <1>1
  <2> HIDE DEF u, r
  <2>3. x + 1 = r + u BY <1>2, <2>1, <2>2
  <2> QED BY <2>3, Zenon DEF u
<1> HIDE DEF q, r, u
<1>4. (r + C * q) % C = r % C BY <1>2, Period, Zenon
<1> QED BY <1>3, <1>4, Zenon DEF r

\* Numbers less than a cycle apart are told apart.
LEMMA Apart ==
    ASSUME NEW C \in Nat \ {0}, NEW a \in Int, NEW b \in Int, a # b, -C < a - b, a - b < C
    PROVE  a % C # b % C
<1>1. /\ a \div C \in Int /\ a % C \in 0 .. C - 1 /\ a = C * (a \div C) + (a % C)
      /\ b \div C \in Int /\ b % C \in 0 .. C - 1 /\ b = C * (b \div C) + (b % C)
      BY DivMod, Zenon
<1> SUFFICES ASSUME a % C = b % C PROVE FALSE BY Zenon
<1> DEFINE k == (a \div C) - (b \div C)
<1>2. k \in Int BY <1>1
<1>3. C * k = C * (a \div C) - C * (b \div C) BY <1>1
<1>4. C * k = a - b BY <1>1, <1>3
<1> HIDE DEF k
<1>5. k = 0 BY <1>2, <1>4, NoMultiple, Zenon
<1> QED BY <1>4, <1>5

\* The numbers of the parameters.
LEMMA Spaces ==
    ASSUME Parameters
    PROVE  /\ Capacity \in Nat \ {0} /\ SeqSpace \in Nat \ {0} /\ TsSpace \in Nat \ {0}
           /\ SeqSpace \div 2 \in Nat /\ Capacity < SeqSpace \div 2 /\ 2 * (SeqSpace \div 2) <= SeqSpace
           /\ Reorder \in Nat /\ Reorder < Capacity /\ StartTime \in Nat /\ FirstPacket \in Nat /\ Interval \in Nat
           /\ SeqSpace \div Capacity \in Int /\ SeqSpace = Capacity * (SeqSpace \div Capacity)
           /\ CycleSpace \in Nat \ {0} /\ MAX_LOST \in Nat /\ Capacity <= MAX_LOST
<1>1. Capacity \in Nat \ {0} /\ SeqSpace \in Nat /\ SeqSpace % Capacity = 0 /\ Capacity < SeqSpace \div 2
      BY Zenon DEF Parameters
<1>2. SeqSpace \div 2 \in Nat /\ 2 * (SeqSpace \div 2) <= SeqSpace BY <1>1
<1>3. SeqSpace \in Nat \ {0} BY <1>1, <1>2
<1>4. SeqSpace \div Capacity \in Int /\ SeqSpace = Capacity * (SeqSpace \div Capacity) + (SeqSpace % Capacity)
      BY <1>1, DivMod
<1>5. SeqSpace = Capacity * (SeqSpace \div Capacity) BY <1>1, <1>4
<1> QED BY <1>1, <1>2, <1>3, <1>4, <1>5, Zenon DEF Parameters

\* The place of a number in the bitmap is that of its sequence number.
LEMMA Place ==
    ASSUME Parameters, NEW n \in Int, NEW d \in Int
    PROVE  (Seq_of(n) + d) % Capacity = (n + d) % Capacity
<1> DEFINE m == SeqSpace \div Capacity
<1> DEFINE q == n \div SeqSpace
<1>0. SeqSpace \in Nat \ {0} /\ m \in Int /\ SeqSpace = Capacity * m /\ Capacity \in Nat \ {0} BY Spaces, Zenon
<1>9. q \in Int /\ n % SeqSpace \in Int /\ n = SeqSpace * q + (n % SeqSpace) BY <1>0, DivMod
<1>1. /\ q \in Int /\ Seq_of(n) \in Int /\ n = SeqSpace * q + Seq_of(n)
      /\ m \in Int /\ SeqSpace = Capacity * m /\ Capacity \in Nat \ {0}
      BY <1>0, <1>9, Zenon DEF Seq_of
<1> HIDE DEF m, q
<1>2. SeqSpace * q = Capacity * (m * q) /\ m * q \in Int BY <1>1
<1> DEFINE x == Seq_of(n) + d
<1> DEFINE k == m * q
<1>3. x \in Int /\ k \in Int BY <1>1, <1>2
<1>4. n + d = x + Capacity * k
  <2>1. n + d = SeqSpace * q + Seq_of(n) + d BY <1>1, Zenon
  <2>2. SeqSpace * q \in Int BY <1>1
  <2> QED BY <1>1, <1>2, <2>1, <2>2
<1> HIDE DEF x, k
<1>5. (x + Capacity * k) % Capacity = x % Capacity BY <1>1, <1>3, Period, Zenon
<1> QED BY <1>4, <1>5, Zenon DEF x

\* The difference of sequence numbers is that of the numbers, up to whole cycles.
LEMMA Differ == ASSUME Parameters, NEW a \in Int, NEW b \in Int PROVE Diff(Seq_of(a), Seq_of(b)) = (a - b) % SeqSpace
<1>0. SeqSpace \in Nat \ {0} BY Spaces, Zenon
<1>1. /\ SeqSpace \in Nat \ {0}
      /\ a \div SeqSpace \in Int /\ a % SeqSpace \in Int /\ a = SeqSpace * (a \div SeqSpace) + (a % SeqSpace)
      /\ b \div SeqSpace \in Int /\ b % SeqSpace \in Int /\ b = SeqSpace * (b \div SeqSpace) + (b % SeqSpace)
      BY <1>0, DivMod
<1> DEFINE k == (a \div SeqSpace) - (b \div SeqSpace)
<1> DEFINE x == Seq_of(a) - Seq_of(b)
<1>2. k \in Int /\ x \in Int BY <1>1 DEF Seq_of
<1>3. SeqSpace * k = SeqSpace * (a \div SeqSpace) - SeqSpace * (b \div SeqSpace) BY <1>1
<1>4. a - b = x + SeqSpace * k BY <1>1, <1>3 DEF Seq_of
<1>5. Diff(Seq_of(a), Seq_of(b)) = x % SeqSpace BY Zenon DEF Diff
<1> HIDE DEF k, x
<1>6. (x + SeqSpace * k) % SeqSpace = x % SeqSpace BY <1>1, <1>2, Period, Zenon
<1> QED BY <1>4, <1>5, <1>6, Zenon

\* A later number is seen to be later, and by how much.
LEMMA Ahead ==
    ASSUME Parameters, NEW a \in Int, NEW b \in Int, a >= b, a - b < SeqSpace \div 2
    PROVE  /\ Diff(Seq_of(a), Seq_of(b)) = a - b
           /\ a > b => Forward(Diff(Seq_of(a), Seq_of(b)))
           /\ a = b => ~ Forward(Diff(Seq_of(a), Seq_of(b)))
<1>1. SeqSpace \in Nat \ {0} /\ SeqSpace \div 2 \in Nat /\ 2 * (SeqSpace \div 2) <= SeqSpace BY Spaces, Zenon
<1>2. a - b \in 0 .. SeqSpace - 1 /\ a - b \in Int BY <1>1
<1>3. a - b = SeqSpace * 0 + (a - b) BY <1>1, <1>2
<1>4. (a - b) % SeqSpace = a - b BY <1>1, <1>2, <1>3, Remainder
<1>5. Diff(Seq_of(a), Seq_of(b)) = a - b BY <1>4, Differ, Zenon
<1> QED BY <1>1, <1>2, <1>5 DEF Forward

\* An earlier number is not taken for a later one.
LEMMA Before ==
    ASSUME Parameters, NEW a \in Int, NEW b \in Int, a <= b, b - a <= Capacity
    PROVE  ~ Forward(Diff(Seq_of(a), Seq_of(b)))
<1>1. /\ SeqSpace \in Nat \ {0} /\ SeqSpace \div 2 \in Nat /\ 2 * (SeqSpace \div 2) <= SeqSpace
      /\ Capacity \in Nat /\ Capacity < SeqSpace \div 2
      BY Spaces, Zenon
<1>2. CASE a = b BY <1>1, <1>2, Ahead
<1>3. CASE a < b
  <2>1. a - b + SeqSpace \in 0 .. SeqSpace - 1 /\ a - b \in Int BY <1>1, <1>3
  <2>2. a - b = SeqSpace * (-1) + (a - b + SeqSpace) BY <1>1
  <2>3. (a - b) % SeqSpace = a - b + SeqSpace BY <1>1, <2>1, <2>2, Remainder
  <2>4. Diff(Seq_of(a), Seq_of(b)) = a - b + SeqSpace BY <2>3, Differ, Zenon
  <2> QED BY <1>1, <1>3, <2>1, <2>4 DEF Forward
<1> QED BY <1>2, <1>3

\* The greatest number once another is added.
LEMMA Added ==
    ASSUME NEW S \in SUBSET Int, Topped(S), NEW n \in Int
    PROVE  Topped(S \cup {n}) /\ Max(S \cup {n}) = IF S = {} \/ n > Max(S) THEN n ELSE Max(S)
<1> DEFINE T == S \cup {n}
<1> DEFINE h == IF S = {} \/ n > Max(S) THEN n ELSE Max(S)
<1>1. h \in T /\ \A m \in T : m <= h
  <2>1. CASE S = {} BY <2>1
  <2>2. CASE S # {}
    <3> DEFINE g == Max(S)
    <3>1. g \in S /\ \A m \in S : m <= g BY <2>2, Zenon DEF Topped
    <3>2. h = IF n > g THEN n ELSE g BY <2>2, Zenon
    <3> HIDE DEF g, h
    <3> QED BY <3>1, <3>2
  <2> QED BY <2>1, <2>2, Zenon
<1>2. T \in SUBSET Int BY Zenon
<1> HIDE DEF T, h
<1>3. Max(T) \in T /\ \A m \in T : m <= Max(T)
  <2>1. \E x \in T : \A y \in T : x >= y
    <3>1. \A y \in T : h >= y BY <1>1, <1>2, Zenon
    <3> QED BY <1>1, <3>1, Zenon
  <2>2. Max(T) \in T /\ \A y \in T : Max(T) >= y BY <2>1, Zenon DEF Max
  <2> QED BY <1>2, <2>2, Zenon
<1>4. Max(T) = h
  <2>1. Max(T) \in Int /\ h \in Int BY <1>1, <1>2, <1>3, Zenon
  <2>2. Max(T) <= h /\ h <= Max(T) BY <1>1, <1>3, Zenon
  <2> QED BY <2>1, <2>2
<1> QED BY <1>3, <1>4, Zenon DEF Topped, T, h

\* What a packet leaves of the receiver: the bit of the packet,
LEMMA BitSet ==
    ASSUME NEW r, DOMAIN r = ReceiverFields, NEW seq
    PROVE  /\ DOMAIN set_received(r, seq) = ReceiverFields
           /\ set_received(r, seq).packets = r.packets \cup {seq % Capacity}
           /\ set_received(r, seq).total_lost = r.total_lost
           /\ set_received(r, seq).seq_num_cycles = r.seq_num_cycles
           /\ set_received(r, seq).last_seq_num = r.last_seq_num
           /\ set_received(r, seq).last_report_seq_num = r.last_report_seq_num
           /\ set_received(r, seq).started = r.started
BY Zenon DEF set_received, ReceiverFields

\* of the first,
LEMMA ReceiverFirst ==
    ASSUME NEW r, DOMAIN r = ReceiverFields, NEW seq, ~ r.started, NEW x, x = receiver_process_rtp(r, seq)
    PROVE  /\ DOMAIN x = ReceiverFields /\ x.started /\ x.total_lost = r.total_lost
           /\ x.packets = r.packets \cup {seq % Capacity} /\ x.seq_num_cycles = r.seq_num_cycles
           /\ x.last_seq_num = seq /\ x.last_report_seq_num = Diff(seq, 1)
<1> DEFINE w == set_received(r, seq)
<1>1. x = [w EXCEPT !.started = TRUE, !.last_seq_num = seq, !.last_report_seq_num = Diff(seq, 1)]
      BY Zenon DEF receiver_process_rtp
<1>2. /\ DOMAIN w = ReceiverFields /\ w.packets = r.packets \cup {seq % Capacity} /\ w.total_lost = r.total_lost
      /\ w.seq_num_cycles = r.seq_num_cycles
      BY BitSet, Zenon
<1> HIDE DEF w
<1> QED BY <1>1, <1>2, Zenon DEF ReceiverFields

\* of a later
AfterLater(r, seq, x) ==
    /\ DOMAIN x = ReceiverFields /\ x.started /\ x.total_lost = r.total_lost
    /\ x.packets = clear_run(r.packets \cup {seq % Capacity}, Capacity, r.last_seq_num + 1, Diff(seq, r.last_seq_num) - 1)
    /\ seq < r.last_seq_num => x.seq_num_cycles = (r.seq_num_cycles + 1) % CycleSpace
    /\ ~ (seq < r.last_seq_num) => x.seq_num_cycles = r.seq_num_cycles
    /\ x.last_seq_num = seq /\ x.last_report_seq_num = r.last_report_seq_num
LEMMA ReceiverLater ==
    ASSUME NEW r, DOMAIN r = ReceiverFields, NEW seq, r.started, Forward(Diff(seq, r.last_seq_num))
    PROVE  AfterLater(r, seq, receiver_process_rtp(r, seq))
<1> DEFINE x == receiver_process_rtp(r, seq)
<1> DEFINE w == set_received(r, seq)
<1> DEFINE bits == clear_run(w.packets, Capacity, w.last_seq_num + 1, Diff(seq, r.last_seq_num) - 1)
<1> DEFINE c == IF seq < w.last_seq_num THEN (w.seq_num_cycles + 1) % CycleSpace ELSE w.seq_num_cycles
<1>1. x = [w EXCEPT !.seq_num_cycles = c, !.packets = bits, !.last_seq_num = seq]
      BY Zenon DEF receiver_process_rtp, Later
<1> HIDE DEF x
<1>2. /\ DOMAIN w = ReceiverFields /\ w.packets = r.packets \cup {seq % Capacity} /\ w.total_lost = r.total_lost
      /\ w.last_seq_num = r.last_seq_num /\ w.seq_num_cycles = r.seq_num_cycles
      /\ w.last_report_seq_num = r.last_report_seq_num /\ w.started = r.started
      BY BitSet, Zenon
<1> HIDE DEF w
<1>3. /\ c = IF seq < r.last_seq_num THEN (r.seq_num_cycles + 1) % CycleSpace ELSE r.seq_num_cycles
      /\ bits = clear_run(r.packets \cup {seq % Capacity}, Capacity, r.last_seq_num + 1, Diff(seq, r.last_seq_num) - 1)
      BY <1>2, Zenon
<1> HIDE DEF c, bits
<1>4. /\ DOMAIN x = ReceiverFields /\ x.started = w.started /\ x.total_lost = w.total_lost /\ x.packets = bits
      /\ x.seq_num_cycles = c /\ x.last_seq_num = seq /\ x.last_report_seq_num = w.last_report_seq_num
      BY <1>1, <1>2, Zenon DEF ReceiverFields
<1>5. AfterLater(r, seq, x) BY <1>2, <1>3, <1>4, Zenon DEF AfterLater
<1> QED BY <1>5, Zenon DEF x

\* and of a late one.
LEMMA ReceiverLate ==
    ASSUME NEW r, DOMAIN r = ReceiverFields, NEW seq, r.started, NEW x, x = receiver_process_rtp(r, seq),
           ~ Forward(Diff(seq, r.last_seq_num))
    PROVE  /\ DOMAIN x = ReceiverFields /\ x.started /\ x.total_lost = r.total_lost
           /\ x.packets = r.packets \cup {seq % Capacity} /\ x.seq_num_cycles = r.seq_num_cycles
           /\ x.last_seq_num = r.last_seq_num /\ x.last_report_seq_num = r.last_report_seq_num
<1>1. x = set_received(r, seq) BY Zenon DEF receiver_process_rtp
<1> QED BY <1>1, BitSet

\* The run that is cleared: the places of the numbers after b, up to a.
LEMMA Cleared ==
    ASSUME Parameters, NEW a \in Int, NEW b \in Int, a > b, a - b <= Capacity, NEW bits, NEW n \in Int
    PROVE  /\ n > b /\ n < a => n % Capacity \notin clear_run(bits, Capacity, Seq_of(b) + 1, a - b - 1)
           /\ (n <= b /\ a - n <= Capacity) \/ n = a
                => (n % Capacity \in clear_run(bits, Capacity, Seq_of(b) + 1, a - b - 1) <=> n % Capacity \in bits)
<1> DEFINE run == {(Seq_of(b) + 1 + o) % Capacity : o \in 0 .. a - b - 2}
<1>1. Capacity \in Nat \ {0} BY Spaces, Zenon
<1>2. clear_run(bits, Capacity, Seq_of(b) + 1, a - b - 1) = bits \ run
  <2>1. a - b - 1 < Capacity /\ a - b - 1 - 1 = a - b - 2 BY <1>1
  <2> QED BY <1>1, <2>1 DEF clear_run
<1>3. \A o \in 0 .. a - b - 2 : (Seq_of(b) + 1 + o) % Capacity = (b + 1 + o) % Capacity
  <2> SUFFICES ASSUME NEW o \in 0 .. a - b - 2 PROVE (Seq_of(b) + 1 + o) % Capacity = (b + 1 + o) % Capacity BY Zenon
  <2> DEFINE d == 1 + o
  <2>1. d \in Int OBVIOUS
  <2>2. SeqSpace \in Nat \ {0} BY Spaces, Zenon
  <2>3. Seq_of(b) \in Int BY <2>2, DivMod DEF Seq_of
  <2>4. Seq_of(b) + 1 + o = Seq_of(b) + d /\ b + 1 + o = b + d BY <2>3
  <2> HIDE DEF d
  <2> QED BY <2>1, <2>4, Place, Zenon
<1>4. ASSUME n > b, n < a PROVE n % Capacity \in run
  <2> DEFINE o == n - b - 1
  <2>1. o \in 0 .. a - b - 2 /\ b + 1 + o = n BY <1>4
  <2> HIDE DEF o
  <2> QED BY <1>3, <2>1, Zenon
<1>5. ASSUME (n <= b /\ a - n <= Capacity) \/ n = a PROVE n % Capacity \notin run
  <2> SUFFICES ASSUME NEW o \in 0 .. a - b - 2, n % Capacity = (b + 1 + o) % Capacity PROVE FALSE BY <1>3, Zenon
  <2> DEFINE m == b + 1 + o
  <2>1. m \in Int /\ m > b /\ m < a OBVIOUS
  <2> HIDE DEF m
  <2>2. n # m /\ -Capacity < n - m /\ n - m < Capacity BY <1>1, <1>5, <2>1
  <2>3. n % Capacity # m % Capacity BY <1>1, <2>1, <2>2, Apart, Zenon
  <2> QED BY <2>3, Zenon DEF m
<1> HIDE DEF run
<1> QED BY <1>2, <1>4, <1>5, Zenon

\* Between two numbers less than the space apart, the sequence number wraps once or not at all.
LEMMA Wraps ==
    ASSUME Parameters, NEW a \in Int, NEW b \in Int, a > b, a - b <= Capacity
    PROVE  /\ Seq_of(a) < Seq_of(b) => a \div SeqSpace = (b \div SeqSpace) + 1
           /\ ~ (Seq_of(a) < Seq_of(b)) => a \div SeqSpace = b \div SeqSpace
<1>1. SeqSpace \in Nat \ {0} /\ a - b < SeqSpace
  <2>1. /\ SeqSpace \in Nat \ {0} /\ Capacity \in Nat /\ SeqSpace \div 2 \in Nat
        /\ Capacity < SeqSpace \div 2 /\ 2 * (SeqSpace \div 2) <= SeqSpace
        BY Spaces, Zenon
  <2> QED BY <2>1
<1>2. /\ a \div SeqSpace \in Int /\ Seq_of(a) \in 0 .. SeqSpace - 1 /\ a = SeqSpace * (a \div SeqSpace) + Seq_of(a)
      /\ b \div SeqSpace \in Int /\ Seq_of(b) \in 0 .. SeqSpace - 1 /\ b = SeqSpace * (b \div SeqSpace) + Seq_of(b)
      BY <1>1, DivMod, Zenon DEF Seq_of
<1> DEFINE k == (a \div SeqSpace) - (b \div SeqSpace)
<1> DEFINE x == Seq_of(a) - Seq_of(b)
<1> DEFINE u == SeqSpace * k
<1>3. k \in Int /\ x \in Int /\ -SeqSpace < x /\ x < SeqSpace BY <1>1, <1>2
<1>4. u = SeqSpace * (a \div SeqSpace) - SeqSpace * (b \div SeqSpace) BY <1>1, <1>2
<1>5. u = a - b - x
  <2> DEFINE v == SeqSpace * (a \div SeqSpace)
  <2> DEFINE w == SeqSpace * (b \div SeqSpace)
  <2>1. v \in Int /\ w \in Int BY <1>1, <1>2
  <2>2. u = v - w /\ a = v + Seq_of(a) /\ b = w + Seq_of(b) BY <1>2, <1>4, Zenon
  <2> HIDE DEF u, v, w
  <2> QED BY <1>2, <2>1, <2>2
<1>6. SeqSpace * (k - 1) = u - SeqSpace BY <1>1, <1>3
<1> HIDE DEF k
<1>7. ASSUME Seq_of(a) < Seq_of(b) PROVE k = 1
  <2>1. x < 0 BY <1>2, <1>7
  <2> HIDE DEF x, u
  <2>2. -SeqSpace < u - SeqSpace /\ u - SeqSpace < SeqSpace BY <1>1, <1>3, <1>5, <2>1
  <2>3. k - 1 \in Int /\ -SeqSpace < SeqSpace * (k - 1) /\ SeqSpace * (k - 1) < SeqSpace BY <1>3, <1>6, <2>2
  <2>4. k - 1 = 0 BY <1>1, <2>3, NoMultiple, Zenon
  <2> QED BY <1>3, <2>4
<1>8. ASSUME ~ (Seq_of(a) < Seq_of(b)) PROVE k = 0
  <2>1. x >= 0 BY <1>2, <1>8
  <2>2. -SeqSpace < u /\ u < SeqSpace
    <3> HIDE DEF x, u
    <3> QED BY <1>1, <1>3, <1>5, <2>1
  <2> QED BY <1>1, <1>3, <2>2, NoMultiple, Zenon
<1> QED BY <1>2, <1>7, <1>8 DEF k

\* A packet keeps the receiver on the track: the first,
LEMMA FirstArrives ==
    ASSUME Parameters, TypeOK, Tracked, NEW n \in FirstPacket .. plan.last, ReadRtp(n), arrived = {}
    PROVE  Tracked'
<1>1. /\ FirstPacket \in Nat /\ plan.last \in Nat /\ n \in Int /\ arrived \subseteq Int /\ DOMAIN receiver = ReceiverFields
      /\ Topped(arrived)
      BY Spaces DEF TypeOK
<1>2. arrived' = {n} /\ base' = n /\ reported' = n - 1 /\ receiver' = receiver_process_rtp(receiver, Seq_of(n))
      BY Zenon DEF ReadRtp
<1>3. Max(arrived') = n BY <1>1, <1>2, Added, Zenon
<1>4. ~ receiver.started /\ receiver.packets = {} /\ receiver.seq_num_cycles = 0 BY Zenon DEF Tracked
<1>5. /\ receiver'.started /\ receiver'.packets = {Seq_of(n) % Capacity} /\ receiver'.seq_num_cycles = 0
      /\ receiver'.last_seq_num = Seq_of(n) /\ receiver'.last_report_seq_num = Diff(Seq_of(n), 1)
      BY <1>1, <1>2, <1>4, ReceiverFirst
<1>6. Seq_of(n) % Capacity = n % Capacity
  <2>1. SeqSpace \in Nat \ {0} BY Spaces, Zenon
  <2>2. Seq_of(n) \in Int BY <1>1, <2>1, DivMod DEF Seq_of
  <2>3. (Seq_of(n) + 0) % Capacity = (n + 0) % Capacity BY <1>1, Place
  <2> QED BY <1>1, <2>2, <2>3
<1>7. Diff(Seq_of(n), 1) = Seq_of(n - 1)
  <2>1. SeqSpace \in Nat \ {0} BY Spaces, Zenon
  <2>2. Seq_of(n) \in Int /\ n \div SeqSpace \in Int /\ n = SeqSpace * (n \div SeqSpace) + Seq_of(n)
        BY <1>1, <2>1, DivMod DEF Seq_of
  <2> DEFINE q == n \div SeqSpace
  <2> DEFINE x == Seq_of(n) - 1
  <2>3. x \in Int /\ q \in Int BY <2>2
  <2>4. n - 1 = x + SeqSpace * q
    <3> DEFINE u == SeqSpace * q
    <3>1. u \in Int BY <2>1, <2>2
    <3>2. n = u + Seq_of(n) BY <2>2, Zenon
    <3> HIDE DEF u
    <3>3. n - 1 = x + u BY <2>2, <3>1, <3>2
    <3> QED BY <3>3, Zenon DEF u
  <2> HIDE DEF x, q
  <2>5. (x + SeqSpace * q) % SeqSpace = x % SeqSpace BY <2>1, <2>3, Period, Zenon
  <2> QED BY <2>4, <2>5, Zenon DEF x, Seq_of, Diff
<1>8. /\ n - 1 \in Int /\ n - 1 <= n /\ n - (n - 1) <= Capacity /\ n - 1 + 1 .. n = {n}
      /\ (n \div SeqSpace - n \div SeqSpace) % CycleSpace = 0
  <2>1. SeqSpace \in Nat \ {0} /\ Capacity \in Nat \ {0} /\ CycleSpace \in Nat \ {0} BY Spaces, Zenon
  <2>2. n \div SeqSpace \in Int BY <1>1, <2>1, DivMod, Zenon
  <2>3. 0 % CycleSpace = 0
    <3>1. 0 = CycleSpace * 0 + 0 /\ 0 \in 0 .. CycleSpace - 1 /\ 0 \in Int BY <2>1
    <3> QED BY <2>1, <3>1, Remainder, Zenon
  <2>4. n \div SeqSpace - n \div SeqSpace = 0 BY <2>2
  <2>5. (n \div SeqSpace - n \div SeqSpace) % CycleSpace = 0 BY <2>3, <2>4, Zenon
  <2>6. n - 1 \in Int /\ n - 1 <= n /\ n - (n - 1) <= Capacity /\ n - 1 + 1 .. n = {n} BY <1>1, <2>1
  <2> QED BY <2>5, <2>6, Zenon
<1>9. \A m \in reported' + 1 .. Max(arrived') : m % Capacity \in receiver'.packets <=> m \in arrived'
  <2>1. reported' + 1 .. Max(arrived') = {n} BY <1>2, <1>3, <1>8, Zenon
  <2>2. n % Capacity \in receiver'.packets /\ n \in arrived' BY <1>2, <1>5, <1>6, Zenon
  <2> QED BY <2>1, <2>2, Zenon
<1> QED BY <1>2, <1>3, <1>5, <1>7, <1>8, <1>9, Zenon DEF Tracked

\* a later one,
LEMMA LaterArrives ==
    ASSUME Parameters, TypeOK, Tracked, NEW n \in FirstPacket .. plan.last, ReadRtp(n), arrived # {}, n > Max(arrived)
    PROVE  Tracked'
<1> DEFINE h == Max(arrived)
<1> DEFINE bits == clear_run(receiver.packets \cup {Seq_of(n) % Capacity}, Capacity, Seq_of(h) + 1, n - h - 1)
<1>1. /\ FirstPacket \in Nat /\ plan.last \in Nat /\ n \in Int /\ arrived \subseteq Int /\ DOMAIN receiver = ReceiverFields
      /\ Topped(arrived) /\ h \in Int /\ Capacity \in Nat \ {0} /\ Capacity < SeqSpace \div 2 /\ SeqSpace \in Nat \ {0}
      /\ SeqSpace \div 2 \in Nat /\ \A m \in arrived : m <= h
  <2>1. /\ FirstPacket \in Nat /\ Capacity \in Nat \ {0} /\ Capacity < SeqSpace \div 2 /\ SeqSpace \in Nat \ {0}
        /\ SeqSpace \div 2 \in Nat
        BY Spaces, Zenon
  <2>2. /\ plan.last \in Nat /\ Topped(arrived) /\ arrived \subseteq FirstPacket .. plan.last
        /\ DOMAIN receiver = ReceiverFields
        BY Zenon DEF TypeOK
  <2>3. h \in arrived /\ \A m \in arrived : m <= h BY <2>2, Zenon DEF Topped
  <2>4. n \in Int /\ arrived \subseteq Int BY <2>1, <2>2
  <2> HIDE DEF h
  <2> QED BY <2>1, <2>2, <2>3, <2>4, Zenon
<1>2. /\ arrived' = arrived \cup {n} /\ base' = base /\ reported' = reported
      /\ receiver' = receiver_process_rtp(receiver, Seq_of(n)) /\ n - reported <= Capacity
      BY Zenon DEF ReadRtp
<1>3. Max(arrived') = n BY <1>1, <1>2, Added, Zenon
<1>4. /\ receiver.started /\ receiver.last_seq_num = Seq_of(h) /\ receiver.last_report_seq_num = Seq_of(reported)
      /\ receiver.seq_num_cycles = (h \div SeqSpace - base \div SeqSpace) % CycleSpace
      /\ base \in arrived /\ reported \in Int /\ reported <= h
      /\ \A m \in reported + 1 .. h : m % Capacity \in receiver.packets <=> m \in arrived
      BY Zenon DEF Tracked
<1>5. n - h <= Capacity /\ n - h < SeqSpace \div 2 /\ n > h BY <1>1, <1>2, <1>4
<1>6. Diff(Seq_of(n), Seq_of(h)) = n - h /\ Forward(Diff(Seq_of(n), Seq_of(h)))
  <2> HIDE DEF h
  <2> QED BY <1>1, <1>5, Ahead
<1>7. /\ receiver'.started /\ receiver'.packets = bits
      /\ Seq_of(n) < Seq_of(h) => receiver'.seq_num_cycles = (receiver.seq_num_cycles + 1) % CycleSpace
      /\ ~ (Seq_of(n) < Seq_of(h)) => receiver'.seq_num_cycles = receiver.seq_num_cycles
      /\ receiver'.last_seq_num = Seq_of(n) /\ receiver'.last_report_seq_num = Seq_of(reported)
  <2>1. receiver.started /\ Forward(Diff(Seq_of(n), receiver.last_seq_num)) BY <1>4, <1>6, Zenon
  <2>2. AfterLater(receiver, Seq_of(n), receiver_process_rtp(receiver, Seq_of(n))) BY <1>1, <2>1, ReceiverLater, Zenon
  <2>3. AfterLater(receiver, Seq_of(n), receiver') BY <1>2, <2>2, Zenon
  <2> HIDE DEF h
  <2> QED BY <1>4, <1>6, <2>3, Zenon DEF AfterLater
<1>8. receiver'.seq_num_cycles = (n \div SeqSpace - base \div SeqSpace) % CycleSpace
  <2> HIDE DEF h
  <2>1. /\ Seq_of(n) < Seq_of(h) => n \div SeqSpace = (h \div SeqSpace) + 1
        /\ ~ (Seq_of(n) < Seq_of(h)) => n \div SeqSpace = h \div SeqSpace
        BY <1>1, <1>5, Wraps, Zenon
  <2>2. base \in Int BY <1>1, <1>4, Zenon
  <2>3. h \div SeqSpace \in Int /\ base \div SeqSpace \in Int BY <1>1, <2>2, DivMod, Zenon
  <2>4. CycleSpace \in Nat \ {0} BY Spaces, Zenon
  <2> DEFINE d == h \div SeqSpace - base \div SeqSpace
  <2>5. CASE Seq_of(n) < Seq_of(h)
    <3>1. receiver'.seq_num_cycles = ((d % CycleSpace) + 1) % CycleSpace BY <1>4, <1>7, <2>5, Zenon
    <3>2. d \in Int BY <2>3
    <3>3. n \div SeqSpace - base \div SeqSpace = d + 1 BY <2>1, <2>3, <2>5
    <3> HIDE DEF d
    <3> QED BY <2>4, <3>1, <3>2, <3>3, OneMore, Zenon
  <2>6. CASE ~ (Seq_of(n) < Seq_of(h)) BY <1>4, <1>7, <2>1, <2>6, Zenon
  <2> QED BY <2>5, <2>6, Zenon
<1> HIDE DEF bits
<1>9. ASSUME NEW m \in reported + 1 .. n PROVE m % Capacity \in bits <=> m \in arrived \cup {n}
  <2>1. m \in Int /\ n - m < Capacity /\ n - m <= Capacity BY <1>1, <1>2, <1>4
  <2> DEFINE all == receiver.packets \cup {Seq_of(n) % Capacity}
  <2>2. /\ m > h /\ m < n => m % Capacity \notin bits
        /\ (m <= h /\ n - m <= Capacity) \/ m = n => (m % Capacity \in bits <=> m % Capacity \in all)
    <3> HIDE DEF h, all
    <3> QED BY <1>1, <1>5, <2>1, Cleared, Zenon DEF bits, all
  <2>3. Seq_of(n) % Capacity = n % Capacity
    <3>1. Seq_of(n) \in Int BY <1>1, DivMod DEF Seq_of
    <3>2. (Seq_of(n) + 0) % Capacity = (n + 0) % Capacity BY <1>1, Place
    <3> QED BY <1>1, <3>1, <3>2
  <2>4. CASE m > h /\ m < n
    <3>1. m \notin arrived /\ m # n BY <1>1, <2>1, <2>4
    <3> QED BY <2>2, <2>4, <3>1, Zenon
  <2>5. CASE m = n
    <3>1. m % Capacity \in all BY <2>3, <2>5, Zenon
    <3> QED BY <2>2, <2>5, <3>1, Zenon
  <2>6. CASE m <= h
    <3>1. m # n /\ -Capacity < m - n /\ m - n < Capacity BY <1>1, <1>5, <2>1, <2>6
    <3>2. m % Capacity # n % Capacity BY <1>1, <2>1, <3>1, Apart, Zenon
    <3>3. m \in reported + 1 .. h BY <1>1, <1>4, <2>1, <2>6
    <3>4. m % Capacity \in receiver.packets <=> m \in arrived BY <1>4, <3>3, Zenon
    <3>5. m % Capacity \in all <=> m % Capacity \in receiver.packets BY <2>3, <3>2, Zenon
    <3>6. m % Capacity \in bits <=> m % Capacity \in all BY <2>1, <2>2, <2>6, Zenon
    <3> QED BY <3>1, <3>4, <3>5, <3>6, Zenon
  <2>7. m \in Int /\ h \in Int /\ n \in Int /\ m <= n BY <1>1, <2>1
  <2>8. (m > h /\ m < n) \/ m = n \/ m <= h
    <3> HIDE DEF h
    <3> QED BY <2>7
  <2> QED BY <2>4, <2>5, <2>6, <2>8, Zenon
<1>10. \A m \in reported' + 1 .. Max(arrived') : m % Capacity \in receiver'.packets <=> m \in arrived'
       BY <1>2, <1>3, <1>7, <1>9, Zenon
<1>11. reported <= n /\ n - reported <= Capacity /\ base \in arrived \cup {n} /\ arrived' # {}
       BY <1>1, <1>2, <1>4, <1>5
<1> QED BY <1>2, <1>3, <1>4, <1>7, <1>8, <1>10, <1>11, Zenon DEF Tracked

\* and a late one.
LEMMA LateArrives ==
    ASSUME Parameters, TypeOK, Tracked, NEW n \in FirstPacket .. plan.last, ReadRtp(n), arrived # {}, ~ (n > Max(arrived))
    PROVE  Tracked'
<1> DEFINE h == Max(arrived)
<1>1. /\ FirstPacket \in Nat /\ plan.last \in Nat /\ n \in Int /\ arrived \subseteq Int /\ DOMAIN receiver = ReceiverFields
      /\ Topped(arrived) /\ h \in Int /\ Capacity \in Nat \ {0} /\ Reorder \in Nat /\ Reorder < Capacity
  <2>1. FirstPacket \in Nat /\ Capacity \in Nat \ {0} /\ Reorder \in Nat /\ Reorder < Capacity BY Spaces, Zenon
  <2>2. /\ plan.last \in Nat /\ Topped(arrived) /\ arrived \subseteq FirstPacket .. plan.last
        /\ DOMAIN receiver = ReceiverFields
        BY Zenon DEF TypeOK
  <2>3. h \in arrived BY <2>2, Zenon DEF Topped
  <2>4. n \in Int /\ arrived \subseteq Int BY <2>1, <2>2
  <2> HIDE DEF h
  <2> QED BY <2>1, <2>2, <2>3, <2>4, Zenon
<1>2. /\ arrived' = arrived \cup {n} /\ base' = base /\ reported' = reported
      /\ receiver' = receiver_process_rtp(receiver, Seq_of(n)) /\ n >= h - Reorder
      BY Zenon DEF ReadRtp, Highest
<1>3. Max(arrived') = h BY <1>1, <1>2, Added, Zenon
<1>4. /\ receiver.started /\ receiver.last_seq_num = Seq_of(h) /\ receiver.last_report_seq_num = Seq_of(reported)
      /\ receiver.seq_num_cycles = (h \div SeqSpace - base \div SeqSpace) % CycleSpace
      /\ base \in arrived /\ reported \in Int /\ reported <= h /\ h - reported <= Capacity
      /\ \A m \in reported + 1 .. h : m % Capacity \in receiver.packets <=> m \in arrived
      BY Zenon DEF Tracked
<1>5. ~ Forward(Diff(Seq_of(n), Seq_of(h)))
  <2>1. n <= h /\ h - n <= Capacity BY <1>1, <1>2
  <2> HIDE DEF h
  <2> QED BY <1>1, <2>1, Before, Zenon
<1>6. /\ receiver'.started /\ receiver'.packets = receiver.packets \cup {Seq_of(n) % Capacity}
      /\ receiver'.seq_num_cycles = receiver.seq_num_cycles
      /\ receiver'.last_seq_num = receiver.last_seq_num /\ receiver'.last_report_seq_num = receiver.last_report_seq_num
  <2>1. DOMAIN receiver = ReceiverFields /\ receiver.started /\ ~ Forward(Diff(Seq_of(n), receiver.last_seq_num))
        BY <1>1, <1>4, <1>5, Zenon
  <2> QED BY <1>2, <2>1, ReceiverLate
<1>7. Seq_of(n) % Capacity = n % Capacity
  <2>1. SeqSpace \in Nat \ {0} BY Spaces, Zenon
  <2>2. Seq_of(n) \in Int BY <1>1, <2>1, DivMod DEF Seq_of
  <2>3. (Seq_of(n) + 0) % Capacity = (n + 0) % Capacity BY <1>1, Place
  <2> QED BY <1>1, <2>2, <2>3
<1>8. ASSUME NEW m \in reported + 1 .. h PROVE m % Capacity \in receiver'.packets <=> m \in arrived \cup {n}
  <2>1. CASE m = n BY <1>6, <1>7, <2>1, Zenon
  <2>2. CASE m # n
    <3>1. m \in Int /\ -Capacity < m - n /\ m - n < Capacity
      <4>1. m \in Int /\ m > reported /\ m <= h BY <1>1, <1>4
      <4>2. n <= h /\ n >= h - Reorder /\ h - reported <= Capacity /\ reported \in Int BY <1>1, <1>2, <1>4
      <4> HIDE DEF h
      <4> QED BY <1>1, <4>1, <4>2
    <3>2. m % Capacity # n % Capacity BY <1>1, <2>2, <3>1, Apart, Zenon
    <3>3. m % Capacity \in receiver.packets <=> m \in arrived BY <1>4, Zenon
    <3> QED BY <1>6, <1>7, <2>2, <3>2, <3>3, Zenon
  <2> QED BY <2>1, <2>2, Zenon
<1>9. \A m \in reported' + 1 .. Max(arrived') : m % Capacity \in receiver'.packets <=> m \in arrived'
      BY <1>2, <1>3, <1>8, Zenon
<1>10. base \in arrived' /\ arrived' # {} BY <1>2, <1>4, Zenon
<1> QED BY <1>2, <1>3, <1>4, <1>6, <1>9, <1>10, Zenon DEF Tracked

\* The zeros that a report counts are the packets that are missing.
LEMMA Counted ==
    ASSUME Parameters, TypeOK, Tracked, arrived # {}
    PROVE  /\ Total = Max(arrived) - reported /\ Total \in Nat
           /\ lost_since_report(receiver, Total) = Cardinality(LostSince)
           /\ Cardinality(LostSince) \in Nat
           /\ Total > 0 => Cardinality(LostSince) < Total
<1> DEFINE h == Max(arrived)
<1>1. FirstPacket \in Nat /\ Capacity \in Nat \ {0} /\ Capacity < SeqSpace \div 2 /\ SeqSpace \div 2 \in Nat
      BY Spaces, Zenon
<1>2. plan.last \in Nat /\ h \in arrived /\ arrived \subseteq FirstPacket .. plan.last BY Zenon DEF TypeOK, Topped
<1>3. /\ receiver.last_seq_num = Seq_of(h) /\ receiver.last_report_seq_num = Seq_of(reported)
      /\ reported \in Int /\ reported <= h /\ h - reported <= Capacity
      /\ \A m \in reported + 1 .. h : m % Capacity \in receiver.packets <=> m \in arrived
      BY Zenon DEF Tracked
<1> HIDE DEF h
<1>4. h \in Int BY <1>1, <1>2
<1>5. Total = h - reported
  <2>1. h >= reported /\ h - reported < SeqSpace \div 2 BY <1>1, <1>3, <1>4
  <2>2. Diff(Seq_of(h), Seq_of(reported)) = h - reported BY <1>3, <1>4, <2>1, Ahead, Zenon
  <2> QED BY <1>3, <2>2, Zenon DEF Total
<1>6. Total \in Nat BY <1>3, <1>4, <1>5
<1>7. LostSince = {n \in reported + 1 .. h : n \notin arrived} BY Zenon DEF LostSince, h
<1>8. CASE Total = 0
  <2>1. LostSince = {} BY <1>3, <1>4, <1>5, <1>7, <1>8
  <2>2. Cardinality(LostSince) = 0 BY <2>1, FS_EmptySet, Zenon
  <2>3. lost_since_report(receiver, Total) = 0 BY <1>8, Zenon DEF lost_since_report
  <2> QED BY <1>5, <1>6, <1>8, <2>2, <2>3, Zenon DEF h
<1>9. CASE Total # 0
  <2> DEFINE I == 0 .. Total - 2
  <2> DEFINE Z == {o \in I : reported + 1 + o \notin arrived}
  <2>1. Total - 2 \in Int /\ Total >= 1 BY <1>6, <1>9
  <2>2. ASSUME NEW o \in I
        PROVE  (Seq_of(reported) + 1 + o) % Capacity \in receiver.packets <=> reported + 1 + o \in arrived
    <3> DEFINE d == 1 + o
    <3> DEFINE m == reported + 1 + o
    <3>1. d \in Int /\ m \in reported + 1 .. h /\ m = reported + d BY <1>3, <1>4, <1>5, <2>1
    <3>2. SeqSpace \in Nat \ {0} BY Spaces, Zenon
    <3>3. Seq_of(reported) \in Int BY <1>3, <3>2, DivMod DEF Seq_of
    <3>4. Seq_of(reported) + 1 + o = Seq_of(reported) + d BY <2>1, <3>3
    <3> HIDE DEF d, m
    <3>5. (Seq_of(reported) + d) % Capacity = (reported + d) % Capacity BY <1>3, <3>1, Place, Zenon
    <3>6. m % Capacity \in receiver.packets <=> m \in arrived BY <1>3, <3>1, Zenon
    <3>7. (Seq_of(reported) + 1 + o) % Capacity = m % Capacity BY <3>1, <3>4, <3>5, Zenon
    <3> QED BY <3>6, <3>7, Zenon DEF m
  <2>3. lost_since_report(receiver, Total) = Cardinality(Z)
    <3>1. lost_since_report(receiver, Total) =
            Cardinality({o \in 0 .. Total - 1 - 1 : (Seq_of(reported) + 1 + o) % Capacity \notin receiver.packets})
          BY <1>3, <1>9, Zenon DEF lost_since_report, count_zeros
    <3>2. Total - 1 - 1 = Total - 2 BY <1>6
    <3>3. {o \in I : (Seq_of(reported) + 1 + o) % Capacity \notin receiver.packets} = Z BY <2>2, Zenon
    <3> QED BY <3>1, <3>2, <3>3, Zenon
  <2>4. IsFiniteSet(I) /\ Cardinality(I) = Total - 1
    <3>1. IsFiniteSet(I) /\ Cardinality(I) = IF 0 > Total - 2 THEN 0 ELSE Total - 2 - 0 + 1 BY <2>1, FS_Interval
    <3> QED BY <2>1, <1>6, <3>1
  <2>5. IsFiniteSet(Z) /\ Cardinality(Z) <= Cardinality(I)
    <3>1. Z \in SUBSET I BY Zenon
    <3> HIDE DEF Z, I
    <3> QED BY <2>4, <3>1, FS_Subset, Zenon
  <2>6. Cardinality(Z) \in Nat BY <2>5, FS_CardinalityType, Zenon
  <2>7. ExistsBijection(Z, LostSince)
    <3> DEFINE f == [o \in Z |-> reported + 1 + o]
    <3>1. f \in [Z -> LostSince]
      <4> SUFFICES ASSUME NEW o \in Z PROVE reported + 1 + o \in LostSince BY Zenon
      <4>1. o \in Int /\ 0 <= o /\ o <= Total - 2 /\ reported + 1 + o \notin arrived BY <2>1
      <4>2. reported + 1 + o \in reported + 1 .. h BY <1>3, <1>4, <1>5, <4>1
      <4> QED BY <1>7, <4>1, <4>2, Zenon
    <3>2. \A o, p \in Z : f[o] = f[p] => o = p
      <4> SUFFICES ASSUME NEW o \in Z, NEW p \in Z, reported + 1 + o = reported + 1 + p PROVE o = p BY Zenon
      <4>1. o \in Int /\ p \in Int BY <2>1
      <4> QED BY <1>3, <4>1
    <3>3. \A n \in LostSince : \E o \in Z : f[o] = n
      <4> SUFFICES ASSUME NEW n \in LostSince PROVE \E o \in Z : f[o] = n BY Zenon
      <4>1. n \in reported + 1 .. h /\ n \notin arrived BY <1>7, Zenon
      <4>2. n # h BY <1>2, <4>1, Zenon DEF h
      <4>3. n - reported - 1 \in I /\ reported + 1 + (n - reported - 1) = n BY <1>3, <1>4, <1>5, <4>1, <4>2
      <4>4. n - reported - 1 \in Z BY <4>1, <4>3, Zenon
      <4> QED BY <4>3, <4>4, Zenon
    <3>4. DOMAIN f = Z BY Zenon
    <3> HIDE DEF f, Z
    <3>5. f \in Injection(Z, LostSince) BY <3>1, <3>2, <3>4, Zenon DEF Injection, IsInjective
    <3>6. f \in Surjection(Z, LostSince) BY <3>1, <3>3, Zenon DEF Surjection
    <3> QED BY <3>5, <3>6, Zenon DEF ExistsBijection, Bijection
  <2> HIDE DEF Z, I
  <2>8. Cardinality(LostSince) = Cardinality(Z) BY <2>5, <2>7, FS_Bijection, Zenon
  <2> QED BY <1>5, <1>6, <2>1, <2>3, <2>4, <2>5, <2>6, <2>8 DEF h
<1> QED BY <1>8, <1>9, Zenon

\* A part of a whole is less than all of its 256ths.
LEMMA Fraction == ASSUME NEW t \in Nat \ {0}, NEW l \in Nat, l < t PROVE (l * 256) \div t < 256
<1> DEFINE x == l * 256
<1> DEFINE q == x \div t
<1> DEFINE u == t * q
<1>1. x \in Int /\ x < t * 256 OBVIOUS
<1>2. q \in Int /\ x % t \in 0 .. t - 1 /\ x = t * q + (x % t) BY <1>1, DivMod
<1> HIDE DEF x, q
<1>3. SUFFICES ASSUME q >= 256 PROVE FALSE BY <1>2 DEF q, x
<1>4. t * q >= t * 256 BY <1>2, <1>3
<1>5. u \in Int BY <1>2
<1>6. u >= t * 256 /\ x = u + (x % t) BY <1>2, <1>4, Zenon
<1> HIDE DEF u
<1> QED BY <1>1, <1>2, <1>5, <1>6

\* A count that is capped is the smaller of it and the most that a report holds.
LEMMA Smallest == ASSUME NEW x \in Nat, MAX_LOST \in Nat PROVE Capped(x) = Min({x, MAX_LOST})
<1> DEFINE c == Capped(x)
<1>1. c \in {x, MAX_LOST} /\ c <= x /\ c <= MAX_LOST BY DEF Capped
<1>2. ASSUME NEW y \in {x, MAX_LOST}, \A z \in {x, MAX_LOST} : y <= z PROVE y = c
  <2>1. y <= x /\ y <= MAX_LOST /\ y \in Nat BY <1>2
  <2> QED BY <1>2, <2>1 DEF Capped
<1> HIDE DEF c
<1>3. c \in {x, MAX_LOST} /\ \A z \in {x, MAX_LOST} : c <= z BY <1>1, Zenon
<1>4. (CHOOSE y \in {x, MAX_LOST} : \A z \in {x, MAX_LOST} : y <= z) = c BY <1>2, <1>3, Zenon
<1> QED BY <1>4, Zenon DEF Min, c

\* A receiver report is exact.
LEMMA ReportExact ==
    ASSUME Parameters, TypeOK, Tracked, ReceiverTimeout
    PROVE  LossExact
<1> DEFINE h == Max(arrived)
<1> DEFINE lost == Cardinality(LostSince)
<1>1. arrived # {} BY Zenon DEF ReceiverTimeout, Tracked
<1>2. /\ Total = h - reported /\ Total \in Nat /\ lost_since_report(receiver, Total) = lost /\ lost \in Nat
      /\ Total > 0 => lost < Total
      BY <1>1, Counted, Zenon
<1>3. report' = receiver_report(receiver, Total, lost) BY <1>2, Zenon DEF ReceiverTimeout, generate_report
<1>9. Capped(lost) = lost
  <2>1. h - reported <= Capacity BY <1>1, Zenon DEF Tracked
  <2>2. Capacity \in Nat /\ MAX_LOST \in Nat /\ Capacity <= MAX_LOST BY Spaces, Zenon
  <2>3. Total <= Capacity BY <1>2, <2>1, Zenon
  <2>4. lost = 0 \/ lost < Total
    <3>1. CASE Total > 0 BY <1>2, <3>1, Zenon
    <3>2. CASE ~ (Total > 0)
      <4>1. Total = 0 BY <1>2, <3>2
      <4> QED BY <1>2, <4>1, Zenon DEF lost_since_report
    <3> QED BY <3>1, <3>2, Zenon
  <2> HIDE DEF lost
  <2>5. lost <= MAX_LOST BY <1>2, <2>2, <2>3, <2>4
  <2> QED BY <1>2, <2>2, <2>5 DEF Capped
<1>4. /\ report'.last_sequence_number = receiver.seq_num_cycles * SeqSpace + receiver.last_seq_num
      /\ report'.fraction_lost = IF Total = 0 THEN 0 ELSE (lost * 256) \div Total
      /\ report'.total_lost = Capped(receiver.total_lost + lost)
      BY <1>3, <1>9, Zenon DEF receiver_report
<1>8. report'.total_lost = Min({receiver.total_lost + lost, MAX_LOST})
  <2> DEFINE sum == receiver.total_lost + lost
  <2>1. receiver.total_lost \in Nat BY Zenon DEF TypeOK
  <2>2. MAX_LOST \in Nat BY Spaces, Zenon
  <2>3. sum \in Nat BY <1>2, <2>1
  <2>4. report'.total_lost = Capped(sum) BY <1>4, Zenon
  <2> HIDE DEF sum, lost
  <2> QED BY <2>2, <2>3, <2>4, Smallest, Zenon DEF sum
<1>5. report'.fraction_lost < 256
  <2>1. CASE Total = 0 BY <1>4, <2>1
  <2>2. CASE Total # 0
    <3>1. Total \in Nat \ {0} /\ lost < Total BY <1>2, <2>2
    <3> HIDE DEF lost
    <3> QED BY <1>2, <1>4, <2>2, <3>1, Fraction
  <2> QED BY <2>1, <2>2, Zenon
<1>6. ASSUME h > reported PROVE report'.fraction_lost = (256 * lost) \div (h - reported)
  <2> HIDE DEF lost
  <2>1. lost * 256 = 256 * lost BY <1>2
  <2>2. Total # 0
    <3> HIDE DEF h
    <3>1. h \in Int /\ reported \in Int
      <4>1. arrived \subseteq FirstPacket .. plan.last /\ h \in arrived BY <1>1, Zenon DEF TypeOK, Topped, h
      <4>2. FirstPacket \in Nat BY Spaces, Zenon
      <4>3. reported \in Int BY <1>1, Zenon DEF Tracked
      <4>4. h \in Int BY <4>1, <4>2
      <4> QED BY <4>3, <4>4, Zenon
    <3> QED BY <1>2, <1>6, <3>1
  <2> QED BY <1>2, <1>4, <2>1, <2>2
<1>7. report'.last_sequence_number =
          ((h \div SeqSpace - base \div SeqSpace) % CycleSpace) * SeqSpace + Seq_of(h)
      BY <1>1, <1>4, Zenon DEF Tracked
<1> QED BY <1>5, <1>6, <1>7, <1>8, Zenon DEF LossExact

\* What a packet leaves of the sender: one that is not the newest,
Refused(s, x) ==
    /\ DOMAIN x = SenderFields /\ x.started = s.started /\ x.last_rtp_sn = s.last_rtp_sn
    /\ x.last_rtp_time_rtp = s.last_rtp_time_rtp /\ x.last_rtp_time_time = s.last_rtp_time_time
LEMMA SenderRefuses ==
    ASSUME NEW s, DOMAIN s = SenderFields, NEW seq, NEW timestamp, NEW size,
           ~ plan.use_latest_packet, s.started, ~ Forward(Diff(seq, s.last_rtp_sn))
    PROVE  Refused(s, sender_process_rtp(s, seq, timestamp, size))
<1> DEFINE x == sender_process_rtp(s, seq, timestamp, size)
<1>1. x = [s EXCEPT !.packets = s.packets + 1, !.octets = s.octets + size] BY Zenon DEF sender_process_rtp, SenderFields
<1> HIDE DEF x
<1>2. Refused(s, x) BY <1>1, Zenon DEF Refused, SenderFields
<1> QED BY <1>2, Zenon DEF x

\* and one that is.
Accepted(s, seq, timestamp, x) ==
    /\ DOMAIN x = SenderFields /\ x.started /\ x.last_rtp_sn = seq
    /\ s.last_rtp_time_time = Never \/ timestamp # s.last_rtp_time_rtp
         => x.last_rtp_time_rtp = timestamp /\ x.last_rtp_time_time = now
    /\ ~ (s.last_rtp_time_time = Never \/ timestamp # s.last_rtp_time_rtp)
         => x.last_rtp_time_rtp = s.last_rtp_time_rtp /\ x.last_rtp_time_time = s.last_rtp_time_time
LEMMA SenderAccepts ==
    ASSUME NEW s, DOMAIN s = SenderFields, NEW seq, NEW timestamp, NEW size,
           ~ s.started \/ Forward(Diff(seq, s.last_rtp_sn))
    PROVE  Accepted(s, seq, timestamp, sender_process_rtp(s, seq, timestamp, size))
<1> DEFINE x == sender_process_rtp(s, seq, timestamp, size)
<1> DEFINE counted == [s EXCEPT !.packets = @ + 1, !.octets = @ + size]
<1> DEFINE accepted == [counted EXCEPT !.started = TRUE, !.last_rtp_sn = seq]
<1>1. /\ DOMAIN counted = SenderFields /\ counted.last_rtp_time_rtp = s.last_rtp_time_rtp
      /\ counted.last_rtp_time_time = s.last_rtp_time_time
      BY Zenon DEF SenderFields
<1>2. x = IF s.last_rtp_time_time = Never \/ timestamp # s.last_rtp_time_rtp
          THEN [accepted EXCEPT !.last_rtp_time_rtp = timestamp, !.last_rtp_time_time = now]
          ELSE accepted
      BY Zenon DEF sender_process_rtp
<1> HIDE DEF x, counted
<1>3. /\ DOMAIN accepted = SenderFields /\ accepted.started /\ accepted.last_rtp_sn = seq
      /\ accepted.last_rtp_time_rtp = s.last_rtp_time_rtp /\ accepted.last_rtp_time_time = s.last_rtp_time_time
      BY <1>1, Zenon DEF SenderFields
<1> HIDE DEF accepted
<1>4. CASE s.last_rtp_time_time = Never \/ timestamp # s.last_rtp_time_rtp
  <2>1. /\ DOMAIN x = SenderFields /\ x.started = accepted.started /\ x.last_rtp_sn = seq
        /\ x.last_rtp_time_rtp = timestamp /\ x.last_rtp_time_time = now
        BY <1>2, <1>3, <1>4, Zenon DEF SenderFields
  <2>2. Accepted(s, seq, timestamp, x) BY <1>3, <1>4, <2>1, Zenon DEF Accepted
  <2> QED BY <2>2, Zenon DEF x
<1>5. CASE ~ (s.last_rtp_time_time = Never \/ timestamp # s.last_rtp_time_rtp)
  <2>1. x = accepted BY <1>2, <1>5, Zenon
  <2>2. Accepted(s, seq, timestamp, x) BY <1>3, <1>5, <2>1, Zenon DEF Accepted
  <2> QED BY <2>2, Zenon DEF x
<1> QED BY <1>4, <1>5, Zenon

\* The frames follow the packets.
LEMMA Frames ==
    ASSUME NEW a \in Nat, NEW b \in Nat, a <= b
    PROVE  Frame_of(a) \in Nat /\ Frame_of(b) \in Nat /\ Frame_of(a) <= Frame_of(b)
BY DEF Frame_of

\* A packet that is written is sampled with its frame.
LEMMA Sampled ==
    ASSUME Parameters, TypeOK, Mapped, NEW n \in FirstPacket .. plan.last, Write(n)
    PROVE  /\ DOMAIN sampled' = DOMAIN sampled /\ Frame_of(n) \in DOMAIN sampled
           /\ \A f \in DOMAIN sampled : sampled'[f] \in Nat \cup {Never}
           /\ \A f \in DOMAIN sampled : sampled[f] # Never => sampled'[f] = sampled[f]
           /\ sampled[Frame_of(n)] = Never => sampled'[Frame_of(n)] = now
           /\ \A f \in DOMAIN sampled : sampled'[f] # Never <=> \E m \in written' : Frame_of(m) = f
<1> DEFINE g == Frame_of(n)
<1>1. FirstPacket \in Nat /\ plan.last \in Nat /\ now \in Nat BY Spaces, Zenon DEF TypeOK
<1>2. n \in Nat /\ FirstPacket <= n /\ n <= plan.last BY <1>1
<1>3. /\ DOMAIN sampled = Frame_of(FirstPacket) .. Frame_of(plan.last)
      /\ \A f \in DOMAIN sampled : sampled[f] \in Nat \cup {Never}
      BY Zenon DEF TypeOK
<1>4. g \in DOMAIN sampled
  <2>1. g \in Nat /\ Frame_of(FirstPacket) \in Nat /\ Frame_of(plan.last) \in Nat
        /\ Frame_of(FirstPacket) <= g /\ g <= Frame_of(plan.last)
        BY <1>1, <1>2, Frames, Zenon
  <2> QED BY <1>3, <2>1
<1>5. sampled' = [sampled EXCEPT ![g] = IF sampled[g] = Never THEN now ELSE sampled[g]] /\ written' = written \cup {n}
      BY Zenon DEF Write
<1>6. \A f \in DOMAIN sampled : sampled[f] # Never <=> \E m \in written : Frame_of(m) = f BY Zenon DEF Mapped
<1>7. now # Never BY <1>1 DEF Never
<1>8. sampled'[g] = IF sampled[g] = Never THEN now ELSE sampled[g]
  <2> HIDE DEF g
  <2> QED BY <1>4, <1>5, Zenon
<1>9. \A f \in DOMAIN sampled : f # g => sampled'[f] = sampled[f]
  <2> HIDE DEF g
  <2> QED BY <1>4, <1>5, Zenon
<1>10. DOMAIN sampled' = DOMAIN sampled BY <1>5, Zenon
<1>11. ASSUME NEW f \in DOMAIN sampled PROVE sampled'[f] # Never <=> \E m \in written' : Frame_of(m) = f
  <2>1. CASE f = g
    <3>1. sampled'[f] # Never BY <1>7, <1>8, <2>1, Zenon
    <3>2. n \in written' /\ Frame_of(n) = f BY <1>5, <2>1, Zenon
    <3> QED BY <3>1, <3>2, Zenon
  <2>2. CASE f # g
    <3>1. sampled'[f] = sampled[f] BY <1>9, <2>2, Zenon
    <3>2. (\E m \in written' : Frame_of(m) = f) <=> (\E m \in written : Frame_of(m) = f) BY <1>5, <2>2, Zenon
    <3> QED BY <1>6, <3>1, <3>2, Zenon
  <2> QED BY <2>1, <2>2, Zenon
<1>12. ASSUME NEW f \in DOMAIN sampled PROVE sampled'[f] \in Nat \cup {Never} BY <1>1, <1>3, <1>8, <1>9, Zenon
<1>13. ASSUME NEW f \in DOMAIN sampled, sampled[f] # Never PROVE sampled'[f] = sampled[f] BY <1>8, <1>9, <1>13, Zenon
<1> QED BY <1>4, <1>8, <1>10, <1>11, <1>12, <1>13, Zenon

\* The mapping after a packet that is accepted: it is the frame's, and where it moves the frame was sampled now.
LEMMA AcceptedMapped ==
    ASSUME Parameters, TypeOK, Mapped, NEW n \in FirstPacket .. plan.last, Write(n), written # {} => n > Max(written),
           NEW timestamp, timestamp = (StartTime + sampled'[Frame_of(n)]) % TsSpace,
           Accepted(sender, Seq_of(n), timestamp, sender')
    PROVE  /\ sender'.last_rtp_time_time \in Nat
           /\ sender'.last_rtp_time_rtp = (StartTime + sender'.last_rtp_time_time) % TsSpace
           /\ sender'.last_rtp_time_rtp = (StartTime + sampled'[Frame_of(n)]) % TsSpace
<1> DEFINE g == Frame_of(n)
<1>1. now \in Nat /\ plan.last \in Nat /\ FirstPacket \in Nat BY Spaces, Zenon DEF TypeOK
<1>2. /\ g \in DOMAIN sampled
      /\ sampled[g] # Never => sampled'[g] = sampled[g]
      /\ sampled[g] = Never => sampled'[g] = now
      BY Sampled, Zenon
<1>3. sampled[g] # Never => \E m \in written : Frame_of(m) = g BY <1>2, Zenon DEF Mapped
<1>4. CASE sender.last_rtp_time_time = Never \/ timestamp # sender.last_rtp_time_rtp
  <2>1. sender'.last_rtp_time_rtp = timestamp /\ sender'.last_rtp_time_time = now BY <1>4, Zenon DEF Accepted
  <2>2. sampled'[g] = now
    <3> SUFFICES ASSUME sampled[g] # Never PROVE FALSE BY <1>2, Zenon
    <3>1. PICK m \in written : Frame_of(m) = g BY <1>3, Zenon
    <3> DEFINE h == Max(written)
    <3>2. h \in written /\ m <= h /\ n > h /\ written \subseteq FirstPacket .. plan.last BY <3>1, Zenon DEF TypeOK, Topped
    <3>3. /\ sender.last_rtp_time_time # Never
          /\ sender.last_rtp_time_rtp = (StartTime + sampled[Frame_of(h)]) % TsSpace
          BY <3>1, Zenon DEF Mapped
    <3> HIDE DEF h
    <3>4. h \in Nat /\ m \in Nat /\ n \in Nat /\ h <= n BY <1>1, <3>2
    <3>5. /\ Frame_of(m) \in Nat /\ Frame_of(h) \in Nat /\ Frame_of(n) \in Nat
          /\ Frame_of(m) <= Frame_of(h) /\ Frame_of(h) <= Frame_of(n)
          BY <3>2, <3>4, Frames, Zenon
    <3>6. Frame_of(h) = g BY <3>1, <3>5
    <3>7. timestamp = sender.last_rtp_time_rtp BY <1>2, <3>3, <3>6, Zenon
    <3> QED BY <1>4, <3>3, <3>7, Zenon
  <2> QED BY <1>1, <2>1, <2>2, Zenon
<1>5. CASE ~ (sender.last_rtp_time_time = Never \/ timestamp # sender.last_rtp_time_rtp)
  <2>1. sender'.last_rtp_time_rtp = timestamp /\ sender'.last_rtp_time_time = sender.last_rtp_time_time
        BY <1>5, Zenon DEF Accepted
  <2>2. written # {} BY <1>5, Zenon DEF Mapped
  <2>3. /\ sender.last_rtp_time_time \in Nat
        /\ sender.last_rtp_time_rtp = (StartTime + sender.last_rtp_time_time) % TsSpace
        BY <2>2, Zenon DEF Mapped
  <2> QED BY <1>5, <2>1, <2>3, Zenon
<1> QED BY <1>4, <1>5, Zenon

\* The application writes a packet.
LEMMA WriteStep == ASSUME Parameters, IInv, NEW n \in FirstPacket .. plan.last, Write(n) PROVE IInv'
<1> DEFINE stamp == (StartTime + sampled'[Frame_of(n)]) % TsSpace
<1> DEFINE h == Max(written)
<1>1. TypeOK /\ Mapped /\ Tracked /\ ClockMapped BY Zenon DEF IInv
<1>2. /\ FirstPacket \in Nat /\ plan.last \in Nat /\ n \in Int /\ written \subseteq FirstPacket .. plan.last
      /\ written \subseteq Int /\ Topped(written) /\ DOMAIN sender = SenderFields
  <2>1. FirstPacket \in Nat BY Spaces, Zenon
  <2>2. plan.last \in Nat /\ written \subseteq FirstPacket .. plan.last /\ Topped(written) /\ DOMAIN sender = SenderFields
        BY <1>1, Zenon DEF TypeOK
  <2> QED BY <2>1, <2>2
<1>3. /\ written' = written \cup {n} /\ n \notin written
      /\ sender' = sender_process_rtp(sender, Seq_of(n), stamp, Size_of(n))
      BY Zenon DEF Write
<1>4. /\ now' = now /\ plan' = plan /\ reports' = reports /\ receiver' = receiver /\ receiver_timeout' = receiver_timeout
      /\ arrived' = arrived /\ base' = base /\ reported' = reported
      BY Zenon DEF Write, receiverVars
<1>5. /\ DOMAIN sampled' = DOMAIN sampled /\ Frame_of(n) \in DOMAIN sampled
      /\ \A f \in DOMAIN sampled : sampled'[f] \in Nat \cup {Never}
      /\ \A f \in DOMAIN sampled : sampled[f] # Never => sampled'[f] = sampled[f]
      /\ \A f \in DOMAIN sampled : sampled'[f] # Never <=> \E m \in written' : Frame_of(m) = f
      BY <1>1, Sampled, Zenon
<1>6. Topped(written') /\ Max(written') = IF written = {} \/ n > h THEN n ELSE h BY <1>2, <1>3, Added, Zenon
<1>7. written' # {} BY <1>3, Zenon
<1> HIDE DEF stamp
<1>8. DOMAIN sender' = SenderFields /\ Mapped'
  <2>1. CASE written = {} \/ n > h
    <3>1. ~ sender.started \/ Forward(Diff(Seq_of(n), sender.last_rtp_sn))
      <4>1. CASE written = {} BY <1>1, <4>1, Zenon DEF Mapped
      <4>2. CASE written # {}
        <5>1. n > h /\ h \in written /\ n - h < SeqSpace \div 2 /\ sender.last_rtp_sn = Seq_of(h)
              BY <1>1, <1>2, <2>1, <4>2, Zenon DEF Topped, Mapped, Write, Highest
        <5> HIDE DEF h
        <5>2. h \in Int /\ n >= h BY <1>2, <5>1
        <5>3. Forward(Diff(Seq_of(n), Seq_of(h))) BY <1>2, <5>1, <5>2, Ahead, Zenon
        <5> QED BY <5>1, <5>3, Zenon
      <4> QED BY <4>1, <4>2, Zenon
    <3>2. Accepted(sender, Seq_of(n), stamp, sender') BY <1>2, <1>3, <3>1, SenderAccepts, Zenon
    <3>3. stamp = (StartTime + sampled'[Frame_of(n)]) % TsSpace BY Zenon DEF stamp
    <3>4. /\ sender'.last_rtp_time_time \in Nat
          /\ sender'.last_rtp_time_rtp = (StartTime + sender'.last_rtp_time_time) % TsSpace
          /\ sender'.last_rtp_time_rtp = (StartTime + sampled'[Frame_of(n)]) % TsSpace
          BY <1>1, <2>1, <3>2, <3>3, AcceptedMapped, Zenon
    <3>5. DOMAIN sender' = SenderFields /\ sender'.started /\ sender'.last_rtp_sn = Seq_of(n) BY <3>2, Zenon DEF Accepted
    <3>6. Max(written') = n BY <1>6, <2>1, Zenon
    <3>7. sender'.last_rtp_time_time # Never BY <3>4 DEF Never
    <3> QED BY <1>5, <1>7, <3>4, <3>5, <3>6, <3>7, Zenon DEF Mapped
  <2>2. CASE written # {} /\ ~ (n > h)
    <3>1. h \in written /\ sender.started /\ sender.last_rtp_sn = Seq_of(h) BY <1>1, <1>2, <2>2, Zenon DEF Topped, Mapped
    <3>2. n >= h - (IF plan.use_latest_packet THEN 0 ELSE Reorder) BY <2>2, Zenon DEF Write, Highest
    <3>3. Reorder \in Nat /\ Capacity \in Nat /\ Reorder < Capacity BY Spaces, Zenon
    <3>4. h \in Int /\ n # h /\ n <= h
      <4> HIDE DEF h
      <4> QED BY <1>2, <1>3, <2>2, <3>1
    <3>5. ~ plan.use_latest_packet
      <4> SUFFICES ASSUME plan.use_latest_packet PROVE FALSE BY Zenon
      <4>1. n >= h - 0 BY <3>2, Zenon
      <4> HIDE DEF h
      <4> QED BY <1>2, <3>4, <4>1
    <3>6. n >= h - Reorder BY <3>2, <3>5, Zenon
    <3>7. ~ Forward(Diff(Seq_of(n), Seq_of(h)))
      <4> HIDE DEF h
      <4>1. h - n <= Capacity BY <1>2, <3>3, <3>4, <3>6
      <4> QED BY <1>2, <3>4, <4>1, Before, Zenon
    <3>8. ~ Forward(Diff(Seq_of(n), sender.last_rtp_sn)) BY <3>1, <3>7, Zenon
    <3>9. Refused(sender, sender') BY <1>2, <1>3, <3>1, <3>5, <3>8, SenderRefuses, Zenon
    <3>10. Max(written') = h BY <1>6, <2>2, Zenon
    <3>11. sampled'[Frame_of(h)] = sampled[Frame_of(h)]
      <4>1. Frame_of(h) \in DOMAIN sampled
        <5>1. h \in Nat /\ FirstPacket <= h /\ h <= plan.last
          <6> HIDE DEF h
          <6> QED BY <1>2, <3>1
        <5> HIDE DEF h
        <5>2. /\ Frame_of(FirstPacket) \in Nat /\ Frame_of(h) \in Nat /\ Frame_of(plan.last) \in Nat
              /\ Frame_of(FirstPacket) <= Frame_of(h) /\ Frame_of(h) <= Frame_of(plan.last)
              BY <1>2, <5>1, Frames, Zenon
        <5> QED BY <1>1, <5>2 DEF TypeOK
      <4>2. sampled[Frame_of(h)] # Never BY <1>1, <3>1, <4>1, Zenon DEF Mapped
      <4> QED BY <1>5, <4>1, <4>2, Zenon
    <3>12. /\ sender.last_rtp_time_time # Never /\ sender.last_rtp_time_time \in Nat
           /\ sender.last_rtp_time_rtp = (StartTime + sender.last_rtp_time_time) % TsSpace
           /\ sender.last_rtp_time_rtp = (StartTime + sampled[Frame_of(h)]) % TsSpace
           BY <1>1, <2>2, Zenon DEF Mapped
    <3> HIDE DEF h
    <3>13. /\ DOMAIN sender' = SenderFields /\ sender'.started /\ sender'.last_rtp_sn = Seq_of(h)
           /\ sender'.last_rtp_time_time = sender.last_rtp_time_time
           /\ sender'.last_rtp_time_rtp = sender.last_rtp_time_rtp
           BY <3>1, <3>9, Zenon DEF Refused
    <3> QED BY <1>5, <1>7, <3>10, <3>11, <3>12, <3>13, Zenon DEF Mapped
  <2> QED BY <2>1, <2>2, Zenon
<1>9. TypeOK'
  <2>1. written' \in SUBSET (FirstPacket .. plan'.last) BY <1>2, <1>3, <1>4, Zenon
  <2> QED BY <1>1, <1>4, <1>5, <1>6, <1>8, <2>1, Zenon DEF TypeOK, Topped
<1>10. Tracked' BY <1>1, <1>4, Zenon DEF Tracked
<1>11. ClockMapped' BY <1>1, <1>4, Zenon DEF ClockMapped
<1> QED BY <1>8, <1>9, <1>10, <1>11, Zenon DEF IInv

\* A sender report takes the mapping forward to the time it is made.
LEMMA SenderTimeoutStep == ASSUME Parameters, IInv, SenderTimeout PROVE IInv'
<1>1. TypeOK /\ Mapped /\ Tracked /\ ClockMapped BY Zenon DEF IInv
<1>2. /\ now' = now /\ plan' = plan /\ sampled' = sampled /\ written' = written /\ sender' = sender
      /\ receiver' = receiver /\ receiver_timeout' = receiver_timeout /\ arrived' = arrived /\ base' = base
      /\ reported' = reported
      BY Zenon DEF SenderTimeout, receiverVars
<1>3. reports' = reports \cup (IF sender.last_rtp_time_time = Never THEN {} ELSE {sender_report(sender)})
      BY Zenon DEF SenderTimeout
<1>4. ClockMapped'
  <2>1. CASE sender.last_rtp_time_time = Never BY <1>1, <1>3, <2>1, Zenon DEF ClockMapped
  <2>2. CASE sender.last_rtp_time_time # Never
    <3> DEFINE t == sender.last_rtp_time_time
    <3> DEFINE sr == sender_report(sender)
    <3>1. t \in Nat /\ sender.last_rtp_time_rtp = (StartTime + t) % TsSpace BY <1>1, <2>2, Zenon DEF Mapped
    <3>2. sr.ntp_time = now /\ sr.rtp_time = (sender.last_rtp_time_rtp + (now - t)) % TsSpace BY Zenon DEF sender_report
    <3>3. now \in Nat BY <1>1, Zenon DEF TypeOK
    <3>4. StartTime \in Nat /\ TsSpace \in Nat \ {0} BY Spaces, Zenon
    <3> HIDE DEF t, sr
    <3>5. (((StartTime + t) % TsSpace) + (now - t)) % TsSpace = (StartTime + now) % TsSpace
      <4> DEFINE s == StartTime + t
      <4> DEFINE q == s \div TsSpace
      <4> DEFINE x == (s % TsSpace) + (now - t)
      <4>1. s \in Int BY <3>1, <3>4
      <4> HIDE DEF s
      <4>2. q \in Int /\ s % TsSpace \in Int /\ s = TsSpace * q + (s % TsSpace) BY <3>4, <4>1, DivMod
      <4>3. x \in Int BY <3>1, <3>3, <4>2
      <4>4. x + TsSpace * q = StartTime + now
        <5> DEFINE u == TsSpace * q
        <5> DEFINE r == s % TsSpace
        <5>1. u \in Int /\ r \in Int /\ s = u + r BY <3>4, <4>2
        <5> HIDE DEF u, r
        <5>2. r + (now - t) + u = StartTime + now BY <3>1, <3>3, <3>4, <5>1 DEF s
        <5> QED BY <5>2, Zenon DEF u, r
      <4> HIDE DEF q, x
      <4>5. (x + TsSpace * q) % TsSpace = x % TsSpace BY <3>4, <4>2, <4>3, Period, Zenon
      <4> QED BY <4>4, <4>5, Zenon DEF x, s
    <3>6. sr.rtp_time = (StartTime + sr.ntp_time) % TsSpace BY <3>1, <3>2, <3>5, Zenon
    <3>7. reports' = reports \cup {sr} BY <1>3, <2>2, Zenon DEF sr
    <3> QED BY <1>1, <3>6, <3>7, Zenon DEF ClockMapped
  <2> QED BY <2>1, <2>2, Zenon
<1>5. TypeOK' BY <1>1, <1>2, Zenon DEF TypeOK, Topped
<1>6. Mapped' BY <1>1, <1>2, Zenon DEF Mapped
<1>7. Tracked' BY <1>1, <1>2, Zenon DEF Tracked
<1> QED BY <1>4, <1>5, <1>6, <1>7, Zenon DEF IInv

\* A packet arrives.
LEMMA ReadRtpStep == ASSUME Parameters, IInv, NEW n \in FirstPacket .. plan.last, ReadRtp(n) PROVE IInv'
<1>1. TypeOK /\ Mapped /\ Tracked /\ ClockMapped BY Zenon DEF IInv
<1>2. /\ now' = now /\ plan' = plan /\ sampled' = sampled /\ written' = written /\ sender' = sender /\ reports' = reports
      BY Zenon DEF ReadRtp, senderVars
<1>3. /\ arrived' = arrived \cup {n} /\ receiver' = receiver_process_rtp(receiver, Seq_of(n))
      /\ receiver_timeout' = Armed(receiver_timeout)
      BY Zenon DEF ReadRtp
<1>4. Tracked'
  <2>1. CASE arrived = {} BY <1>1, <2>1, FirstArrives, Zenon
  <2>2. CASE arrived # {} /\ n > Max(arrived) BY <1>1, <2>2, LaterArrives, Zenon
  <2>3. CASE arrived # {} /\ ~ (n > Max(arrived)) BY <1>1, <2>3, LateArrives, Zenon
  <2> QED BY <2>1, <2>2, <2>3, Zenon
<1>5. /\ FirstPacket \in Nat /\ plan.last \in Nat /\ n \in Int /\ arrived \subseteq FirstPacket .. plan.last
      /\ arrived \subseteq Int /\ Topped(arrived) /\ DOMAIN receiver = ReceiverFields
      /\ receiver.total_lost \in Nat /\ receiver.seq_num_cycles \in Nat
  <2>1. FirstPacket \in Nat BY Spaces, Zenon
  <2>2. /\ plan.last \in Nat /\ arrived \subseteq FirstPacket .. plan.last /\ Topped(arrived)
        /\ DOMAIN receiver = ReceiverFields /\ receiver.total_lost \in Nat /\ receiver.seq_num_cycles \in Nat
        BY <1>1, Zenon DEF TypeOK
  <2> QED BY <2>1, <2>2
<1>6. Topped(arrived') BY <1>3, <1>5, Added, Zenon
<1>7. arrived' \in SUBSET (FirstPacket .. plan'.last) BY <1>2, <1>3, <1>5, Zenon
<1>8. DOMAIN receiver' = ReceiverFields /\ receiver'.total_lost \in Nat /\ receiver'.seq_num_cycles \in Nat
  <2>1. CASE ~ receiver.started
    <3>1. /\ DOMAIN receiver' = ReceiverFields /\ receiver'.total_lost = receiver.total_lost
          /\ receiver'.seq_num_cycles = receiver.seq_num_cycles
          BY <1>3, <1>5, <2>1, ReceiverFirst
    <3> QED BY <1>5, <3>1, Zenon
  <2>2. CASE receiver.started /\ Forward(Diff(Seq_of(n), receiver.last_seq_num))
    <3>1. AfterLater(receiver, Seq_of(n), receiver') BY <1>3, <1>5, <2>2, ReceiverLater, Zenon
    <3>2. /\ DOMAIN receiver' = ReceiverFields /\ receiver'.total_lost = receiver.total_lost
          /\ \/ receiver'.seq_num_cycles = receiver.seq_num_cycles
             \/ receiver'.seq_num_cycles = (receiver.seq_num_cycles + 1) % CycleSpace
          BY <3>1, Zenon DEF AfterLater
    <3>3. CycleSpace \in Nat \ {0} BY Spaces, Zenon
    <3>4. receiver.seq_num_cycles + 1 \in Int BY <1>5
    <3>5. (receiver.seq_num_cycles + 1) % CycleSpace \in 0 .. CycleSpace - 1 BY <3>3, <3>4, DivMod, Zenon
    <3>6. (receiver.seq_num_cycles + 1) % CycleSpace \in Nat BY <3>3, <3>5
    <3> QED BY <1>5, <3>2, <3>6, Zenon
  <2>3. CASE receiver.started /\ ~ Forward(Diff(Seq_of(n), receiver.last_seq_num))
    <3>1. /\ DOMAIN receiver' = ReceiverFields /\ receiver'.total_lost = receiver.total_lost
          /\ receiver'.seq_num_cycles = receiver.seq_num_cycles
          BY <1>3, <1>5, <2>3, ReceiverLate
    <3> QED BY <1>5, <3>1, Zenon
  <2> QED BY <2>1, <2>2, <2>3, Zenon
<1>9. receiver_timeout' \in Nat \cup {Never}
  <2>1. now \in Nat /\ receiver_timeout \in Nat \cup {Never} BY <1>1, Zenon DEF TypeOK
  <2>2. Interval \in Nat BY Spaces, Zenon
  <2> QED BY <1>3, <2>1, <2>2 DEF Armed
<1>10. TypeOK' BY <1>1, <1>2, <1>6, <1>7, <1>8, <1>9, Zenon DEF TypeOK, Topped
<1>11. Mapped' BY <1>1, <1>2, Zenon DEF Mapped
<1>12. ClockMapped' BY <1>1, <1>2, Zenon DEF ClockMapped
<1> QED BY <1>4, <1>10, <1>11, <1>12, Zenon DEF IInv

\* A sender report arrives: it leaves the counting alone.
LEMMA ReadReportStep == ASSUME IInv, NEW sr \in reports, ReadReport(sr) PROVE IInv'
<1>1. TypeOK /\ Mapped /\ Tracked /\ ClockMapped BY Zenon DEF IInv
<1>2. /\ now' = now /\ plan' = plan /\ sampled' = sampled /\ written' = written /\ sender' = sender
      /\ receiver_timeout' = receiver_timeout /\ arrived' = arrived /\ base' = base /\ reported' = reported
      BY Zenon DEF ReadReport, senderVars
<1>3. reports' \subseteq reports BY Zenon DEF ReadReport
<1>4. DOMAIN receiver = ReceiverFields BY <1>1, Zenon DEF TypeOK
<1>5. receiver' = [receiver EXCEPT !.last_sender_report = sr.ntp_time, !.last_sender_report_time = now]
      BY Zenon DEF ReadReport, process_sender_report
<1>6. /\ DOMAIN receiver' = ReceiverFields /\ receiver'.packets = receiver.packets /\ receiver'.started = receiver.started
      /\ receiver'.seq_num_cycles = receiver.seq_num_cycles /\ receiver'.last_seq_num = receiver.last_seq_num
      /\ receiver'.last_report_seq_num = receiver.last_report_seq_num /\ receiver'.total_lost = receiver.total_lost
      BY <1>4, <1>5, Zenon DEF ReceiverFields
<1>7. TypeOK' BY <1>1, <1>2, <1>6, Zenon DEF TypeOK, Topped
<1>8. Mapped' BY <1>1, <1>2, Zenon DEF Mapped
<1>9. Tracked' BY <1>1, <1>2, <1>6, Zenon DEF Tracked
<1>10. ClockMapped' BY <1>1, <1>3, Zenon DEF ClockMapped
<1> QED BY <1>7, <1>8, <1>9, <1>10, Zenon DEF IInv

\* A receiver report is made.
LEMMA ReceiverTimeoutStep == ASSUME Parameters, IInv, ReceiverTimeout PROVE IInv'
<1> DEFINE lost == Cardinality(LostSince)
<1> DEFINE h == Max(arrived)
<1>1. TypeOK /\ Mapped /\ Tracked /\ ClockMapped BY Zenon DEF IInv
<1>2. /\ now' = now /\ plan' = plan /\ sampled' = sampled /\ written' = written /\ sender' = sender
      /\ reports' = reports /\ arrived' = arrived /\ base' = base /\ reported' = h
      BY Zenon DEF ReceiverTimeout, senderVars
<1>3. arrived # {} BY <1>1, Zenon DEF ReceiverTimeout, Tracked
<1>4. lost_since_report(receiver, Total) = lost /\ lost \in Nat BY <1>1, <1>3, Counted, Zenon
<1>5. receiver' = After_report(receiver, lost) BY <1>4, Zenon DEF ReceiverTimeout, generate_report
<1>6. DOMAIN receiver = ReceiverFields /\ receiver.total_lost \in Nat BY <1>1, Zenon DEF TypeOK
<1> HIDE DEF lost
<1>7. /\ DOMAIN receiver' = ReceiverFields /\ receiver'.packets = receiver.packets /\ receiver'.started = receiver.started
      /\ receiver'.seq_num_cycles = receiver.seq_num_cycles /\ receiver'.last_seq_num = receiver.last_seq_num
      /\ receiver'.last_report_seq_num = receiver.last_seq_num
      /\ receiver'.total_lost = Capped(receiver.total_lost + lost)
      BY <1>5, <1>6, Zenon DEF After_report, ReceiverFields
<1>8. receiver_timeout' \in Nat \cup {Never}
  <2>1. now \in Nat BY <1>1, Zenon DEF TypeOK
  <2>2. Interval \in Nat BY Spaces, Zenon
  <2>3. receiver_timeout' = now + Interval BY Zenon DEF ReceiverTimeout
  <2> QED BY <2>1, <2>2, <2>3
<1>9. receiver'.total_lost \in Nat
  <2>1. MAX_LOST \in Nat BY Spaces, Zenon
  <2> QED BY <1>4, <1>6, <1>7, <2>1 DEF Capped
<1>10. TypeOK' BY <1>1, <1>2, <1>7, <1>8, <1>9, Zenon DEF TypeOK, Topped
<1>11. Mapped' BY <1>1, <1>2, Zenon DEF Mapped
<1>12. Tracked'
  <2>1. /\ receiver.started /\ base \in arrived /\ receiver.last_seq_num = Seq_of(h)
        /\ receiver.seq_num_cycles = (h \div SeqSpace - base \div SeqSpace) % CycleSpace
        BY <1>1, <1>3, Zenon DEF Tracked
  <2>2. h \in Int
    <3>1. arrived \subseteq FirstPacket .. plan.last /\ h \in arrived BY <1>1, <1>3, Zenon DEF TypeOK, Topped
    <3>2. FirstPacket \in Nat BY Spaces, Zenon
    <3> HIDE DEF h
    <3> QED BY <3>1, <3>2
  <2>3. Max(arrived') = h BY <1>2, Zenon
  <2>4. Capacity \in Nat BY Spaces, Zenon
  <2> HIDE DEF h
  <2>5. h <= h /\ h - h <= Capacity /\ h + 1 .. h = {} BY <2>2, <2>4
  <2> QED BY <1>2, <1>3, <1>7, <2>1, <2>2, <2>3, <2>5, Zenon DEF Tracked
<1>13. ClockMapped' BY <1>1, <1>2, Zenon DEF ClockMapped
<1> QED BY <1>10, <1>11, <1>12, <1>13, Zenon DEF IInv

\* Time passes.
LEMMA TickStep == ASSUME IInv, Tick PROVE IInv'
<1>1. TypeOK /\ Mapped /\ Tracked /\ ClockMapped BY Zenon DEF IInv
<1>2. /\ now' = now + 1 /\ plan' = plan /\ sampled' = sampled /\ written' = written /\ sender' = sender
      /\ reports' = reports /\ receiver' = receiver /\ receiver_timeout' = receiver_timeout
      /\ arrived' = arrived /\ base' = base /\ reported' = reported
      BY Zenon DEF Tick, senderVars, receiverVars
<1>3. now' \in Nat BY <1>1, <1>2 DEF TypeOK
<1>4. TypeOK' BY <1>1, <1>2, <1>3, Zenon DEF TypeOK, Topped
<1>5. Mapped' BY <1>1, <1>2, Zenon DEF Mapped
<1>6. Tracked' BY <1>1, <1>2, Zenon DEF Tracked
<1>7. ClockMapped' BY <1>1, <1>2, Zenon DEF ClockMapped
<1> QED BY <1>4, <1>5, <1>6, <1>7, Zenon DEF IInv

\* Before the first packet.
LEMMA InitIInv == ASSUME Parameters, Init PROVE IInv
<1>1. Interval \in Nat BY Spaces, Zenon
<1>2. TypeOK
  <2>1. plan.last \in Nat BY Zenon DEF Init, Parameters
  <2>2. DOMAIN sender = SenderFields BY Zenon DEF Init, NewSender, SenderFields
  <2>3. DOMAIN receiver = ReceiverFields /\ receiver.total_lost = 0 /\ receiver.seq_num_cycles = 0
        BY Zenon DEF Init, NewReceiver, ReceiverFields
  <2> QED BY <2>1, <2>2, <2>3 DEF Init, TypeOK, Topped
<1>3. Mapped
  <2>1. ~ sender.started /\ sender.last_rtp_time_time = Never BY Zenon DEF Init, NewSender
  <2> QED BY <2>1, Zenon DEF Init, Mapped
<1>4. Tracked
  <2>1. ~ receiver.started /\ receiver.packets = {} /\ receiver.seq_num_cycles = 0 BY Zenon DEF Init, NewReceiver
  <2> QED BY <2>1, Zenon DEF Init, Tracked
<1>5. ClockMapped BY Zenon DEF Init, ClockMapped
<1> QED BY <1>2, <1>3, <1>4, <1>5, Zenon DEF IInv

\* IInv is inductive.
LEMMA NextIInv == ASSUME Parameters, IInv, [Next]_vars PROVE IInv'
<1>1. ASSUME NEW n \in FirstPacket .. plan.last, Write(n) PROVE IInv' BY <1>1, WriteStep, Zenon
<1>2. ASSUME NEW n \in FirstPacket .. plan.last, ReadRtp(n) PROVE IInv' BY <1>2, ReadRtpStep, Zenon
<1>3. ASSUME NEW sr \in reports, ReadReport(sr) PROVE IInv' BY <1>3, ReadReportStep, Zenon
<1>4. CASE SenderTimeout BY <1>4, SenderTimeoutStep, Zenon
<1>5. CASE ReceiverTimeout BY <1>5, ReceiverTimeoutStep, Zenon
<1>6. CASE Tick BY <1>6, TickStep, Zenon
<1>7. CASE UNCHANGED vars
  <2>1. TypeOK /\ Mapped /\ Tracked /\ ClockMapped BY Zenon DEF IInv
  <2>2. /\ now' = now /\ plan' = plan /\ sampled' = sampled /\ written' = written /\ sender' = sender
        /\ reports' = reports /\ receiver' = receiver /\ receiver_timeout' = receiver_timeout
        /\ arrived' = arrived /\ base' = base /\ reported' = reported
        BY <1>7, Zenon DEF vars, senderVars, receiverVars
  <2>3. TypeOK' BY <2>1, <2>2, Zenon DEF TypeOK, Topped
  <2>4. Mapped' BY <2>1, <2>2, Zenon DEF Mapped
  <2>5. Tracked' BY <2>1, <2>2, Zenon DEF Tracked
  <2>6. ClockMapped' BY <2>1, <2>2, Zenon DEF ClockMapped
  <2> QED BY <2>3, <2>4, <2>5, <2>6, Zenon DEF IInv
<1> QED BY <1>1, <1>2, <1>3, <1>4, <1>5, <1>6, <1>7, Zenon DEF Next

\* Every receiver report counts exactly the packets that are missing, once each and across the wrap of
\* the sequence numbers, and every sender report relates the clocks as the sampling clock runs, for
\* every size of the bitmap, of the sequence numbers and of the timestamps.
THEOREM ReportsAreExact == ASSUME Parameters PROVE Spec => ReportsExact
<1>1. Init => IInv BY InitIInv, Zenon
<1>2. IInv /\ [Next]_vars => IInv' BY NextIInv, Zenon
<1>3. IInv /\ [Next]_vars => [LossExact /\ ClockMapped']_vars
  <2> SUFFICES ASSUME IInv, [Next]_vars PROVE LossExact /\ ClockMapped' BY Zenon
  <2>1. ClockMapped' BY <1>2, Zenon DEF IInv
  <2>2. TypeOK /\ Tracked BY Zenon DEF IInv
  <2>3. CASE ReceiverTimeout BY <2>1, <2>2, <2>3, ReportExact, Zenon
  <2>4. CASE ~ ReceiverTimeout BY <2>1, <2>4, Zenon DEF LossExact
  <2> QED BY <2>3, <2>4, Zenon
<1> QED BY <1>1, <1>2, <1>3, PTL DEF Spec, ReportsExact
=============================================================================
