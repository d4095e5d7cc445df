--------------------------- MODULE IceAgentProofs ---------------------------
(***************************************************************************)
(* Proofs about the ICE agents (IceAgent), for any addresses, tie-breakers, *)
(* plans and limits, and a network that loses, delays and reorders: every   *)
(* index an agent keeps is valid, an agent is connected exactly while it    *)
(* has a selected pair that answered, roles that differ stay different, and *)
(* a finished negotiation leaves each agent with the other's credentials.   *)
(***************************************************************************)
EXTENDS IceAgent, WellFoundedInduction, TLAPS

\* A set of numbers that is not empty has a least one.
LEMMA MinIn == ASSUME NEW S \in SUBSET Nat, S # {} PROVE Min(S) \in S
<1> DEFINE R == OpToRel(<, Nat)
<1>1. IsWellFoundedOn(R, Nat) BY NatLessThanWellFounded, Zenon
<1>2. \A x, y \in Nat : y < x => <<y, x>> \in R BY Zenon DEF OpToRel
<1> HIDE DEF R
<1>3. PICK x \in S : \A y \in S : ~(<<y, x>> \in R) BY <1>1, WFMin, Zenon
<1>4. \A y \in S : x <= y
  <2> SUFFICES ASSUME NEW y \in S PROVE x <= y BY Zenon
  <2>1. x \in Nat /\ y \in Nat BY Zenon
  <2>2. ~(y < x) BY <1>2, <1>3, <2>1, Zenon
  <2> QED BY <2>1, <2>2
<1> QED BY <1>4, Zenon DEF Min

\* A sequence is a function on the numbers up to its length.
LEMMA Length ==
    ASSUME NEW S, NEW s \in Seq(S)
    PROVE  Len(s) \in Nat /\ s \in [1 .. Len(s) -> S] /\ DOMAIN s = 1 .. Len(s)
OBVIOUS

\* An element of a sequence.
LEMMA Element == ASSUME NEW S, NEW s \in Seq(S), NEW i \in 1 .. Len(s) PROVE s[i] \in S
OBVIOUS

\* A function on the numbers up to n is a sequence.
LEMMA Listed == ASSUME NEW S, NEW n \in Nat, NEW s \in [1 .. n -> S] PROVE s \in Seq(S) /\ Len(s) = n
OBVIOUS

\* One element of a sequence is replaced.
LEMMA Replaced ==
    ASSUME NEW S, NEW s \in Seq(S), NEW i \in 1 .. Len(s), NEW e \in S
    PROVE  /\ [s EXCEPT ![i] = e] \in Seq(S) /\ Len([s EXCEPT ![i] = e]) = Len(s)
           /\ \A j \in 1 .. Len(s) : [s EXCEPT ![i] = e][j] = IF j = i THEN e ELSE s[j]
OBVIOUS

\* An element is added.
LEMMA Appended ==
    ASSUME NEW S, NEW s \in Seq(S), NEW e \in S
    PROVE  /\ Append(s, e) \in Seq(S) /\ Len(Append(s, e)) = Len(s) + 1
           /\ \A i \in 1 .. Len(s) : Append(s, e)[i] = s[i]
           /\ Append(s, e)[Len(s) + 1] = e
OBVIOUS

\* What the invariant says of one agent in the middle of a call, and what a call keeps.
OK(x, a) == Tables(x, a) /\ Stated(a) /\ Writes(x, a)
Keeps(a, b) ==
    /\ b.local_credentials = a.local_credentials /\ b.pending_local_credentials = a.pending_local_credentials
    /\ b.remote_credentials = a.remote_credentials /\ b.is_controlling = a.is_controlling
    /\ b.connection_state = "New" <=> a.connection_state = "New"
    /\ b.connection_state = "Closed" <=> a.connection_state = "Closed"
Leaves(x, a, b) == OK(x, b) /\ Keeps(a, b)

\* Calls follow each other.
LEMMA LeavesTrans == ASSUME NEW x, NEW a, NEW b, NEW c, Leaves(x, a, b), Leaves(x, b, c) PROVE Leaves(x, a, c)
BY Zenon DEF Leaves, Keeps

\* A call that does nothing.
LEMMA LeavesSame == ASSUME NEW x, NEW a, OK(x, a) PROVE Leaves(x, a, a)
BY Zenon DEF Leaves, Keeps

\* The pair that is found has the two candidates.
LEMMA FoundPair ==
    ASSUME NEW a, a.candidate_pairs \in Seq(Pairs), NEW l, NEW r
    PROVE  /\ find_pair(a, l, r) \in 0 .. Len(a.candidate_pairs)
           /\ find_pair(a, l, r) # None => /\ a.candidate_pairs[find_pair(a, l, r)].local = l
                                           /\ a.candidate_pairs[find_pair(a, l, r)].remote = r
           /\ (\E i \in DOMAIN a.candidate_pairs : a.candidate_pairs[i].local = l /\ a.candidate_pairs[i].remote = r)
                 => find_pair(a, l, r) # None
<1> DEFINE S == {i \in DOMAIN a.candidate_pairs : a.candidate_pairs[i].local = l /\ a.candidate_pairs[i].remote = r}
<1>1. DOMAIN a.candidate_pairs = 1 .. Len(a.candidate_pairs) /\ Len(a.candidate_pairs) \in Nat BY Length, Zenon
<1>2. S # {} => Min(S) \in S
  <2>1. S \in SUBSET Nat BY <1>1
  <2> HIDE DEF S
  <2> QED BY <2>1, MinIn, Zenon
<1>3. find_pair(a, l, r) = IF S # {} THEN Min(S) ELSE None BY Zenon DEF find_pair, IndexOf
<1> HIDE DEF S
<1>4. \A i \in S : i \in 1 .. Len(a.candidate_pairs) /\ a.candidate_pairs[i].local = l /\ a.candidate_pairs[i].remote = r
      BY <1>1, Zenon DEF S
<1>5. (\E i \in DOMAIN a.candidate_pairs : a.candidate_pairs[i].local = l /\ a.candidate_pairs[i].remote = r) => S # {}
      BY Zenon DEF S
<1> QED BY <1>1, <1>2, <1>3, <1>4, <1>5 DEF None

\* The remote candidate that is found has the address.
LEMMA FoundRemote ==
    ASSUME NEW a, a.remote_candidates \in Seq(Candidates), NEW addr
    PROVE  find_remote_candidate(a, addr) # None => find_remote_candidate(a, addr) \in DOMAIN a.remote_candidates
<1> DEFINE S == {i \in DOMAIN a.remote_candidates : a.remote_candidates[i].addr = addr}
<1>1. DOMAIN a.remote_candidates = 1 .. Len(a.remote_candidates) /\ Len(a.remote_candidates) \in Nat BY Length, Zenon
<1>2. S # {} => Min(S) \in S
  <2>1. S \in SUBSET Nat BY <1>1
  <2> HIDE DEF S
  <2> QED BY <2>1, MinIn, Zenon
<1>3. find_remote_candidate(a, addr) = IF S # {} THEN Min(S) ELSE None BY Zenon DEF find_remote_candidate, IndexOf
<1> QED BY <1>2, <1>3, Zenon

\* So has the local one.
LEMMA FoundLocal ==
    ASSUME NEW x, NEW a, a.local_candidates \in Seq(Addrs[x]), NEW addr
    PROVE  find_local_candidate(a, addr) # None => find_local_candidate(a, addr) \in DOMAIN a.local_candidates
<1> DEFINE S == {i \in DOMAIN a.local_candidates : a.local_candidates[i] = addr}
<1>1. DOMAIN a.local_candidates = 1 .. Len(a.local_candidates) /\ Len(a.local_candidates) \in Nat BY Length, Zenon
<1>2. S # {} => Min(S) \in S
  <2>1. S \in SUBSET Nat BY <1>1
  <2> HIDE DEF S
  <2> QED BY <2>1, MinIn, Zenon
<1>3. find_local_candidate(a, addr) = IF S # {} THEN Min(S) ELSE None BY Zenon DEF find_local_candidate, IndexOf
<1> QED BY <1>2, <1>3, Zenon

\* The best pair is one in the states asked for.
LEMMA BestPair ==
    ASSUME NEW a, a.candidate_pairs \in Seq(Pairs), NEW states
    PROVE  Best(a, states) # None => /\ Best(a, states) \in 1 .. Len(a.candidate_pairs)
                                     /\ a.candidate_pairs[Best(a, states)].state \in states
<1> DEFINE ok == {i \in DOMAIN a.candidate_pairs : a.candidate_pairs[i].state \in states}
<1> DEFINE pr(i) == rank(a.remote_candidates[a.candidate_pairs[i].remote].type)
<1> DEFINE top == {i \in ok : \A j \in ok : pr(j) <= pr(i)}
<1>1. DOMAIN a.candidate_pairs = 1 .. Len(a.candidate_pairs) /\ Len(a.candidate_pairs) \in Nat BY Length, Zenon
<1>2. Best(a, states) = IF ok = {} THEN None ELSE Min(top) BY Zenon DEF Best
<1>3. \A i : pr(i) \in {1, 2} BY Zenon DEF rank
<1>4. top \subseteq ok /\ (ok # {} => top # {})
  <2> HIDE DEF pr
  <2> QED BY <1>3
<1>5. ok # {} => Min(top) \in ok
  <2>1. ok \in SUBSET Nat BY <1>1
  <2> HIDE DEF ok, top
  <2>2. top \in SUBSET Nat BY <1>4, <2>1, Zenon
  <2> QED BY <1>4, <2>2, MinIn, Zenon
<1> QED BY <1>1, <1>2, <1>5, Zenon

\* Fields of an agent.
LEMMA Fields == ASSUME NEW x, NEW a, OK(x, a)
                PROVE  /\ DOMAIN a = AgentFields
                       /\ a.local_candidates \in Seq(Addrs[x]) /\ a.remote_candidates \in Seq(Candidates)
                       /\ a.candidate_pairs \in Seq(Pairs)
                       /\ Len(a.local_candidates) \in Nat /\ DOMAIN a.local_candidates = 1 .. Len(a.local_candidates)
                       /\ Len(a.remote_candidates) \in Nat /\ DOMAIN a.remote_candidates = 1 .. Len(a.remote_candidates)
                       /\ Len(a.candidate_pairs) \in Nat /\ DOMAIN a.candidate_pairs = 1 .. Len(a.candidate_pairs)
                       /\ Named(a, a.candidate_pairs)
BY Length, Zenon DEF OK, Tables

\* A call that touches neither the tables nor the state of an agent.
SameCore(a, b) ==
    /\ b.connection_state = a.connection_state /\ b.is_controlling = a.is_controlling
    /\ b.local_credentials = a.local_credentials /\ b.pending_local_credentials = a.pending_local_credentials
    /\ b.remote_credentials = a.remote_credentials
    /\ b.local_candidates = a.local_candidates /\ b.remote_candidates = a.remote_candidates
    /\ b.candidate_pairs = a.candidate_pairs /\ b.nominated_pair = a.nominated_pair
    /\ b.selected_pair = a.selected_pair

\* Such a call keeps all there is to keep.
LEMMA CoreLeaves ==
    ASSUME NEW x, NEW a, OK(x, a), NEW b, DOMAIN b = AgentFields, SameCore(a, b), Writes(x, b)
    PROVE  Leaves(x, a, b)
<1>1. Keeps(a, b) BY Zenon DEF Keeps, SameCore
<1>2. Tables(x, b) BY Zenon DEF OK, Tables, Named, SameCore
<1>3. Stated(b) BY Zenon DEF OK, Stated, SameCore
<1> QED BY <1>1, <1>2, <1>3, Zenon DEF Leaves, OK

\* A call that only writes.
LEMMA Sends ==
    ASSUME NEW x, NEW a, OK(x, a), NEW w, \A m \in w : Message(m) /\ Claims(x, a.is_controlling, m)
    PROVE  Leaves(x, a, [a EXCEPT !.write_outs = w])
<1> DEFINE b == [a EXCEPT !.write_outs = w]
<1>1. DOMAIN a = AgentFields BY Fields, Zenon
<1>2. DOMAIN b = AgentFields /\ b.write_outs = w /\ SameCore(a, b) BY <1>1, Zenon DEF AgentFields, SameCore
<1> HIDE DEF b
<1>3. Writes(x, b) BY <1>2, Zenon DEF Writes, SameCore
<1>4. Leaves(x, a, b) BY <1>2, <1>3, CoreLeaves, Zenon
<1> QED BY <1>4, Zenon DEF b

\* A call that changes pairs or adds some, and undoes no success.
LEMMA PairsLeave ==
    ASSUME NEW x, NEW a, OK(x, a), NEW ps \in Seq(Pairs), Named(a, ps), Len(ps) >= Len(a.candidate_pairs),
           \A i \in 1 .. Len(a.candidate_pairs) : a.candidate_pairs[i].state = "Succeeded" => ps[i].state = "Succeeded"
    PROVE  Leaves(x, a, [a EXCEPT !.candidate_pairs = ps])
<1> DEFINE b == [a EXCEPT !.candidate_pairs = ps]
<1>1. DOMAIN a = AgentFields BY Fields, Zenon
<1>2. /\ DOMAIN b = AgentFields /\ b.candidate_pairs = ps /\ b.write_outs = a.write_outs
      /\ b.connection_state = a.connection_state /\ b.is_controlling = a.is_controlling
      /\ b.local_credentials = a.local_credentials /\ b.pending_local_credentials = a.pending_local_credentials
      /\ b.remote_credentials = a.remote_credentials
      /\ b.local_candidates = a.local_candidates /\ b.remote_candidates = a.remote_candidates
      /\ b.nominated_pair = a.nominated_pair /\ b.selected_pair = a.selected_pair
      BY <1>1, Zenon DEF AgentFields
<1> HIDE DEF b
<1>3. Len(ps) \in Nat /\ Len(a.candidate_pairs) \in Nat BY Fields, Length, Zenon
<1>4. Keeps(a, b) BY <1>2, Zenon DEF Keeps
<1>5. Tables(x, b) BY <1>2, <1>3 DEF OK, Tables, Named
<1>6. Stated(b) BY <1>2, <1>3 DEF OK, Stated, None
<1>7. Writes(x, b) BY <1>2, Zenon DEF OK, Writes
<1>8. Leaves(x, a, b) BY <1>4, <1>5, <1>6, <1>7, Zenon DEF Leaves, OK
<1> QED BY <1>8, Zenon DEF b

\* A call that adds candidates and pairs of them.
LEMMA GrownLeaves ==
    ASSUME NEW x, NEW a, OK(x, a), NEW ls \in Seq(Addrs[x]), NEW rs \in Seq(Candidates), NEW ps \in Seq(Pairs),
           Len(ls) >= Len(a.local_candidates), Len(rs) >= Len(a.remote_candidates),
           Len(ps) >= Len(a.candidate_pairs),
           \A i \in 1 .. Len(a.candidate_pairs) : ps[i] = a.candidate_pairs[i],
           \A i \in Len(a.candidate_pairs) + 1 .. Len(ps) : ps[i].local \in 1 .. Len(ls) /\ ps[i].remote \in 1 .. Len(rs),
           a.connection_state = "Closed" => ls = a.local_candidates,
           NEW b, DOMAIN b = AgentFields, b.local_candidates = ls, b.remote_candidates = rs, b.candidate_pairs = ps,
           \A f \in AgentFields \ {"local_candidates", "remote_candidates", "candidate_pairs"} : b[f] = a[f]
    PROVE  Leaves(x, a, b)
<1>1. /\ b.write_outs = a.write_outs
      /\ b.connection_state = a.connection_state /\ b.is_controlling = a.is_controlling
      /\ b.local_credentials = a.local_credentials /\ b.pending_local_credentials = a.pending_local_credentials
      /\ b.remote_credentials = a.remote_credentials
      /\ b.nominated_pair = a.nominated_pair /\ b.selected_pair = a.selected_pair
      BY Zenon DEF AgentFields
<1>2. /\ Len(ps) \in Nat /\ DOMAIN ps = 1 .. Len(ps) /\ Len(ls) \in Nat /\ DOMAIN ls = 1 .. Len(ls)
      /\ Len(rs) \in Nat /\ DOMAIN rs = 1 .. Len(rs)
      BY Length, Zenon
<1>3. Len(a.candidate_pairs) \in Nat /\ Len(a.local_candidates) \in Nat /\ Len(a.remote_candidates) \in Nat
      /\ \A i \in 1 .. Len(a.candidate_pairs) : a.candidate_pairs[i].local \in 1 .. Len(a.local_candidates)
                                                /\ a.candidate_pairs[i].remote \in 1 .. Len(a.remote_candidates)
      BY Fields, Zenon DEF Named
<1>4. Keeps(a, b) BY <1>1, Zenon DEF Keeps
<1>5. Named(b, b.candidate_pairs)
  <2> SUFFICES ASSUME NEW i \in 1 .. Len(ps) PROVE ps[i].local \in 1 .. Len(ls) /\ ps[i].remote \in 1 .. Len(rs)
      BY <1>2, Zenon DEF Named
  <2>1. CASE i <= Len(a.candidate_pairs)
    <3>1. i \in 1 .. Len(a.candidate_pairs) BY <1>2, <1>3, <2>1
    <3>2. ps[i] = a.candidate_pairs[i] BY <3>1, Zenon
    <3>3. ps[i].local \in 1 .. Len(a.local_candidates) /\ ps[i].remote \in 1 .. Len(a.remote_candidates)
          BY <1>3, <3>1, <3>2, Zenon
    <3> QED BY <1>2, <1>3, <3>3
  <2>2. CASE i > Len(a.candidate_pairs) BY <1>2, <1>3, <2>2
  <2> QED BY <1>2, <1>3, <2>1, <2>2
<1>6. Tables(x, b) BY <1>1, <1>2, <1>3, <1>5 DEF OK, Tables
<1>7. Stated(b) BY <1>1, <1>2, <1>3 DEF OK, Stated, None
<1>8. Writes(x, b) BY <1>1, Zenon DEF OK, Writes
<1> QED BY <1>4, <1>6, <1>7, <1>8, Zenon DEF Leaves, OK

\* A request goes from an address of the agent and claims its role.
LEMMA RequestOK ==
    ASSUME NEW x \in Agents, NEW a, OK(x, a), NEW l \in DOMAIN a.local_candidates, NEW r \in DOMAIN a.remote_candidates, NEW use
    PROVE  /\ Message(Request(a, a.local_candidates[l], a.remote_candidates[r].addr, use))
           /\ Claims(x, a.is_controlling, Request(a, a.local_candidates[l], a.remote_candidates[r].addr, use))
<1> DEFINE m == Request(a, a.local_candidates[l], a.remote_candidates[r].addr, use)
<1>1. a.local_candidates[l] \in Addrs[x] /\ a.remote_candidates[r] \in Candidates BY Fields, Element, Zenon
<1>2. a.local_candidates[l] \in AllAddrs /\ a.remote_candidates[r].addr \in AllAddrs
      BY <1>1, Zenon DEF AllAddrs, Candidates
<1>3. /\ m.type = "REQUEST" /\ m.from = a.local_candidates[l] /\ m.to = a.remote_candidates[r].addr
      /\ m.controlling = a.is_controlling /\ DOMAIN m = RequestFields
      BY Zenon DEF Request, RequestFields
<1> HIDE DEF m
<1>4. Message(m) /\ Claims(x, a.is_controlling, m) BY <1>1, <1>2, <1>3, Zenon DEF Message, Claims
<1> QED BY <1>4, Zenon DEF m

\* A check of a pair.
LEMMA SendLeaves ==
    ASSUME NEW x \in Agents, NEW a, OK(x, a), NEW l \in DOMAIN a.local_candidates, NEW r \in DOMAIN a.remote_candidates, NEW use
    PROVE  Leaves(x, a, send_binding_request(a, l, r, use))
<1> DEFINE m == Request(a, a.local_candidates[l], a.remote_candidates[r].addr, use)
<1> DEFINE w == a.write_outs \cup {m}
<1>1. send_binding_request(a, l, r, use) = [a EXCEPT !.write_outs = w] BY Zenon DEF send_binding_request
<1>2. Message(m) /\ Claims(x, a.is_controlling, m) BY RequestOK, Zenon
<1> HIDE DEF m
<1>3. \A q \in w : Message(q) /\ Claims(x, a.is_controlling, q) BY <1>2, Zenon DEF OK, Writes
<1> HIDE DEF w
<1> QED BY <1>1, <1>3, Sends

\* A check without nomination.
LEMMA PingLeaves ==
    ASSUME NEW x \in Agents, NEW a, OK(x, a), NEW l \in DOMAIN a.local_candidates, NEW r \in DOMAIN a.remote_candidates
    PROVE  Leaves(x, a, ping_candidate(a, l, r))
BY SendLeaves, LeavesSame, Zenon DEF ping_candidate

\* A nomination.
LEMMA NominateLeaves ==
    ASSUME NEW x \in Agents, NEW a, OK(x, a), a.nominated_pair # None
    PROVE  Leaves(x, a, nominate_pair(a))
<1>1. a.nominated_pair \in DOMAIN a.candidate_pairs BY Fields DEF OK, Tables, None
<1> DEFINE q == a.candidate_pairs[a.nominated_pair]
<1>2. q.local \in DOMAIN a.local_candidates /\ q.remote \in DOMAIN a.remote_candidates BY <1>1, Fields, Zenon DEF Named
<1>3. Leaves(x, a, send_binding_request(a, q.local, q.remote, TRUE))
  <2> HIDE DEF q
  <2> QED BY <1>2, SendLeaves, Zenon
<1> QED BY <1>3, LeavesSame, Zenon DEF nominate_pair

\* A new pair.
LEMMA NewPairIs == ASSUME NEW l \in Nat, NEW r \in Nat, MaxBinding \in Nat
                   PROVE  NewPair(l, r) \in Pairs /\ NewPair(l, r).local = l /\ NewPair(l, r).remote = r
BY DEF NewPair, Pairs

\* It is added.
LEMMA AddPairLeaves ==
    ASSUME NEW x \in Agents, NEW a, OK(x, a), MaxBinding \in Nat,
           NEW l \in DOMAIN a.local_candidates, NEW r \in DOMAIN a.remote_candidates
    PROVE  /\ Leaves(x, a, add_pair(a, l, r))
           /\ /\ add_pair(a, l, r).local_candidates = a.local_candidates
              /\ add_pair(a, l, r).remote_candidates = a.remote_candidates
           /\ find_pair(add_pair(a, l, r), l, r) # None
<1> DEFINE q == NewPair(l, r)
<1> DEFINE ps == Append(a.candidate_pairs, q)
<1>1. l \in Nat /\ r \in Nat BY Fields
<1>2. q \in Pairs /\ q.local = l /\ q.remote = r BY <1>1, NewPairIs, Zenon
<1> HIDE DEF q
<1>3. add_pair(a, l, r) = [a EXCEPT !.candidate_pairs = ps] BY Zenon DEF add_pair, q
<1>4. /\ ps \in Seq(Pairs) /\ Len(ps) = Len(a.candidate_pairs) + 1 /\ DOMAIN ps = 1 .. Len(ps)
      /\ ps[Len(ps)] = q /\ \A i \in 1 .. Len(a.candidate_pairs) : ps[i] = a.candidate_pairs[i]
      BY <1>2, Fields, Appended
<1> HIDE DEF ps
<1>5. Named(a, ps)
  <2>1. \A i \in 1 .. Len(a.candidate_pairs) : /\ a.candidate_pairs[i].local \in DOMAIN a.local_candidates
                                               /\ a.candidate_pairs[i].remote \in DOMAIN a.remote_candidates
        BY Fields, Zenon DEF Named
  <2>2. \A i \in DOMAIN ps : i \in 1 .. Len(a.candidate_pairs) \/ i = Len(ps) BY <1>4, Fields
  <2> QED BY <1>2, <1>4, <2>1, <2>2, Zenon DEF Named
<1>6. Leaves(x, a, [a EXCEPT !.candidate_pairs = ps])
  <2>1. Len(ps) >= Len(a.candidate_pairs) BY <1>4, Fields
  <2>2. \A i \in 1 .. Len(a.candidate_pairs) : a.candidate_pairs[i].state = "Succeeded" => ps[i].state = "Succeeded"
        BY <1>4, Zenon
  <2> QED BY <1>4, <1>5, <2>1, <2>2, PairsLeave, Zenon
<1>7. /\ [a EXCEPT !.candidate_pairs = ps].local_candidates = a.local_candidates
      /\ [a EXCEPT !.candidate_pairs = ps].remote_candidates = a.remote_candidates
      /\ [a EXCEPT !.candidate_pairs = ps].candidate_pairs = ps
      BY Fields, Zenon DEF AgentFields
<1>8. find_pair([a EXCEPT !.candidate_pairs = ps], l, r) # None
  <2> DEFINE b == [a EXCEPT !.candidate_pairs = ps]
  <2>1. b.candidate_pairs = ps BY <1>7, Zenon
  <2> HIDE DEF b
  <2>2. Len(ps) \in DOMAIN b.candidate_pairs BY <1>4, <2>1, Fields
  <2>3. find_pair(b, l, r) # None BY <1>2, <1>4, <2>1, <2>2, FoundPair
  <2> QED BY <2>3, Zenon DEF b
<1> QED BY <1>3, <1>6, <1>7, <1>8, Zenon

\* Where the pairs of new candidates point to.
LEMMA Numbering ==
    ASSUME NEW m \in Nat, NEW n \in Nat, NEW k \in 1 .. n * m
    PROVE  ((k - 1) % m) + 1 \in 1 .. m /\ ((k - 1) \div m) + 1 \in 1 .. n
<1>1. m > 0
  <2>1. CASE m = 0
    <3>1. n * m = 0 BY <2>1
    <3> QED BY <3>1
  <2> QED BY <2>1
<1>2. n * m \in Nat OBVIOUS
<1>3. k - 1 \in Nat /\ k - 1 < n * m BY <1>2
<1> DEFINE d == (k - 1) \div m
<1>4. (k - 1) % m \in 0 .. m - 1 BY <1>1, <1>3
<1>5. d \in Nat /\ k - 1 = m * d + ((k - 1) % m) BY <1>1, <1>3
<1>6. d < n
  <2> SUFFICES ASSUME d >= n PROVE FALSE BY <1>5
  <2>1. PICK e \in Nat : d = n + e BY <1>5
  <2>2. m * (n + e) = n * m + m * e BY <1>1
  <2>3. m * e \in Nat OBVIOUS
  <2>4. m * d = n * m + m * e BY <2>1, <2>2, Zenon
  <2> HIDE DEF d
  <2> QED BY <1>2, <1>3, <1>4, <1>5, <2>3, <2>4
<1> QED BY <1>4, <1>5, <1>6

\* One sequence after another.
LEMMA Joined ==
    ASSUME NEW S, NEW s \in Seq(S), NEW t \in Seq(S)
    PROVE  /\ s \o t \in Seq(S)
           /\ Len(s \o t) = Len(s) + Len(t)
           /\ \A i \in 1 .. Len(s) : (s \o t)[i] = s[i]
           /\ \A i \in Len(s) + 1 .. Len(s) + Len(t) : i - Len(s) \in 1 .. Len(t) /\ (s \o t)[i] = t[i - Len(s)]
<1>1. Len(s) \in Nat /\ Len(t) \in Nat BY Length, Zenon
<1>2. /\ s \o t \in Seq(S) /\ Len(s \o t) = Len(s) + Len(t)
      /\ \A i \in 1 .. Len(s) + Len(t) : (s \o t)[i] = IF i <= Len(s) THEN s[i] ELSE t[i - Len(s)]
      OBVIOUS
<1> DEFINE u == s \o t
<1> HIDE DEF u
<1>3. \A i \in 1 .. Len(s) + Len(t) : u[i] = IF i <= Len(s) THEN s[i] ELSE t[i - Len(s)] BY <1>2, Zenon DEF u
<1>4. \A i \in 1 .. Len(s) : u[i] = s[i] BY <1>1, <1>3
<1>5. \A i \in Len(s) + 1 .. Len(s) + Len(t) : i - Len(s) \in 1 .. Len(t) /\ u[i] = t[i - Len(s)] BY <1>1, <1>3
<1> QED BY <1>2, <1>4, <1>5, Zenon DEF u

\* Remote candidates are added, each with a pair for every local one.
LEMMA AddNewLeaves ==
    ASSUME NEW x \in Agents, NEW a, OK(x, a), MaxBinding \in Nat, NEW new \in Seq(Candidates)
    PROVE  Leaves(x, a, AddNew(a, new)) /\ AddNew(a, new).local_candidates = a.local_candidates
<1> DEFINE m == Len(a.local_candidates)
<1> DEFINE n == Len(a.remote_candidates)
<1> DEFINE more == [k \in 1 .. Len(new) * m |-> NewPair(((k - 1) % m) + 1, n + ((k - 1) \div m) + 1)]
<1> DEFINE rs == a.remote_candidates \o new
<1> DEFINE ps == a.candidate_pairs \o more
<1> DEFINE b == AddNew(a, new)
<1>1. b = [a EXCEPT !.remote_candidates = rs, !.candidate_pairs = ps] BY Zenon DEF AddNew
<1>2. m \in Nat /\ n \in Nat /\ Len(new) \in Nat /\ Len(a.candidate_pairs) \in Nat BY Fields, Length, Zenon
<1>3. Len(new) * m \in Nat BY <1>2
<1> HIDE DEF m, n
<1>4. \A k \in 1 .. Len(new) * m : /\ more[k] \in Pairs /\ more[k].local \in 1 .. m
                                   /\ more[k].remote \in 1 .. n + Len(new)
  <2> SUFFICES ASSUME NEW k \in 1 .. Len(new) * m
               PROVE  more[k] \in Pairs /\ more[k].local \in 1 .. m /\ more[k].remote \in 1 .. n + Len(new)
      BY Zenon
  <2> DEFINE l == ((k - 1) % m) + 1
  <2> DEFINE d == ((k - 1) \div m) + 1
  <2>1. l \in 1 .. m /\ d \in 1 .. Len(new) BY <1>2, Numbering, Zenon
  <2>2. more[k] = NewPair(l, n + d)
    <3>1. more[k] = NewPair(((k - 1) % m) + 1, n + ((k - 1) \div m) + 1) BY Zenon
    <3>2. (k - 1) \div m \in Int BY <2>1, <1>2
    <3>3. n + ((k - 1) \div m) + 1 = n + d BY <1>2, <3>2
    <3> QED BY <3>1, <3>3, Zenon
  <2> HIDE DEF l, d
  <2>3. l \in Nat /\ n + d \in 1 .. n + Len(new) /\ n + d \in Nat BY <1>2, <2>1
  <2> HIDE DEF more
  <2> QED BY <2>1, <2>2, <2>3, NewPairIs
<1>5. more \in Seq(Pairs) /\ Len(more) = Len(new) * m
  <2>1. more \in [1 .. Len(new) * m -> Pairs] BY <1>4, Zenon
  <2> HIDE DEF more
  <2> QED BY <1>3, <2>1, Listed, Zenon
<1>6. DOMAIN b = AgentFields /\ b.remote_candidates = rs /\ b.candidate_pairs = ps
      BY <1>1, Fields, Zenon DEF AgentFields
<1>7. \A f \in AgentFields \ {"local_candidates", "remote_candidates", "candidate_pairs"} : b[f] = a[f]
      BY <1>1, Fields, Zenon
<1>8. b.local_candidates = a.local_candidates BY <1>1, Fields, Zenon DEF AgentFields
<1> HIDE DEF more, b
<1>9. rs \in Seq(Candidates) /\ Len(rs) = n + Len(new) BY Fields, Joined DEF n
<1>10. /\ ps \in Seq(Pairs) /\ Len(ps) = Len(a.candidate_pairs) + Len(more)
       /\ \A i \in 1 .. Len(a.candidate_pairs) : ps[i] = a.candidate_pairs[i]
       /\ \A i \in Len(a.candidate_pairs) + 1 .. Len(a.candidate_pairs) + Len(more) :
             i - Len(a.candidate_pairs) \in 1 .. Len(more) /\ ps[i] = more[i - Len(a.candidate_pairs)]
  <2>1. a.candidate_pairs \in Seq(Pairs) BY Fields, Zenon
  <2>2. more \in Seq(Pairs) BY <1>5, Zenon
  <2> QED BY <2>1, <2>2, Joined
<1> HIDE DEF rs, ps
<1>11. Len(more) \in Nat BY <1>3, <1>5, Zenon
<1>12. \A i \in Len(a.candidate_pairs) + 1 .. Len(ps) :
          ps[i].local \in 1 .. Len(a.local_candidates) /\ ps[i].remote \in 1 .. Len(rs)
  <2> SUFFICES ASSUME NEW i \in Len(a.candidate_pairs) + 1 .. Len(ps)
               PROVE  ps[i].local \in 1 .. Len(a.local_candidates) /\ ps[i].remote \in 1 .. Len(rs)
      BY Zenon
  <2>1. i - Len(a.candidate_pairs) \in 1 .. Len(new) * m /\ ps[i] = more[i - Len(a.candidate_pairs)]
        BY <1>5, <1>10, Zenon
  <2> QED BY <1>4, <1>9, <2>1, Zenon DEF m
<1>13. Leaves(x, a, b)
  <2>1. Len(rs) >= Len(a.remote_candidates) /\ Len(ps) >= Len(a.candidate_pairs)
        /\ Len(a.local_candidates) >= Len(a.local_candidates)
        BY <1>2, <1>9, <1>10, <1>11 DEF n, m
  <2>2. a.local_candidates \in Seq(Addrs[x]) BY Fields, Zenon
  <2> QED BY <1>6, <1>7, <1>8, <1>9, <1>10, <1>11, <1>12, <2>1, <2>2, GrownLeaves, Zenon
<1> QED BY <1>8, <1>13, Zenon DEF b

\* A candidate of the peer.
LEMMA AddRemoteLeaves ==
    ASSUME NEW x \in Agents, NEW a, OK(x, a), MaxBinding \in Nat, NEW addr \in AllAddrs, NEW type \in {"host", "prflx"}
    PROVE  Leaves(x, a, AddRemote(a, addr, type)) /\ AddRemote(a, addr, type).local_candidates = a.local_candidates
<1> DEFINE c == [addr |-> addr, type |-> type]
<1>1. c \in Candidates BY Zenon DEF Candidates
<1> HIDE DEF c
<1>2. <<c>> \in Seq(Candidates) BY <1>1
<1>3. Leaves(x, a, AddNew(a, <<c>>)) /\ AddNew(a, <<c>>).local_candidates = a.local_candidates
      BY <1>2, AddNewLeaves, Zenon
<1> QED BY <1>3, LeavesSame, Zenon DEF AddRemote, c

\* The candidates of a description.
LEMMA AddDescribedLeaves ==
    ASSUME Parameters, NEW x \in Agents, NEW a, OK(x, a)
    PROVE  Leaves(x, a, AddDescribed(x, a))
<1> DEFINE S == {addr \in plan.described \cap Addrs[Peer(x)] : ~ IsKnown(a, addr, "host")}
<1> DEFINE new == InSomeOrder(S)
<1> DEFINE cs == [i \in DOMAIN new |-> [addr |-> new[i], type |-> "host"]]
<1>1. Peer(x) \in Agents BY DEF Parameters, Peer
<1>2. S \subseteq Addrs[Peer(x)] BY Zenon
<1>3. new \in Seq(S) BY <1>1, <1>2, Zenon DEF Parameters
<1>4. S \subseteq AllAddrs BY <1>1, <1>2, Zenon DEF AllAddrs
<1> HIDE DEF S, new
<1>5. Len(new) \in Nat /\ DOMAIN new = 1 .. Len(new) /\ \A i \in 1 .. Len(new) : new[i] \in AllAddrs
      BY <1>3, <1>4, Length, Element, Zenon
<1>6. cs \in [1 .. Len(new) -> Candidates] BY <1>5, Zenon DEF Candidates
<1> HIDE DEF cs
<1>7. cs \in Seq(Candidates) BY <1>5, <1>6, Listed, Zenon
<1>8. AddDescribed(x, a) = AddNew(a, cs) BY Zenon DEF AddDescribed, cs, new, S
<1> QED BY <1>7, <1>8, AddNewLeaves DEF Parameters

\* A local candidate is gathered.
LEMMA AddLocalLeaves ==
    ASSUME NEW x \in Agents, NEW a, OK(x, a), MaxBinding \in Nat, a.connection_state # "Closed", NEW addr \in Addrs[x]
    PROVE  Leaves(x, a, add_local_candidate(a, addr))
<1> DEFINE m == Len(a.local_candidates)
<1> DEFINE more == [r \in DOMAIN a.remote_candidates |-> NewPair(m + 1, r)]
<1> DEFINE ls == Append(a.local_candidates, addr)
<1> DEFINE ps == a.candidate_pairs \o more
<1> DEFINE b == add_local_candidate(a, addr)
<1>1. b = [a EXCEPT !.local_candidates = ls, !.candidate_pairs = ps] BY Zenon DEF add_local_candidate
<1>2. m \in Nat /\ Len(a.remote_candidates) \in Nat /\ DOMAIN a.remote_candidates = 1 .. Len(a.remote_candidates)
      /\ Len(a.candidate_pairs) \in Nat
      BY Fields, Zenon
<1>3. \A r \in 1 .. Len(a.remote_candidates) : more[r] \in Pairs /\ more[r].local = m + 1 /\ more[r].remote = r
      BY <1>2, NewPairIs
<1>4. more \in Seq(Pairs) /\ Len(more) = Len(a.remote_candidates)
  <2>1. more \in [1 .. Len(a.remote_candidates) -> Pairs] BY <1>2, <1>3, Zenon
  <2> HIDE DEF more
  <2> QED BY <1>2, <2>1, Listed, Zenon
<1>5. DOMAIN b = AgentFields /\ b.local_candidates = ls /\ b.candidate_pairs = ps
      BY <1>1, Fields, Zenon DEF AgentFields
<1>6. \A f \in AgentFields \ {"local_candidates", "remote_candidates", "candidate_pairs"} : b[f] = a[f]
      BY <1>1, Fields, Zenon
<1>7. b.remote_candidates = a.remote_candidates BY <1>1, Fields, Zenon DEF AgentFields
<1> HIDE DEF more, b
<1>8. ls \in Seq(Addrs[x]) /\ Len(ls) = m + 1
  <2> DEFINE old == a.local_candidates
  <2> DEFINE A == Addrs[x]
  <2>1. old \in Seq(A) BY Fields, Zenon
  <2>2. addr \in A BY Zenon
  <2> HIDE DEF old, A
  <2>3. Append(old, addr) \in Seq(A) /\ Len(Append(old, addr)) = Len(old) + 1 BY <2>1, <2>2, Appended
  <2> QED BY <2>3, Zenon DEF old, A
<1>9. /\ ps \in Seq(Pairs) /\ Len(ps) = Len(a.candidate_pairs) + Len(more)
      /\ \A i \in 1 .. Len(a.candidate_pairs) : ps[i] = a.candidate_pairs[i]
      /\ \A i \in Len(a.candidate_pairs) + 1 .. Len(a.candidate_pairs) + Len(more) :
            i - Len(a.candidate_pairs) \in 1 .. Len(more) /\ ps[i] = more[i - Len(a.candidate_pairs)]
  <2>1. a.candidate_pairs \in Seq(Pairs) BY Fields, Zenon
  <2>2. more \in Seq(Pairs) BY <1>4, Zenon
  <2> QED BY <2>1, <2>2, Joined
<1> HIDE DEF ls, ps, m
<1>10. Len(more) \in Nat BY <1>2, <1>4, Zenon
<1>11. \A i \in Len(a.candidate_pairs) + 1 .. Len(ps) :
          ps[i].local \in 1 .. Len(ls) /\ ps[i].remote \in 1 .. Len(a.remote_candidates)
  <2> SUFFICES ASSUME NEW i \in Len(a.candidate_pairs) + 1 .. Len(ps)
               PROVE  ps[i].local \in 1 .. Len(ls) /\ ps[i].remote \in 1 .. Len(a.remote_candidates)
      BY Zenon
  <2>1. i - Len(a.candidate_pairs) \in 1 .. Len(a.remote_candidates) /\ ps[i] = more[i - Len(a.candidate_pairs)]
        BY <1>4, <1>9, Zenon
  <2>2. ps[i].local = m + 1 /\ ps[i].remote = i - Len(a.candidate_pairs) BY <1>3, <2>1, Zenon
  <2> QED BY <1>2, <1>8, <2>1, <2>2
<1>12. Leaves(x, a, b)
  <2>1. Len(ls) >= Len(a.local_candidates) /\ Len(ps) >= Len(a.candidate_pairs)
        /\ Len(a.remote_candidates) >= Len(a.remote_candidates)
        BY <1>2, <1>8, <1>9, <1>10 DEF m
  <2>2. a.remote_candidates \in Seq(Candidates) BY Fields, Zenon
  <2> QED BY <1>5, <1>6, <1>7, <1>8, <1>9, <1>10, <1>11, <2>1, <2>2, GrownLeaves, Zenon
<1> QED BY <1>12, Zenon DEF b

\* A pair that is checked again, or given up.
LEMMA PingedIs ==
    ASSUME MaxBinding \in Nat, NEW q \in Pairs
    PROVE  /\ Pinged(q) \in Pairs /\ Pinged(q).local = q.local /\ Pinged(q).remote = q.remote
           /\ q.state = "Succeeded" => Pinged(q).state = "Succeeded"
<1>1. CASE ~ Tried(q) BY <1>1, Zenon DEF Pinged
<1>2. CASE Tried(q) /\ q.binding_request_count > MaxBinding
  <2>1. Pinged(q) = [q EXCEPT !.state = "Failed"] BY <1>2, Zenon DEF Pinged
  <2> QED BY <1>2, <2>1, Zenon DEF Pairs, Tried
<1>3. CASE Tried(q) /\ ~(q.binding_request_count > MaxBinding)
  <2>1. Pinged(q) = [q EXCEPT !.state = "InProgress", !.binding_request_count = q.binding_request_count + 1]
        BY <1>3, Zenon DEF Pinged
  <2>2. q.binding_request_count + 1 \in 0 .. MaxBinding + 1 BY <1>3 DEF Pairs
  <2> QED BY <1>3, <2>1, <2>2, Zenon DEF Pairs, Tried
<1> QED BY <1>1, <1>2, <1>3, Zenon

\* Every pair is checked.
LEMMA PingAllLeaves ==
    ASSUME NEW x \in Agents, NEW a, OK(x, a), MaxBinding \in Nat
    PROVE  Leaves(x, a, ping_all_candidates(a))
<1> DEFINE pairs == a.candidate_pairs
<1> DEFINE pinged == {i \in DOMAIN pairs : Tried(pairs[i]) /\ pairs[i].binding_request_count <= MaxBinding}
<1> DEFINE ps == [i \in DOMAIN pairs |-> Pinged(pairs[i])]
<1> DEFINE more == UNION {ping_candidate(a, pairs[i].local, pairs[i].remote).write_outs : i \in pinged}
<1> DEFINE w == a.write_outs \cup more
<1> DEFINE a1 == [a EXCEPT !.candidate_pairs = ps]
<1>1. ping_all_candidates(a) = [a EXCEPT !.candidate_pairs = ps, !.write_outs = w] BY Zenon DEF ping_all_candidates
<1>2. pairs \in Seq(Pairs) /\ DOMAIN pairs = 1 .. Len(pairs) /\ Len(pairs) \in Nat BY Fields, Zenon
<1>3. \A i \in 1 .. Len(pairs) : /\ pairs[i] \in Pairs /\ pairs[i].local \in DOMAIN a.local_candidates
                                 /\ pairs[i].remote \in DOMAIN a.remote_candidates
      BY <1>2, Fields, Element, Zenon DEF Named
<1>4. ps \in [1 .. Len(pairs) -> Pairs] BY <1>2, <1>3, PingedIs, Zenon
<1>5. ps \in Seq(Pairs) /\ Len(ps) = Len(pairs) /\ DOMAIN ps = 1 .. Len(pairs)
  <2> HIDE DEF ps, pairs
  <2> QED BY <1>2, <1>4, Listed, Zenon
<1>6. \A i \in 1 .. Len(pairs) : /\ ps[i].local = pairs[i].local /\ ps[i].remote = pairs[i].remote
                                 /\ pairs[i].state = "Succeeded" => ps[i].state = "Succeeded"
      BY <1>2, <1>3, PingedIs, Zenon
<1> HIDE DEF ps
<1>7. Named(a, ps) BY <1>3, <1>5, <1>6, Zenon DEF Named
<1>8. Leaves(x, a, a1)
  <2>1. Len(ps) >= Len(a.candidate_pairs) BY <1>2, <1>5
  <2> QED BY <1>5, <1>6, <1>7, <2>1, PairsLeave, Zenon
<1>9. \A m \in w : Message(m) /\ Claims(x, a.is_controlling, m)
  <2>1. \A m \in a.write_outs : Message(m) /\ Claims(x, a.is_controlling, m) BY Zenon DEF OK, Writes
  <2>2. ASSUME NEW i \in pinged, NEW m \in ping_candidate(a, pairs[i].local, pairs[i].remote).write_outs
        PROVE  Message(m) /\ Claims(x, a.is_controlling, m)
    <3> DEFINE c == ping_candidate(a, pairs[i].local, pairs[i].remote)
    <3>1. Leaves(x, a, c) BY <1>2, <1>3, PingLeaves, Zenon
    <3> HIDE DEF c
    <3>2. m \in c.write_outs BY Zenon DEF c
    <3> QED BY <3>1, <3>2, Zenon DEF Leaves, OK, Writes, Keeps
  <2> QED BY <2>1, <2>2, Zenon
<1> HIDE DEF w
<1>10. DOMAIN a = AgentFields BY Fields, Zenon
<1>11. a1.is_controlling = a.is_controlling /\ DOMAIN a1 = AgentFields BY <1>10, Zenon DEF AgentFields
<1>12. Leaves(x, a1, [a1 EXCEPT !.write_outs = w])
  <2>1. OK(x, a1) BY <1>8, Zenon DEF Leaves
  <2> HIDE DEF a1
  <2> QED BY <1>9, <1>11, <2>1, Sends, Zenon
<1>13. [a1 EXCEPT !.write_outs = w] = [a EXCEPT !.candidate_pairs = ps, !.write_outs = w] BY <1>10, Zenon
<1> HIDE DEF a1
<1> QED BY <1>1, <1>8, <1>12, <1>13, LeavesTrans, Zenon

\* The clocks of an agent.
LEMMA ClockLeaves ==
    ASSUME NEW x, NEW a, OK(x, a), NEW s, NEW c, NEW w
    PROVE  Leaves(x, a, [a EXCEPT !.silent = s]) /\ Leaves(x, a, [a EXCEPT !.was_checking = w, !.checking = c])
           /\ Leaves(x, a, [a EXCEPT !.checking = c, !.silent = s])
<1>1. DOMAIN a = AgentFields BY Fields, Zenon
<1>2. ASSUME NEW b, \/ b = [a EXCEPT !.silent = s] \/ b = [a EXCEPT !.was_checking = w, !.checking = c]
                    \/ b = [a EXCEPT !.checking = c, !.silent = s]
      PROVE  Leaves(x, a, b)
  <2>1. DOMAIN b = AgentFields /\ b.write_outs = a.write_outs /\ SameCore(a, b)
        BY <1>1, <1>2, ZenonT(30) DEF AgentFields, SameCore
  <2>2. Writes(x, b) BY <2>1, Zenon DEF OK, Writes, SameCore
  <2> QED BY <2>1, <2>2, CoreLeaves, Zenon
<1> QED BY <1>2, Zenon

\* A message from the selected candidate.
LEMMA SeenLeaves == ASSUME NEW x, NEW a, OK(x, a), NEW r PROVE Leaves(x, a, seen(a, r))
BY ClockLeaves, LeavesSame, Zenon DEF seen

\* A new state of an agent that is connected.
LEMMA MoveLeaves ==
    ASSUME NEW x, NEW a, OK(x, a), a.selected_pair # None, NEW new \in {"Connected", "Disconnected"}
    PROVE  Leaves(x, a, update_connection_state(a, new))
<1> DEFINE b == [a EXCEPT !.connection_state = new]
<1>1. DOMAIN a = AgentFields /\ a.connection_state \in {"Connected", "Disconnected"} BY Fields, Zenon DEF OK, Stated
<1>2. /\ DOMAIN b = AgentFields /\ b.connection_state = new
      /\ \A f \in AgentFields \ {"connection_state"} : b[f] = a[f]
      BY <1>1, Zenon DEF AgentFields
<1> HIDE DEF b
<1>3. /\ b.write_outs = a.write_outs /\ b.candidate_pairs = a.candidate_pairs /\ b.is_controlling = a.is_controlling
      /\ b.local_credentials = a.local_credentials /\ b.pending_local_credentials = a.pending_local_credentials
      /\ b.remote_credentials = a.remote_credentials
      /\ b.local_candidates = a.local_candidates /\ b.remote_candidates = a.remote_candidates
      /\ b.nominated_pair = a.nominated_pair /\ b.selected_pair = a.selected_pair
      BY <1>2, Zenon DEF AgentFields
<1>4. Keeps(a, b) BY <1>1, <1>2, <1>3, Zenon DEF Keeps
<1>5. Tables(x, b) BY <1>2, <1>3, Zenon DEF OK, Tables, Named
<1>6. Stated(b) BY <1>1, <1>2, <1>3, Zenon DEF OK, Stated, ConnectionStates
<1>7. Writes(x, b) BY <1>3, Zenon DEF OK, Writes
<1>8. Leaves(x, a, b) BY <1>4, <1>5, <1>6, <1>7, Zenon DEF Leaves, OK
<1> QED BY <1>8, LeavesSame, Zenon DEF update_connection_state, b

\* An agent that fails.
LEMMA FailLeaves ==
    ASSUME NEW x, NEW a, OK(x, a), a.connection_state \notin {"New", "Closed", "Failed"}
    PROVE  Leaves(x, a, update_connection_state(a, "Failed"))
<1> DEFINE b == update_connection_state(a, "Failed")
<1>1. DOMAIN a = AgentFields BY Fields, Zenon
<1>2. b = [delete_all_candidates([a EXCEPT !.selected_pair = None], FALSE) EXCEPT !.connection_state = "Failed"]
      BY Zenon DEF update_connection_state
<1>3. /\ DOMAIN b = AgentFields /\ b.connection_state = "Failed" /\ b.write_outs = a.write_outs
      /\ b.candidate_pairs = <<>> /\ b.local_candidates = <<>> /\ b.remote_candidates = <<>>
      /\ b.nominated_pair = None /\ b.selected_pair = None
      /\ b.is_controlling = a.is_controlling
      /\ b.local_credentials = a.local_credentials /\ b.pending_local_credentials = a.pending_local_credentials
      /\ b.remote_credentials = a.remote_credentials
      BY <1>1, <1>2, ZenonT(30) DEF delete_all_candidates, AgentFields
<1> HIDE DEF b
<1>4. Keeps(a, b) BY <1>3, Zenon DEF Keeps
<1>5. Tables(x, b) BY <1>3 DEF OK, Tables, Named, None
<1>6. Stated(b) BY <1>3 DEF OK, Stated, ConnectionStates, None
<1>7. Writes(x, b) BY <1>3, Zenon DEF OK, Writes
<1>8. Leaves(x, a, b) BY <1>4, <1>5, <1>6, <1>7, Zenon DEF Leaves, OK
<1> QED BY <1>8, Zenon DEF b

\* A pair is selected.
LEMMA SelectLeaves ==
    ASSUME NEW x, NEW a, OK(x, a), a.connection_state \notin {"New", "Closed"},
           NEW i \in 1 .. Len(a.candidate_pairs), a.candidate_pairs[i].state = "Succeeded"
    PROVE  Leaves(x, a, set_selected_pair(a, i))
<1> DEFINE b == set_selected_pair(a, i)
<1>1. DOMAIN a = AgentFields BY Fields, Zenon
<1>2. b = [a EXCEPT !.selected_pair = i] \/ b = [[a EXCEPT !.selected_pair = i] EXCEPT !.connection_state = "Connected"]
      BY Zenon DEF set_selected_pair, update_connection_state
<1>3. [a EXCEPT !.selected_pair = i].connection_state = a.connection_state BY <1>1, Zenon DEF AgentFields
<1>4. b.connection_state = "Connected"
  <2>1. CASE a.connection_state = "Connected"
        BY <1>1, <1>3, <2>1, Zenon DEF set_selected_pair, update_connection_state, AgentFields
  <2>2. CASE a.connection_state # "Connected"
    <3>1. b = [[a EXCEPT !.selected_pair = i] EXCEPT !.connection_state = "Connected"]
          BY <1>3, <2>2, Zenon DEF set_selected_pair, update_connection_state
    <3> QED BY <1>1, <3>1, Zenon DEF AgentFields
  <2> QED BY <2>1, <2>2, Zenon
<1>5. /\ DOMAIN b = AgentFields /\ b.write_outs = a.write_outs
      /\ b.candidate_pairs = a.candidate_pairs /\ b.local_candidates = a.local_candidates
      /\ b.remote_candidates = a.remote_candidates
      /\ b.nominated_pair = a.nominated_pair /\ b.selected_pair = i
      /\ b.is_controlling = a.is_controlling
      /\ b.local_credentials = a.local_credentials /\ b.pending_local_credentials = a.pending_local_credentials
      /\ b.remote_credentials = a.remote_credentials
      BY <1>1, <1>2, ZenonT(30) DEF AgentFields
<1> HIDE DEF b
<1>6. Keeps(a, b) BY <1>4, <1>5, Zenon DEF Keeps
<1>7. Tables(x, b) BY <1>5, Zenon DEF OK, Tables, Named
<1>8. Stated(b) BY <1>4, <1>5, Fields DEF OK, Stated, ConnectionStates, None
<1>9. Writes(x, b) BY <1>5, Zenon DEF OK, Writes
<1>10. Leaves(x, a, b) BY <1>6, <1>7, <1>8, <1>9, Zenon DEF Leaves, OK
<1> QED BY <1>10, Zenon DEF b

\* The selected pair is checked for silence.
LEMMA ValidateLeaves ==
    ASSUME NEW x, NEW a, OK(x, a), a.selected_pair # None PROVE Leaves(x, a, validate_selected_pair(a))
<1>1. a.connection_state \notin {"New", "Closed", "Failed"} BY Zenon DEF OK, Stated
<1>2. Leaves(x, a, update_connection_state(a, "Failed")) BY <1>1, FailLeaves, Zenon
<1>3. Leaves(x, a, update_connection_state(a, "Disconnected")) /\ Leaves(x, a, update_connection_state(a, "Connected"))
      BY MoveLeaves, Zenon
<1> QED BY <1>2, <1>3, Zenon DEF validate_selected_pair

\* It is kept alive.
LEMMA KeepaliveLeaves ==
    ASSUME NEW x \in Agents, NEW a, OK(x, a), NEW over PROVE Leaves(x, a, check_keepalive(a, over))
<1> DEFINE q == a.candidate_pairs[a.selected_pair]
<1>1. CASE a.selected_pair # None /\ over
  <2>1. a.selected_pair \in DOMAIN a.candidate_pairs BY <1>1, Fields DEF OK, Stated, None
  <2>2. q.local \in DOMAIN a.local_candidates /\ q.remote \in DOMAIN a.remote_candidates BY <2>1, Fields, Zenon DEF Named
  <2>3. check_keepalive(a, over) = ping_candidate(a, q.local, q.remote) BY <1>1, Zenon DEF check_keepalive
  <2> HIDE DEF q
  <2> QED BY <2>2, <2>3, PingLeaves, Zenon
<1>2. CASE ~(a.selected_pair # None /\ over) BY <1>2, LeavesSame, Zenon DEF check_keepalive
<1> QED BY <1>1, <1>2, Zenon

\* A pair is nominated.
LEMMA NominatedLeaves ==
    ASSUME NEW x \in Agents, NEW a, OK(x, a), NEW i \in 1 .. Len(a.candidate_pairs)
    PROVE  Leaves(x, a, nominate_pair([a EXCEPT !.nominated_pair = i]))
<1> DEFINE b == [a EXCEPT !.nominated_pair = i]
<1>1. DOMAIN a = AgentFields /\ Len(a.candidate_pairs) \in Nat BY Fields, Zenon
<1>2. /\ DOMAIN b = AgentFields /\ b.nominated_pair = i
      /\ b.write_outs = a.write_outs /\ b.candidate_pairs = a.candidate_pairs /\ b.is_controlling = a.is_controlling
      /\ b.local_credentials = a.local_credentials /\ b.pending_local_credentials = a.pending_local_credentials
      /\ b.remote_credentials = a.remote_credentials /\ b.connection_state = a.connection_state
      /\ b.local_candidates = a.local_candidates /\ b.remote_candidates = a.remote_candidates
      /\ b.selected_pair = a.selected_pair
      BY <1>1, Zenon DEF AgentFields
<1> HIDE DEF b
<1>3. Keeps(a, b) BY <1>2, Zenon DEF Keeps
<1>4. Tables(x, b) BY <1>1, <1>2 DEF OK, Tables, Named
<1>5. Stated(b) BY <1>2, Zenon DEF OK, Stated
<1>6. Writes(x, b) BY <1>2, Zenon DEF OK, Writes
<1>7. Leaves(x, a, b) BY <1>3, <1>4, <1>5, <1>6, Zenon DEF Leaves, OK
<1>8. b.nominated_pair # None BY <1>1, <1>2 DEF None
<1>9. Leaves(x, b, nominate_pair(b)) BY <1>7, <1>8, NominateLeaves, Zenon DEF Leaves
<1> QED BY <1>7, <1>9, LeavesTrans, Zenon DEF b

\* What a timeout does.
LEMMA ContactCandidatesLeaves ==
    ASSUME NEW x \in Agents, NEW a, OK(x, a), MaxBinding \in Nat, NEW over
    PROVE  Leaves(x, a, contact_candidates(a, over))
<1> DEFINE best == get_best_valid_candidate_pair(a)
<1>1. best # None => best \in 1 .. Len(a.candidate_pairs)
  <2>1. a.candidate_pairs \in Seq(Pairs) BY Fields, Zenon
  <2> QED BY <2>1, BestPair, Zenon DEF get_best_valid_candidate_pair
<1> HIDE DEF best
<1>2. CASE a.selected_pair # None
  <2> DEFINE b == validate_selected_pair(a)
  <2>1. Leaves(x, a, b) BY <1>2, ValidateLeaves, Zenon
  <2>2. contact_candidates(a, over) = check_keepalive(b, over) BY <1>2, Zenon DEF contact_candidates
  <2> HIDE DEF b
  <2>3. Leaves(x, b, check_keepalive(b, over)) BY <2>1, KeepaliveLeaves, Zenon DEF Leaves
  <2> QED BY <2>1, <2>2, <2>3, LeavesTrans, Zenon
<1>3. CASE a.selected_pair = None /\ Nominated(a)
  <2>1. Leaves(x, a, nominate_pair(a)) BY <1>3, NominateLeaves, Zenon DEF Nominated
  <2> QED BY <1>3, <2>1, Zenon DEF contact_candidates
<1>4. CASE a.selected_pair = None /\ ~ Nominated(a) /\ a.is_controlling /\ best # None /\ is_nominatable(a, best, over)
  <2>1. Leaves(x, a, nominate_pair([a EXCEPT !.nominated_pair = best])) BY <1>1, <1>4, NominatedLeaves, Zenon
  <2> QED BY <1>4, <2>1, Zenon DEF contact_candidates, best
<1>5. CASE a.selected_pair = None /\ ~ Nominated(a) /\ ~(a.is_controlling /\ best # None /\ is_nominatable(a, best, over))
  <2>1. contact_candidates(a, over) = ping_all_candidates(a) BY <1>5, Zenon DEF contact_candidates, best
  <2> QED BY <2>1, PingAllLeaves, Zenon
<1> QED BY <1>2, <1>3, <1>4, <1>5, Zenon

\* A timeout of the agent.
LEMMA ContactLeaves ==
    ASSUME NEW x \in Agents, NEW a, OK(x, a), MaxBinding \in Nat, NEW over
    PROVE  Leaves(x, a, contact(a, over))
<1> DEFINE failed == a.connection_state = "Checking" /\ a.was_checking /\ a.checking >= FailedTimeout
<1> DEFINE a1 == IF a.connection_state = "Failed" THEN a
                 ELSE IF failed THEN update_connection_state(a, "Failed")
                 ELSE contact_candidates(a, over)
<1> DEFINE checks == a1.connection_state = "Checking"
<1> DEFINE w == checks
<1> DEFINE c == IF checks /\ a.was_checking THEN a1.checking ELSE 0
<1>1. Leaves(x, a, a1)
  <2>1. a.connection_state = "Checking" => Leaves(x, a, update_connection_state(a, "Failed")) BY FailLeaves, Zenon
  <2>2. Leaves(x, a, contact_candidates(a, over)) BY ContactCandidatesLeaves, Zenon
  <2> QED BY <2>1, <2>2, LeavesSame, Zenon
<1>2. contact(a, over) = [a1 EXCEPT !.was_checking = w, !.checking = c] BY Zenon DEF contact
<1> HIDE DEF a1, w, c
<1>3. Leaves(x, a1, [a1 EXCEPT !.was_checking = w, !.checking = c]) BY <1>1, ClockLeaves, Zenon DEF Leaves
<1> QED BY <1>1, <1>2, <1>3, LeavesTrans, Zenon

\* The answer to a request.
LEMMA SuccessOK ==
    ASSUME NEW x, NEW a, OK(x, a), NEW m, Message(m)
    PROVE  Leaves(x, a, [a EXCEPT !.write_outs = a.write_outs \cup {Success(a, m)}])
<1> DEFINE q == Success(a, m)
<1> DEFINE w == a.write_outs \cup {q}
<1>1. /\ q.type = "SUCCESS" /\ q.from = m.to /\ q.to = m.from /\ DOMAIN q = SuccessFields
      BY Zenon DEF Success, SuccessFields
<1> HIDE DEF q
<1>2. Message(q) /\ Claims(x, a.is_controlling, q) BY <1>1, Zenon DEF Message, Claims
<1>3. \A p \in w : Message(p) /\ Claims(x, a.is_controlling, p) BY <1>2, Zenon DEF OK, Writes
<1> HIDE DEF w
<1>4. Leaves(x, a, [a EXCEPT !.write_outs = w]) BY <1>3, Sends, Zenon
<1> QED BY <1>4, Zenon DEF w, q

\* An answer is read.
LEMMA SuccessLeaves ==
    ASSUME NEW x \in Agents, NEW a, OK(x, a), a.connection_state \notin {"New", "Closed"}, NEW m, NEW l, NEW r
    PROVE  Leaves(x, a, handle_success_response(a, m, l, r))
<1> DEFINE i == find_pair(a, l, r)
<1> DEFINE q == [a.candidate_pairs[i] EXCEPT !.state = "Succeeded"]
<1> DEFINE ps == [a.candidate_pairs EXCEPT ![i] = q]
<1> DEFINE a1 == [a EXCEPT !.candidate_pairs = ps]
<1>1. a.candidate_pairs \in Seq(Pairs) /\ Len(a.candidate_pairs) \in Nat /\ DOMAIN a.candidate_pairs = 1 .. Len(a.candidate_pairs)
      BY Fields, Zenon
<1>2. i \in 0 .. Len(a.candidate_pairs) BY <1>1, FoundPair, Zenon
<1>3. handle_success_response(a, m, l, r) =
        IF ~ m.pending \/ i = None THEN a
        ELSE IF a.is_controlling /\ Selects(a, m) THEN set_selected_pair(a1, i) ELSE a1
      BY Zenon DEF handle_success_response
<1> HIDE DEF i
<1>4. CASE i = None BY <1>3, <1>4, LeavesSame, Zenon
<1>5. CASE i # None
  <2>1. i \in 1 .. Len(a.candidate_pairs) BY <1>1, <1>2, <1>5 DEF None
  <2>2. a.candidate_pairs[i] \in Pairs BY <1>1, <2>1, Element, Zenon
  <2>3. q \in Pairs /\ q.state = "Succeeded" /\ q.local = a.candidate_pairs[i].local /\ q.remote = a.candidate_pairs[i].remote
        BY <2>2, Zenon DEF Pairs
  <2> HIDE DEF q
  <2>4. /\ ps \in Seq(Pairs) /\ Len(ps) = Len(a.candidate_pairs) /\ DOMAIN ps = 1 .. Len(a.candidate_pairs)
        /\ \A j \in 1 .. Len(a.candidate_pairs) : ps[j] = IF j = i THEN q ELSE a.candidate_pairs[j]
        BY <1>1, <2>1, <2>3, Replaced
  <2> HIDE DEF ps
  <2>5. Named(a, ps)
    <3>1. \A j \in 1 .. Len(a.candidate_pairs) : /\ a.candidate_pairs[j].local \in DOMAIN a.local_candidates
                                                 /\ a.candidate_pairs[j].remote \in DOMAIN a.remote_candidates
          BY <1>1, Fields, Zenon DEF Named
    <3> QED BY <2>1, <2>3, <2>4, <3>1, Zenon DEF Named
  <2>6. Leaves(x, a, a1)
    <3>1. \A j \in 1 .. Len(a.candidate_pairs) : a.candidate_pairs[j].state = "Succeeded" => ps[j].state = "Succeeded"
          BY <2>3, <2>4, Zenon
    <3>2. Len(ps) >= Len(a.candidate_pairs) BY <1>1, <2>4
    <3> QED BY <2>4, <2>5, <3>1, <3>2, PairsLeave, Zenon
  <2>7. a1.candidate_pairs = ps /\ a1.connection_state = a.connection_state BY Fields, Zenon DEF AgentFields
  <2> HIDE DEF a1
  <2>8. Leaves(x, a1, set_selected_pair(a1, i)) BY <2>1, <2>3, <2>4, <2>6, <2>7, SelectLeaves, Zenon DEF Leaves
  <2> QED BY <1>3, <2>6, <2>8, LeavesTrans, LeavesSame, Zenon
<1> QED BY <1>4, <1>5, Zenon

\* A candidate that was added is found.
LEMMA AddedIsFound ==
    ASSUME NEW x \in Agents, NEW a, OK(x, a), NEW addr \in AllAddrs, NEW type \in {"host", "prflx"},
           OK(x, AddRemote(a, addr, type))
    PROVE  find_remote_candidate(AddRemote(a, addr, type), addr) \in DOMAIN AddRemote(a, addr, type).remote_candidates
<1> DEFINE b == AddRemote(a, addr, type)
<1> DEFINE c == [addr |-> addr, type |-> type]
<1>1. \E i \in DOMAIN b.remote_candidates : b.remote_candidates[i].addr = addr
  <2>1. CASE IsKnown(a, addr, type)
    <3>1. b = a BY <2>1, Zenon DEF AddRemote
    <3>2. PICK i \in DOMAIN a.remote_candidates : a.remote_candidates[i] = [addr |-> addr, type |-> type]
          BY <2>1, Zenon DEF IsKnown
    <3>3. a.remote_candidates[i].addr = addr BY <3>2
    <3> QED BY <3>1, <3>3, Zenon
  <2>2. CASE ~ IsKnown(a, addr, type)
    <3>1. b = AddNew(a, <<c>>) BY <2>2, Zenon DEF AddRemote
    <3>2. b.remote_candidates = a.remote_candidates \o <<c>> BY <3>1, Fields DEF AddNew, AgentFields
    <3>3. c \in Candidates /\ c.addr = addr BY Zenon DEF Candidates
    <3> HIDE DEF c
    <3>4. a.remote_candidates \in Seq(Candidates) /\ <<c>> \in Seq(Candidates) /\ Len(<<c>>) = 1 /\ <<c>>[1] = c
          /\ Len(a.remote_candidates) \in Nat
          BY <3>3, Fields
    <3> DEFINE u == a.remote_candidates \o <<c>>
    <3> DEFINE n == Len(a.remote_candidates)
    <3>5. u \in Seq(Candidates) /\ Len(u) = n + 1 BY <3>4, Joined
    <3>6. \A i \in n + 1 .. n + 1 : u[i] = <<c>>[i - n]
      <4>1. \A i \in n + 1 .. n + Len(<<c>>) : u[i] = <<c>>[i - n] BY <3>4, Joined
      <4> QED BY <3>4, <4>1, Zenon
    <3> HIDE DEF u
    <3>7. n + 1 \in DOMAIN u BY <3>4, <3>5, Length
    <3>8. u[n + 1] = <<c>>[1]
      <4>1. n + 1 \in n + 1 .. n + 1 /\ (n + 1) - n = 1 BY <3>4
      <4> QED BY <3>6, <4>1, Zenon
    <3> QED BY <3>2, <3>3, <3>4, <3>7, <3>8, Zenon DEF u
  <2> QED BY <2>1, <2>2, Zenon
<1> HIDE DEF b
<1>2. OK(x, b) BY Zenon DEF b
<1> DEFINE S == {i \in DOMAIN b.remote_candidates : b.remote_candidates[i].addr = addr}
<1>3. DOMAIN b.remote_candidates = 1 .. Len(b.remote_candidates) /\ Len(b.remote_candidates) \in Nat
      BY <1>2, Fields, Zenon
<1>4. S # {} BY <1>1, Zenon
<1>5. Min(S) \in S
  <2>1. S \in SUBSET Nat BY <1>3
  <2> HIDE DEF S
  <2> QED BY <1>4, <2>1, MinIn, Zenon
<1>6. find_remote_candidate(b, addr) = Min(S) BY <1>1, Zenon DEF find_remote_candidate, IndexOf
<1>7. find_remote_candidate(b, addr) \in DOMAIN b.remote_candidates BY <1>5, <1>6, Zenon
<1> QED BY <1>7, Zenon DEF b

\* A request at the controlling agent.
LEMMA ControllingLeaves ==
    ASSUME NEW x \in Agents, NEW a, OK(x, a), MaxBinding \in Nat, NEW m, Message(m),
           NEW l \in DOMAIN a.local_candidates, NEW r \in DOMAIN a.remote_candidates, NEW waited
    PROVE  Leaves(x, a, handle_binding_request_controlling(a, m, l, r, waited))
<1> DEFINE i == find_pair(a, l, r)
<1> DEFINE a1 == [a EXCEPT !.write_outs = a.write_outs \cup {Success(a, m)}]
<1>1. i \in 0 .. Len(a.candidate_pairs) /\ Len(a.candidate_pairs) \in Nat
  <2>1. a.candidate_pairs \in Seq(Pairs) BY Fields, Zenon
  <2> QED BY <2>1, Fields, FoundPair, Zenon
<1>2. \/ i = None /\ handle_binding_request_controlling(a, m, l, r, waited) = add_pair(a1, l, r)
      \/ i # None /\ handle_binding_request_controlling(a, m, l, r, waited) = nominate_pair([a1 EXCEPT !.nominated_pair = i])
      \/ handle_binding_request_controlling(a, m, l, r, waited) = a1
      BY Zenon DEF handle_binding_request_controlling
<1> HIDE DEF i
<1>3. Leaves(x, a, a1) BY SuccessOK, Zenon
<1>4. /\ a1.local_candidates = a.local_candidates /\ a1.remote_candidates = a.remote_candidates
      /\ a1.candidate_pairs = a.candidate_pairs
      BY Fields, Zenon DEF AgentFields
<1> HIDE DEF a1
<1>5. OK(x, a1) BY <1>3, Zenon DEF Leaves
<1>6. Leaves(x, a1, add_pair(a1, l, r)) BY <1>4, <1>5, AddPairLeaves, Zenon
<1>7. i # None => Leaves(x, a1, nominate_pair([a1 EXCEPT !.nominated_pair = i]))
  <2>1. i # None => i \in 1 .. Len(a1.candidate_pairs) BY <1>1, <1>4 DEF None
  <2> QED BY <1>5, <2>1, NominatedLeaves, Zenon
<1> QED BY <1>2, <1>3, <1>6, <1>7, LeavesTrans, Zenon

\* A request at the controlled agent.
LEMMA ControlledLeaves ==
    ASSUME NEW x \in Agents, NEW a, OK(x, a), MaxBinding \in Nat, NEW m, Message(m), a.connection_state \notin {"New", "Closed"},
           NEW l \in DOMAIN a.local_candidates, NEW r \in DOMAIN a.remote_candidates
    PROVE  Leaves(x, a, handle_binding_request_controlled(a, m, l, r))
<1> DEFINE a1 == IF find_pair(a, l, r) = None THEN add_pair(a, l, r) ELSE a
<1> DEFINE i == find_pair(a1, l, r)
<1> DEFINE answered == [a1 EXCEPT !.write_outs = a1.write_outs \cup {Success(a, m)}]
<1>1. handle_binding_request_controlled(a, m, l, r) =
        IF ~ m.use_candidate THEN ping_candidate(answered, l, r)
        ELSE IF ~ Valid(a1.candidate_pairs[i]) THEN ping_candidate(a1, l, r)
        ELSE IF Selects(a, m) THEN set_selected_pair(answered, i) ELSE answered
      BY Zenon DEF handle_binding_request_controlled, PairNominated
<1>2. /\ Leaves(x, a, a1) /\ a1.local_candidates = a.local_candidates /\ a1.remote_candidates = a.remote_candidates
      /\ i # None
      BY AddPairLeaves, LeavesSame, Zenon
<1> HIDE DEF a1
<1>3. OK(x, a1) /\ a1.connection_state \notin {"New", "Closed"} BY <1>2, Zenon DEF Leaves, Keeps
<1>4. i \in 1 .. Len(a1.candidate_pairs)
  <2>1. a1.candidate_pairs \in Seq(Pairs) /\ Len(a1.candidate_pairs) \in Nat BY <1>3, Fields, Zenon
  <2>2. i \in 0 .. Len(a1.candidate_pairs) BY <2>1, FoundPair, Zenon
  <2> HIDE DEF i
  <2> QED BY <1>2, <2>1, <2>2 DEF None
<1> HIDE DEF i
<1>5. Success(a, m) = Success(a1, m) BY <1>2, Zenon DEF Success, Leaves, Keeps
<1>6. Leaves(x, a1, answered) BY <1>3, <1>5, SuccessOK, Zenon
<1>7. /\ answered.local_candidates = a1.local_candidates /\ answered.remote_candidates = a1.remote_candidates
      /\ answered.candidate_pairs = a1.candidate_pairs /\ answered.connection_state = a1.connection_state
      BY <1>3, Fields, Zenon DEF AgentFields
<1> HIDE DEF answered
<1>8. OK(x, answered) BY <1>6, Zenon DEF Leaves
<1>9. Leaves(x, answered, ping_candidate(answered, l, r)) BY <1>2, <1>7, <1>8, PingLeaves, Zenon
<1>10. Leaves(x, a1, ping_candidate(a1, l, r)) BY <1>2, <1>3, PingLeaves, Zenon
<1>11. Valid(a1.candidate_pairs[i]) => Leaves(x, answered, set_selected_pair(answered, i))
       BY <1>3, <1>4, <1>7, <1>8, SelectLeaves, Zenon DEF Valid
<1>12. Leaves(x, a, answered) BY <1>2, <1>6, LeavesTrans, Zenon
<1>13. CASE ~ m.use_candidate BY <1>1, <1>9, <1>12, <1>13, LeavesTrans, Zenon
<1>14. CASE m.use_candidate /\ ~ Valid(a1.candidate_pairs[i]) BY <1>1, <1>2, <1>10, <1>14, LeavesTrans, Zenon
<1>15. CASE m.use_candidate /\ Valid(a1.candidate_pairs[i]) /\ Selects(a, m)
       BY <1>1, <1>11, <1>12, <1>15, LeavesTrans, Zenon
<1>16. CASE m.use_candidate /\ Valid(a1.candidate_pairs[i]) /\ ~ Selects(a, m) BY <1>1, <1>12, <1>16, Zenon
<1> QED BY <1>13, <1>14, <1>15, <1>16, Zenon

\* An agent that changes its role, before it writes.
LEMMA SwitchOK ==
    ASSUME NEW x, NEW a, OK(x, a), a.write_outs = {}
    PROVE  /\ OK(x, switch_role(a)) /\ switch_role(a).write_outs = {}
           /\ switch_role(a).connection_state = a.connection_state
           /\ switch_role(a).local_credentials = a.local_credentials
           /\ switch_role(a).pending_local_credentials = a.pending_local_credentials
           /\ switch_role(a).remote_credentials = a.remote_credentials
           /\ switch_role(a).is_controlling = ~ a.is_controlling
<1> DEFINE b == switch_role(a)
<1>1. DOMAIN a = AgentFields /\ a.is_controlling \in BOOLEAN /\ Len(a.candidate_pairs) \in Nat
      BY Fields, Zenon DEF OK, Tables
<1>2. /\ DOMAIN b = AgentFields /\ b.nominated_pair = None
      /\ b.write_outs = a.write_outs /\ b.candidate_pairs = a.candidate_pairs
      /\ b.local_credentials = a.local_credentials /\ b.pending_local_credentials = a.pending_local_credentials
      /\ b.remote_credentials = a.remote_credentials /\ b.connection_state = a.connection_state
      /\ b.local_candidates = a.local_candidates /\ b.remote_candidates = a.remote_candidates
      /\ b.selected_pair = a.selected_pair
      BY <1>1, Zenon DEF AgentFields, switch_role
<1>3. b.is_controlling = ~ a.is_controlling BY <1>1, Zenon DEF AgentFields, switch_role
<1> HIDE DEF b
<1>4. Tables(x, b)
  <2>1. b.is_controlling \in BOOLEAN BY <1>3, Zenon
  <2>2. b.nominated_pair \in 0 .. Len(b.candidate_pairs) BY <1>1, <1>2 DEF None
  <2> QED BY <1>2, <2>1, <2>2, Zenon DEF OK, Tables, Named
<1>5. Stated(b) BY <1>2, Zenon DEF OK, Stated
<1>6. Writes(x, b) BY <1>2, Zenon DEF Writes
<1> QED BY <1>2, <1>3, <1>4, <1>5, <1>6, Zenon DEF OK, b

\* A message is read by the agent as it is, or with the role it has just changed to.
Taking(x, m) == IF SwitchesRole(x, agent[x], m) THEN switch_role(agent[x]) ELSE agent[x]

\* What an agent makes of a message.
LEMMA InboundLeaves ==
    ASSUME NEW x \in Agents, OK(x, agent[x]), agent[x].write_outs = {}, MaxBinding \in Nat, NEW m, Message(m), NEW waited
    PROVE  \/ Leaves(x, Taking(x, m), handle_inbound(x, m, waited))
           \/ handle_inbound(x, m, waited) = agent[x]
<1> DEFINE a == Taking(x, m)
<1> DEFINE l == find_local_candidate(a, m.to)
<1> DEFINE a1 == IF m.type = "REQUEST" /\ find_remote_candidate(a, m.from) = None
                 THEN AddRemote(a, m.from, "prflx") ELSE a
<1> DEFINE r == find_remote_candidate(a1, m.from)
<1> DEFINE b == handle_success_response(a, m, l, r)
<1> DEFINE c == IF a1.is_controlling THEN handle_binding_request_controlling(a1, m, l, r, waited)
                ELSE handle_binding_request_controlled(a1, m, l, r)
<1>1. handle_inbound(x, m, waited) =
        IF l = None THEN agent[x]
        ELSE IF a.remote_credentials = None THEN a
        ELSE IF m.type = "SUCCESS"
        THEN IF m.key = a.remote_credentials /\ r # None THEN seen(b, r) ELSE a
        ELSE IF m.username # <<a.local_credentials, a.remote_credentials>> THEN a
        ELSE seen(c, r)
      BY Zenon DEF handle_inbound, Taking
<1>2. OK(x, a) BY SwitchOK, Zenon DEF Taking
<1> HIDE DEF a
<1>3. a.local_candidates \in Seq(Addrs[x]) /\ a.remote_candidates \in Seq(Candidates) BY <1>2, Fields, Zenon
<1>4. l # None => l \in DOMAIN a.local_candidates BY <1>3, FoundLocal, Zenon
<1>5. CASE l = None BY <1>1, <1>5, Zenon
<1>6. CASE l # None /\ a.remote_credentials = None BY <1>1, <1>2, <1>6, LeavesSame, Zenon DEF a
<1>7. CASE l # None /\ a.remote_credentials # None
  <2>1. a.connection_state \notin {"New", "Closed"}
    <3>1. DOMAIN <<>> = {} OBVIOUS
    <3>2. a.local_candidates # <<>> BY <1>4, <1>7, <3>1, Zenon
    <3> QED BY <1>2, <1>7, <3>2, Zenon DEF OK, Stated
  <2>2. CASE m.type = "SUCCESS"
    <3>1. Leaves(x, a, b) BY <1>2, <2>1, SuccessLeaves, Zenon
    <3> HIDE DEF b
    <3>2. Leaves(x, b, seen(b, r)) BY <3>1, SeenLeaves, Zenon DEF Leaves
    <3>3. Leaves(x, a, seen(b, r)) BY <3>1, <3>2, LeavesTrans, Zenon
    <3>4. Leaves(x, a, a) BY <1>2, LeavesSame, Zenon
    <3> QED BY <1>1, <1>7, <2>2, <3>3, <3>4, Zenon DEF a
  <2>3. CASE m.type # "SUCCESS"
    <3>1. m.type = "REQUEST" /\ m.from \in AllAddrs BY <2>3, Zenon DEF Message
    <3>2. Leaves(x, a, a1) /\ a1.local_candidates = a.local_candidates
      <4>1. Leaves(x, a, AddRemote(a, m.from, "prflx")) /\ AddRemote(a, m.from, "prflx").local_candidates = a.local_candidates
            BY <1>2, <3>1, AddRemoteLeaves, Zenon
      <4> QED BY <1>2, <4>1, LeavesSame, Zenon
    <3>3. OK(x, a1) /\ a1.connection_state \notin {"New", "Closed"} BY <2>1, <3>2, Zenon DEF Leaves, Keeps
    <3>4. r \in DOMAIN a1.remote_candidates
      <4>1. CASE find_remote_candidate(a, m.from) = None
        <5>1. a1 = AddRemote(a, m.from, "prflx") BY <3>1, <4>1, Zenon
        <5>2. OK(x, AddRemote(a, m.from, "prflx")) BY <3>3, <5>1, Zenon
        <5> HIDE DEF a1
        <5> QED BY <1>2, <3>1, <5>1, <5>2, AddedIsFound, Zenon
      <4>2. CASE find_remote_candidate(a, m.from) # None
        <5>1. a1 = a BY <4>2, Zenon
        <5> HIDE DEF a1
        <5> QED BY <1>3, <4>2, <5>1, FoundRemote, Zenon
      <4> QED BY <4>1, <4>2, Zenon
    <3> HIDE DEF a1, l, r
    <3>5. l \in DOMAIN a1.local_candidates BY <1>4, <1>7, <3>2, Zenon
    <3>6. Leaves(x, a1, c)
      <4>1. Leaves(x, a1, handle_binding_request_controlling(a1, m, l, r, waited))
            BY <3>3, <3>4, <3>5, ControllingLeaves, Zenon
      <4>2. Leaves(x, a1, handle_binding_request_controlled(a1, m, l, r)) BY <3>3, <3>4, <3>5, ControlledLeaves, Zenon
      <4> QED BY <4>1, <4>2, Zenon
    <3> HIDE DEF c
    <3>7. Leaves(x, c, seen(c, r)) BY <3>6, SeenLeaves, Zenon DEF Leaves
    <3>8. Leaves(x, a, seen(c, r)) BY <3>2, <3>6, <3>7, LeavesTrans, Zenon
    <3>9. Leaves(x, a, a) BY <1>2, LeavesSame, Zenon
    <3> QED BY <1>1, <1>7, <2>3, <3>8, <3>9, Zenon DEF a
  <2> QED BY <2>2, <2>3, Zenon
<1> QED BY <1>5, <1>6, <1>7, Zenon

\* A closed agent has nothing to check.
LEMMA ContactClosed ==
    ASSUME NEW x \in Agents, NEW a, OK(x, a), a.write_outs = {}, a.connection_state = "Closed", NEW over
    PROVE  contact(a, over).write_outs = {}
<1>1. Len(a.candidate_pairs) = 0
  <2>1. DOMAIN a.local_candidates = {} BY DEF OK, Stated
  <2>2. Len(a.candidate_pairs) \in Nat /\ DOMAIN a.candidate_pairs = 1 .. Len(a.candidate_pairs) BY Fields, Zenon
  <2>3. DOMAIN a.candidate_pairs = {} BY <2>1, Fields, Zenon DEF Named
  <2>4. ~ (1 \in 1 .. Len(a.candidate_pairs)) BY <2>2, <2>3, Zenon
  <2> QED BY <2>2, <2>4
<1>2. a.selected_pair = None /\ a.nominated_pair = None BY <1>1 DEF OK, Stated, Tables, None
<1>3. get_best_valid_candidate_pair(a) = None
  <2>1. a.candidate_pairs \in Seq(Pairs) BY Fields, Zenon
  <2> QED BY <1>1, <2>1, BestPair DEF get_best_valid_candidate_pair
<1>4. contact_candidates(a, over) = ping_all_candidates(a) BY <1>2, <1>3, Zenon DEF contact_candidates, Nominated
<1>5. DOMAIN a.candidate_pairs = {} BY <1>1, Fields
<1> DEFINE b == ping_all_candidates(a)
<1>6. DOMAIN b = AgentFields /\ b.write_outs = {} BY <1>5, Fields, Zenon DEF ping_all_candidates, AgentFields
<1>7. \E w, c : contact(a, over) = [b EXCEPT !.was_checking = w, !.checking = c] BY <1>4, Zenon DEF contact
<1> HIDE DEF b
<1> QED BY <1>6, <1>7, Zenon DEF AgentFields

\* Nor is anything written by an agent that is new or closed when a message arrives.
LEMMA InboundSilent ==
    ASSUME NEW x \in Agents, OK(x, agent[x]), agent[x].write_outs = {}, agent[x].connection_state \in {"New", "Closed"},
           NEW m, NEW waited
    PROVE  handle_inbound(x, m, waited) = agent[x] \/ handle_inbound(x, m, waited) = Taking(x, m)
<1> DEFINE a == Taking(x, m)
<1>1. OK(x, a) /\ a.connection_state \in {"New", "Closed"} BY SwitchOK, Zenon DEF Taking
<1>2. \/ find_local_candidate(a, m.to) = None /\ handle_inbound(x, m, waited) = agent[x]
      \/ find_local_candidate(a, m.to) # None /\ a.remote_credentials = None /\ handle_inbound(x, m, waited) = a
      \/ find_local_candidate(a, m.to) # None /\ a.remote_credentials # None
      BY Zenon DEF handle_inbound, Taking
<1> HIDE DEF a
<1>3. a.connection_state = "Closed" => find_local_candidate(a, m.to) = None
  <2>1. a.local_candidates \in Seq(Addrs[x]) BY <1>1, Fields, Zenon
  <2>2. find_local_candidate(a, m.to) # None => find_local_candidate(a, m.to) \in DOMAIN a.local_candidates
        BY <2>1, FoundLocal, Zenon
  <2>3. DOMAIN <<>> = {} OBVIOUS
  <2> QED BY <1>1, <2>2, <2>3, Zenon DEF OK, Stated
<1>4. a.connection_state = "New" => a.remote_credentials = None BY <1>1, Zenon DEF OK, Stated
<1> QED BY <1>1, <1>2, <1>3, <1>4, Zenon DEF a

\* The candidates of a description go out with nothing.
LEMMA AddDescribedWrites ==
    ASSUME NEW x, NEW a, OK(x, a) PROVE AddDescribed(x, a).write_outs = a.write_outs
<1>1. \A new : AddNew(a, new).write_outs = a.write_outs BY Fields, Zenon DEF AddNew, AgentFields
<1> QED BY <1>1, Zenon DEF AddDescribed

\* What the first negotiation makes of an agent a.
Begun(x, a, b, controlling, credentials) ==
    /\ OK(x, b) /\ b.write_outs = {} /\ b.connection_state = "Checking" /\ b.is_controlling = controlling
    /\ b.remote_credentials = credentials /\ b.local_credentials = a.local_credentials
    /\ b.pending_local_credentials = a.pending_local_credentials
\* The first negotiation starts an agent.
LEMMA StartOK ==
    ASSUME NEW x, NEW a, OK(x, a), a.write_outs = {}, a.connection_state = "New", NEW controlling \in BOOLEAN, NEW credentials
    PROVE  Begun(x, a, start_connectivity_checks(a, controlling, credentials), controlling, credentials)
<1> DEFINE a1 == [a EXCEPT !.remote_credentials = credentials, !.is_controlling = controlling]
<1> DEFINE a2 == start(a1)
<1> DEFINE b == update_connection_state(a2, "Checking")
<1>1. DOMAIN a = AgentFields BY Fields, Zenon
<1>2. a2.connection_state = "New" /\ DOMAIN a2 = AgentFields BY <1>1, Zenon DEF start, AgentFields
<1>3. b = [a2 EXCEPT !.connection_state = "Checking"] BY <1>2, Zenon DEF update_connection_state
<1>4. /\ DOMAIN b = AgentFields /\ b.write_outs = {} /\ b.connection_state = "Checking" /\ b.is_controlling = controlling
      /\ b.remote_credentials = credentials /\ b.local_credentials = a.local_credentials
      /\ b.pending_local_credentials = a.pending_local_credentials
      /\ b.candidate_pairs = a.candidate_pairs /\ b.local_candidates = a.local_candidates
      /\ b.remote_candidates = a.remote_candidates /\ b.selected_pair = a.selected_pair
      /\ b.nominated_pair \in {None, a.nominated_pair}
      BY <1>1, <1>2, <1>3, ZenonT(30) DEF start, AgentFields
<1>5. start_connectivity_checks(a, controlling, credentials) = b BY Zenon DEF start_connectivity_checks
<1> HIDE DEF b
<1>6. Tables(x, b)
  <2>1. b.nominated_pair \in 0 .. Len(b.candidate_pairs) BY <1>4, Fields DEF OK, Tables, None
  <2> QED BY <1>4, <2>1, Zenon DEF OK, Tables, Named
<1>7. Stated(b) BY <1>4, Zenon DEF OK, Stated, ConnectionStates
<1>8. Writes(x, b) BY <1>4, Zenon DEF Writes
<1>9. OK(x, b) BY <1>6, <1>7, <1>8, Zenon DEF OK
<1>10. Begun(x, a, b, controlling, credentials) BY <1>4, <1>9, Zenon DEF Begun
<1> QED BY <1>5, <1>10, Zenon

\* A restart is applied.
LEMMA RestartOK ==
    ASSUME NEW x, NEW a, OK(x, a), a.write_outs = {}, a.connection_state \notin {"New", "Closed"}
    PROVE  LET b == apply_restart(a)
           IN  /\ OK(x, b) /\ b.write_outs = {} /\ b.connection_state = "Checking" /\ b.is_controlling = a.is_controlling
               /\ b.pending_local_credentials = None
<1> DEFINE lc == IF a.pending_local_credentials = None THEN a.local_credentials ELSE a.pending_local_credentials
<1> DEFINE a1 == [a EXCEPT !.local_credentials = lc, !.pending_local_credentials = None, !.remote_credentials = None,
                           !.candidate_pairs = <<>>, !.selected_pair = None]
<1> DEFINE a2 == start(delete_all_candidates(a1, TRUE))
<1> DEFINE b == update_connection_state(a2, "Checking")
<1>1. DOMAIN a = AgentFields BY Fields, Zenon
<1>2. apply_restart(a) = b BY Zenon DEF apply_restart
<1>3. /\ DOMAIN a2 = AgentFields /\ a2.connection_state = a.connection_state /\ a2.is_controlling = a.is_controlling
      /\ a2.write_outs = a.write_outs /\ a2.pending_local_credentials = None
      /\ a2.candidate_pairs = <<>> /\ a2.remote_candidates = <<>> /\ a2.local_candidates = a.local_candidates
      /\ a2.selected_pair = None /\ a2.nominated_pair = None
  <2> DEFINE a3 == delete_all_candidates(a1, TRUE)
  <2>1. DOMAIN a1 = AgentFields BY <1>1, Zenon DEF AgentFields
  <2>2. /\ a1.connection_state = a.connection_state /\ a1.is_controlling = a.is_controlling
        /\ a1.write_outs = a.write_outs /\ a1.pending_local_credentials = None
        /\ a1.local_candidates = a.local_candidates
        BY <1>1, Zenon DEF AgentFields
  <2> HIDE DEF a1
  <2>3. /\ DOMAIN a3 = AgentFields /\ a3.connection_state = a.connection_state /\ a3.is_controlling = a.is_controlling
        /\ a3.write_outs = a.write_outs /\ a3.pending_local_credentials = None
        /\ a3.candidate_pairs = <<>> /\ a3.remote_candidates = <<>> /\ a3.local_candidates = a.local_candidates
        /\ a3.selected_pair = None /\ a3.nominated_pair = None
        BY <2>1, <2>2, Zenon DEF delete_all_candidates, AgentFields
  <2> HIDE DEF a3
  <2>4. start(a3) = a3 \/ start(a3) = [a3 EXCEPT !.nominated_pair = None] BY Zenon DEF start
  <2>5. a2 = start(a3) BY Zenon DEF a3
  <2> HIDE DEF a2
  <2> QED BY <2>3, <2>4, <2>5, Zenon DEF AgentFields
<1> HIDE DEF a2
<1>4. b = a2 \/ b = [a2 EXCEPT !.connection_state = "Checking"] BY Zenon DEF update_connection_state
<1>5. b.connection_state = "Checking" BY <1>3, Zenon DEF update_connection_state, AgentFields
<1>6. /\ DOMAIN b = AgentFields /\ b.is_controlling = a.is_controlling
      /\ b.write_outs = a.write_outs /\ b.pending_local_credentials = None
      /\ b.candidate_pairs = <<>> /\ b.remote_candidates = <<>> /\ b.local_candidates = a.local_candidates
      /\ b.selected_pair = None /\ b.nominated_pair = None
      BY <1>3, <1>4, Zenon DEF AgentFields
<1> HIDE DEF b
<1>7. Tables(x, b) BY <1>6 DEF OK, Tables, Named, None
<1>8. Stated(b) BY <1>5, <1>6 DEF Stated, ConnectionStates, None
<1>9. Writes(x, b) BY <1>6, Zenon DEF Writes
<1> QED BY <1>2, <1>5, <1>6, <1>7, <1>8, <1>9, Zenon DEF OK

\* The two agents are each other's peers, and an address is of one of them.
LEMMA Two ==
    ASSUME Parameters
    PROVE  /\ \A x \in Agents : Peer(x) \in Agents /\ Peer(x) # x /\ Peer(Peer(x)) = x
           /\ \A x, y \in Agents : y = x \/ y = Peer(x)
           /\ \A x \in Agents : \A addr \in Addrs[x] : Owner(addr) = x
           /\ \A addr \in AllAddrs : Owner(addr) \in Agents /\ addr \in Addrs[Owner(addr)]
<1>1. PICK u \in Agents, v \in Agents : u # v /\ Agents = {u, v} BY Zenon DEF Parameters
<1>2. \A x \in Agents : Peer(x) \in Agents /\ Peer(x) # x BY <1>1, Zenon DEF Peer
<1>3. \A x \in Agents : \A addr \in Addrs[x] : Owner(addr) = x
  <2> SUFFICES ASSUME NEW x \in Agents, NEW addr \in Addrs[x] PROVE Owner(addr) = x BY Zenon
  <2>1. Owner(addr) \in Agents /\ addr \in Addrs[Owner(addr)] BY Zenon DEF Owner
  <2> QED BY <2>1, Zenon DEF Parameters
<1>4. \A addr \in AllAddrs : \E x \in Agents : addr \in Addrs[x] BY Zenon DEF AllAddrs
<1> QED BY <1>1, <1>2, <1>3, <1>4, Zenon

\* The agent with the highest tie-breaker, and the other one.
LEMMA Ranked ==
    ASSUME Parameters
    PROVE  /\ Winner \in Agents /\ Loser \in Agents /\ Winner # Loser /\ Agents = {Winner, Loser}
           /\ TieBreaker[Winner] \in Nat /\ TieBreaker[Loser] \in Nat /\ TieBreaker[Loser] < TieBreaker[Winner]
<1>1. PICK u \in Agents, v \in Agents : u # v /\ Agents = {u, v} BY Zenon DEF Parameters
<1>2. TieBreaker[u] \in Nat /\ TieBreaker[v] \in Nat /\ TieBreaker[u] # TieBreaker[v] BY <1>1, Zenon DEF Parameters
<1>3. \E x \in Agents : \A y \in Agents : TieBreaker[y] <= TieBreaker[x]
  <2>1. CASE TieBreaker[u] <= TieBreaker[v]
    <3>1. \A y \in Agents : TieBreaker[y] <= TieBreaker[v] BY <1>1, <1>2, <2>1
    <3> QED BY <3>1, Zenon
  <2>2. CASE TieBreaker[v] <= TieBreaker[u]
    <3>1. \A y \in Agents : TieBreaker[y] <= TieBreaker[u] BY <1>1, <1>2, <2>2
    <3> QED BY <3>1, Zenon
  <2> QED BY <1>2, <2>1, <2>2
<1>4. Winner \in Agents /\ \A y \in Agents : TieBreaker[y] <= TieBreaker[Winner] BY <1>3, Zenon DEF Winner
<1>5. Loser \in Agents /\ Loser # Winner BY <1>4, Two, Zenon DEF Loser
<1>6. TieBreaker[Winner] \in Nat /\ TieBreaker[Loser] \in Nat /\ TieBreaker[Loser] # TieBreaker[Winner]
      BY <1>4, <1>5, Zenon DEF Parameters
<1>7. Agents = {Winner, Loser} BY <1>1, <1>4, <1>5
<1> QED BY <1>4, <1>5, <1>6, <1>7

\* What a step says of the agent that takes it and of the network.
LEMMA BecomesIs ==
    ASSUME AgentsOK, NEW x \in Agents, NEW b, OK(x, b), NEW others, Becomes(x, b, others)
    PROVE  /\ AgentsOK'
           /\ \A y \in Agents : y # x => agent'[y] = agent[y]
           /\ /\ agent'[x].connection_state = b.connection_state /\ agent'[x].is_controlling = b.is_controlling
              /\ agent'[x].local_credentials = b.local_credentials /\ agent'[x].remote_credentials = b.remote_credentials
              /\ agent'[x].pending_local_credentials = b.pending_local_credentials
           /\ \A m \in net' : m \in others \/ m \in b.write_outs
<1> DEFINE c == [b EXCEPT !.write_outs = {}]
<1>1. agent' = [agent EXCEPT ![x] = c] BY Zenon DEF Becomes
<1>2. net' \subseteq others \cup b.write_outs BY Zenon DEF Becomes
<1>3. DOMAIN agent = Agents BY Zenon DEF AgentsOK
<1>4. DOMAIN b = AgentFields BY Fields, Zenon
<1>5. Leaves(x, b, c)
  <2>1. \A m \in {} : Message(m) /\ Claims(x, b.is_controlling, m) BY Zenon
  <2> QED BY <2>1, Sends, Zenon
<1>6. /\ c.write_outs = {} /\ c.connection_state = b.connection_state /\ c.is_controlling = b.is_controlling
      /\ c.local_credentials = b.local_credentials /\ c.remote_credentials = b.remote_credentials
      /\ c.pending_local_credentials = b.pending_local_credentials
      BY <1>4, Zenon DEF AgentFields
<1> HIDE DEF c
<1>7. DOMAIN agent' = Agents /\ agent'[x] = c /\ \A y \in Agents : y # x => agent'[y] = agent[y] BY <1>1, <1>3, Zenon
<1>8. AgentsOK'
  <2> SUFFICES ASSUME NEW y \in Agents PROVE Tables(y, agent'[y]) /\ Stated(agent'[y]) /\ agent'[y].write_outs = {}
      BY <1>7, Zenon DEF AgentsOK, Tables, Stated, Named, Pairs, Candidates, AllAddrs
  <2>1. CASE y = x BY <1>5, <1>6, <1>7, <2>1, Zenon DEF Leaves, OK
  <2>2. CASE y # x BY <1>7, <2>2, Zenon DEF AgentsOK
  <2> QED BY <2>1, <2>2, Zenon
<1> QED BY <1>2, <1>6, <1>7, <1>8, Zenon

\* Expiration changes nothing of a message but that its transaction is over.
LEMMA ExpiredIs ==
    ASSUME NEW x, NEW m \in Expired(x), \A n \in net : Message(n)
    PROVE  /\ Message(m)
           /\ \E n \in net : n.type = m.type /\ n.from = m.from /\ (m.type = "REQUEST" => n.controlling = m.controlling)
<1>1. PICK n \in net : m = IF Requester(n) = x THEN [n EXCEPT !.pending = FALSE] ELSE n BY Zenon DEF Expired
<1>2. Message(n) BY Zenon
<1>3. CASE m = n BY <1>2, <1>3, Zenon
<1>4. CASE m = [n EXCEPT !.pending = FALSE]
  <2>1. DOMAIN m = DOMAIN n /\ "type" \in DOMAIN n /\ "from" \in DOMAIN n /\ "to" \in DOMAIN n
        /\ (n.type = "REQUEST" => "controlling" \in DOMAIN n)
        BY <1>2, <1>4, Zenon DEF Message, RequestFields, SuccessFields
  <2>2. m.type = n.type /\ m.from = n.from /\ m.to = n.to /\ (n.type = "REQUEST" => m.controlling = n.controlling)
        BY <1>4, <2>1, Zenon
  <2>3. Message(m) BY <1>2, <2>1, <2>2, Zenon DEF Message
  <2> QED BY <2>2, <2>3, Zenon
<1> QED BY <1>1, <1>3, <1>4, Zenon

\* A request that a running agent, or one that was on its way, accounts for.
Accounted(m) ==
    \/ \E n \in net : n.type = "REQUEST" /\ n.from = m.from /\ n.controlling = m.controlling
    \/ \E y \in Agents : Running(y) /\ m.from \in Addrs[y] /\ m.controlling = agent[y].is_controlling

\* Roles that nobody changes.
LEMMA RolesStay ==
    ASSUME Parameters, AgentsOK, RolesOK, plan' = plan,
           \A y \in Agents : /\ agent'[y].is_controlling = agent[y].is_controlling
                             /\ Running(y)' => Running(y)
                             /\ agent'[y].connection_state = "New" => agent[y].connection_state = "New",
           \A m \in net' : m.type = "REQUEST" => Accounted(m)
    PROVE  RolesOK'
<1>1. Winner \in Agents /\ Loser \in Agents /\ Winner # Loser /\ Agents = {Winner, Loser} BY Ranked, Zenon
<1>2. \A y \in Agents : agent[y].is_controlling \in BOOLEAN BY Zenon DEF AgentsOK, Tables
<1>3. Running(Winner)' /\ Winner \in plan'.controlling => agent'[Winner].is_controlling BY <1>1, Zenon DEF RolesOK
<1>4. Running(Loser)' /\ Loser \notin plan'.controlling => ~ agent'[Loser].is_controlling BY <1>1, Zenon DEF RolesOK
<1>5. ASSUME Winner \notin plan.controlling, Loser \in plan.controlling
      PROVE  /\ \A x \in Agents : /\ Running(x)' => (agent'[x].is_controlling <=> x = Loser)
                                  /\ agent'[x].connection_state = "New" => ~ agent'[x].is_controlling
             /\ \A m \in net' : m.type = "REQUEST" => (m.controlling <=> m.from \in Addrs[Loser])
  <2>1. \A x \in Agents : /\ Running(x) => (agent[x].is_controlling <=> x = Loser)
                          /\ agent[x].connection_state = "New" => ~ agent[x].is_controlling
        BY <1>5, Zenon DEF RolesOK
  <2>2. \A m \in net : m.type = "REQUEST" => (m.controlling <=> m.from \in Addrs[Loser]) BY <1>5, Zenon DEF RolesOK
  <2>3. ASSUME NEW m \in net', m.type = "REQUEST" PROVE m.controlling <=> m.from \in Addrs[Loser]
    <3>1. CASE \E n \in net : n.type = "REQUEST" /\ n.from = m.from /\ n.controlling = m.controlling BY <2>2, <3>1, Zenon
    <3>2. CASE \E y \in Agents : Running(y) /\ m.from \in Addrs[y] /\ m.controlling = agent[y].is_controlling
      <4>1. PICK y \in Agents : Running(y) /\ m.from \in Addrs[y] /\ m.controlling = agent[y].is_controlling
            BY <3>2, Zenon
      <4>2. m.from \in Addrs[Loser] <=> y = Loser BY <1>1, <4>1, Zenon DEF Parameters
      <4>3. agent[y].is_controlling <=> y = Loser BY <2>1, <4>1, Zenon
      <4> QED BY <4>1, <4>2, <4>3, Zenon
    <3> QED BY <2>3, <3>1, <3>2, Zenon DEF Accounted
  <2> QED BY <2>1, <2>3, Zenon
<1> QED BY <1>3, <1>4, <1>5, Zenon DEF RolesOK

\* Credentials that nobody changes.
SameCredentials ==
    \A y \in Agents :
       /\ agent'[y].local_credentials = agent[y].local_credentials
       /\ agent'[y].remote_credentials = agent[y].remote_credentials
       /\ agent'[y].pending_local_credentials = agent[y].pending_local_credentials
       /\ agent'[y].connection_state = "New" <=> agent[y].connection_state = "New"
       /\ agent'[y].connection_state = "Closed" <=> agent[y].connection_state = "Closed"

\* They agree as before.
LEMMA CredentialsStay ==
    ASSUME Parameters, IInv, SameCredentials, UNCHANGED <<plan, signaling, channel>>
    PROVE  /\ (~ Quiet => \A x \in Agents : agent[x].connection_state # "New")'
           /\ (~ plan.discards => CredentialsOK)'
<1>1. Quiet' <=> Quiet BY Zenon DEF Quiet
<1>2. (~ Quiet => \A x \in Agents : agent[x].connection_state # "New")' BY <1>1, Zenon DEF IInv, SameCredentials
<1>3. ASSUME ~ plan.discards PROVE CredentialsOK'
  <2>1. CredentialsOK BY <1>3, Zenon DEF IInv
  <2>2. \A x \in Agents : agent'[x].pending_local_credentials = None BY <2>1, Zenon DEF CredentialsOK, SameCredentials
  <2>3. \A x \in Agents : Peer(x) \in Agents BY Two, Zenon
  <2>4. CASE \E x \in Agents : agent[x].connection_state = "Closed"
        BY <2>2, <2>4, Zenon DEF CredentialsOK, SameCredentials
  <2>5. CASE Quiet /\ \A x \in Agents : agent[x].connection_state # "New" =>
                                           agent[x].remote_credentials = agent[Peer(x)].local_credentials
        BY <1>1, <2>2, <2>3, <2>5, Zenon DEF CredentialsOK, SameCredentials
  <2>6. CASE \E x \in Agents : Offering(x) \/ Answering(x) \/ Answered(x)
    <3>1. PICK x \in Agents : Offering(x) \/ Answering(x) \/ Answered(x) BY <2>6, Zenon
    <3>2. Offering(x) => Offering(x)' BY <2>3, Zenon DEF Offering, SameCredentials
    <3>3. Answering(x) => Answering(x)' BY <2>3, Zenon DEF Answering, SameCredentials
    <3>4. Answered(x) => Answered(x)' BY <2>3, Zenon DEF Answered, SameCredentials
    <3> QED BY <2>2, <3>1, <3>2, <3>3, <3>4, Zenon DEF CredentialsOK
  <2> QED BY <2>1, <2>4, <2>5, <2>6, Zenon DEF CredentialsOK
<1> QED BY <1>2, <1>3, Zenon

\* A call that leaves an agent with its role and its credentials.
LEMMA LeavesStep ==
    ASSUME Parameters, IInv, NEW x \in Agents, NEW b, Leaves(x, agent[x], b), NEW others \in SUBSET net,
           Becomes(x, b, others), UNCHANGED <<plan, signaling, channel>>,
           agent[x].connection_state \in {"New", "Closed"} => b.write_outs = {}
    PROVE  IInv' /\ \A y \in Agents : agent'[y].is_controlling = agent[y].is_controlling
<1>1. AgentsOK /\ OK(x, b) /\ Keeps(agent[x], b) BY Zenon DEF IInv, Leaves
<1>2. /\ AgentsOK'
      /\ \A y \in Agents : y # x => agent'[y] = agent[y]
      /\ /\ agent'[x].connection_state = b.connection_state /\ agent'[x].is_controlling = b.is_controlling
         /\ agent'[x].local_credentials = b.local_credentials /\ agent'[x].remote_credentials = b.remote_credentials
         /\ agent'[x].pending_local_credentials = b.pending_local_credentials
      /\ \A m \in net' : m \in others \/ m \in b.write_outs
      BY <1>1, BecomesIs, Zenon
<1>3. SameCredentials BY <1>1, <1>2, Zenon DEF Keeps, SameCredentials
<1>4. \A y \in Agents : agent'[y].is_controlling = agent[y].is_controlling BY <1>1, <1>2, Zenon DEF Keeps
<1>5. \A m \in net' : Message(m) /\ (m.type = "REQUEST" => Accounted(m))
  <2> SUFFICES ASSUME NEW m \in net' PROVE Message(m) /\ (m.type = "REQUEST" => Accounted(m)) BY Zenon
  <2>1. CASE m \in others BY <2>1, Zenon DEF IInv, Accounted
  <2>2. CASE m \in b.write_outs
    <3>1. Message(m) /\ Claims(x, b.is_controlling, m) BY <1>1, <2>2, Zenon DEF OK, Writes
    <3>2. Running(x) BY <2>2, Zenon DEF Running
    <3> QED BY <1>1, <3>1, <3>2, Zenon DEF Claims, Accounted, Keeps
  <2> QED BY <1>2, <2>1, <2>2, Zenon
<1>6. \A m \in net' : Message(m)' BY <1>5, Zenon DEF Message, AllAddrs
<1>7. (~ Quiet => \A y \in Agents : agent[y].connection_state # "New")' /\ (~ plan.discards => CredentialsOK)'
      BY <1>3, CredentialsStay, Zenon
<1>8. RolesOK'
  <2>1. \A y \in Agents : Running(y)' => Running(y) BY <1>3, Zenon DEF SameCredentials, Running
  <2> QED BY <1>1, <1>3, <1>4, <1>5, <2>1, RolesStay, Zenon DEF IInv, SameCredentials
<1>9. DOMAIN signaling' = Agents BY Zenon DEF IInv
<1> QED BY <1>2, <1>4, <1>6, <1>7, <1>8, <1>9, Zenon DEF IInv

\* New credentials are staged.
LEMMA GenerateOK ==
    ASSUME NEW x, NEW a, OK(x, a)
    PROVE  LET b == generate_restart_credentials(a)
           IN  /\ OK(x, b) /\ b.write_outs = a.write_outs /\ b.connection_state = a.connection_state
               /\ b.is_controlling = a.is_controlling
               /\ b.local_credentials = a.local_credentials /\ b.remote_credentials = a.remote_credentials
<1> DEFINE b == generate_restart_credentials(a)
<1>1. DOMAIN a = AgentFields BY Fields, Zenon
<1>2. /\ DOMAIN b = AgentFields
      /\ b.write_outs = a.write_outs /\ b.candidate_pairs = a.candidate_pairs /\ b.is_controlling = a.is_controlling
      /\ b.local_credentials = a.local_credentials
      /\ b.remote_credentials = a.remote_credentials /\ b.connection_state = a.connection_state
      /\ b.local_candidates = a.local_candidates /\ b.remote_candidates = a.remote_candidates
      /\ b.nominated_pair = a.nominated_pair /\ b.selected_pair = a.selected_pair
      BY <1>1, Zenon DEF AgentFields, generate_restart_credentials
<1> HIDE DEF b
<1>3. Tables(x, b) BY <1>2, Zenon DEF OK, Tables, Named
<1>4. Stated(b) BY <1>2, Zenon DEF OK, Stated
<1>5. Writes(x, b) BY <1>2, Zenon DEF OK, Writes
<1> QED BY <1>2, <1>3, <1>4, <1>5, Zenon DEF OK, b

\* What is staged is applied.
LEMMA AppliedOK ==
    ASSUME NEW x, NEW a, OK(x, a), a.write_outs = {}, a.connection_state \notin {"New", "Closed"}
    PROVE  /\ OK(x, Applied(a)) /\ Applied(a).write_outs = {} /\ Applied(a).is_controlling = a.is_controlling
           /\ Applied(a).connection_state \notin {"New", "Closed"}
           /\ Applied(a).pending_local_credentials = None
<1>1. CASE a.pending_local_credentials = None BY <1>1, Zenon DEF Applied
<1>2. CASE a.pending_local_credentials # None
  <2> DEFINE b == apply_restart(a)
  <2>1. /\ OK(x, b) /\ b.write_outs = {} /\ b.connection_state = "Checking" /\ b.is_controlling = a.is_controlling
        /\ b.pending_local_credentials = None
        BY RestartOK, Zenon
  <2> HIDE DEF b
  <2>2. Applied(a) = b BY <1>2, Zenon DEF Applied, b
  <2> QED BY <2>1, <2>2, Zenon
<1> QED BY <1>1, <1>2, Zenon

\* What the description d of the peer makes of an agent a.
Described(x, a, b, d) ==
    /\ OK(x, b) /\ b.write_outs = {} /\ b.is_controlling = a.is_controlling
    /\ b.connection_state \notin {"New", "Closed"}
    /\ b.remote_credentials = d.credentials
    /\ d.type # "offer" => b.local_credentials = a.local_credentials
    /\ a.pending_local_credentials = None => b.pending_local_credentials = None
\* The description of the peer is taken.
LEMMA RemoteOK ==
    ASSUME NEW x, NEW a, OK(x, a), a.write_outs = {}, a.connection_state \notin {"New", "Closed"}, NEW d
    PROVE  Described(x, a, Remote(a, d), d)
<1> DEFINE g == generate_restart_credentials(a)
<1> DEFINE c == IF d.type = "offer" THEN apply_restart(g) ELSE a
<1> DEFINE b == [c EXCEPT !.remote_credentials = d.credentials]
<1>1. Remote(a, d) = IF d.credentials = a.remote_credentials THEN a ELSE b BY Zenon DEF Remote
<1>2. /\ OK(x, c) /\ c.write_outs = {} /\ c.connection_state \notin {"New", "Closed"} /\ c.is_controlling = a.is_controlling
      /\ a.pending_local_credentials = None => c.pending_local_credentials = None
      /\ d.type # "offer" => c.local_credentials = a.local_credentials
  <2>1. OK(x, g) /\ g.write_outs = {} /\ g.connection_state = a.connection_state /\ g.is_controlling = a.is_controlling
        BY GenerateOK, Zenon
  <2> HIDE DEF g
  <2> DEFINE e == apply_restart(g)
  <2>2. /\ OK(x, e) /\ e.write_outs = {} /\ e.connection_state = "Checking" /\ e.is_controlling = g.is_controlling
        /\ e.pending_local_credentials = None
        BY <2>1, RestartOK, Zenon
  <2>3. c = IF d.type = "offer" THEN e ELSE a BY Zenon
  <2> HIDE DEF c, e
  <2> QED BY <2>1, <2>2, <2>3, Zenon
<1> HIDE DEF c
<1>3. DOMAIN c = AgentFields BY <1>2, Fields, Zenon
<1>4. /\ DOMAIN b = AgentFields
      /\ b.write_outs = c.write_outs /\ b.candidate_pairs = c.candidate_pairs /\ b.is_controlling = c.is_controlling
      /\ b.local_credentials = c.local_credentials /\ b.pending_local_credentials = c.pending_local_credentials
      /\ b.remote_credentials = d.credentials /\ b.connection_state = c.connection_state
      /\ b.local_candidates = c.local_candidates /\ b.remote_candidates = c.remote_candidates
      /\ b.nominated_pair = c.nominated_pair /\ b.selected_pair = c.selected_pair
      BY <1>3, Zenon DEF AgentFields
<1> HIDE DEF b
<1>5. Tables(x, b) BY <1>2, <1>4, Zenon DEF OK, Tables, Named
<1>6. Stated(b) BY <1>2, <1>4, Zenon DEF OK, Stated
<1>7. Writes(x, b) BY <1>2, <1>4, Zenon DEF Writes
<1>8. OK(x, b) BY <1>5, <1>6, <1>7, Zenon DEF OK
<1>9. CASE d.credentials = a.remote_credentials BY <1>1, <1>9, Zenon DEF Described
<1>10. CASE d.credentials # a.remote_credentials BY <1>1, <1>2, <1>4, <1>8, <1>10, Zenon DEF Described
<1> QED BY <1>9, <1>10, Zenon

\* Messages that were on their way, some of them expired.
LEMMA MessagesKept ==
    ASSUME IInv, NEW x, NEW others, others = net \/ others = Expired(x), \A m \in net' : m \in others
    PROVE  \A m \in net' : Message(m) /\ (m.type = "REQUEST" => Accounted(m))
<1>1. \A m \in net : Message(m) BY Zenon DEF IInv
<1>2. CASE others = net BY <1>1, <1>2, Zenon DEF Accounted
<1>3. CASE others = Expired(x)
  <2> SUFFICES ASSUME NEW m \in net' PROVE Message(m) /\ (m.type = "REQUEST" => Accounted(m)) BY Zenon
  <2>1. m \in Expired(x) BY <1>3, Zenon
  <2>2. /\ Message(m)
        /\ \E n \in net : n.type = m.type /\ n.from = m.from /\ (m.type = "REQUEST" => n.controlling = m.controlling)
        BY <1>1, <2>1, ExpiredIs, Zenon
  <2> QED BY <2>2, Zenon DEF Accounted
<1> QED BY <1>2, <1>3, Zenon

\* The steps that add candidates, and time out.
LEMMA CandidateSteps ==
    ASSUME Parameters, IInv, NEW x \in Agents, AddLocalCandidate(x) \/ AddRemoteCandidate(x) \/ HandleTimeout(x)
    PROVE  IInv' /\ \A y \in Agents : agent'[y].is_controlling = agent[y].is_controlling
<1> DEFINE a == agent[x]
<1>1. OK(x, a) /\ a.write_outs = {} /\ MaxBinding \in Nat BY Zenon DEF IInv, AgentsOK, OK, Writes, Parameters
<1>2. net \in SUBSET net BY Zenon
<1>3. a.remote_credentials # None => a.connection_state # "New" BY <1>1, Zenon DEF OK, Stated
<1>4. CASE AddLocalCandidate(x)
  <2>1. PICK addr \in Addrs[x] : Becomes(x, add_local_candidate(a, addr), net) BY <1>4, Zenon DEF AddLocalCandidate
  <2> DEFINE b == add_local_candidate(a, addr)
  <2>2. Leaves(x, a, b) BY <1>1, <1>4, AddLocalLeaves, Zenon DEF AddLocalCandidate
  <2>3. b.write_outs = {} BY <1>1, Fields, Zenon DEF add_local_candidate, AgentFields
  <2> HIDE DEF b
  <2>4. Becomes(x, b, net) BY <2>1, Zenon DEF b
  <2>5. UNCHANGED <<plan, signaling, channel>> BY <1>4, Zenon DEF AddLocalCandidate
  <2> QED BY <1>2, <2>2, <2>3, <2>4, <2>5, LeavesStep, Zenon
<1>5. CASE AddRemoteCandidate(x)
  <2>1. PICK addr \in plan.trickled \cap Addrs[Peer(x)] : Becomes(x, AddRemote(a, addr, "host"), net)
        BY <1>5, Zenon DEF AddRemoteCandidate
  <2>2. addr \in AllAddrs BY Two, Zenon DEF AllAddrs
  <2> DEFINE b == AddRemote(a, addr, "host")
  <2>3. Leaves(x, a, b) BY <1>1, <2>2, AddRemoteLeaves, Zenon
  <2> HIDE DEF b
  <2>4. Becomes(x, b, net) BY <2>1, Zenon DEF b
  <2>5. UNCHANGED <<plan, signaling, channel>> BY <1>5, Zenon DEF AddRemoteCandidate
  <2>6. a.connection_state \notin {"New", "Closed"} BY <1>3, <1>5, Zenon DEF AddRemoteCandidate
  <2> QED BY <1>2, <2>3, <2>4, <2>5, <2>6, LeavesStep, Zenon
<1>6. CASE HandleTimeout(x)
  <2>1. PICK over \in BOOLEAN : Becomes(x, contact(a, over), net) BY <1>6, Zenon DEF HandleTimeout
  <2> DEFINE b == contact(a, over)
  <2>2. Leaves(x, a, b) BY <1>1, ContactLeaves, Zenon
  <2>3. a.connection_state = "Closed" => b.write_outs = {} BY <1>1, ContactClosed, Zenon
  <2>4. a.connection_state # "New" BY <1>3, <1>6, Zenon DEF HandleTimeout
  <2> HIDE DEF b
  <2>5. Becomes(x, b, net) BY <2>1, Zenon DEF b
  <2>6. UNCHANGED <<plan, signaling, channel>> BY <1>6, Zenon DEF HandleTimeout
  <2> QED BY <1>2, <2>2, <2>3, <2>4, <2>5, <2>6, LeavesStep, Zenon
<1> QED BY <1>4, <1>5, <1>6, Zenon

\* An agent that changes its role takes the one that its tie-breaker gives it, and was not given
\* roles that nobody contests.
LEMMA SwitchAllowed ==
    ASSUME Parameters, IInv, NEW x \in Agents, NEW m \in net, SwitchesRole(x, agent[x], m)
    PROVE  /\ x = Winner <=> ~ agent[x].is_controlling
           /\ agent[x].connection_state # "Closed" => ~ (Winner \notin plan.controlling /\ Loser \in plan.controlling)
<1> DEFINE o == Owner(m.from)
<1>1. /\ Winner \in Agents /\ Loser \in Agents /\ Winner # Loser /\ Agents = {Winner, Loser}
      /\ TieBreaker[Winner] \in Nat /\ TieBreaker[Loser] \in Nat /\ TieBreaker[Loser] < TieBreaker[Winner]
      BY Ranked, Zenon
<1>2. Message(m) /\ agent[x].is_controlling \in BOOLEAN BY Zenon DEF IInv, AgentsOK, Tables
<1>3. o \in Agents /\ m.from \in Addrs[o] BY <1>2, Two, Zenon DEF Message
<1>4. /\ m.type = "REQUEST" /\ m.controlling = agent[x].is_controlling
      /\ agent[x].is_controlling => TieBreaker[x] < TieBreaker[o]
      /\ ~ agent[x].is_controlling => TieBreaker[x] > TieBreaker[o]
      BY Zenon DEF SwitchesRole
<1> HIDE DEF o
<1>5. agent[x].is_controlling => x = Loser /\ o = Winner BY <1>1, <1>3, <1>4
<1>6. ~ agent[x].is_controlling => x = Winner /\ o = Loser BY <1>1, <1>3, <1>4
<1>7. m.from \in Addrs[Loser] <=> o = Loser BY <1>1, <1>3, Zenon DEF Parameters
<1>8. ASSUME agent[x].connection_state # "Closed", Winner \notin plan.controlling, Loser \in plan.controlling PROVE FALSE
  <2>1. m.controlling <=> o = Loser BY <1>4, <1>7, <1>8, Zenon DEF IInv, RolesOK
  <2>2. Running(x) => (agent[x].is_controlling <=> x = Loser) BY <1>8, Zenon DEF IInv, RolesOK
  <2>3. ~ Running(x) => ~ agent[x].is_controlling BY <1>8, Zenon DEF IInv, RolesOK, Running
  <2>4. CASE agent[x].is_controlling
    <3>1. m.controlling BY <1>4, <2>4, Zenon
    <3> QED BY <1>1, <1>5, <2>1, <2>4, <3>1, Zenon
  <2>5. CASE ~ agent[x].is_controlling
    <3>1. ~ m.controlling BY <1>4, <2>5, Zenon
    <3> QED BY <1>6, <2>1, <2>5, <3>1, Zenon
  <2> QED BY <1>2, <2>4, <2>5, Zenon
<1> QED BY <1>1, <1>5, <1>6, <1>8, Zenon

\* A step that has an agent change its role.
LEMMA SwitchStep ==
    ASSUME Parameters, IInv, NEW x \in Agents, NEW m \in net, SwitchesRole(x, agent[x], m), NEW b,
           Leaves(x, switch_role(agent[x]), b), NEW others \in SUBSET net, Becomes(x, b, others),
           UNCHANGED <<plan, signaling, channel>>,
           agent[x].connection_state \in {"New", "Closed"} => b.write_outs = {}
    PROVE  IInv'
<1> DEFINE a == switch_role(agent[x])
<1>1. AgentsOK /\ OK(x, agent[x]) /\ agent[x].write_outs = {} BY Zenon DEF IInv, AgentsOK, OK, Writes
<1>2. /\ a.connection_state = agent[x].connection_state /\ a.local_credentials = agent[x].local_credentials
      /\ a.pending_local_credentials = agent[x].pending_local_credentials
      /\ a.remote_credentials = agent[x].remote_credentials /\ a.is_controlling = ~ agent[x].is_controlling
      BY <1>1, SwitchOK, ZenonT(30)
<1> HIDE DEF a
<1>3. OK(x, b) /\ Keeps(a, b) BY Zenon DEF Leaves, a
<1>4. /\ AgentsOK'
      /\ \A y \in Agents : y # x => agent'[y] = agent[y]
      /\ /\ agent'[x].connection_state = b.connection_state /\ agent'[x].is_controlling = b.is_controlling
         /\ agent'[x].local_credentials = b.local_credentials /\ agent'[x].remote_credentials = b.remote_credentials
         /\ agent'[x].pending_local_credentials = b.pending_local_credentials
      /\ \A n \in net' : n \in others \/ n \in b.write_outs
      BY <1>1, <1>3, BecomesIs, Zenon
<1>5. SameCredentials BY <1>2, <1>3, <1>4, Zenon DEF Keeps, SameCredentials
<1>6. \A n \in net' : Message(n)
  <2>1. \A n \in b.write_outs : Message(n) BY <1>3, Zenon DEF OK, Writes
  <2> QED BY <1>4, <2>1, Zenon DEF IInv
<1>7. \A n \in net' : Message(n)' BY <1>6, Zenon DEF Message, AllAddrs
<1>8. (~ Quiet => \A y \in Agents : agent[y].connection_state # "New")' /\ (~ plan.discards => CredentialsOK)'
      BY <1>5, CredentialsStay, Zenon
<1>9. RolesOK'
  <2>1. Winner \in Agents /\ Loser \in Agents /\ Winner # Loser /\ Agents = {Winner, Loser} BY Ranked, Zenon
  <2>2. /\ x = Winner <=> ~ agent[x].is_controlling
        /\ agent[x].connection_state # "Closed" => ~ (Winner \notin plan.controlling /\ Loser \in plan.controlling)
        BY SwitchAllowed, Zenon
  <2>3. agent[x].is_controlling \in BOOLEAN BY <1>1, Zenon DEF AgentsOK, Tables
  <2>4. x = Winner <=> agent'[x].is_controlling BY <1>2, <1>3, <1>4, <2>2, <2>3, Zenon DEF Keeps
  <2>5. \A y \in Agents : /\ Running(y)' <=> Running(y)
                          /\ agent'[y].connection_state = "New" <=> agent[y].connection_state = "New"
        BY <1>5, Zenon DEF SameCredentials, Running
  <2>6. Running(Winner)' /\ Winner \in plan'.controlling => agent'[Winner].is_controlling
        BY <1>4, <2>1, <2>4, <2>5, Zenon DEF IInv, RolesOK
  <2>7. Running(Loser)' /\ Loser \notin plan'.controlling => ~ agent'[Loser].is_controlling
        BY <1>4, <2>1, <2>4, <2>5, Zenon DEF IInv, RolesOK
  <2>8. ASSUME Winner \notin plan.controlling, Loser \in plan.controlling
        PROVE  /\ \A y \in Agents : /\ Running(y)' => (agent'[y].is_controlling <=> y = Loser)
                                    /\ agent'[y].connection_state = "New" => ~ agent'[y].is_controlling
               /\ \A n \in net' : n.type = "REQUEST" => (n.controlling <=> n.from \in Addrs[Loser])
    <3>1. agent[x].connection_state = "Closed" BY <2>2, <2>8, Zenon
    <3>2. ~ Running(x)' /\ agent'[x].connection_state # "New" BY <2>5, <3>1, Zenon DEF Running
    <3>3. net' \subseteq net BY <1>4, <3>1, Zenon
    <3>4. \A n \in net : n.type = "REQUEST" => (n.controlling <=> n.from \in Addrs[Loser])
          BY <2>8, Zenon DEF IInv, RolesOK
    <3>5. \A y \in Agents : /\ Running(y) => (agent[y].is_controlling <=> y = Loser)
                            /\ agent[y].connection_state = "New" => ~ agent[y].is_controlling
          BY <2>8, Zenon DEF IInv, RolesOK
    <3> QED BY <1>4, <2>5, <3>2, <3>3, <3>4, <3>5, Zenon
  <2> QED BY <2>6, <2>7, <2>8, Zenon DEF RolesOK
<1>10. DOMAIN signaling' = Agents BY Zenon DEF IInv
<1> QED BY <1>4, <1>7, <1>8, <1>9, <1>10, Zenon DEF IInv

\* A message is received.  Roles that differ are those that nobody contests, or those that the
\* tie-breakers give.
LEMMA ReceiveStep ==
    ASSUME Parameters, IInv, NEW m \in net, Receive(m)
    PROVE  /\ IInv'
           /\ \/ \A y \in Agents : agent'[y].is_controlling = agent[y].is_controlling
              \/ SwitchesRole(Owner(m.to), agent[Owner(m.to)], m)
<1> DEFINE x == Owner(m.to)
<1>1. Message(m) /\ x \in Agents BY Two, Zenon DEF IInv, Message
<1>2. PICK waited \in BOOLEAN : Becomes(x, handle_inbound(x, m, waited), net \ {m}) BY Zenon DEF Receive
<1>3. UNCHANGED <<plan, signaling, channel>> BY Zenon DEF Receive
<1> HIDE DEF x
<1> DEFINE b == handle_inbound(x, m, waited)
<1>4. OK(x, agent[x]) /\ agent[x].write_outs = {} /\ MaxBinding \in Nat
      BY <1>1, Zenon DEF IInv, AgentsOK, OK, Writes, Parameters
<1>5. Leaves(x, Taking(x, m), b) \/ b = agent[x] BY <1>1, <1>4, InboundLeaves, Zenon
<1>6. agent[x].connection_state \in {"New", "Closed"} => b.write_outs = {}
  <2>1. Taking(x, m).write_outs = {} BY <1>4, SwitchOK, Zenon DEF Taking
  <2>2. agent[x].connection_state \in {"New", "Closed"} => b = agent[x] \/ b = Taking(x, m)
        BY <1>1, <1>4, InboundSilent, Zenon
  <2> HIDE DEF b
  <2> QED BY <1>4, <2>1, <2>2, Zenon
<1>7. Becomes(x, b, net \ {m}) BY <1>2, Zenon
<1> HIDE DEF b
<1>8. net \ {m} \in SUBSET net BY Zenon
<1>9. CASE Leaves(x, agent[x], b) BY <1>1, <1>3, <1>6, <1>7, <1>8, <1>9, LeavesStep, Zenon
<1>10. CASE ~ Leaves(x, agent[x], b)
  <2>1. b # agent[x] BY <1>4, <1>10, LeavesSame, Zenon
  <2>2. SwitchesRole(x, agent[x], m) /\ Leaves(x, switch_role(agent[x]), b) BY <1>5, <1>10, <2>1, Zenon DEF Taking
  <2>3. IInv' BY <1>1, <1>3, <1>6, <1>7, <1>8, <2>2, SwitchStep, Zenon
  <2> QED BY <2>2, <2>3, Zenon DEF x
<1> QED BY <1>9, <1>10, Zenon

\* Time passes, and messages are lost.
LEMMA TickStep ==
    ASSUME Parameters, IInv, (\E x \in Agents : Tick(x)) \/ (\E m \in net : Lose(m))
    PROVE  IInv' /\ \A y \in Agents : agent'[y].is_controlling = agent[y].is_controlling
<1> SUFFICES ASSUME NEW others, NEW x, others = net \/ others = Expired(x), net' \subseteq others,
                    UNCHANGED <<plan, signaling, channel>>, SameCredentials, AgentsOK',
                    \A y \in Agents : agent'[y].is_controlling = agent[y].is_controlling
             PROVE  IInv'
  <2>1. ASSUME NEW m \in net, Lose(m)
        PROVE  /\ net' \subseteq net /\ UNCHANGED <<plan, signaling, channel>> /\ SameCredentials
               /\ AgentsOK' /\ \A y \in Agents : agent'[y].is_controlling = agent[y].is_controlling
    <3>1. agent' = agent BY <2>1, ZenonT(30) DEF Lose
    <3>2. AgentsOK' BY <3>1, ZenonT(30) DEF IInv, AgentsOK, Tables, Stated, Named, Pairs, Candidates, AllAddrs
    <3> QED BY <2>1, <3>1, <3>2, Zenon DEF Lose, SameCredentials
  <2>2. ASSUME NEW z \in Agents, Tick(z)
        PROVE  /\ net' = Expired(z) /\ UNCHANGED <<plan, signaling, channel>> /\ SameCredentials
               /\ AgentsOK' /\ \A y \in Agents : agent'[y].is_controlling = agent[y].is_controlling
    <3> DEFINE b == Aged(agent[z])
    <3>1. OK(z, agent[z]) /\ agent[z].write_outs = {} /\ DOMAIN agent = Agents
          BY Zenon DEF IInv, AgentsOK, OK, Writes
    <3>2. Leaves(z, agent[z], b) BY <3>1, ClockLeaves, Zenon DEF Aged
    <3>3. b.write_outs = {} BY <3>1, Fields, Zenon DEF Aged, AgentFields
    <3>4. agent' = [agent EXCEPT ![z] = b] BY <2>2, Zenon DEF Tick
    <3> HIDE DEF b
    <3>5. DOMAIN agent' = Agents /\ agent'[z] = b /\ \A y \in Agents : y # z => agent'[y] = agent[y] BY <3>1, <3>4, Zenon
    <3>6. AgentsOK'
      <4> SUFFICES ASSUME NEW y \in Agents PROVE Tables(y, agent'[y]) /\ Stated(agent'[y]) /\ agent'[y].write_outs = {}
          BY <3>5, Zenon DEF AgentsOK, Tables, Stated, Named, Pairs, Candidates, AllAddrs
      <4>1. CASE y = z BY <3>2, <3>3, <3>5, <4>1, Zenon DEF Leaves, OK
      <4>2. CASE y # z BY <3>5, <4>2, Zenon DEF IInv, AgentsOK
      <4> QED BY <4>1, <4>2, Zenon
    <3>7. SameCredentials /\ \A y \in Agents : agent'[y].is_controlling = agent[y].is_controlling
          BY <3>2, <3>5, Zenon DEF Leaves, Keeps, SameCredentials
    <3> QED BY <2>2, <3>6, <3>7, Zenon DEF Tick
  <2> QED BY <2>1, <2>2, Zenon
<1>1. \A m \in net' : Message(m) /\ (m.type = "REQUEST" => Accounted(m))
  <2>1. \A m \in net' : m \in others BY Zenon
  <2> QED BY <2>1, MessagesKept, Zenon
<1>2. \A m \in net' : Message(m)' BY <1>1, Zenon DEF Message, AllAddrs
<1>3. (~ Quiet => \A y \in Agents : agent[y].connection_state # "New")' /\ (~ plan.discards => CredentialsOK)'
      BY CredentialsStay, Zenon
<1>4. RolesOK'
  <2>1. \A y \in Agents : /\ Running(y)' => Running(y)
                          /\ agent'[y].connection_state = "New" => agent[y].connection_state = "New"
        BY Zenon DEF SameCredentials, Running
  <2> QED BY <1>1, <2>1, RolesStay, Zenon DEF IInv
<1>5. DOMAIN signaling' = Agents BY Zenon DEF IInv
<1> QED BY <1>2, <1>3, <1>4, <1>5, Zenon DEF IInv

\* An agent is replaced by one with the same role that writes nothing; the rest is about credentials.
LEMMA QuietStep ==
    ASSUME Parameters, IInv, NEW x \in Agents, NEW b, OK(x, b), b.write_outs = {},
           b.is_controlling = agent[x].is_controlling,
           b.connection_state = "Closed" \/ (Running(x) /\ b.connection_state \notin {"New", "Closed"}),
           NEW others, others = net \/ others = Expired(x), Becomes(x, b, others), plan' = plan
    PROVE  /\ AgentsOK' /\ RolesOK' /\ \A m \in net' : Message(m)'
           /\ \A y \in Agents : agent'[y].is_controlling = agent[y].is_controlling
           /\ \A y \in Agents : agent'[y].connection_state = "New" => agent[y].connection_state = "New"
           /\ \A y \in Agents : y # x => agent'[y] = agent[y]
           /\ /\ agent'[x].connection_state = b.connection_state
              /\ agent'[x].local_credentials = b.local_credentials /\ agent'[x].remote_credentials = b.remote_credentials
              /\ agent'[x].pending_local_credentials = b.pending_local_credentials
<1>1. /\ AgentsOK'
      /\ \A y \in Agents : y # x => agent'[y] = agent[y]
      /\ /\ agent'[x].connection_state = b.connection_state /\ agent'[x].is_controlling = b.is_controlling
         /\ agent'[x].local_credentials = b.local_credentials /\ agent'[x].remote_credentials = b.remote_credentials
         /\ agent'[x].pending_local_credentials = b.pending_local_credentials
      /\ \A m \in net' : m \in others \/ m \in b.write_outs
      BY BecomesIs, Zenon DEF IInv
<1>2. \A m \in net' : m \in others BY <1>1, Zenon
<1>3. \A m \in net' : Message(m) /\ (m.type = "REQUEST" => Accounted(m)) BY <1>2, MessagesKept, Zenon
<1>4. \A m \in net' : Message(m)' BY <1>3, Zenon DEF Message, AllAddrs
<1>5. \A y \in Agents : agent'[y].is_controlling = agent[y].is_controlling BY <1>1, Zenon
<1>6. \A y \in Agents : /\ Running(y)' => Running(y)
                        /\ agent'[y].connection_state = "New" => agent[y].connection_state = "New"
      BY <1>1, Zenon DEF Running
<1>7. RolesOK' BY <1>3, <1>5, <1>6, RolesStay, Zenon DEF IInv
<1> QED BY <1>1, <1>4, <1>5, <1>6, <1>7, Zenon

\* An agent is closed.
LEMMA CloseStep ==
    ASSUME Parameters, IInv, NEW x \in Agents, Close(x)
    PROVE  IInv' /\ \A y \in Agents : agent'[y].is_controlling = agent[y].is_controlling
<1> DEFINE a == agent[x]
<1> DEFINE c == delete_all_candidates(a, FALSE)
<1> DEFINE b == [c EXCEPT !.connection_state = "Closed"]
<1>1. OK(x, a) /\ a.write_outs = {} BY Zenon DEF IInv, AgentsOK, OK, Writes
<1>2. DOMAIN a = AgentFields BY <1>1, Fields, Zenon
<1>3. /\ DOMAIN c = AgentFields /\ c.local_candidates = <<>> /\ c.remote_candidates = <<>> /\ c.candidate_pairs = <<>>
      /\ c.selected_pair = None /\ c.nominated_pair = None /\ c.write_outs = a.write_outs
      /\ c.is_controlling = a.is_controlling /\ c.pending_local_credentials = a.pending_local_credentials
      BY <1>2, Zenon DEF delete_all_candidates, AgentFields
<1> HIDE DEF c
<1>4. /\ DOMAIN b = AgentFields /\ b.local_candidates = <<>> /\ b.remote_candidates = <<>> /\ b.candidate_pairs = <<>>
      /\ b.selected_pair = None /\ b.nominated_pair = None /\ b.write_outs = {}
      /\ b.is_controlling = a.is_controlling /\ b.pending_local_credentials = a.pending_local_credentials
      /\ b.connection_state = "Closed"
      BY <1>1, <1>3, Zenon DEF AgentFields
<1> HIDE DEF b
<1>5. Tables(x, b)
  <2>1. Named(b, b.candidate_pairs)
    <3>1. DOMAIN <<>> = {} OBVIOUS
    <3> QED BY <1>4, <3>1, Zenon DEF Named
  <2>2. Len(<<>>) = 0 /\ 0 \in 0 .. 0 OBVIOUS
  <2>3. b.is_controlling \in BOOLEAN BY <1>1, <1>4, Zenon DEF OK, Tables
  <2> QED BY <1>4, <2>1, <2>2, <2>3 DEF Tables, None
<1>6. Stated(b)
  <2>1. Len(<<>>) = 0 /\ 0 \in 0 .. 0 OBVIOUS
  <2> QED BY <1>4, <2>1, Zenon DEF Stated, ConnectionStates, None
<1>7. OK(x, b) BY <1>4, <1>5, <1>6, Zenon DEF OK, Writes
<1>8. Becomes(x, b, net) /\ UNCHANGED <<plan, signaling, channel>> BY Zenon DEF Close, b, c
<1>9. /\ AgentsOK' /\ RolesOK' /\ \A m \in net' : Message(m)'
      /\ \A y \in Agents : agent'[y].is_controlling = agent[y].is_controlling
      /\ \A y \in Agents : agent'[y].connection_state = "New" => agent[y].connection_state = "New"
      /\ \A y \in Agents : y # x => agent'[y] = agent[y]
      /\ /\ agent'[x].connection_state = "Closed"
         /\ agent'[x].pending_local_credentials = agent[x].pending_local_credentials
      BY <1>4, <1>7, <1>8, QuietStep, Zenon
<1>10. (~ Quiet => \A y \in Agents : agent[y].connection_state # "New")' BY <1>8, <1>9, Zenon DEF IInv, Quiet
<1>11. (~ plan.discards => CredentialsOK)'
  <2>1. ~ plan.discards => \A y \in Agents : agent'[y].pending_local_credentials = None
        BY <1>9, Zenon DEF IInv, CredentialsOK
  <2>2. \E y \in Agents : agent'[y].connection_state = "Closed" BY <1>9, Zenon
  <2> QED BY <1>8, <2>1, <2>2, Zenon DEF CredentialsOK
<1>12. DOMAIN signaling' = Agents BY <1>8, Zenon DEF IInv
<1> QED BY <1>9, <1>10, <1>11, <1>12, Zenon DEF IInv

\* An agent starts: its role is the one it was given.
LEMMA StartStep == ASSUME Parameters, IInv, NEW x \in Agents, Start(x) PROVE IInv'
<1> DEFINE a == agent[x]
<1> DEFINE c == AddDescribed(x, a)
<1> DEFINE b == start_connectivity_checks(c, x \in plan.controlling, agent[Peer(x)].local_credentials)
<1>1. OK(x, a) /\ a.write_outs = {} /\ a.connection_state = "New" /\ AgentsOK
      BY Zenon DEF IInv, AgentsOK, OK, Writes, Start
<1>2. OK(x, c) /\ Keeps(a, c) /\ c.write_outs = {} BY <1>1, AddDescribedLeaves, AddDescribedWrites, Zenon DEF Leaves
<1>3. c.connection_state = "New" BY <1>1, <1>2, Zenon DEF Keeps
<1> HIDE DEF c
<1>4. /\ OK(x, b) /\ b.write_outs = {} /\ b.connection_state = "Checking"
      /\ b.is_controlling = (x \in plan.controlling)
      /\ b.remote_credentials = agent[Peer(x)].local_credentials /\ b.local_credentials = c.local_credentials
      /\ b.pending_local_credentials = c.pending_local_credentials
  <2> DEFINE given == x \in plan.controlling
  <2> DEFINE credentials == agent[Peer(x)].local_credentials
  <2> DEFINE d == start_connectivity_checks(c, given, credentials)
  <2>1. given \in BOOLEAN OBVIOUS
  <2> HIDE DEF given, credentials
  <2>2. Begun(x, c, d, given, credentials) BY <1>2, <1>3, <2>1, StartOK, Zenon
  <2> QED BY <2>2, Zenon DEF given, credentials, Begun
<1> HIDE DEF b
<1>5. Becomes(x, b, net) /\ UNCHANGED <<plan, signaling, channel>> BY Zenon DEF Start, b, c
<1>6. /\ AgentsOK'
      /\ \A y \in Agents : y # x => agent'[y] = agent[y]
      /\ /\ agent'[x].connection_state = b.connection_state /\ agent'[x].is_controlling = b.is_controlling
         /\ agent'[x].local_credentials = b.local_credentials /\ agent'[x].remote_credentials = b.remote_credentials
         /\ agent'[x].pending_local_credentials = b.pending_local_credentials
      /\ \A m \in net' : m \in net \/ m \in b.write_outs
      BY <1>1, <1>4, <1>5, BecomesIs, Zenon
<1>7. /\ agent'[x].connection_state = "Checking" /\ agent'[x].is_controlling = (x \in plan.controlling)
      /\ agent'[x].remote_credentials = agent[Peer(x)].local_credentials
      /\ agent'[x].local_credentials = agent[x].local_credentials
      /\ agent'[x].pending_local_credentials = agent[x].pending_local_credentials
      /\ net' \subseteq net
      BY <1>2, <1>4, <1>6, Zenon DEF Keeps
<1>8. \A m \in net' : Message(m)' BY <1>7, Zenon DEF IInv, Message, AllAddrs
<1>9. Quiet /\ Quiet' BY <1>1, <1>5, Zenon DEF IInv, Quiet
<1>10. RolesOK'
  <2>1. Winner \in Agents /\ Loser \in Agents /\ Winner # Loser /\ Agents = {Winner, Loser} BY Ranked, Zenon
  <2>2. \A y \in Agents : y # x => (Running(y)' <=> Running(y)) BY <1>6, Zenon DEF Running
  <2>3. RolesOK /\ plan' = plan BY <1>5, Zenon DEF IInv
  <2>4. Running(Winner)' /\ Winner \in plan'.controlling => agent'[Winner].is_controlling
    <3>1. CASE x = Winner BY <1>7, <2>3, <3>1, Zenon
    <3>2. CASE x # Winner BY <1>6, <2>1, <2>2, <2>3, <3>2, Zenon DEF RolesOK
    <3> QED BY <3>1, <3>2, Zenon
  <2>5. Running(Loser)' /\ Loser \notin plan'.controlling => ~ agent'[Loser].is_controlling
    <3>1. CASE x = Loser BY <1>7, <2>3, <3>1, Zenon
    <3>2. CASE x # Loser BY <1>6, <2>1, <2>2, <2>3, <3>2 DEF RolesOK
    <3> QED BY <3>1, <3>2, Zenon
  <2>6. ASSUME Winner \notin plan.controlling, Loser \in plan.controlling
        PROVE  /\ \A y \in Agents : /\ Running(y)' => (agent'[y].is_controlling <=> y = Loser)
                                    /\ agent'[y].connection_state = "New" => ~ agent'[y].is_controlling
               /\ \A m \in net' : m.type = "REQUEST" => (m.controlling <=> m.from \in Addrs[Loser])
    <3>1. /\ \A y \in Agents : /\ Running(y) => (agent[y].is_controlling <=> y = Loser)
                               /\ agent[y].connection_state = "New" => ~ agent[y].is_controlling
          /\ \A m \in net : m.type = "REQUEST" => (m.controlling <=> m.from \in Addrs[Loser])
          BY <2>3, <2>6, Zenon DEF RolesOK
    <3>2. ASSUME NEW y \in Agents
          PROVE  /\ Running(y)' => (agent'[y].is_controlling <=> y = Loser)
                 /\ agent'[y].connection_state = "New" => ~ agent'[y].is_controlling
      <4>1. CASE y = x BY <1>7, <2>1, <2>6, <4>1, Zenon
      <4>2. CASE y # x BY <1>6, <2>2, <3>1, <4>2, Zenon
      <4> QED BY <4>1, <4>2, Zenon
    <3> QED BY <1>7, <3>1, <3>2, Zenon
  <2> QED BY <2>3, <2>4, <2>5, <2>6, Zenon DEF RolesOK
<1>11. ASSUME ~ plan.discards PROVE CredentialsOK'
  <2>1. CredentialsOK BY <1>11, Zenon DEF IInv
  <2>2. \A y \in Agents : agent'[y].pending_local_credentials = None BY <1>6, <1>7, <2>1, Zenon DEF CredentialsOK
  <2>3. \A y \in Agents : Peer(y) \in Agents /\ Peer(y) # y BY Two, Zenon
  <2>4. CASE \E y \in Agents : agent[y].connection_state = "Closed"
    <3>1. PICK y \in Agents : agent[y].connection_state = "Closed" BY <2>4, Zenon
    <3>2. agent'[y].connection_state = "Closed" BY <1>1, <1>6, <3>1, Zenon
    <3> QED BY <2>2, <3>2, Zenon DEF CredentialsOK
  <2>5. CASE \A y \in Agents : agent[y].connection_state # "New" =>
                                  agent[y].remote_credentials = agent[Peer(y)].local_credentials
    <3>1. \A y \in Agents : agent'[y].connection_state # "New" =>
                               agent'[y].remote_credentials = agent'[Peer(y)].local_credentials
          BY <1>6, <1>7, <2>3, <2>5
    <3> QED BY <1>9, <2>2, <3>1, Zenon DEF CredentialsOK
  <2>6. CASE \E y \in Agents : Offering(y) \/ Answering(y) \/ Answered(y)
        BY <1>9, <2>6, Zenon DEF Quiet, Offering, Answering, Answered
  <2> QED BY <2>1, <2>4, <2>5, <2>6, Zenon DEF CredentialsOK
<1>12. DOMAIN signaling' = Agents BY <1>5, Zenon DEF IInv
<1> QED BY <1>5, <1>6, <1>8, <1>9, <1>10, <1>11, <1>12 DEF IInv

\* An offer is made, or thrown away.
LEMMA OfferStep ==
    ASSUME Parameters, IInv, NEW x \in Agents, Offer(x) \/ DiscardOffer(x)
    PROVE  IInv' /\ \A y \in Agents : agent'[y].is_controlling = agent[y].is_controlling
<1>1. /\ OK(x, agent[x]) /\ agent[x].write_outs = {} /\ agent[x].connection_state \notin {"New", "Closed"} /\ Running(x)
      /\ \A y \in Agents : agent[y].connection_state \notin {"New", "Closed"}
      BY Zenon DEF IInv, AgentsOK, OK, Writes, Offer, DiscardOffer, Started, Running
<1> DEFINE g == generate_restart_credentials(agent[x])
<1>2. /\ OK(x, g) /\ g.write_outs = {} /\ g.connection_state \notin {"New", "Closed"}
      /\ g.is_controlling = agent[x].is_controlling
      BY <1>1, GenerateOK
<1>3. CASE DiscardOffer(x)
  <2>1. Becomes(x, g, net) /\ UNCHANGED <<plan, signaling, channel>> /\ plan.discards /\ Quiet
        BY <1>3, Zenon DEF DiscardOffer
  <2> HIDE DEF g
  <2>2. /\ AgentsOK' /\ RolesOK' /\ \A m \in net' : Message(m)'
        /\ \A y \in Agents : agent'[y].is_controlling = agent[y].is_controlling
        BY <1>1, <1>2, <2>1, QuietStep, Zenon
  <2>3. Quiet' /\ plan'.discards /\ DOMAIN signaling' = Agents BY <2>1, Zenon DEF Quiet, IInv
  <2> QED BY <2>2, <2>3, Zenon DEF IInv
<1>4. CASE Offer(x)
  <2>1. Quiet /\ plan' = plan /\ signaling' = [signaling EXCEPT ![x] = "have-local-offer"] BY <1>4, Zenon DEF Offer
  <2>2. PICK restart \in BOOLEAN :
           LET a == Applied(IF restart THEN g ELSE agent[x])
           IN  /\ Becomes(x, a, IF Restarts(agent[x], a) THEN Expired(x) ELSE net)
               /\ channel' = {[to |-> Peer(x), type |-> "offer", credentials |-> a.local_credentials]}
        BY <1>4, Zenon DEF Offer
  <2> DEFINE h == IF restart THEN g ELSE agent[x]
  <2> DEFINE b == Applied(h)
  <2> DEFINE others == IF Restarts(agent[x], b) THEN Expired(x) ELSE net
  <2>3. /\ OK(x, h) /\ h.write_outs = {} /\ h.connection_state \notin {"New", "Closed"}
        /\ h.is_controlling = agent[x].is_controlling
        BY <1>1, <1>2, Zenon
  <2> HIDE DEF g, h
  <2>4. /\ OK(x, b) /\ b.write_outs = {} /\ b.is_controlling = agent[x].is_controlling
        /\ b.connection_state \notin {"New", "Closed"} /\ b.pending_local_credentials = None
        BY <2>3, AppliedOK, ZenonT(30)
  <2>5. /\ Becomes(x, b, others)
        /\ channel' = {[to |-> Peer(x), type |-> "offer", credentials |-> b.local_credentials]}
        BY <2>2, Zenon DEF h
  <2>6. others = net \/ others = Expired(x) BY Zenon
  <2> HIDE DEF b, others
  <2>7. /\ AgentsOK' /\ RolesOK' /\ \A m \in net' : Message(m)'
        /\ \A y \in Agents : agent'[y].is_controlling = agent[y].is_controlling
        /\ \A y \in Agents : agent'[y].connection_state = "New" => agent[y].connection_state = "New"
        /\ \A y \in Agents : y # x => agent'[y] = agent[y]
        /\ agent'[x].local_credentials = b.local_credentials
        /\ agent'[x].pending_local_credentials = b.pending_local_credentials
        BY <1>1, <2>1, <2>4, <2>5, <2>6, QuietStep
  <2>8. (~ plan.discards => CredentialsOK)'
    <3>1. Peer(x) \in Agents /\ Peer(x) # x BY Two, Zenon
    <3>2. Offering(x)' BY <2>1, <2>5, <2>7, <3>1, SMTT(30) DEF Quiet, Offering, IInv
    <3>3. ~ plan.discards => \A y \in Agents : agent'[y].pending_local_credentials = None
          BY <2>4, <2>7 DEF IInv, CredentialsOK
    <3> QED BY <2>1, <3>2, <3>3, Zenon DEF CredentialsOK
  <2>9. DOMAIN signaling' = Agents BY <2>1, Zenon DEF IInv
  <2> QED BY <1>1, <2>7, <2>8, <2>9, Zenon DEF IInv
<1> QED BY <1>3, <1>4, Zenon

\* A description of the peer is taken, or an answer is made.
LEMMA DescriptionStep ==
    ASSUME Parameters, IInv, NEW x \in Agents, SetRemoteDescription(x) \/ Answer(x)
    PROVE  IInv' /\ \A y \in Agents : agent'[y].is_controlling = agent[y].is_controlling
<1> DEFINE a == agent[x]
<1>1. /\ Peer(x) \in Agents /\ Peer(x) # x /\ Peer(Peer(x)) = x /\ \A y \in Agents : y = x \/ y = Peer(x)
      /\ DOMAIN signaling = Agents
      BY Two, Zenon DEF IInv
<1>2. /\ OK(x, a) /\ a.write_outs = {} /\ a.connection_state \notin {"New", "Closed"} /\ Running(x)
      /\ \A y \in Agents : agent[y].connection_state # "New"
  <2>1. ~ Quiet BY Zenon DEF SetRemoteDescription, Answer, Quiet
  <2>2. a.connection_state # "Closed" BY Zenon DEF SetRemoteDescription, Answer
  <2> QED BY <2>1, <2>2, Zenon DEF IInv, AgentsOK, OK, Writes, Running
<1>3. CASE SetRemoteDescription(x)
  <2>1. PICK d \in channel :
           /\ d.to = x
           /\ LET c == AddDescribed(x, Remote(a, d))
              IN  Becomes(x, c, IF Restarts(a, c) THEN Expired(x) ELSE net)
           /\ signaling' = [signaling EXCEPT ![x] = IF d.type = "offer" THEN "have-remote-offer" ELSE "stable"]
        BY <1>3, Zenon DEF SetRemoteDescription
  <2>2. channel' = {} /\ plan' = plan BY <1>3, Zenon DEF SetRemoteDescription
  <2> DEFINE r == Remote(a, d)
  <2> DEFINE b == AddDescribed(x, r)
  <2> DEFINE others == IF Restarts(a, b) THEN Expired(x) ELSE net
  <2>3. /\ OK(x, r) /\ r.write_outs = {} /\ r.is_controlling = a.is_controlling
        /\ r.connection_state \notin {"New", "Closed"}
        /\ r.remote_credentials = d.credentials
        /\ d.type # "offer" => r.local_credentials = a.local_credentials
        /\ a.pending_local_credentials = None => r.pending_local_credentials = None
    <3>1. Described(x, a, r, d) BY <1>2, RemoteOK, Zenon
    <3> QED BY <3>1, Zenon DEF Described
  <2>4. Becomes(x, b, others) BY <2>1, Zenon
  <2> HIDE DEF r
  <2>5. OK(x, b) /\ Keeps(r, b) /\ b.write_outs = {} BY <2>3, AddDescribedLeaves, AddDescribedWrites, Zenon DEF Leaves
  <2>6. others = net \/ others = Expired(x) BY Zenon
  <2> HIDE DEF b, others
  <2>7. /\ b.is_controlling = a.is_controlling /\ b.connection_state \notin {"New", "Closed"}
        /\ b.remote_credentials = d.credentials
        /\ d.type # "offer" => b.local_credentials = a.local_credentials
        /\ a.pending_local_credentials = None => b.pending_local_credentials = None
        BY <2>3, <2>5, Zenon DEF Keeps
  <2>8. /\ AgentsOK' /\ RolesOK' /\ \A m \in net' : Message(m)'
        /\ \A y \in Agents : agent'[y].is_controlling = agent[y].is_controlling
        /\ \A y \in Agents : agent'[y].connection_state = "New" => agent[y].connection_state = "New"
        /\ \A y \in Agents : y # x => agent'[y] = agent[y]
        /\ agent'[x].local_credentials = b.local_credentials /\ agent'[x].remote_credentials = b.remote_credentials
        /\ agent'[x].pending_local_credentials = b.pending_local_credentials
        BY <1>2, <2>2, <2>4, <2>5, <2>6, <2>7, QuietStep, SMTT(30)
  <2>9. ASSUME ~ plan.discards PROVE CredentialsOK'
    <3>1. CredentialsOK BY <2>9, Zenon DEF IInv
    <3>2. \A y \in Agents : agent'[y].pending_local_credentials = None BY <2>7, <2>8, <3>1, Zenon DEF CredentialsOK
    <3>3. CASE \E y \in Agents : agent[y].connection_state = "Closed" BY <1>2, <2>8, <3>2, <3>3, Zenon DEF CredentialsOK
    <3>4. CASE Quiet BY <2>1, <3>4, Zenon DEF Quiet
    <3>5. ASSUME NEW y \in Agents, Offering(y) PROVE CredentialsOK'
      <4>1. /\ d = [to |-> Peer(y), type |-> "offer", credentials |-> agent[y].local_credentials]
            /\ signaling[y] = "have-local-offer"
            BY <2>1, <3>5, Zenon DEF Offering
      <4>2. d.type = "offer" /\ d.credentials = agent[y].local_credentials /\ Peer(y) = x BY <2>1, <4>1, Zenon
      <4>3. y # x BY <1>1, <4>2, Zenon
      <4>4. signaling'[y] = "have-local-offer" /\ signaling'[x] = "have-remote-offer"
            BY <1>1, <2>1, <4>1, <4>2, <4>3, Zenon
      <4>5. agent'[x].remote_credentials = agent'[y].local_credentials BY <2>7, <2>8, <4>2, <4>3, Zenon
      <4>6. Answering(y)' BY <2>2, <4>2, <4>4, <4>5, Zenon DEF Answering
      <4> QED BY <3>2, <4>6, Zenon DEF CredentialsOK
    <3>6. ASSUME NEW y \in Agents, Answering(y) PROVE CredentialsOK' BY <2>1, <3>6, Zenon DEF Answering
    <3>7. ASSUME NEW y \in Agents, Answered(y) PROVE CredentialsOK'
      <4>1. /\ d = [to |-> y, type |-> "answer", credentials |-> agent[Peer(y)].local_credentials]
            /\ signaling[Peer(y)] = "stable" /\ agent[Peer(y)].remote_credentials = agent[y].local_credentials
            BY <2>1, <3>7, Zenon DEF Answered
      <4>2. d.type # "offer" /\ d.credentials = agent[Peer(x)].local_credentials /\ y = x BY <2>1, <4>1, Zenon
      <4>3. signaling'[x] = "stable" /\ signaling'[Peer(x)] = "stable" BY <1>1, <2>1, <4>1, <4>2, Zenon
      <4>4. Quiet' BY <1>1, <2>2, <4>3, Zenon DEF Quiet
      <4>5. agent'[x].remote_credentials = agent'[Peer(x)].local_credentials BY <1>1, <2>7, <2>8, <4>2, Zenon
      <4>6. agent'[Peer(x)].remote_credentials = agent'[x].local_credentials BY <1>1, <2>7, <2>8, <4>1, <4>2, Zenon
      <4>7. \A z \in Agents : agent'[z].remote_credentials = agent'[Peer(z)].local_credentials BY <1>1, <4>5, <4>6, Zenon
      <4> QED BY <3>2, <4>4, <4>7, Zenon DEF CredentialsOK
    <3> QED BY <3>1, <3>3, <3>4, <3>5, <3>6, <3>7 DEF CredentialsOK
  <2>10. DOMAIN signaling' = Agents BY <1>1, <2>1, Zenon
  <2> QED BY <1>2, <2>2, <2>8, <2>9, <2>10 DEF IInv
<1>4. CASE Answer(x)
  <2> DEFINE b == Applied(a)
  <2> DEFINE others == IF Restarts(a, b) THEN Expired(x) ELSE net
  <2>1. /\ Becomes(x, b, others) /\ plan' = plan
        /\ channel' = {[to |-> Peer(x), type |-> "answer", credentials |-> b.local_credentials]}
        /\ signaling[x] = "have-remote-offer" /\ signaling' = [signaling EXCEPT ![x] = "stable"]
        BY <1>4, Zenon DEF Answer
  <2>2. /\ OK(x, b) /\ b.write_outs = {} /\ b.is_controlling = a.is_controlling
        /\ b.connection_state \notin {"New", "Closed"} /\ b.pending_local_credentials = None
        BY <1>2, AppliedOK, Zenon
  <2>3. others = net \/ others = Expired(x) BY Zenon
  <2>4. a.pending_local_credentials = None => b = a BY Zenon DEF Applied
  <2> HIDE DEF b, others
  <2>5. /\ AgentsOK' /\ RolesOK' /\ \A m \in net' : Message(m)'
        /\ \A y \in Agents : agent'[y].is_controlling = agent[y].is_controlling
        /\ \A y \in Agents : agent'[y].connection_state = "New" => agent[y].connection_state = "New"
        /\ \A y \in Agents : y # x => agent'[y] = agent[y]
        /\ agent'[x].local_credentials = b.local_credentials /\ agent'[x].remote_credentials = b.remote_credentials
        /\ agent'[x].pending_local_credentials = b.pending_local_credentials
        BY <1>2, <2>1, <2>2, <2>3, QuietStep, ZenonT(30)
  <2>6. ASSUME ~ plan.discards PROVE CredentialsOK'
    <3>1. CredentialsOK BY <2>6, Zenon DEF IInv
    <3>2. \A y \in Agents : agent'[y].pending_local_credentials = None BY <2>2, <2>5, <3>1, Zenon DEF CredentialsOK
    <3>3. CASE \E y \in Agents : agent[y].connection_state = "Closed" BY <1>2, <2>5, <3>2, <3>3, Zenon DEF CredentialsOK
    <3>4. CASE Quiet BY <2>1, <3>4, Zenon DEF Quiet
    <3>5. ASSUME NEW y \in Agents, Offering(y) PROVE CredentialsOK' BY <1>1, <2>1, <3>5, Zenon DEF Offering
    <3>6. ASSUME NEW y \in Agents, Answering(y) PROVE CredentialsOK'
      <4>1. y = Peer(x) /\ signaling[y] = "have-local-offer" BY <1>1, <2>1, <3>6, Zenon DEF Answering
      <4>2. agent[x].remote_credentials = agent[y].local_credentials BY <1>1, <3>6, <4>1, Zenon DEF Answering
      <4>3. b = a BY <2>4, <3>1, Zenon DEF CredentialsOK
      <4>4. signaling'[y] = "have-local-offer" /\ signaling'[x] = "stable" BY <1>1, <2>1, <4>1, Zenon
      <4>5. agent'[x].remote_credentials = agent'[y].local_credentials BY <1>1, <2>5, <4>1, <4>2, <4>3
      <4>6. channel' = {[to |-> y, type |-> "answer", credentials |-> agent'[x].local_credentials]}
            BY <2>1, <2>5, <4>1, Zenon
      <4>7. Answered(y)' BY <1>1, <4>1, <4>4, <4>5, <4>6, Zenon DEF Answered
      <4> QED BY <3>2, <4>7, Zenon DEF CredentialsOK
    <3>7. ASSUME NEW y \in Agents, Answered(y) PROVE CredentialsOK' BY <1>1, <2>1, <3>7, Zenon DEF Answered
    <3> QED BY <3>1, <3>3, <3>4, <3>5, <3>6, <3>7 DEF CredentialsOK
  <2>7. DOMAIN signaling' = Agents BY <1>1, <2>1, Zenon
  <2> QED BY <1>2, <2>1, <2>5, <2>6, <2>7 DEF IInv
<1> QED BY <1>3, <1>4, Zenon

\* The invariant holds at first.
LEMMA InitIInv == ASSUME Parameters, Init PROVE IInv
<1>1. AgentsOK
  <2>1. agent = [x \in Agents |-> NewAgent(x)] BY Zenon DEF Init
  <2> SUFFICES ASSUME NEW x \in Agents PROVE Tables(x, NewAgent(x)) /\ Stated(NewAgent(x)) /\ NewAgent(x).write_outs = {}
      BY <2>1, Zenon DEF AgentsOK
  <2> DEFINE S == plan.gathered \cap Addrs[x]
  <2> DEFINE a == NewAgent(x)
  <2>2. InSomeOrder(S) \in Seq(Addrs[x])
    <3>1. S \subseteq Addrs[x] BY Zenon
    <3> HIDE DEF S
    <3>2. InSomeOrder(S) \in Seq(S) BY <3>1, Zenon DEF Parameters
    <3> QED BY <3>1, <3>2
  <2>3. /\ DOMAIN a = AgentFields /\ a.connection_state = "New" /\ a.is_controlling = FALSE
        /\ a.remote_credentials = None /\ a.local_candidates = InSomeOrder(S) /\ a.remote_candidates = <<>>
        /\ a.candidate_pairs = <<>> /\ a.nominated_pair = None /\ a.selected_pair = None /\ a.write_outs = {}
        BY Zenon DEF NewAgent, AgentFields
  <2> HIDE DEF a, S
  <2>4. Len(<<>>) = 0 /\ 0 \in 0 .. 0 /\ DOMAIN <<>> = {} OBVIOUS
  <2>5. Tables(x, a)
    <3>1. a.is_controlling \in BOOLEAN BY <2>3, Zenon
    <3>2. Named(a, a.candidate_pairs) BY <2>3, <2>4, Zenon DEF Named
    <3>3. a.candidate_pairs \in Seq(Pairs) /\ a.remote_candidates \in Seq(Candidates) BY <2>3
    <3> QED BY <2>2, <2>3, <2>4, <3>1, <3>2, <3>3 DEF Tables, None
  <2>6. Stated(a) BY <2>3, <2>4, Zenon DEF Stated, ConnectionStates, None
  <2> QED BY <2>3, <2>5, <2>6, Zenon DEF a
<1>2. \A x \in Agents : /\ agent[x].connection_state = "New" /\ agent[x].is_controlling = FALSE
                        /\ agent[x].pending_local_credentials = None
      BY Zenon DEF Init, NewAgent
<1>3. Quiet /\ DOMAIN signaling = Agents /\ net = {} BY Zenon DEF Init, Quiet
<1>4. RolesOK
  <2>1. Winner \in Agents /\ Loser \in Agents BY Ranked, Zenon
  <2> QED BY <1>2, <1>3, <2>1, Zenon DEF RolesOK, Running
<1>5. CredentialsOK BY <1>2, <1>3, Zenon DEF CredentialsOK
<1> QED BY <1>1, <1>3, <1>4, <1>5, Zenon DEF IInv

\* Every step keeps the invariant; roles change when a request is received, or an agent starts.
LEMMA NextIInv == ASSUME Parameters, IInv, [Next]_vars PROVE IInv'
<1>1. CASE UNCHANGED vars
  <2>1. plan' = plan /\ agent' = agent /\ signaling' = signaling /\ channel' = channel /\ net' = net
        BY <1>1, Zenon DEF vars
  <2>2. AgentsOK' BY <2>1, ZenonT(30) DEF IInv, AgentsOK, Tables, Stated, Named, Pairs, Candidates, AllAddrs
  <2>3. \A m \in net' : Message(m)' BY <2>1, Zenon DEF IInv, Message, AllAddrs
  <2>4. RolesOK' BY <2>1, Zenon DEF IInv, RolesOK, Running
  <2>5. SameCredentials BY <2>1, Zenon DEF SameCredentials
  <2>6. (~ Quiet => \A x \in Agents : agent[x].connection_state # "New")' /\ (~ plan.discards => CredentialsOK)'
        BY <2>1, <2>5, CredentialsStay, Zenon
  <2>7. DOMAIN signaling' = Agents BY <2>1, Zenon DEF IInv
  <2> QED BY <2>2, <2>3, <2>4, <2>6, <2>7, Zenon DEF IInv
<1>2. ASSUME NEW x \in Agents, AddLocalCandidate(x) \/ AddRemoteCandidate(x) \/ HandleTimeout(x) PROVE IInv'
      BY <1>2, CandidateSteps, Zenon
<1>3. ASSUME NEW x \in Agents, Start(x) PROVE IInv' BY <1>3, StartStep, Zenon
<1>4. ASSUME NEW x \in Agents, Tick(x) PROVE IInv' BY <1>4, TickStep, Zenon
<1>5. ASSUME NEW x \in Agents, Close(x) PROVE IInv' BY <1>5, CloseStep, Zenon
<1>6. ASSUME NEW x \in Agents, Offer(x) \/ DiscardOffer(x) PROVE IInv' BY <1>6, OfferStep, Zenon
<1>7. ASSUME NEW x \in Agents, SetRemoteDescription(x) \/ Answer(x) PROVE IInv' BY <1>7, DescriptionStep, Zenon
<1>8. ASSUME NEW m \in net, Receive(m) PROVE IInv' BY <1>8, ReceiveStep, Zenon
<1>9. ASSUME NEW m \in net, Lose(m) PROVE IInv' BY <1>9, TickStep, Zenon
<1> QED BY <1>1, <1>2, <1>3, <1>4, <1>5, <1>6, <1>7, <1>8, <1>9, SMTT(30) DEF Next

\* Roles of two agents that have started and differ stay as they are.
LEMMA NextRoles == ASSUME Parameters, IInv, [Next]_vars PROVE RolesSettle
<1> SUFFICES ASSUME Started, \A x, y \in Agents : x # y => agent[x].is_controlling # agent[y].is_controlling
             PROVE  \A y \in Agents : agent'[y].is_controlling = agent[y].is_controlling
    BY Zenon DEF RolesSettle
<1>1. CASE UNCHANGED vars BY <1>1, Zenon DEF vars
<1>2. ASSUME NEW x \in Agents, AddLocalCandidate(x) \/ AddRemoteCandidate(x) \/ HandleTimeout(x)
      PROVE  \A y \in Agents : agent'[y].is_controlling = agent[y].is_controlling
      BY <1>2, CandidateSteps, Zenon
<1>3. ASSUME NEW x \in Agents, Start(x) PROVE FALSE BY <1>3, Zenon DEF Start, Started
<1>4. ASSUME NEW x \in Agents, Tick(x) PROVE \A y \in Agents : agent'[y].is_controlling = agent[y].is_controlling
      BY <1>4, TickStep, Zenon
<1>5. ASSUME NEW x \in Agents, Close(x) PROVE \A y \in Agents : agent'[y].is_controlling = agent[y].is_controlling
      BY <1>5, CloseStep, Zenon
<1>6. ASSUME NEW x \in Agents, Offer(x) \/ DiscardOffer(x)
      PROVE  \A y \in Agents : agent'[y].is_controlling = agent[y].is_controlling
      BY <1>6, OfferStep, Zenon
<1>7. ASSUME NEW x \in Agents, SetRemoteDescription(x) \/ Answer(x)
      PROVE  \A y \in Agents : agent'[y].is_controlling = agent[y].is_controlling
      BY <1>7, DescriptionStep, Zenon
<1>8. ASSUME NEW m \in net, Receive(m) PROVE \A y \in Agents : agent'[y].is_controlling = agent[y].is_controlling
  <2> DEFINE x == Owner(m.to)
  <2>1. x \in Agents BY Two, Zenon DEF IInv, Message
  <2>2. Winner \in Agents /\ Loser \in Agents /\ Winner # Loser /\ Agents = {Winner, Loser} BY Ranked, Zenon
  <2>3. \A y \in Agents : agent[y].is_controlling \in BOOLEAN /\ Running(y)
        BY Zenon DEF IInv, AgentsOK, Tables, Started, Running
  <2>4. ~ SwitchesRole(x, agent[x], m)
    <3> SUFFICES ASSUME SwitchesRole(x, agent[x], m) PROVE FALSE BY Zenon
    <3> HIDE DEF x
    <3>1. /\ x = Winner <=> ~ agent[x].is_controlling
          /\ agent[x].connection_state # "Closed" => ~ (Winner \notin plan.controlling /\ Loser \in plan.controlling)
          BY <2>1, SwitchAllowed, Zenon
    <3>2. ~ agent[Winner].is_controlling /\ agent[Loser].is_controlling BY <2>1, <2>2, <2>3, <3>1, Zenon
    <3>3. Winner \notin plan.controlling /\ Loser \in plan.controlling BY <2>2, <2>3, <3>2, Zenon DEF IInv, RolesOK
    <3> QED BY <2>1, <3>1, <3>3, Zenon DEF Started
  <2> QED BY <1>8, <2>4, ReceiveStep, Zenon
<1>9. ASSUME NEW m \in net, Lose(m) PROVE \A y \in Agents : agent'[y].is_controlling = agent[y].is_controlling
      BY <1>9, TickStep, Zenon
<1> QED BY <1>1, <1>2, <1>3, <1>4, <1>5, <1>6, <1>7, <1>8, <1>9 DEF Next

\* The invariant, for all steps.
LEMMA Invariance == ASSUME Parameters PROVE Spec => []IInv
<1>1. Init => IInv BY InitIInv, Zenon
<1>2. IInv /\ [Next]_vars => IInv' BY NextIInv, Zenon
<1> QED BY <1>1, <1>2, PTL DEF Spec

\* Every index that an agent keeps is one of something that it still has (agent/mod.rs): no restart,
\* failure, or change of role leaves the selected or the nominated pair behind, and no pair names a
\* candidate that is gone.
THEOREM IndicesValid == ASSUME Parameters PROVE Spec => []TypeOK
<1>1. IInv => TypeOK
  <2> SUFFICES ASSUME IInv PROVE TypeOK BY Zenon
  <2> SUFFICES ASSUME NEW x \in Agents
               PROVE  /\ agent[x].connection_state \in ConnectionStates
                      /\ agent[x].selected_pair \in 0 .. Len(agent[x].candidate_pairs)
                      /\ agent[x].nominated_pair \in 0 .. Len(agent[x].candidate_pairs)
                      /\ \A i \in DOMAIN agent[x].candidate_pairs :
                            /\ agent[x].candidate_pairs[i].local \in DOMAIN agent[x].local_candidates
                            /\ agent[x].candidate_pairs[i].remote \in DOMAIN agent[x].remote_candidates
                            /\ agent[x].candidate_pairs[i].binding_request_count \in 0 .. MaxBinding + 1
      BY Zenon DEF TypeOK
  <2>1. Tables(x, agent[x]) /\ Stated(agent[x]) BY Zenon DEF IInv, AgentsOK
  <2>2. \A i \in DOMAIN agent[x].candidate_pairs : agent[x].candidate_pairs[i] \in Pairs BY <2>1 DEF Tables
  <2> QED BY <2>1, <2>2, Zenon DEF Tables, Stated, Named, Pairs
<1> QED BY <1>1, Invariance, PTL

\* An agent reports that it is connected (agent/mod.rs, update_connection_state) exactly while it has
\* a selected pair, and the peer has answered on that pair.
THEOREM ConnectedMeansSelected == ASSUME Parameters PROVE Spec => []ConnectedSelected
<1>1. IInv => ConnectedSelected BY Zenon DEF IInv, AgentsOK, Stated, ConnectedSelected
<1> QED BY <1>1, Invariance, PTL

\* A negotiation that is over leaves each agent with the credentials of the other (peer_connection,
\* set_remote_description, and agent/mod.rs, restart), whoever restarted and how often.
THEOREM CredentialsMatch == ASSUME Parameters PROVE Spec => []CredentialsAgree
<1>1. IInv => CredentialsAgree
  <2> SUFFICES ASSUME IInv, Quiet, Started, ~ plan.discards, NEW x \in Agents
               PROVE  agent[x].remote_credentials = agent[Peer(x)].local_credentials
      BY Zenon DEF CredentialsAgree
  <2>1. CredentialsOK BY Zenon DEF IInv
  <2>2. \A y \in Agents : agent[y].connection_state \notin {"New", "Closed"} BY Zenon DEF Started
  <2>3. ~ \E y \in Agents : Offering(y) \/ Answering(y) \/ Answered(y) BY Zenon DEF Quiet, Offering, Answering, Answered
  <2> QED BY <2>1, <2>2, <2>3, Zenon DEF CredentialsOK
<1> QED BY <1>1, Invariance, PTL

\* A role conflict is repaired once (agent/mod.rs, handle_inbound): when the roles differ, no request
\* that is still on its way, however old, makes them equal again.
THEOREM RolesStaySettled == ASSUME Parameters PROVE Spec => [][RolesSettle]_vars
<1>1. IInv /\ [Next]_vars => RolesSettle BY NextRoles, Zenon
<1> QED BY <1>1, Invariance, PTL DEF Spec

=============================================================================
