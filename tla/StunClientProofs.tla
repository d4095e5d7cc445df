-------------------------- MODULE StunClientProofs --------------------------
(***************************************************************************)
(* Proofs about the STUN client (StunClient): for every finite set of       *)
(* transaction ids, every RTO, limit of attempts and horizon, no request is *)
(* lost between the agent, its event queue and the client, and none ends    *)
(* twice.                                                                   *)
(***************************************************************************)
EXTENDS StunClient, FiniteSetTheorems, SequenceTheorems, TLAPS

\* Evict queues its events in some order: the enumeration of a finite set has all of it.
LEMMA Enumerated ==
    ASSUME NEW S, IsFiniteSet(S)
    PROVE  /\ SetToSeq(S) \in Seq(S)
           /\ \A x \in S : \E i \in 1 .. Len(SetToSeq(S)) : SetToSeq(S)[i] = x
<1> DEFINE n == Cardinality(S)
<1> DEFINE q == SetToSeq(S)
<1>1. n \in Nat /\ ExistsBijection(1 .. n, S) BY FS_CardinalityType, Zenon
<1>2. PICK f \in [1 .. n -> S] : IsInjective(f)
      BY <1>1, Zenon DEF ExistsBijection, Bijection, Injection, IsInjective
<1>3. q \in [1 .. n -> S] /\ IsInjective(q) BY <1>2, Zenon DEF SetToSeq
<1>4. q \in Seq(S) /\ Len(q) = n BY <1>1, <1>3, SeqDef
<1>5. q \in Injection(1 .. n, S) BY <1>3, Zenon DEF Injection, IsInjective
<1>6. IsFiniteSet(1 .. n) /\ Cardinality(1 .. n) = n BY <1>1, FS_Interval
<1>7. q \in Surjection(1 .. n, S) BY <1>5, <1>6, FS_Injection, Zenon
<1> QED BY <1>4, <1>7, Zenon DEF Surjection

\* What Without leaves of a partial function.
LEMMA WithoutPartial ==
    ASSUME NEW S, NEW T, NEW f \in Partial(S, T), NEW R
    PROVE  Without(f, R) \in Partial(S, T)
<1>1. DOMAIN f \in SUBSET S /\ \A z \in DOMAIN f : f[z] \in T BY Zenon DEF Partial
<1>2. Without(f, R) \in [DOMAIN f \ R -> T] BY <1>1, Zenon DEF Without
<1>3. DOMAIN f \ R \in SUBSET S BY <1>1, Zenon
<1> QED BY <1>2, <1>3, Zenon DEF Partial

\* What start and handle_write add to a partial function.
LEMMA AddedPartial ==
    ASSUME NEW S, NEW T, NEW f \in Partial(S, T), NEW x \in S, NEW y \in T
    PROVE  Added(f, x, y) \in Partial(S, T)
<1>1. DOMAIN f \in SUBSET S /\ \A z \in DOMAIN f : f[z] \in T BY Zenon DEF Partial
<1>2. Added(f, x, y) \in [DOMAIN f \cup {x} -> T] BY <1>1, Zenon DEF Added
<1>3. DOMAIN f \cup {x} \in SUBSET S BY <1>1, Zenon
<1> QED BY <1>2, <1>3, Zenon DEF Partial

\* An answer moves its id from the deadlines to the queue.
LEMMA ProcessFields ==
    ASSUME NEW a \in Agents, NEW id \in Ids
    PROVE  /\ process(a, id) \in Agents
           /\ process(a, id).closed = a.closed
           /\ DOMAIN process(a, id).deadlines = DOMAIN a.deadlines \ {id}
           /\ Queued(a) \cup {id} \subseteq Queued(process(a, id))
<1> DEFINE e == Event(id, "message")
<1> DEFINE b == process(a, id)
<1>1. e \in Events /\ e.id = id BY Zenon DEF Event, Events
<1>2. a.deadlines \in Partial(Ids, Int) /\ a.events \in Seq(Events) BY Zenon DEF Agents
<1>3. Without(a.deadlines, {id}) \in Partial(Ids, Int) BY <1>2, WithoutPartial, Zenon
<1>4. b = [deadlines |-> Without(a.deadlines, {id}), closed |-> a.closed, events |-> Append(a.events, e)]
      BY Zenon DEF process
<1> HIDE DEF e, b
<1>5. Append(a.events, e) \in Seq(Events)
      /\ Len(Append(a.events, e)) = Len(a.events) + 1
      /\ (\A i \in 1 .. Len(a.events) : Append(a.events, e)[i] = a.events[i])
      /\ Append(a.events, e)[Len(a.events) + 1] = e
      BY <1>1, <1>2, AppendProperties
<1>6. b \in Agents BY <1>3, <1>4, <1>5, Zenon DEF Agents
<1>7. Queued(a) \cup {id} \subseteq Queued(b) BY <1>1, <1>2, <1>4, <1>5, SMTT(30) DEF Queued
<1>8. DOMAIN b.deadlines = DOMAIN a.deadlines \ {id} /\ b.closed = a.closed BY <1>4, Zenon DEF Without
<1> QED BY <1>6, <1>7, <1>8, Zenon DEF b

\* The transactions that are evicted move from the deadlines to the queue.
LEMMA EvictFields ==
    ASSUME IsFiniteSet(Ids), NEW a \in Agents, NEW S \in SUBSET DOMAIN a.deadlines,
           NEW evt \in {"timeout", "closed"}
    PROVE  /\ Evict(a, S, evt) \in Agents
           /\ Evict(a, S, evt).closed = a.closed
           /\ DOMAIN Evict(a, S, evt).deadlines = DOMAIN a.deadlines \ S
           /\ Queued(a) \cup S \subseteq Queued(Evict(a, S, evt))
<1> DEFINE E == {Event(id, evt) : id \in S}
<1> DEFINE q == SetToSeq(E)
<1> DEFINE b == Evict(a, S, evt)
<1>1. a.deadlines \in Partial(Ids, Int) /\ a.events \in Seq(Events) BY Zenon DEF Agents
<1>2. S \in SUBSET Ids BY <1>1, Zenon DEF Partial
<1>3. IsFiniteSet(E)
  <2>1. IsFiniteSet(S) BY <1>2, FS_Subset, Zenon
  <2> DEFINE f == [id \in S |-> Event(id, evt)]
  <2>2. f \in Surjection(S, E) BY Zenon DEF Surjection
  <2> QED BY <2>1, <2>2, FS_Surjection, Zenon
<1>4. E \subseteq Events BY <1>2 DEF Event, Events
<1>5. q \in Seq(E) /\ \A x \in E : \E i \in 1 .. Len(q) : q[i] = x BY <1>3, Enumerated, Zenon
<1>6. q \in Seq(Events) BY <1>4, <1>5, SeqMonotonic, Zenon
<1>7. b = [deadlines |-> Without(a.deadlines, S), closed |-> a.closed, events |-> a.events \o q] BY Zenon DEF Evict
<1>8. Without(a.deadlines, S) \in Partial(Ids, Int) BY <1>1, WithoutPartial, Zenon
<1>9. ASSUME NEW id \in S PROVE \E i \in 1 .. Len(q) : q[i].id = id
  <2>1. Event(id, evt) \in E BY Zenon
  <2>2. PICK i \in 1 .. Len(q) : q[i] = Event(id, evt) BY <1>5, <2>1, Zenon
  <2>3. Event(id, evt).id = id BY Zenon DEF Event
  <2> HIDE DEF q
  <2> QED BY <2>2, <2>3, Zenon
<1> HIDE DEF q, b
<1>10. /\ a.events \o q \in Seq(Events)
       /\ Len(a.events \o q) = Len(a.events) + Len(q)
       /\ \A i \in 1 .. Len(a.events) + Len(q) :
             (a.events \o q)[i] = IF i <= Len(a.events) THEN a.events[i] ELSE q[i - Len(a.events)]
       BY <1>1, <1>6, ConcatProperties, Zenon
<1>11. b \in Agents BY <1>7, <1>8, <1>10, Zenon DEF Agents
<1>12. Queued(a) \subseteq Queued(b)
  <2> SUFFICES ASSUME NEW i \in DOMAIN a.events PROVE a.events[i].id \in Queued(b) BY Zenon DEF Queued
  <2>1. i \in 1 .. Len(a.events) /\ i <= Len(a.events) /\ i \in 1 .. Len(a.events) + Len(q) BY <1>1, <1>6
  <2>2. (a.events \o q)[i] = a.events[i] /\ i \in DOMAIN (a.events \o q) BY <2>1, <1>10
  <2> QED BY <2>2, <1>7, Zenon DEF Queued
<1>13. S \subseteq Queued(b)
  <2> SUFFICES ASSUME NEW id \in S PROVE id \in Queued(b) BY Zenon
  <2>1. PICK i \in 1 .. Len(q) : q[i].id = id BY <1>9, Zenon
  <2>2. Len(a.events) \in Nat /\ Len(q) \in Nat BY <1>1, <1>6
  <2>3. Len(a.events) + i \in 1 .. Len(a.events) + Len(q) BY <2>2
  <2>4. (a.events \o q)[Len(a.events) + i] = q[i] BY <2>2, <2>3, <1>10
  <2>5. Len(a.events) + i \in DOMAIN (a.events \o q) BY <2>3, <1>10
  <2> QED BY <2>1, <2>4, <2>5, <1>7, Zenon DEF Queued
<1>14. DOMAIN b.deadlines = DOMAIN a.deadlines \ S /\ b.closed = a.closed BY <1>7, Zenon DEF Without
<1>15. Queued(a) \cup S \subseteq Queued(b) BY <1>12, <1>13, Zenon
<1> QED BY <1>11, <1>14, <1>15, Zenon DEF b

\* A new deadline is added for an id that has none.
LEMMA StartFields ==
    ASSUME NEW a \in Agents, NEW id \in Ids, NEW d \in Int
    PROVE  /\ start(a, id, d) \in Agents
           /\ start(a, id, d).closed = a.closed
           /\ DOMAIN start(a, id, d).deadlines = DOMAIN a.deadlines \cup {id}
           /\ Queued(start(a, id, d)) = Queued(a)
<1>1. a.deadlines \in Partial(Ids, Int) BY Zenon DEF Agents
<1>2. Added(a.deadlines, id, d) \in Partial(Ids, Int) BY <1>1, AddedPartial, Zenon
<1>3. DOMAIN Added(a.deadlines, id, d) = DOMAIN a.deadlines \cup {id} BY Zenon DEF Added
<1>4. start(a, id, d) \in Agents BY <1>2, Zenon DEF start, Agents
<1> QED BY <1>3, <1>4, Zenon DEF start, Agents, Queued

\* The client's clock is all that observe changes.
LEMMA ObserveFields ==
    ASSUME NEW c \in Clients, NEW t \in Int
    PROVE  /\ observe(c, t) \in Clients
           /\ observe(c, t).closed = c.closed
           /\ observe(c, t).attempts = c.attempts
BY Zenon DEF observe, Clients

\* A poll takes the event at the head of the queue, and no other.
LEMMA PolledFields ==
    ASSUME NEW a \in Agents, a.events # <<>>
    PROVE  /\ Head(a.events) \in Events
           /\ [a EXCEPT !.events = Tail(@)] \in Agents
           /\ [a EXCEPT !.events = Tail(@)].closed = a.closed
           /\ [a EXCEPT !.events = Tail(@)].deadlines = a.deadlines
           /\ Queued(a) \subseteq Queued([a EXCEPT !.events = Tail(@)]) \cup {Head(a.events).id}
<1> DEFINE s == a.events
<1> DEFINE b == [a EXCEPT !.events = Tail(@)]
<1>1. s \in Seq(Events) BY Zenon DEF Agents
<1>2. /\ Head(s) \in Events /\ Tail(s) \in Seq(Events) /\ Len(Tail(s)) = Len(s) - 1
      /\ \A i \in 1 .. Len(Tail(s)) : Tail(s)[i] = s[i + 1]
      BY <1>1, HeadTailProperties, Zenon
<1>3. b \in Agents /\ b.closed = a.closed /\ b.deadlines = a.deadlines /\ b.events = Tail(s)
      BY <1>2, Zenon DEF Agents
<1>4. Queued(a) \subseteq Queued(b) \cup {Head(s).id}
  <2> SUFFICES ASSUME NEW i \in DOMAIN s, i # 1 PROVE s[i].id \in Queued(b)
      BY <1>1 DEF Queued
  <2>1. i - 1 \in 1 .. Len(Tail(s)) /\ Tail(s)[i - 1] = s[i] BY <1>1, <1>2
  <2>2. i - 1 \in DOMAIN Tail(s) BY <2>1, <1>2
  <2> QED BY <2>1, <2>2, <1>3, Zenon DEF Queued
<1> QED BY <1>2, <1>3, <1>4, Zenon

\* The client starts with nothing under way.
LEMMA InitIInv == Init => IInv
<1> SUFFICES ASSUME Init PROVE IInv BY Zenon
<1>1. << >> \in Partial(Ids, Int) /\ << >> \in Partial(Ids, Nat)
  <2>1. << >> \in [{} -> Int] /\ << >> \in [{} -> Nat] /\ {} \in SUBSET Ids OBVIOUS
  <2> QED BY <2>1, Zenon DEF Partial
<1>2. agent \in Agents BY <1>1 DEF Init, Agents
<1>3. client \in Clients BY <1>1 DEF Init, Clients
<1>4. told \in [written : [Ids -> Nat], ended : [Ids -> Nat]] BY Zenon DEF Init
<1>5. TypeOK BY <1>2, <1>3, <1>4 DEF Init, TypeOK
<1> QED BY <1>5 DEF Init, IInv, Known, ClosedTogether, Counted

\* A request that is written is known to the agent, which refuses an id only when it
\* has a deadline for it or is closed, as the client then is.
LEMMA WriteStep ==
    ASSUME RTO \in Nat, IInv, NEW id \in Ids, handle_write(id)
    PROVE  IInv'
<1> DEFINE c == observe(client, clock)
<1>1. /\ c \in Clients /\ c.closed = client.closed /\ c.attempts = client.attempts
  <2>1. client \in Clients /\ clock \in Int BY DEF IInv, TypeOK
  <2> QED BY <2>1, ObserveFields, Zenon
<1>2. c.attempts \in Partial(Ids, Nat) BY <1>1, Zenon DEF Clients
<1>3. Added(c.attempts, id, 0) \in Partial(Ids, Nat) BY <1>2, AddedPartial, Zenon
<1>4. DOMAIN Added(c.attempts, id, 0) = DOMAIN client.attempts \cup {id} BY <1>1, Zenon DEF Added
<1>5. client' = [c EXCEPT !.attempts = Added(@, id, 0)] BY Zenon DEF handle_write
<1> HIDE DEF c
<1>6. /\ client' \in Clients /\ client'.closed = client.closed
      /\ DOMAIN client'.attempts = DOMAIN client.attempts \cup {id}
      BY <1>1, <1>3, <1>4, <1>5, Zenon DEF Clients
<1>7. next_timeout(0, clock) \in Int BY DEF next_timeout, IInv, TypeOK
<1>8. /\ agent' \in Agents /\ agent'.closed = agent.closed
      /\ DOMAIN client.attempts \cup {id} \subseteq DOMAIN agent'.deadlines \cup Queued(agent')
  <2>1. CASE CanStart(agent, id)
    <3>1. agent' = start(agent, id, next_timeout(0, clock)) BY <2>1, Zenon DEF handle_write
    <3>2. /\ agent' \in Agents /\ agent'.closed = agent.closed
          /\ DOMAIN agent'.deadlines = DOMAIN agent.deadlines \cup {id}
          /\ Queued(agent') = Queued(agent)
          BY <3>1, <1>7, StartFields, Zenon DEF IInv, TypeOK
    <3> QED BY <3>2, Zenon DEF IInv, Known
  <2>2. CASE ~ CanStart(agent, id)
    <3>1. agent' = agent /\ ~ client.closed BY <2>2, Zenon DEF handle_write
    <3>2. id \in DOMAIN agent.deadlines BY <2>2, <3>1, Zenon DEF CanStart, IInv, ClosedTogether
    <3> QED BY <3>1, <3>2, Zenon DEF IInv, Known, TypeOK
  <2> QED BY <2>1, <2>2, Zenon
<1>9. transmits' \in Seq(Ids)
  <2>1. transmits \in Seq(Ids) BY Zenon DEF IInv, TypeOK
  <2>2. transmits' = Append(transmits, id) \/ transmits' = transmits BY Zenon DEF handle_write
  <2> QED BY <2>1, <2>2
<1>10. /\ told' \in [written : [Ids -> Nat], ended : [Ids -> Nat]]
       /\ told'.ended = told.ended
       /\ told'.written[id] = told.written[id] + 1
       /\ \A j \in Ids \ {id} : told'.written[j] = told.written[j]
  <2>1. told.written \in [Ids -> Nat] /\ told.ended \in [Ids -> Nat] BY Zenon DEF IInv, TypeOK
  <2>2. told' = [written |-> [told.written EXCEPT ![id] = @ + 1], ended |-> told.ended]
        BY Zenon DEF handle_write, IInv, TypeOK
  <2> QED BY <2>1, <2>2
<1>11. clock' = clock /\ net' = net BY Zenon DEF handle_write
<1>12. TypeOK' BY <1>6, <1>8, <1>9, <1>10, <1>11, Zenon DEF IInv, TypeOK
<1>13. Known' BY <1>6, <1>8, Zenon DEF Known
<1>14. ClosedTogether' BY <1>6, <1>8, Zenon DEF ClosedTogether, IInv
<1>15. Counted' BY <1>6, <1>10 DEF Counted, IInv, TypeOK
<1> QED BY <1>12, <1>13, <1>14, <1>15, Zenon DEF IInv

\* Steps of the agent alone: the ids it knows by a deadline or an event do not get fewer,
\* and it closes only with the client.
LEMMA AgentStep ==
    ASSUME IInv, clock' \in Nat, agent' \in Agents, transmits' = transmits,
           net' \in [answers : SUBSET Ids, read : Nat], told' = told,
           client' \in Clients, client'.attempts = client.attempts,
           client'.closed = agent'.closed,
           DOMAIN agent.deadlines \cup Queued(agent) \subseteq DOMAIN agent'.deadlines \cup Queued(agent')
    PROVE  IInv'
<1>1. TypeOK' BY Zenon DEF IInv, TypeOK
<1>2. Known' BY Zenon DEF IInv, Known
<1>3. ClosedTogether' BY Zenon DEF ClosedTogether
<1>4. Counted' BY Zenon DEF IInv, Counted
<1> QED BY <1>1, <1>2, <1>3, <1>4, Zenon DEF IInv

\* The client's clock moves on with each call that names an instant.
LEMMA Observed ==
    ASSUME IInv
    PROVE  /\ observe(client, clock) \in Clients
           /\ observe(client, clock).closed = client.closed
           /\ observe(client, clock).attempts = client.attempts
<1>1. client \in Clients /\ clock \in Int BY DEF IInv, TypeOK
<1> QED BY <1>1, ObserveFields, Zenon

\* A request that leaves changes nothing of what is known.
LEMMA PollWriteStep ==
    ASSUME IInv, poll_write PROVE IInv'
<1>1. transmits \in Seq(Ids) /\ transmits # <<>> /\ net.answers \in SUBSET Ids /\ net.read \in Nat
      BY Zenon DEF IInv, TypeOK, poll_write
<1>2. Head(transmits) \in Ids /\ Tail(transmits) \in Seq(Ids) BY <1>1, HeadTailProperties, Zenon
<1>3. net' \in [answers : SUBSET Ids, read : Nat] BY <1>1, <1>2, Zenon DEF poll_write, IInv, TypeOK
<1>4. TypeOK' BY <1>2, <1>3, Zenon DEF poll_write, IInv, TypeOK
<1> QED BY <1>4, Zenon DEF poll_write, IInv, Known, ClosedTogether, Counted

\* An answer, also one that was answered or given up before.
LEMMA ReadStep ==
    ASSUME IInv, NEW id \in Ids, handle_read(id) PROVE IInv'
<1>1. net' \in [answers : SUBSET Ids, read : Nat]
  <2>1. net.answers \in SUBSET Ids /\ net.read \in Nat BY Zenon DEF IInv, TypeOK
  <2>2. net' = [answers |-> net.answers, read |-> net.read + 1] BY Zenon DEF handle_read, IInv, TypeOK
  <2> QED BY <2>1, <2>2
<1>2. client' \in Clients /\ client'.closed = client.closed /\ client'.attempts = client.attempts
      BY Observed, Zenon DEF handle_read
<1>3. /\ agent' \in Agents /\ agent'.closed = agent.closed
      /\ DOMAIN agent.deadlines \cup Queued(agent) \subseteq DOMAIN agent'.deadlines \cup Queued(agent')
  <2>1. CASE agent.closed BY <2>1, Zenon DEF handle_read, IInv, TypeOK
  <2>2. CASE ~ agent.closed
    <3>1. agent' = process(agent, id) /\ agent \in Agents BY <2>2, Zenon DEF handle_read, IInv, TypeOK
    <3>2. /\ agent' \in Agents /\ agent'.closed = agent.closed
          /\ DOMAIN agent'.deadlines = DOMAIN agent.deadlines \ {id}
          /\ Queued(agent) \cup {id} \subseteq Queued(agent')
          BY <3>1, ProcessFields, Zenon
    <3> QED BY <3>2, Zenon
  <2> QED BY <2>1, <2>2, Zenon
<1>4. client'.closed = agent'.closed BY <1>2, <1>3, Zenon DEF IInv, ClosedTogether
<1>5. clock' \in Nat /\ transmits' = transmits /\ told' = told BY Zenon DEF handle_read, IInv, TypeOK
<1> QED BY <1>1, <1>2, <1>3, <1>4, <1>5, AgentStep, Zenon

\* A timeout of the agent: what is past its deadline is queued.
LEMMA TimeoutStep ==
    ASSUME IsFiniteSet(Ids), IInv, handle_timeout PROVE IInv'
<1> DEFINE S == {id \in DOMAIN agent.deadlines : agent.deadlines[id] < clock}
<1>1. client' \in Clients /\ client'.closed = client.closed /\ client'.attempts = client.attempts
      BY Observed, Zenon DEF handle_timeout
<1>2. agent' = Evict(agent, S, "timeout") /\ agent \in Agents BY Zenon DEF handle_timeout, collect, IInv, TypeOK
<1>3. S \in SUBSET DOMAIN agent.deadlines BY Zenon
<1> HIDE DEF S
<1>4. /\ agent' \in Agents /\ agent'.closed = agent.closed
      /\ DOMAIN agent'.deadlines = DOMAIN agent.deadlines \ S
      /\ Queued(agent) \cup S \subseteq Queued(agent')
      BY <1>2, <1>3, EvictFields, Zenon
<1>5. DOMAIN agent.deadlines \cup Queued(agent) \subseteq DOMAIN agent'.deadlines \cup Queued(agent') BY <1>4, Zenon
<1>6. client'.closed = agent'.closed BY <1>1, <1>4, Zenon DEF IInv, ClosedTogether
<1>7. clock' \in Nat /\ transmits' = transmits /\ told' = told /\ net' \in [answers : SUBSET Ids, read : Nat]
      BY Zenon DEF handle_timeout, IInv, TypeOK
<1> QED BY <1>1, <1>4, <1>5, <1>6, <1>7, AgentStep, Zenon

\* The end of the client: every deadline becomes an event.
LEMMA CloseStep ==
    ASSUME IsFiniteSet(Ids), IInv, close PROVE IInv'
<1> DEFINE e == Evict(agent, DOMAIN agent.deadlines, "closed")
<1>1. agent \in Agents BY Zenon DEF IInv, TypeOK
<1>2. /\ e \in Agents /\ Queued(agent) \cup DOMAIN agent.deadlines \subseteq Queued(e)
  <2>1. DOMAIN agent.deadlines \in SUBSET DOMAIN agent.deadlines BY Zenon
  <2> QED BY <1>1, <2>1, EvictFields, Zenon
<1>3. agent' = [e EXCEPT !.closed = TRUE] BY Zenon DEF close, agent_close
<1> HIDE DEF e
<1>4. agent' \in Agents BY <1>2, <1>3, Zenon DEF Agents
<1>5. agent'.closed = TRUE /\ Queued(agent') = Queued(e) BY <1>2, <1>3, Zenon DEF Agents, Queued
<1>6. client' \in Clients BY Zenon DEF close, IInv, TypeOK, Clients
<1>7. client'.attempts = client.attempts /\ client'.closed = TRUE BY Zenon DEF close, IInv, TypeOK, Clients
<1>8. DOMAIN agent.deadlines \cup Queued(agent) \subseteq DOMAIN agent'.deadlines \cup Queued(agent') BY <1>2, <1>5, Zenon
<1>9. clock' \in Nat /\ transmits' = transmits /\ told' = told /\ net' \in [answers : SUBSET Ids, read : Nat]
      BY Zenon DEF close, IInv, TypeOK
<1> QED BY <1>4, <1>5, <1>6, <1>7, <1>8, <1>9, AgentStep, ZenonT(30)

\* The event of a transaction that is over is dropped; one that ends a transaction takes it
\* from the client and counts it; a timeout with attempts left gives the agent a deadline.
LEMMA PollEventStep ==
    ASSUME RTO \in Nat, IInv, poll_event PROVE IInv'
<1> DEFINE e == Head(agent.events)
<1> DEFINE rest == [agent EXCEPT !.events = Tail(@)]
<1>1. agent \in Agents /\ agent.events # <<>> /\ client \in Clients BY Zenon DEF IInv, TypeOK, poll_event
<1>2. /\ e \in Events /\ rest \in Agents /\ rest.closed = agent.closed /\ rest.deadlines = agent.deadlines
      /\ Queued(agent) \subseteq Queued(rest) \cup {e.id}
      BY <1>1, PolledFields, Zenon
<1>3. e.id \in Ids BY <1>2, Zenon DEF Events
<1>4. client.attempts \in Partial(Ids, Nat) BY <1>1, Zenon DEF Clients
<1>5. clock' = clock /\ net' = net /\ clock \in Nat /\ net \in [answers : SUBSET Ids, read : Nat]
      /\ transmits \in Seq(Ids) /\ told \in [written : [Ids -> Nat], ended : [Ids -> Nat]]
      BY Zenon DEF poll_event, IInv, TypeOK
<1>6. CASE e.id \notin DOMAIN client.attempts /\ agent' = rest /\ UNCHANGED <<client, transmits, told>>
  <2> HIDE DEF e, rest
  <2>1. TypeOK' BY <1>1, <1>2, <1>5, <1>6, Zenon DEF TypeOK
  <2>2. Known' BY <1>2, <1>6, Zenon DEF IInv, Known
  <2>3. ClosedTogether' BY <1>2, <1>6, Zenon DEF IInv, ClosedTogether
  <2>4. Counted' BY <1>6, Zenon DEF IInv, Counted
  <2> QED BY <2>1, <2>2, <2>3, <2>4, Zenon DEF IInv
<1>7. CASE e.id \in DOMAIN client.attempts /\ EndTransaction(e)
  <2>1. agent' = rest /\ transmits' = transmits BY <1>7, Zenon DEF EndTransaction
  <2>2. client' = [client EXCEPT !.attempts = Without(@, {e.id})] BY <1>7, Zenon DEF EndTransaction
  <2>3. told' = [told EXCEPT !.ended[e.id] = @ + 1] BY <1>7, Zenon DEF EndTransaction
  <2> HIDE DEF e, rest
  <2>4. Without(client.attempts, {e.id}) \in Partial(Ids, Nat) BY <1>4, WithoutPartial, Zenon
  <2>5. client' \in Clients /\ client'.closed = client.closed BY <1>1, <2>2, <2>4, Zenon DEF Clients
  <2>6. DOMAIN client'.attempts = DOMAIN client.attempts \ {e.id} BY <1>1, <2>2, Zenon DEF Clients, Without
  <2>7. /\ told' \in [written : [Ids -> Nat], ended : [Ids -> Nat]]
        /\ told'.written = told.written
        /\ told'.ended[e.id] = told.ended[e.id] + 1
        /\ \A j \in Ids \ {e.id} : told'.ended[j] = told.ended[j]
    <3>1. told.written \in [Ids -> Nat] /\ told.ended \in [Ids -> Nat] BY <1>5, Zenon
    <3>2. told' = [written |-> told.written, ended |-> [told.ended EXCEPT ![e.id] = @ + 1]] BY <1>5, <2>3, Zenon
    <3> QED BY <1>3, <3>1, <3>2
  <2>8. TypeOK' BY <1>2, <1>5, <2>1, <2>5, <2>7, Zenon DEF TypeOK
  <2>9. Known' BY <1>2, <2>1, <2>6, Zenon DEF IInv, Known
  <2>10. ClosedTogether' BY <1>2, <2>1, <2>5, Zenon DEF IInv, ClosedTogether
  <2>11. Counted' BY <1>3, <1>5, <1>7, <2>6, <2>7, SMTT(30) DEF IInv, Counted
  <2> QED BY <2>8, <2>9, <2>10, <2>11, Zenon DEF IInv
<1>8. CASE /\ e.id \in DOMAIN client.attempts /\ told' = told
           /\ client' = Retransmit(client, rest, transmits, e.id).client
           /\ agent' = Retransmit(client, rest, transmits, e.id).agent
           /\ transmits' = Retransmit(client, rest, transmits, e.id).transmits
  <2> DEFINE d == next_timeout(client.attempts[e.id] + 1, client.now)
  <2>1. client' = [client EXCEPT !.attempts[e.id] = @ + 1] /\ agent' = start(rest, e.id, d)
        /\ transmits' = Append(transmits, e.id)
        BY <1>8, Zenon DEF Retransmit
  <2> HIDE DEF e, rest
  <2>2. client.attempts[e.id] \in Nat /\ client.now \in Int BY <1>1, <1>4, <1>8 DEF Partial, Clients
  <2>3. d \in Int BY <2>2 DEF next_timeout
  <2> HIDE DEF d
  <2>4. /\ agent' \in Agents /\ agent'.closed = rest.closed
        /\ DOMAIN agent'.deadlines = DOMAIN rest.deadlines \cup {e.id} /\ Queued(agent') = Queued(rest)
        BY <1>2, <1>3, <2>1, <2>3, StartFields
  <2>5. /\ client' \in Clients /\ client'.closed = client.closed
        /\ DOMAIN client'.attempts = DOMAIN client.attempts
    <3> DEFINE f == [client.attempts EXCEPT ![e.id] = @ + 1]
    <3>1. client' = [now |-> client.now, attempts |-> f, closed |-> client.closed] BY <1>1, <2>1, Zenon DEF Clients
    <3>2. f \in Partial(Ids, Nat) /\ DOMAIN f = DOMAIN client.attempts BY <1>4, <1>8, <2>2 DEF Partial
    <3> HIDE DEF f
    <3> QED BY <1>1, <3>1, <3>2, Zenon DEF Clients
  <2>6. transmits' \in Seq(Ids) BY <1>3, <1>5, <2>1
  <2>7. TypeOK' BY <1>5, <1>8, <2>4, <2>5, <2>6 DEF TypeOK
  <2>8. Known' BY <1>2, <2>4, <2>5, Zenon DEF IInv, Known
  <2>9. ClosedTogether' BY <1>2, <2>4, <2>5, Zenon DEF IInv, ClosedTogether
  <2>10. Counted' BY <1>8, <2>5, Zenon DEF IInv, Counted
  <2> QED BY <2>7, <2>8, <2>9, <2>10, Zenon DEF IInv
<1> QED BY <1>6, <1>7, <1>8, Zenon DEF poll_event

\* No step loses a transaction or ends one twice.
LEMMA NextIInv ==
    ASSUME IsFiniteSet(Ids), RTO \in Nat PROVE IInv /\ [Next]_vars => IInv'
<1> SUFFICES ASSUME IInv, [Next]_vars PROVE IInv' BY Zenon
<1>1. CASE poll_write BY <1>1, PollWriteStep, Zenon
<1>2. CASE handle_timeout BY <1>2, TimeoutStep, Zenon
<1>3. CASE poll_event BY <1>3, PollEventStep, Zenon
<1>4. CASE close BY <1>4, CloseStep, Zenon
<1>5. CASE \E id \in Ids : handle_write(id) \/ handle_read(id) BY <1>5, WriteStep, ReadStep, Zenon
<1>6. CASE Tick
  <2>1. clock' \in Nat BY <1>6 DEF Tick, IInv, TypeOK
  <2>2. UNCHANGED <<agent, client, transmits, net, told>> BY <1>6, Zenon DEF Tick
  <2>3. TypeOK' BY <2>1, <2>2, Zenon DEF IInv, TypeOK
  <2>4. Known' /\ ClosedTogether' BY <2>2, Zenon DEF IInv, Known, ClosedTogether, Queued
  <2>5. Counted' BY <2>2, Zenon DEF IInv, Counted
  <2> QED BY <2>3, <2>4, <2>5, Zenon DEF IInv
<1>7. CASE UNCHANGED vars BY <1>7 DEF vars, IInv, TypeOK, Known, ClosedTogether, Counted, Queued
<1> QED BY <1>1, <1>2, <1>3, <1>4, <1>5, <1>6, <1>7 DEF Next

\* Whatever the order of writes, answers, repeated and late answers, timeouts, polls and the
\* end of the client: a request ends at most once, one that was written once is with the
\* client until it ended, and the agent has a deadline or an event for every request the
\* client waits for (Client::handle_write, handle_read, handle_timeout, poll_event, close).
THEOREM TransactionsNeverLost ==
    ASSUME IsFiniteSet(Ids), RTO \in Nat PROVE Spec => []TransactionsEnd
<1>1. IInv => TransactionsEnd
  <2> SUFFICES ASSUME IInv, NEW id \in Ids
               PROVE  /\ told.ended[id] <= told.written[id]
                      /\ told.written[id] = 1 => (told.ended[id] = 0 <=> id \in DOMAIN client.attempts)
                      /\ id \in DOMAIN client.attempts =>
                            \/ id \in DOMAIN agent.deadlines
                            \/ \E i \in DOMAIN agent.events : agent.events[i].id = id
      BY Zenon DEF TransactionsEnd
  <2>1. told.ended[id] \in Nat /\ told.written[id] \in Nat BY Zenon DEF IInv, TypeOK
  <2> QED BY <2>1 DEF IInv, Counted, Known, Queued
<1>2. IInv /\ [Next]_vars => IInv' BY NextIInv, Zenon
<1> QED BY <1>1, <1>2, InitIInv, PTL DEF Spec

=============================================================================
