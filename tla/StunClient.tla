----------------------------- MODULE StunClient -----------------------------
(***************************************************************************)
(* The STUN client: requests it retransmits until an answer or the last     *)
(* attempt, over an agent that knows the deadline of each.  The agent's     *)
(* events wait in a queue, and it is the application's poll_event that      *)
(* turns a timeout into a retransmission: between the two a late answer, a  *)
(* second timeout or the end of the client may come in.                     *)
(***************************************************************************)
EXTENDS Integers, Sequences, SequencesExt

CONSTANTS Ids,          \* transaction ids
          RTO, MAX_ATTEMPTS,
          Horizon,      \* the last instant
          Copies,       \* responses the network delivers
          Writes        \* times the application writes a request

VARIABLES clock,        \* the caller's clock
          agent,        \* the agent: deadlines, closed, events
          client,       \* the client: newest instant, transactions, closed
          transmits,    \* requests to send
          net,          \* responses under way, and delivered
          told          \* history: requests written and ended, by id

vars == <<clock, agent, client, transmits, net, told>>

Event(id, evt) == [id |-> id, evt |-> evt]

Without(f, S) == [x \in DOMAIN f \ S |-> f[x]]
\* y at x unless x has a value
Added(f, x, y) == [z \in DOMAIN f \cup {x} |-> IF z \in DOMAIN f THEN f[z] ELSE y]

(***************************************************************************)
(* The agent.                                                               *)
(***************************************************************************)
\* the earliest deadline, if there is one
poll_timeout(a) ==
    LET deadlines == {a.deadlines[id] : id \in DOMAIN a.deadlines}
    IN  {at \in deadlines : \A d \in deadlines : at <= d}

process(a, id) ==
    [deadlines |-> Without(a.deadlines, {id}), closed |-> a.closed, events |-> Append(a.events, Event(id, "message"))]

\* the transactions S leave the agent, each with an event
Evict(a, S, evt) ==
    [deadlines |-> Without(a.deadlines, S), closed |-> a.closed,
     events |-> a.events \o SetToSeq({Event(id, evt) : id \in S})]

agent_close(a) == [Evict(a, DOMAIN a.deadlines, "closed") EXCEPT !.closed = TRUE]

CanStart(a, id) == ~a.closed /\ id \notin DOMAIN a.deadlines

start(a, id, deadline) == [a EXCEPT !.deadlines = Added(@, id, deadline)]

collect(a, now) ==
    Evict(a, {id \in DOMAIN a.deadlines : a.deadlines[id] < now}, "timeout")

(***************************************************************************)
(* The client.                                                              *)
(***************************************************************************)
next_timeout(attempt, now) == now + (attempt + 1) * RTO

observe(c, now) == [c EXCEPT !.now = IF now > @ THEN now ELSE @]

\* a known id keeps its transaction, and is refused while the agent has it
handle_write(id) ==
    /\ ~client.closed /\ told.written[id] < Writes
    /\ client' = [observe(client, clock) EXCEPT !.attempts = Added(@, id, 0)]
    /\ IF CanStart(agent, id)
       THEN /\ agent' = start(agent, id, next_timeout(0, clock))
            /\ transmits' = Append(transmits, id)
       ELSE UNCHANGED <<agent, transmits>>
    /\ told' = [told EXCEPT !.written[id] = @ + 1]
    /\ UNCHANGED <<clock, net>>

\* the request leaves; the server's answers are up to the network
poll_write ==
    /\ transmits # <<>>
    /\ transmits' = Tail(transmits)
    /\ net' = [net EXCEPT !.answers = @ \cup {Head(transmits)}]
    /\ UNCHANGED <<clock, agent, client, told>>

\* an answer, perhaps one more time; refused once the agent is closed
handle_read(id) ==
    /\ id \in net.answers /\ net.read < Copies
    /\ net' = [net EXCEPT !.read = @ + 1]
    /\ client' = observe(client, clock)
    /\ agent' = IF agent.closed THEN agent ELSE process(agent, id)
    /\ UNCHANGED <<clock, transmits, told>>

handle_timeout ==
    /\ ~agent.closed
    /\ \E at \in poll_timeout(agent) : at <= clock
    /\ client' = observe(client, clock)
    /\ agent' = collect(agent, clock)
    /\ UNCHANGED <<clock, transmits, net, told>>

\* a timeout of a request that has attempts left: again, under a longer deadline
Retransmit_unarmed(c, a, sent, id) ==  (* mutant: the agent is not given the new deadline *)
    [client |-> [c EXCEPT !.attempts[id] = @ + 1], agent |-> a, transmits |-> Append(sent, id)]

Retransmit(c, a, sent, id) ==
    [client |-> [c EXCEPT !.attempts[id] = @ + 1],
     agent |-> start(a, id, next_timeout(c.attempts[id] + 1, c.now)),
     transmits |-> Append(sent, id)]

EndTransaction(e) ==
    /\ client' = [client EXCEPT !.attempts = Without(@, {e.id})]
    /\ agent' = [agent EXCEPT !.events = Tail(@)]
    /\ told' = [told EXCEPT !.ended[e.id] = @ + 1]
    /\ UNCHANGED transmits

\* one turn of the loop of poll_event
poll_event ==
    /\ agent.events # <<>>
    /\ LET e == Head(agent.events)
           rest == [agent EXCEPT !.events = Tail(@)]
       IN  \/ /\ e.id \notin DOMAIN client.attempts
              /\ agent' = rest
              /\ UNCHANGED <<client, transmits, told>>
           \/ /\ e.id \in DOMAIN client.attempts
              /\ \/ e.evt = "message"
                 \/ client.attempts[e.id] >= MAX_ATTEMPTS
                 \/ ~CanStart(rest, e.id)
              /\ EndTransaction(e)
           \/ /\ e.id \in DOMAIN client.attempts
              /\ e.evt # "message" /\ client.attempts[e.id] < MAX_ATTEMPTS /\ CanStart(rest, e.id)
              /\ LET r == Retransmit(client, rest, transmits, e.id)
                 IN  client' = r.client /\ agent' = r.agent /\ transmits' = r.transmits
              /\ UNCHANGED told
    /\ UNCHANGED <<clock, net>>

close ==
    /\ ~client.closed
    /\ client' = [client EXCEPT !.closed = TRUE]
    /\ agent' = agent_close(agent)
    /\ UNCHANGED <<clock, transmits, net, told>>

Tick ==
    /\ clock < Horizon
    /\ clock' = clock + 1
    /\ UNCHANGED <<agent, client, transmits, net, told>>

Init ==
    /\ clock = 0
    /\ agent = [deadlines |-> << >>, closed |-> FALSE, events |-> <<>>]
    /\ client = [now |-> 0, attempts |-> << >>, closed |-> FALSE]
    /\ transmits = <<>>
    /\ net = [answers |-> {}, read |-> 0]
    /\ told = [written |-> [id \in Ids |-> 0], ended |-> [id \in Ids |-> 0]]

Next ==
    \/ poll_write \/ handle_timeout \/ poll_event \/ close \/ Tick
    \/ \E id \in Ids : handle_write(id) \/ handle_read(id)

Spec == Init /\ [][Next]_vars

(***************************************************************************)
(* Properties.                                                              *)
(***************************************************************************)
(* A request ends once, with its answer, with a timeout or with the end of   *)
(* the client; and until then it is never forgotten: the agent holds a       *)
(* deadline for it or has an event for it queued, whatever came in between a *)
(* timeout and the poll that retransmits.                                    *)
TransactionsEnd ==
    \A id \in Ids :
        /\ told.ended[id] <= told.written[id]
        /\ told.written[id] = 1 => (told.ended[id] = 0 <=> id \in DOMAIN client.attempts)
        /\ id \in DOMAIN client.attempts =>
               \/ id \in DOMAIN agent.deadlines
               \/ \E i \in DOMAIN agent.events : agent.events[i].id = id

(***************************************************************************)
(* What the proofs add (StunClientProofs).                                  *)
(***************************************************************************)
Events == [id : Ids, evt : {"message", "timeout", "closed"}]
Partial(S, T) == UNION {[D -> T] : D \in SUBSET S}
Agents == [deadlines : Partial(Ids, Int), closed : BOOLEAN, events : Seq(Events)]
Clients == [now : Int, attempts : Partial(Ids, Nat), closed : BOOLEAN]

TypeOK ==
    /\ clock \in Nat
    /\ agent \in Agents
    /\ client \in Clients
    /\ transmits \in Seq(Ids)
    /\ net \in [answers : SUBSET Ids, read : Nat]
    /\ told \in [written : [Ids -> Nat], ended : [Ids -> Nat]]

\* the ids with an event in the agent's queue
Queued(a) == {a.events[i].id : i \in DOMAIN a.events}

\* A transaction of the client is known to the agent; client and agent close together;
\* and a transaction is one request that has not ended, however often its id was written.
Known == DOMAIN client.attempts \subseteq DOMAIN agent.deadlines \cup Queued(agent)
ClosedTogether == client.closed = agent.closed
Counted ==
    \A id \in Ids :
        /\ told.ended[id] <= told.written[id]
        /\ id \in DOMAIN client.attempts => told.ended[id] < told.written[id]
        /\ id \notin DOMAIN client.attempts /\ told.written[id] > 0 => told.ended[id] > 0
IInv == TypeOK /\ Known /\ ClosedTogether /\ Counted
=============================================================================
