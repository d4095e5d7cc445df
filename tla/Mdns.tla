-------------------------------- MODULE Mdns --------------------------------
(***************************************************************************)
(* The mDNS state machine of rtc-mdns (Mdns): every node both asks for      *)
(* names and answers for its own, on a multicast group that loses and       *)
(* reorders.  poll_write is drained after every call, so a packet goes to   *)
(* the network in the step that queues it.                                  *)
(***************************************************************************)
EXTENDS Integers, Sequences, FiniteSets, SequencesExt

CONSTANTS Nodes,
          Askers,             \* the nodes whose application asks
          LocalNames,         \* node -> the names it answers for
          LocalIp,            \* node -> its IPv4 address, IPv6 or NoIp
          QueryInterval, QueryTimeout,
          MaxRecords,         \* MAX_MESSAGE_RECORDS: records read of a section
          Bystanders,         \* packets of other implementations: [name |-> ..., answers |-> ...]
          Plans               \* bounds: queries, cancels, closes, losses, ticks

VARIABLES mdns,      \* node -> Mdns
          net,       \* packets on their way to a node
          asked,     \* history: node -> query id -> name
          polled,    \* history: node -> events the application saw
          clock, plan
vars == <<mdns, net, asked, polled, clock, plan>>

NoIp == "no address"
IPv6 == "ipv6"
Never == -1

New == [queries |-> <<>>, scheduled |-> <<>>, next_query_id |-> 1, event_outs |-> <<>>, next_timeout |-> Never,
        last_now |-> 0, closed |-> FALSE]

Budget(what) == plan[what] > 0 /\ plan' = [plan EXCEPT ![what] = @ - 1]
SoonestOf(s) == IF s = {} THEN Never ELSE CHOOSE t \in s : \A u \in s : t <= u
update_next_timeout(m) == [m EXCEPT !.next_timeout = SoonestOf({q.next_retry : q \in ToSet(m.queries)})]

Packet(from, to, questions, answers) == [src |-> LocalIp[from], to |-> to, questions |-> questions, answers |-> answers]
Multicast(from, questions, answers) == {Packet(from, n, questions, answers) : n \in Nodes}
send_question(from, name) == Multicast(from, <<name>>, <<>>)
\* an IPv6 address does not go into an A record: no answer
send_answer(from, name) ==
    IF LocalIp[from] \in {NoIp, IPv6} THEN {} ELSE Multicast(from, <<>>, <<[name |-> name, typ |-> "A", ip |-> LocalIp[from]]>>)

(***************************************************************************)
(* Queries.                                                                 *)
(***************************************************************************)
Query(id, name) == [id |-> id, name |-> name, start_time |-> clock, next_retry |-> clock + QueryInterval]
Named(n, name) == asked' = [asked EXCEPT ![n] = Append(@, name)]
query_now(n, name) ==
    /\ Budget("query")
    /\ mdns' = [mdns EXCEPT ![n] = update_next_timeout([@ EXCEPT !.queries = Append(@, Query(mdns[n].next_query_id, name)),
                                                                 !.next_query_id = @ + 1])]
    /\ net' = net \cup send_question(n, name)
    /\ Named(n, name)
    /\ UNCHANGED <<polled, clock>>
schedule_query(n, name) ==
    /\ Budget("query")
    /\ mdns' = [mdns EXCEPT ![n].scheduled = Append(@, <<mdns[n].next_query_id, name>>), ![n].next_query_id = @ + 1]
    /\ Named(n, name)
    /\ UNCHANGED <<net, polled, clock>>
cancel_query(n, id) ==
    /\ Budget("cancel")
    /\ id < mdns[n].next_query_id
    /\ mdns' = [mdns EXCEPT ![n] = update_next_timeout([@ EXCEPT !.queries = SelectSeq(@, LAMBDA q : q.id # id),
                                                                 !.scheduled = SelectSeq(@, LAMBDA q : q[1] # id)])]
    /\ UNCHANGED <<net, asked, polled, clock>>

(***************************************************************************)
(* handle_read.                                                             *)
(***************************************************************************)
process_questions(n, p) ==
    UNION {send_answer(n, name) : name \in ToSet(SubSeq(p.questions, 1, IF Len(p.questions) > MaxRecords + 1 THEN MaxRecords + 1 ELSE Len(p.questions)))
                                            \cap LocalNames[n]}
\* a record that is neither A nor AAAA is not skipped: the parser offers its header again
\* until the loop ends
Readable(answers) ==
    LET addresses == SelectInSeq(answers, LAMBDA a : a.typ \notin {"A", "AAAA"})
        n == IF addresses = 0 THEN Len(answers) ELSE addresses - 1
    IN  SubSeq(answers, 1, IF n > MaxRecords + 1 THEN MaxRecords + 1 ELSE n)
AddressOf(a, p) == IF a.typ = "A" THEN a.ip ELSE p.src
Matched(m, a) == SelectSeq(m.queries, LAMBDA q : q.name = a.name)
Answered_kept(m, a, p) ==                  (* mutant: the query stays pending *)
    [m EXCEPT !.event_outs = @ \o [i \in 1 .. Len(Matched(m, a)) |-> [id |-> Matched(m, a)[i].id, ip |-> AddressOf(a, p)]]]
Answered(m, a, p) ==
    [m EXCEPT !.event_outs = @ \o [i \in 1 .. Len(Matched(m, a)) |-> [id |-> Matched(m, a)[i].id, ip |-> AddressOf(a, p)]],
              !.queries = SelectSeq(@, LAMBDA q : q.name # a.name)]
process_answers(m, p) == FoldLeft(LAMBDA acc, a : Answered(acc, a, p), m, Readable(p.answers))
handle_read(p) ==
    LET n == p.to
    IN  /\ IF mdns[n].closed THEN net' = net \ {p} /\ UNCHANGED mdns
           ELSE /\ net' = (net \ {p}) \cup process_questions(n, p)
                /\ mdns' = [mdns EXCEPT ![n] = update_next_timeout(process_answers(@, p))]
        /\ UNCHANGED <<asked, polled, clock, plan>>

(***************************************************************************)
(* handle_timeout: the scheduled queries start, then, when a retry is due,  *)
(* old queries time out and the due ones are asked again.                   *)
(***************************************************************************)
poll_timeout(m) == IF m.scheduled # <<>> THEN m.last_now ELSE m.next_timeout
Begun(m) == [m EXCEPT !.queries = @ \o [i \in 1 .. Len(m.scheduled) |-> Query(m.scheduled[i][1], m.scheduled[i][2])], !.scheduled = <<>>]
RetryDue(m) == m.next_timeout # Never /\ m.next_timeout <= clock
Old(q) == clock - q.start_time >= QueryTimeout
TimedOut(m) ==
    LET old == SelectSeq(m.queries, Old)
    IN  [m EXCEPT !.queries = SelectSeq(@, LAMBDA q : ~Old(q)),
                  !.event_outs = @ \o [i \in 1 .. Len(old) |-> [id |-> old[i].id, ip |-> NoIp]]]
Retried(m) == [m EXCEPT !.queries = [i \in DOMAIN @ |-> IF @[i].next_retry <= clock
                                                        THEN [@[i] EXCEPT !.next_retry = clock + QueryInterval] ELSE @[i]]]
NamesDue(m) == {q.name : q \in {r \in ToSet(m.queries) : r.next_retry <= clock}}
\* one timeout round, on the state with the scheduled queries started
Expire(m) == IF RetryDue(m) THEN TimedOut(m) ELSE m
Swept(m) == update_next_timeout(IF RetryDue(m) THEN Retried(Expire(m)) ELSE m)
handle_timeout(n) ==
    /\ ~mdns[n].closed
    /\ poll_timeout(mdns[n]) # Never /\ poll_timeout(mdns[n]) <= clock
    /\ mdns' = [mdns EXCEPT ![n] = [Swept(Begun(@)) EXCEPT !.last_now = clock]]
    /\ net' = net \cup UNION ({send_question(n, s[2]) : s \in ToSet(mdns[n].scheduled)}
                                \cup {send_question(n, name) : name \in IF RetryDue(mdns[n]) THEN NamesDue(Expire(mdns[n])) ELSE {}})
    /\ UNCHANGED <<asked, polled, clock, plan>>

poll_event(n) ==
    /\ mdns[n].event_outs # <<>>
    /\ polled' = [polled EXCEPT ![n] = Append(@, Head(mdns[n].event_outs))]
    /\ mdns' = [mdns EXCEPT ![n].event_outs = Tail(@)]
    /\ UNCHANGED <<net, asked, clock, plan>>
close(n) ==
    /\ Budget("close")
    /\ mdns' = [mdns EXCEPT ![n] = [New EXCEPT !.closed = TRUE, !.next_query_id = mdns[n].next_query_id, !.last_now = mdns[n].last_now]]
    /\ UNCHANGED <<net, asked, polled, clock>>

(***************************************************************************)
(* The network and the clock.                                               *)
(***************************************************************************)
Lose == \E p \in net : Budget("lose") /\ net' = net \ {p} /\ UNCHANGED <<mdns, asked, polled, clock>>
\* another implementation answers in its own way
Bystander(b, n) ==
    /\ Budget("bystander")
    /\ net' = net \cup {[src |-> b.src, to |-> n, questions |-> <<>>, answers |-> b.answers]}
    /\ UNCHANGED <<mdns, asked, polled, clock>>
\* the driver calls handle_timeout in time, and the network takes less than a unit
Tick ==
    /\ Budget("tick")
    /\ net = {}
    /\ \A n \in Nodes : ~mdns[n].closed => poll_timeout(mdns[n]) = Never \/ poll_timeout(mdns[n]) > clock
    /\ clock' = clock + 1
    /\ UNCHANGED <<mdns, net, asked, polled>>

Names == UNION {LocalNames[n] : n \in Nodes}
Init ==
    /\ mdns = [n \in Nodes |-> New]
    /\ net = {} /\ clock = 0 /\ plan \in Plans
    /\ asked = [n \in Nodes |-> <<>>] /\ polled = [n \in Nodes |-> <<>>]
Next ==
    \/ \E n \in Askers, name \in Names : query_now(n, name) \/ schedule_query(n, name)
    \/ \E n \in Askers : \/ \E id \in 1 .. Len(asked[n]) : cancel_query(n, id)
                         \/ handle_timeout(n) \/ poll_event(n) \/ close(n)
                         \/ \E b \in Bystanders : Bystander(b, n)
    \/ \E p \in net : handle_read(p)
    \/ Lose
    \/ Tick
Spec == Init /\ [][Next]_vars

(***************************************************************************)
(* Properties.                                                              *)
(***************************************************************************)
Owners(name) == {LocalIp[n] : n \in {m \in Nodes : name \in LocalNames[m]}}

\* A query ends once: the application never sees two outcomes of one query, however
\* many answers, retries and timeouts cross, and the address it is told is that of a
\* node that answers for the name.
AnsweredOnce ==
    \A n \in Nodes :
        LET seen == polled[n] \o mdns[n].event_outs
        IN  /\ \A i, j \in DOMAIN seen : seen[i].id = seen[j].id => i = j
            /\ \A i \in DOMAIN seen : seen[i].ip \in Owners(asked[n][seen[i].id]) \cup {NoIp}
            /\ \A i \in DOMAIN seen : \A q \in ToSet(mdns[n].queries) : q.id # seen[i].id

\* A query does not stay pending much longer than query_timeout: the timer that
\* handle_timeout sets covers every query, the scheduled ones included, and a timeout
\* is noticed at the latest one retry after it is due.
QueriesExpire ==
    \A n \in Nodes : ~mdns[n].closed => \A q \in ToSet(mdns[n].queries) : clock - q.start_time < QueryTimeout + QueryInterval

\* An address for a pending query that has been read is reported (handle_read: "If it
\* contains answers matching pending queries, emit events"), unless the packet has a record of
\* another type before it, which the parser does not pass, or too many records.
IsAddress(a) == a.typ \in {"A", "AAAA"}
AnswersHeard ==
    \A p \in net : handle_read(p) /\ ~mdns[p.to].closed =>
          \A i \in DOMAIN p.answers :
             i <= MaxRecords /\ (\A j \in 1 .. i : IsAddress(p.answers[j])) =>
                \A q \in ToSet(mdns'[p.to].queries) : q.name # p.answers[i].name
=============================================================================
