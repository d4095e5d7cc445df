----------------------------- MODULE Candidates -----------------------------
(***************************************************************************)
(* Two peers gather ICE candidates, signal them as text, in a description   *)
(* or one at a time, and pair what they have with what they are told.  The  *)
(* application gathers: it hands a candidate to add_local_candidate as      *)
(* text, learns of it as an event, and passes that on to the other peer.    *)
(* What the checks then do with the pairs is the business of IceAgent.      *)
(***************************************************************************)
EXTENDS Integers, Sequences, SequencesExt

CONSTANTS Plans     \* what each peer gathers and how it is configured

VARIABLES plan,
          todo,         \* by peer: the candidates it has yet to gather
          agent,        \* by peer: its ICE agent
          description,  \* by peer: its candidates when it made its description
          signals       \* by peer: candidates on their way to it

vars == <<plan, todo, agent, description, signals>>

Peers == {"offerer", "answerer"}
Other(x) == IF x = "offerer" THEN "answerer" ELSE "offerer"

(***************************************************************************)
(* A candidate.  An address is an IPv4 or IPv6 address, or a name that ends *)
(* in .local; ports are tokens of the text.                                 *)
(***************************************************************************)
IPv6 == {"fd00::1", "fd00::2"}
Unresolved == "0.0.0.0"
Local(address) == address \in {"a.local", "b.local"}

determine_network_type(network, ip) ==
    CASE network = "udp" /\ ip \notin IPv6 -> "udp4"
      [] network = "udp" /\ ip \in IPv6 -> "udp6"
      [] network = "tcp" /\ ip \notin IPv6 -> "tcp4"
      [] network = "tcp" /\ ip \in IPv6 -> "tcp6"

is_tcp(network_type) == network_type \in {"tcp4", "tcp6"}
network_short(network_type) == IF is_tcp(network_type) THEN "tcp" ELSE "udp"

\* the configuration of a candidate; no foundation and priority 0 are computed
Config(typ, network, address, port, tcp, rel_addr, rel_port, foundation, priority) ==
    [typ |-> typ, network |-> network, address |-> address, port |-> port, tcp_type |-> tcp,
     rel_addr |-> rel_addr, rel_port |-> rel_port, foundation |-> foundation, priority |-> priority]

new_candidate_host(c) ==
    [candidate_type |-> "host",
     network_type |-> IF Local(c.address) THEN "udp4" ELSE determine_network_type(c.network, c.address),
     address |-> c.address, port |-> c.port, tcp_type |-> c.tcp_type,
     resolved |-> IF Local(c.address) THEN Unresolved ELSE c.address,
     related |-> <<>>, network |-> c.network,
     foundation_override |-> c.foundation, priority_override |-> c.priority]

\* server reflexive, peer reflexive and relayed candidates; none keeps a TCP role
new_candidate_derived(c) ==
    [candidate_type |-> c.typ,
     network_type |-> determine_network_type(c.network, c.address),
     address |-> c.address, port |-> c.port, tcp_type |-> "unspecified",
     resolved |-> c.address,
     related |-> <<c.rel_addr, c.rel_port>>, network |-> "",
     foundation_override |-> c.foundation, priority_override |-> c.priority]

new_candidate(c) == IF c.typ = "host" THEN new_candidate_host(c) ELSE new_candidate_derived(c)

preference(candidate_type) ==
    CASE candidate_type = "host" -> 126
      [] candidate_type = "prflx" -> 110
      [] candidate_type = "srflx" -> 100
      [] candidate_type = "relay" -> 0

direction_pref(c) ==
    LET derived == c.candidate_type \in {"prflx", "srflx"}
    IN  CASE c.tcp_type = "active" -> IF derived THEN 4 ELSE 6
          [] c.tcp_type = "passive" -> IF derived THEN 2 ELSE 4
          [] c.tcp_type = "so" -> IF derived THEN 6 ELSE 2
          [] c.tcp_type = "unspecified" -> 0

local_preference(c) ==
    IF is_tcp(c.network_type) THEN 2 ^ 13 * direction_pref(c) + 8191 ELSE 65535

COMPONENT_RTP == 1

priority(c) ==
    IF c.priority_override # 0 THEN c.priority_override
    ELSE 2 ^ 24 * preference(c.candidate_type) + 2 ^ 8 * local_preference(c) + (256 - COMPONENT_RTP)

foundation(c) ==
    IF c.foundation_override # <<>> THEN c.foundation_override
    ELSE <<c.candidate_type, c.address, c.network_type>>

equal(c, d) ==
    /\ c.network_type = d.network_type /\ c.candidate_type = d.candidate_type
    /\ c.address = d.address /\ c.port = d.port
    /\ c.tcp_type = d.tcp_type /\ c.related = d.related

can_pair_with(c, d) ==
    /\ c.network_type = d.network_type
    /\ <<c.tcp_type, d.tcp_type>> \in {<<"active", "passive">>, <<"passive", "active">>,
                                       <<"so", "so">>, <<"unspecified", "unspecified">>}

set_ip(c, ip) ==
    [c EXCEPT !.network_type = determine_network_type(c.network, ip), !.resolved = ip]

(***************************************************************************)
(* Its text: eight fields, then extensions.  Blank tokens disappear.        *)
(***************************************************************************)
marshal(c) ==
    [foundation |-> foundation(c), network |-> network_short(c.network_type),
     priority |-> priority(c), address |-> c.address, port |-> c.port, typ |-> c.candidate_type,
     extensions |-> SelectSeq(
         (IF c.tcp_type # "unspecified" THEN <<"tcptype", c.tcp_type>> ELSE <<>>)
             \o (IF c.related # <<>> THEN <<"raddr", c.related[1], "rport", c.related[2]>> ELSE <<>>),
         LAMBDA token : token # "")]

Readable(text) ==
    LET e == text.extensions
    IN  /\ e # <<>> /\ e[1] = "raddr" => Len(e) >= 4
        /\ e # <<>> /\ e[1] = "tcptype" => Len(e) >= 2

\* only the first extension is read
unmarshal_candidate(text) ==
    LET e == text.extensions
        raddr == e # <<>> /\ e[1] = "raddr"
    IN  new_candidate(Config(text.typ, text.network, text.address, text.port,
            IF e # <<>> /\ e[1] = "tcptype" THEN e[2] ELSE "unspecified",
            IF raddr THEN e[2] ELSE "", IF raddr THEN e[4] ELSE "0",
            text.foundation, text.priority))

\* the application's view of a candidate, and back
RTCIceCandidate(c) ==
    Config(c.candidate_type, network_short(c.network_type), c.address, c.port, c.tcp_type,
           IF c.related = <<>> THEN "" ELSE c.related[1],
           IF c.related = <<>> THEN "0" ELSE c.related[2], foundation(c), priority(c))

to_ice(r) == new_candidate(r)

to_json(r) == marshal(to_ice(r))

(***************************************************************************)
(* Pairs.  A pair's priority is a 64-bit number that orders by the lower    *)
(* of the two priorities, then by the higher, then by which side has it.    *)
(***************************************************************************)
CandidatePair(l, r, local_priority, remote_priority, controlling) ==
    [local_index |-> l, remote_index |-> r, local_priority |-> local_priority,
     remote_priority |-> remote_priority, ice_role_controlling |-> controlling]

pair_priority(p) ==
    LET g == IF p.ice_role_controlling THEN p.local_priority ELSE p.remote_priority
        d == IF p.ice_role_controlling THEN p.remote_priority ELSE p.local_priority
    IN  <<IF g < d THEN g ELSE d, IF g < d THEN d ELSE g, IF g > d THEN 1 ELSE 0>>

Below(m, n) ==
    \E i \in 1 .. 3 : m[i] < n[i] /\ \A j \in 1 .. i - 1 : m[j] = n[j]

add_pair(a, l, r) ==
    [a EXCEPT !.pairs = Append(@, CandidatePair(l, r, priority(a.locals[l]), priority(a.remotes[r]),
                                                a.is_controlling))]

(***************************************************************************)
(* The agent.                                                               *)
(***************************************************************************)
Agent == [locals |-> <<>>, remotes |-> <<>>, pairs |-> <<>>, queries |-> <<>>,
          is_controlling |-> FALSE, started |-> FALSE]

Known(candidates, c) == \E i \in DOMAIN candidates : equal(candidates[i], c)

Admitted(x, c) == plan[x].network_types = {} \/ c.network_type \in plan[x].network_types

\* a host address that mDNS hides goes by its name
Hidden(x, c) ==
    IF /\ c.candidate_type = "host" /\ plan[x].mdns = "QueryAndGather"
       /\ c.network_type = "udp4" /\ c.resolved = plan[x].mdns_local_ip
    THEN [c EXCEPT !.address = plan[x].mdns_local_name] ELSE c

LocalRefused(x, a, c) ==
    \/ ~Admitted(x, c)
    \/ plan[x].candidate_types # {} /\ c.candidate_type \notin plan[x].candidate_types
    \/ Known(a.locals, Hidden(x, c))

add_local_candidate(x, a, c) ==
    LET kept == [a EXCEPT !.locals = Append(@, Hidden(x, c))]
        l == Len(kept.locals)
    IN  FoldLeft(LAMBDA b, r : IF can_pair_with(b.locals[l], b.remotes[r]) THEN add_pair(b, l, r) ELSE b,
                 kept, [r \in DOMAIN a.remotes |-> r])

trigger_request_connectivity_check_unchecked(a, c) ==  (* mutant: a candidate told twice is added twice *)
    LET kept == [a EXCEPT !.remotes = Append(@, c)]
        r == Len(kept.remotes)
    IN  FoldLeft(LAMBDA b, l : IF can_pair_with(b.locals[l], b.remotes[r]) THEN add_pair(b, l, r) ELSE b,
                 kept, [l \in DOMAIN a.locals |-> l])

trigger_request_connectivity_check(a, c) ==
    IF Known(a.remotes, c) THEN a
    ELSE LET kept == [a EXCEPT !.remotes = Append(@, c)]
             r == Len(kept.remotes)
         IN  FoldLeft(LAMBDA b, l : IF can_pair_with(b.locals[l], b.remotes[r])
                                    THEN add_pair(b, l, r) ELSE b,
                      kept, [l \in DOMAIN a.locals |-> l])

\* a name waits for its address
add_remote_candidate(x, a, c) ==
    IF ~Admitted(x, c) \/ c.tcp_type = "active" THEN a
    ELSE IF c.candidate_type = "host" /\ Local(c.address)
    THEN IF plan[x].mdns = "Disabled" THEN a ELSE [a EXCEPT !.queries = Append(@, c)]
    ELSE trigger_request_connectivity_check(a, c)

start_connectivity_checks(a, controlling) ==
    [a EXCEPT !.is_controlling = controlling, !.started = TRUE]

(***************************************************************************)
(* The peer connection.                                                     *)
(***************************************************************************)
add_ice_remote_candidate(x, a, text) ==
    IF Readable(text) THEN add_remote_candidate(x, a, unmarshal_candidate(text)) ELSE a

\* the application gathers a candidate, adds it, and signals what it is told of
Gather(x) ==
    \E config \in todo[x] :
        LET text == marshal(new_candidate(config))
            c == unmarshal_candidate(text)
        IN  /\ todo' = [todo EXCEPT ![x] = @ \ {config}]
            /\ IF ~Readable(text) \/ LocalRefused(x, agent[x], c) THEN UNCHANGED <<agent, signals>>
               ELSE /\ agent' = [agent EXCEPT ![x] = add_local_candidate(x, @, c)]
                    /\ signals' = [signals EXCEPT ![Other(x)] =
                                       @ \cup {to_json(RTCIceCandidate(Hidden(x, c)))}]
            /\ UNCHANGED <<plan, description>>

\* a description carries the candidates gathered so far, in a plan that waits for them
create_description(x) ==
    /\ description[x].made = FALSE
    /\ x = "answerer" => agent[x].started
    /\ description' = [description EXCEPT ![x] =
           [made |-> TRUE,
            candidates |-> IF plan.trickled THEN <<>>
                           ELSE [i \in DOMAIN agent[x].locals |->
                                     to_json(RTCIceCandidate(agent[x].locals[i]))]]]
    /\ UNCHANGED <<plan, todo, agent, signals>>

\* the candidates of the description are added before the transport is started

set_remote_description(x, a) ==
    start_connectivity_checks(
        FoldLeft(LAMBDA b, text : add_ice_remote_candidate(x, b, text), a,
                 description[Other(x)].candidates),
        x = "offerer")

SetRemoteDescription(x) ==
    /\ description[Other(x)].made /\ ~agent[x].started
    /\ x = "offerer" => description[x].made
    /\ agent' = [agent EXCEPT ![x] = set_remote_description(x, @)]
    /\ UNCHANGED <<plan, todo, description, signals>>

\* candidates arrive in any order, but not before the description
AddRemoteCandidate(x) ==
    /\ agent[x].started
    /\ \E text \in signals[x] :
           /\ agent' = [agent EXCEPT ![x] = add_ice_remote_candidate(x, @, text)]
           /\ signals' = [signals EXCEPT ![x] = @ \ {text}]
    /\ UNCHANGED <<plan, todo, description>>

\* mDNS answers a query, in any order, with the address the other peer hides
QueryAnswered(x) ==
    /\ \E i \in DOMAIN agent[x].queries :
           agent' = [agent EXCEPT ![x] =
               trigger_request_connectivity_check([@ EXCEPT !.queries = RemoveAt(@, i)],
                                                  set_ip(@.queries[i], plan[Other(x)].mdns_local_ip))]
    /\ UNCHANGED <<plan, todo, description, signals>>

Init ==
    /\ plan \in Plans
    /\ todo = [x \in Peers |-> plan[x].gathers]
    /\ agent = [x \in Peers |-> Agent]
    /\ description = [x \in Peers |-> [made |-> FALSE, candidates |-> <<>>]]
    /\ signals = [x \in Peers |-> {}]

Next ==
    \E x \in Peers : \/ Gather(x) \/ create_description(x) \/ SetRemoteDescription(x)
                     \/ AddRemoteCandidate(x) \/ QueryAnswered(x)

Spec == Init /\ [][Next]_vars

(***************************************************************************)
(* Properties.                                                              *)
(***************************************************************************)
Settled ==
    \A x \in Peers : /\ todo[x] = {} /\ signals[x] = {}
                     /\ agent[x].started /\ agent[x].queries = <<>>

\* the transport addresses a pair joins
Ends(x, p) ==
    LET l == agent[x].locals[p.local_index]
        r == agent[x].remotes[p.remote_index]
    IN  <<<<l.network_type, l.resolved, l.port>>, <<r.network_type, r.resolved, r.port>>>>

Mirrored(e) == <<e[2], e[1]>>

Checklist(x) == {Ends(x, agent[x].pairs[i]) : i \in DOMAIN agent[x].pairs}

\* the pairs an agent would form if it knew all at once
Reachable(l, r) ==
    /\ can_pair_with(l, r)
    /\ r.tcp_type # "active"

(* Whatever the order in which candidates are gathered, told and resolved,    *)
(* and however often one is told, an agent's checklist holds every local and  *)
(* remote candidate that fit together, once (add_local_candidate and          *)
(* trigger_request_connectivity_check each pair only with what is there).     *)
(* And once all is told, two agents that accept each other's names check the  *)
(* same pairs from either end, but for the TCP pairs the passive side only    *)
(* learns of by a check: the text of a candidate keeps what matters of it.    *)
ChecklistsMirror ==
    /\ \A x \in Peers :
           LET a == agent[x]
           IN  /\ \A l \in DOMAIN a.locals, r \in DOMAIN a.remotes :
                      Reachable(a.locals[l], a.remotes[r]) <=>
                          \E i \in DOMAIN a.pairs : a.pairs[i].local_index = l /\ a.pairs[i].remote_index = r
               /\ \A i, j \in DOMAIN a.pairs : Ends(x, a.pairs[i]) = Ends(x, a.pairs[j]) => i = j
    /\ Settled /\ (\A x \in Peers : plan[x].mdns # "Disabled") =>
           \A x \in Peers : \A e \in Checklist(x) :
               is_tcp(e[1][1]) \/ Mirrored(e) \in Checklist(Other(x))

(* Both agents put the pairs they share in the same order ("a pair's combined *)
(* priority is computed from both sides' priorities with the controlling      *)
(* agent's dominating, so both agents derive the same ordering").             *)
SameOrder ==
    Settled =>
        LET a == agent["offerer"].pairs
            b == agent["answerer"].pairs
            Same(i, k) == Ends("offerer", a[i]) = Mirrored(Ends("answerer", b[k]))
        IN  \A i, j \in DOMAIN a, k, l \in DOMAIN b :
                Same(i, k) /\ Same(j, l) =>
                    (Below(pair_priority(a[i]), pair_priority(a[j])) <=>
                     Below(pair_priority(b[k]), pair_priority(b[l])))
=============================================================================
