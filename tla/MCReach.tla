------------------------------- MODULE MCReach ------------------------------
(*****************************************************************************)
(* How a peer is reached: the ICE agents (IceAgent), their candidates and    *)
(* checklists (Candidates), the STUN client under them (StunClient), TURN    *)
(* (Turn) and mDNS (Mdns).  They share no state here: a behaviour is a       *)
(* behaviour of one of them, component says which, and the variables of the  *)
(* others stay where they are.                                               *)
(*****************************************************************************)
EXTENDS Integers, Sequences, TLC

CONSTANT Components     \* the parts that a run covers

VARIABLES
    component,
    \* of IceAgent
    ice_plan, ice_agent, signaling, channel, ice_net,
    \* of Turn
    turn_plan, turn_clock, credential, tr_map, next_tid, relays, addr_map, chan_map,
    next_channel, requests, responses, frames, server, faults, received,
    \* of Mdns
    mdns, mdns_net, asked, polled, mdns_clock, mdns_plan,
    \* of StunClient
    stun_clock, stun_agent, client, transmits, stun_net, told,
    \* of Candidates
    candidates_plan, todo, checklist_agent, description, signals

-----------------------------------------------------------------------------
\* The ICE agents: alice with one address; bob with two, one of which is not signalled.

IceAgents == {"alice", "bob"}
IceAddrs == ("alice" :> {"alice1"}) @@ ("bob" :> {"bob1", "bob2"})
Ties == ("alice" :> 1) @@ ("bob" :> 2)

IcePlan(controlling, credentials, messages, discards, calm, gathered, described, trickled) ==
    [controlling |-> controlling, credentials |-> credentials, net |-> messages,
     discards |-> discards, calm |-> calm, gathered |-> gathered, described |-> described,
     trickled |-> trickled]
IceBoth == {"alice1", "bob1"}
IceAll == {"alice1", "bob1", "bob2"}
IcePlans ==
    {IcePlan({"alice"}, 1, 2, FALSE, FALSE, IceBoth, IceBoth, {}),   \* late answers, timeouts
     IcePlan({"alice", "bob"}, 1, 1, FALSE, FALSE, IceBoth, IceBoth, {}),
     IcePlan({"alice", "bob"}, 1, 3, FALSE, TRUE, IceBoth, IceBoth, {}),
     IcePlan({}, 1, 1, FALSE, FALSE, IceBoth, IceBoth, {}),
     IcePlan({}, 1, 3, FALSE, TRUE, IceBoth, IceBoth, {}),
     IcePlan({"alice"}, 2, 1, FALSE, FALSE, IceBoth, IceBoth, {"bob1"}),  \* timeouts, a restart
     IcePlan({"alice"}, 2, 2, FALSE, TRUE, IceAll, IceBoth, {}),     \* two sessions, two pairs
     IcePlan({"alice"}, 2, 0, TRUE, FALSE, IceBoth, IceBoth, {})}

Ice == INSTANCE IceAgent WITH
    Agents <- IceAgents, Addrs <- IceAddrs, TieBreaker <- Ties, Plans <- IcePlans,
    MaxBinding <- 0, plan <- ice_plan, agent <- ice_agent, net <- ice_net

\* what IceAgentProofs takes for granted
ASSUME IceParameters == Ice!Parameters

iceVars == <<ice_plan, ice_agent, signaling, channel, ice_net>>
IceIdle == /\ ice_plan = "-" /\ ice_agent = "-" /\ signaling = "-" /\ channel = "-"
           /\ ice_net = "-"

\* An agent reports a connection exactly while it has a selected pair that answered a check
\* of its own, and two agents that are connected in the same session, and were given
\* different roles, have selected the same pair: nomination is final (set_selected_pair,
\* the selectors).
SelectedAgree == component = "ice" => Ice!ConnectedSelected /\ Ice!SelectedAgree

\* When no description is under way, each agent has the other's credentials: an agent
\* restarts whenever its peer does; and once the roles differ they stay different, whatever
\* requests of the old roles are still on their way (restart, set_remote_credentials,
\* switch_role).
CredentialsAgree == [][component = "ice" => Ice!RolesSettle /\ Ice!CredentialsAgree']_iceVars

-----------------------------------------------------------------------------
\* The TURN client and its server.

TurnPlan(lifetime, allocate, permit, send, close, credential_, resend, timeout, rotate, forward,
         lose, tick, other) ==
    [lifetime |-> lifetime, allocate |-> allocate, permit |-> permit, send |-> send,
     close |-> close, credential |-> credential_, resend |-> resend, timeout |-> timeout,
     rotate |-> rotate, forward |-> forward, lose |-> lose, tick |-> tick,
     refresh |-> other, binding |-> other, forget |-> other]
TurnPlans ==
    {TurnPlan(4, 1, 1, 0, 0, 0, 1, 1, 0, 0, 1, 6, 0),    \* loss, and a transaction that times out
     TurnPlan(4, 1, 1, 2, 0, 0, 0, 0, 1, 1, 0, 6, 0),    \* a stale nonce, a channel refreshed
     TurnPlan(4, 2, 1, 1, 1, 1, 0, 0, 0, 0, 0, 1, 0),    \* close, allocate again, a new credential
     TurnPlan(4, 1, 2, 2, 0, 0, 0, 0, 0, 1, 0, 0, 0),    \* two peers
     TurnPlan(9, 1, 1, 0, 0, 0, 0, 0, 1, 0, 0, 8, 0),    \* a lifetime whose half is beyond the cap
     TurnPlan(1, 1, 0, 0, 0, 0, 0, 0, 0, 0, 0, 1, 1)}    \* a lifetime too short to halve

Relay == INSTANCE Turn WITH
    Peers <- {"p", "q"}, Addrs <- {"r1", "r2"}, MAX_CHANNEL <- 4,
    PERM_REFRESH_INTERVAL <- 2, PERM_LIFETIME <- 5, CHANNEL_LIFETIME <- 10,
    MIN_ALLOC_REFRESH_INTERVAL <- 1, interval_cap <- 3, MAX_RTX_COUNT <- 2, Outstanding <- 2,
    Plans <- TurnPlans, plan <- turn_plan, clock <- turn_clock

\* what TurnProofs takes for granted
ASSUME TurnParameters == Relay!Parameters

relayVars == <<turn_plan, turn_clock, credential, tr_map, next_tid, relays, addr_map,
               chan_map, next_channel, requests, responses, frames, server, faults,
               received>>
RelayIdle == /\ turn_plan = "-" /\ turn_clock = "-" /\ credential = "-" /\ tr_map = "-"
             /\ next_tid = "-" /\ relays = "-" /\ addr_map = "-" /\ chan_map = "-"
             /\ next_channel = "-" /\ requests = "-" /\ responses = "-" /\ frames = "-"
             /\ server = "-" /\ faults = "-" /\ received = "-"

\* What the client believes granted, the server grants: the refresh timers are early enough
\* and stay within the lifetimes (RelayState).  Channel data is attributed to the peer that
\* sent it, and a request is signed with the key of the user it names (BindingManager,
\* update_credentials).
GrantsHeld == component = "turn" => Relay!GrantsHeld /\ Relay!PeersNotConfused /\ Relay!SignedRight

-----------------------------------------------------------------------------
\* mDNS: node a asks, node b answers for the name x, and others answer too.

MdnsPlan(query, cancel, close, lose, bystander, tick) ==
    [query |-> query, cancel |-> cancel, close |-> close, lose |-> lose, bystander |-> bystander,
     tick |-> tick]
Answer(typ, ip) == [name |-> "x", typ |-> typ, ip |-> ip]
Bystanders ==
    {[src |-> "ip b", answers |-> <<Answer("A", "ip b"), Answer("TXT", "no address")>>],
     [src |-> "ip b", answers |-> <<Answer("AAAA", "no address"), Answer("A", "ip b")>>],
     [src |-> "ip b", answers |-> <<Answer("TXT", "no address"), Answer("A", "ip b")>>]}

Names == INSTANCE Mdns WITH
    Nodes <- {"a", "b"}, Askers <- {"a"}, LocalNames <- ("a" :> {"y"} @@ "b" :> {"x"}),
    LocalIp <- ("a" :> "ipv6" @@ "b" :> "ip b"), QueryInterval <- 2, QueryTimeout <- 3,
    MaxRecords <- 3, Bystanders <- Bystanders,
    Plans <- {MdnsPlan(2, 1, 0, 1, 0, 6), MdnsPlan(2, 0, 1, 0, 1, 3)}, net <- mdns_net,
    clock <- mdns_clock, plan <- mdns_plan

namesVars == <<mdns, mdns_net, asked, polled, mdns_clock, mdns_plan>>
NamesIdle == /\ mdns = "-" /\ mdns_net = "-" /\ asked = "-" /\ polled = "-"
             /\ mdns_clock = "-" /\ mdns_plan = "-"

\* A query ends once, with the address of a node that answers for the name, however answers,
\* retries and timeouts cross; and it does not stay pending for longer than its timeout and
\* one retry, nor after a packet was read that answers it before any record of another type
\* than an address (Mdns::handle_read, handle_timeout).
AnsweredOnce ==
    [][component = "mdns" =>
          Names!AnswersHeard /\ Names!AnsweredOnce' /\ Names!QueriesExpire']_namesVars

-----------------------------------------------------------------------------
\* The STUN client: two transactions, each of which may be repeated once.

Stun == INSTANCE StunClient WITH
    Ids <- {"t1", "t2"}, RTO <- 1, MAX_ATTEMPTS <- 1, Horizon <- 4, Copies <- 2,
    Writes <- 2, clock <- stun_clock, agent <- stun_agent, net <- stun_net

stunVars == <<stun_clock, stun_agent, client, transmits, stun_net, told>>
StunIdle == /\ stun_clock = "-" /\ stun_agent = "-" /\ client = "-" /\ transmits = "-"
            /\ stun_net = "-" /\ told = "-"

\* A request ends once, and until then the agent holds a deadline or an event for it
\* (client.rs, agent.rs).
TransactionsEnd == component = "stun" => Stun!TransactionsEnd

-----------------------------------------------------------------------------
\* Candidates on small networks: hosts behind a NAT, with IPv6, with TCP roles, with mDNS
\* names and with a relay.

Candidate == INSTANCE Candidates WITH
    Plans <- {}, plan <- candidates_plan, agent <- checklist_agent

Gathered(typ, network, address, port, tcp, rel_addr) ==
    Candidate!Config(typ, network, address, port, tcp, rel_addr, IF rel_addr = "" THEN "0" ELSE "5000",
                     <<>>, 0)

Host(address) == Gathered("host", "udp", address, "5000", "unspecified", "")
TcpHost(address, tcp) ==
    Gathered("host", "tcp", address, IF tcp = "active" THEN "9" ELSE "5001", tcp, "")
Srflx(address, base) == Gathered("srflx", "udp", address, "6000", "unspecified", base)
Relayed(address, base) == Gathered("relay", "udp", address, "7000", "unspecified", base)

GatheringPeer(gathers, network_types, candidate_types, mdns_mode, ip, name) ==
    [gathers |-> gathers, network_types |-> network_types, candidate_types |-> candidate_types,
     mdns |-> mdns_mode, mdns_local_ip |-> ip, mdns_local_name |-> name]

CandidatePlan(a, b, trickled) == [offerer |-> a, answerer |-> b, trickled |-> trickled]

Natted(x) == IF x = 1 THEN {Host("10.0.0.1"), Srflx("192.0.2.1", "10.0.0.1")}
             ELSE {Host("10.0.0.2"), Srflx("192.0.2.2", "10.0.0.2")}
Dual(x) == IF x = 1 THEN {Host("10.0.0.1"), Host("fd00::1"), TcpHost("10.0.0.1", "active")}
           ELSE {Host("10.0.0.2"), Host("fd00::2"), TcpHost("10.0.0.2", "passive")}
Open(x) == IF x = 1 THEN {TcpHost("10.0.0.1", "so"), Relayed("192.0.2.1", "10.0.0.1"), Host("10.0.0.1")}
           ELSE {TcpHost("10.0.0.2", "so"), Host("10.0.0.2")}

A(gathers, networks, types, mode) == GatheringPeer(gathers, networks, types, mode, "10.0.0.1", "a.local")
B(gathers, networks, types, mode) == GatheringPeer(gathers, networks, types, mode, "10.0.0.2", "b.local")

CandidatePlans ==
    {CandidatePlan(A(Natted(1), {}, {}, "QueryOnly"), B(Natted(2), {}, {}, "QueryOnly"), TRUE),
     CandidatePlan(A(Natted(1), {}, {}, "QueryAndGather"), B(Natted(2), {}, {}, "QueryAndGather"), TRUE),
     CandidatePlan(A(Dual(1), {}, {}, "QueryOnly"), B(Dual(2), {"udp6", "tcp4"}, {}, "QueryOnly"), FALSE),
     CandidatePlan(A(Open(1), {}, {"relay", "host"}, "QueryOnly"), B(Open(2), {}, {}, "QueryAndGather"), FALSE),
     CandidatePlan(A(Open(1), {}, {"relay"}, "Disabled"), B(Natted(2), {}, {}, "QueryAndGather"), FALSE)}

\* candidates in the descriptions
Described == {CandidatePlan(A(Natted(1), {}, {}, "QueryOnly"), B(Natted(2), {}, {}, "QueryOnly"), FALSE)}

Checklist == INSTANCE Candidates WITH
    Plans <- CandidatePlans \cup Described, plan <- candidates_plan,
    agent <- checklist_agent

checklistVars == <<candidates_plan, todo, checklist_agent, description, signals>>
ChecklistIdle == /\ candidates_plan = "-" /\ todo = "-" /\ checklist_agent = "-"
                 /\ description = "-" /\ signals = "-"

\* Whatever the order in which candidates are gathered, told and resolved, a checklist holds
\* every pair that fits, once, and two agents check the same pairs from either end
\* (add_local_candidate, trigger_request_connectivity_check).
ChecklistsMirror == component = "candidates" => Checklist!ChecklistsMirror

\* Both agents put the pairs they share in the same order ("A pair's combined priority is
\* computed from both sides' priorities with the controlling agent's dominating, so both
\* agents derive the same ordering").
SameOrder == component \in {"candidates", "described"} => Checklist!SameOrder

-----------------------------------------------------------------------------
reachVars == <<component, iceVars, relayVars, namesVars, stunVars, checklistVars>>

Init ==
    /\ component \in Components
    /\ IF component = "ice" THEN Ice!Init ELSE IceIdle
    /\ IF component = "turn" THEN Relay!Init ELSE RelayIdle
    /\ IF component = "mdns" THEN Names!Init ELSE NamesIdle
    /\ IF component = "stun" THEN Stun!Init ELSE StunIdle
    /\ IF component \in {"candidates", "described"}
       THEN /\ Checklist!Init
            /\ candidates_plan \in IF component = "described" THEN Described ELSE CandidatePlans
       ELSE ChecklistIdle

Next ==
    \/ component = "ice" /\ Ice!Next
       /\ UNCHANGED <<component, relayVars, namesVars, stunVars, checklistVars>>
    \/ component = "turn" /\ Relay!Next
       /\ UNCHANGED <<component, iceVars, namesVars, stunVars, checklistVars>>
    \/ component = "mdns" /\ Names!Next
       /\ UNCHANGED <<component, iceVars, relayVars, stunVars, checklistVars>>
    \/ component = "stun" /\ Stun!Next
       /\ UNCHANGED <<component, iceVars, relayVars, namesVars, checklistVars>>
    \/ component \in {"candidates", "described"} /\ Checklist!Next
       /\ UNCHANGED <<component, iceVars, relayVars, namesVars, stunVars>>

Spec == Init /\ [][Next]_reachVars
=============================================================================
