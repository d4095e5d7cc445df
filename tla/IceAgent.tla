------------------------------ MODULE IceAgent -----------------------------
(***************************************************************************)
(* Two ICE agents (rtc-ice, agent/mod.rs and agent/agent_selector.rs):     *)
(* checks, nomination, role conflicts, timeouts and restarts, over a       *)
(* network that loses and reorders, together with the part of the peer     *)
(* connection that stages, applies and signals a restart.                  *)
(*                                                                         *)
(* Candidates are addresses.  The local ones are host candidates, so that  *)
(* the type of the remote one decides the priority of a pair.  Credentials *)
(* are numbers: the n-th that an agent has generated.  An agent is a       *)
(* record; the operators below return the record that a method leaves, in  *)
(* whose write_outs are the messages it sends.                             *)
(***************************************************************************)
EXTENDS Naturals, Sequences, FiniteSetsExt

CONSTANTS
    Agents,         \* the two agents
    Addrs,          \* the addresses of each agent
    TieBreaker,     \* tie_breaker of each agent
    Plans,          \* see plan
    MaxBinding      \* max_binding_requests

VARIABLES
    plan,           \* the one of Plans that this behaviour follows: the agents told to control,
                    \* the credentials each may generate and the messages in transit (bounds of
                    \* the model), whether an offer may be discarded, whether long silences and
                    \* closing are left out (a bound of the model), and the addresses that
                    \* are gathered at first, given in descriptions, and gathered (again) and
                    \* signalled at any time
    agent,          \* the two agents
    signaling,      \* signaling_state of their peer connections
    channel,        \* the description on its way to one of them
    net             \* messages in transit

vars == <<plan, agent, signaling, channel, net>>

None == 0
Peer(x) == CHOOSE y \in Agents : y # x
\* A finite set, one after the other.
InSomeOrder(S) ==
    CHOOSE f \in [1 .. Cardinality(S) -> S] : \A i, j \in DOMAIN f : f[i] = f[j] => i = j

Owner(addr) == CHOOSE x \in Agents : addr \in Addrs[x]

----------------------------------------------------------------------------
(* The state of an agent. *)

NewAgent(x) ==
    [connection_state |-> "New", is_controlling |-> FALSE,
     local_credentials |-> 1, pending_local_credentials |-> None, remote_credentials |-> None,
     generated |-> 1,                   \* the credentials generated so far
     local_candidates |-> InSomeOrder(plan.gathered \cap Addrs[x]),
     remote_candidates |-> <<>>,        \* [addr, type]
     candidate_pairs |-> <<>>, nominated_pair |-> None, selected_pair |-> None,
     silent |-> 0,                      \* timeouts since last_received of the selected candidate
     was_checking |-> FALSE,            \* last_connection_state is Checking
     checking |-> 0,                    \* timeouts since checking_duration, if it is
     write_outs |-> {}]

\* The timeouts after which silence, or checking, makes an agent fail; one disconnects it.
FailedTimeout == 2

rank(type) == IF type = "host" THEN 2 ELSE 1

\* Messages. Of the transaction ID they keep whether it is still in the requester's
\* pending_binding_requests, from which it expires (Tick) or is cleared (apply_restart).
Request(a, local, remote, use) ==
    [type |-> "REQUEST", from |-> local, to |-> remote, use_candidate |-> use, pending |-> TRUE,
     controlling |-> a.is_controlling,
     username |-> <<a.remote_credentials, a.local_credentials>>]
Success(a, m) ==
    [type |-> "SUCCESS", from |-> m.to, to |-> m.from, use_candidate |-> m.use_candidate,
     pending |-> m.pending, key |-> a.local_credentials]

NewPair(l, r) == [local |-> l, remote |-> r, state |-> "Waiting", binding_request_count |-> 0]
add_pair(a, l, r) == [a EXCEPT !.candidate_pairs = Append(@, NewPair(l, r))]

IndexOf(s, Test(_)) ==
    IF \E i \in DOMAIN s : Test(s[i]) THEN Min({i \in DOMAIN s : Test(s[i])}) ELSE None
find_pair(a, l, r) == IndexOf(a.candidate_pairs, LAMBDA p : p.local = l /\ p.remote = r)
find_remote_candidate(a, addr) == IndexOf(a.remote_candidates, LAMBDA c : c.addr = addr)
find_local_candidate(a, addr) == IndexOf(a.local_candidates, LAMBDA c : c = addr)

\* get_best_available_pair and get_best_valid_candidate_pair: the first of the highest priority.
Best(a, states) ==
    LET pr(i) == rank(a.remote_candidates[a.candidate_pairs[i].remote].type)
        ok == {i \in DOMAIN a.candidate_pairs : a.candidate_pairs[i].state \in states}
        top == {i \in ok : \A j \in ok : pr(j) <= pr(i)}
    IN  IF ok = {} THEN None ELSE Min(top)
get_best_available_pair(a) == Best(a, {"Waiting", "InProgress", "Succeeded"})
get_best_valid_candidate_pair(a) == Best(a, {"Succeeded"})

delete_all_candidates(a, keep_local) ==
    [a EXCEPT !.local_candidates = IF keep_local THEN @ ELSE <<>>, !.remote_candidates = <<>>,
              !.candidate_pairs = <<>>, !.selected_pair = None, !.nominated_pair = None,
              !.silent = 0]

update_connection_state(a, new) ==
    IF a.connection_state = new THEN a
    ELSE [(IF new = "Failed" THEN delete_all_candidates([a EXCEPT !.selected_pair = None], FALSE)
           ELSE a) EXCEPT !.connection_state = new]

set_selected_pair(a, i) ==
    update_connection_state([a EXCEPT !.selected_pair = i], "Connected")

----------------------------------------------------------------------------
(* Checks. *)

\* remove_expired, or the clearing of the requests that x has pending.
Requester(m) == Owner(IF m.type = "REQUEST" THEN m.from ELSE m.to)
Expired(x) == {IF Requester(m) = x THEN [m EXCEPT !.pending = FALSE] ELSE m : m \in net}

send_binding_request(a, l, r, use) ==
    [a EXCEPT !.write_outs =
        @ \cup {Request(a, a.local_candidates[l], a.remote_candidates[r].addr, use)}]

ping_candidate(a, l, r) ==
    IF a.remote_credentials = None THEN a ELSE send_binding_request(a, l, r, FALSE)

nominate_pair(a) ==
    LET p == a.candidate_pairs[a.nominated_pair]
    IN  IF a.remote_credentials = None THEN a ELSE send_binding_request(a, p.local, p.remote, TRUE)

Tried(p) == p.state \in {"Waiting", "InProgress"}
Pinged(p) ==
    IF ~ Tried(p) THEN p
    ELSE IF p.binding_request_count > MaxBinding THEN [p EXCEPT !.state = "Failed"]
    ELSE [p EXCEPT !.state = "InProgress", !.binding_request_count = @ + 1]
ping_all_candidates(a) ==
    LET pairs == a.candidate_pairs
        pinged == {i \in DOMAIN pairs : Tried(pairs[i]) /\ pairs[i].binding_request_count <= MaxBinding}
    IN  [a EXCEPT !.candidate_pairs = [i \in DOMAIN pairs |-> Pinged(pairs[i])],
                  !.write_outs = @ \cup UNION {ping_candidate(a, pairs[i].local, pairs[i].remote).write_outs : i \in pinged}]

validate_selected_pair(a) ==
    update_connection_state(a, IF a.silent >= FailedTimeout THEN "Failed"
                               ELSE IF a.silent >= 1 THEN "Disconnected" ELSE "Connected")

\* Whether keepalive_interval, or the wait for a peer-reflexive candidate, is over is the
\* caller's choice.
check_keepalive(a, over) ==
    LET p == a.candidate_pairs[a.selected_pair]
    IN  IF a.selected_pair # None /\ over THEN ping_candidate(a, p.local, p.remote) ELSE a

\* The wait for a host candidate is zero.
is_nominatable(a, i, waited) ==
    a.remote_candidates[a.candidate_pairs[i].remote].type = "host" \/ waited

\* The controlling agent repeats its nomination.
Nominated(a) == a.is_controlling /\ a.nominated_pair # None

contact_candidates(a, over) ==
    LET best == get_best_valid_candidate_pair(a)
    IN  IF a.selected_pair # None THEN check_keepalive(validate_selected_pair(a), over)
        ELSE IF Nominated(a) THEN nominate_pair(a)
        ELSE IF a.is_controlling /\ best # None /\ is_nominatable(a, best, over)
        THEN nominate_pair([a EXCEPT !.nominated_pair = best])
        ELSE ping_all_candidates(a)

contact(a, over) ==
    LET failed == a.connection_state = "Checking" /\ a.was_checking /\ a.checking >= FailedTimeout
        a1 == IF a.connection_state = "Failed" THEN a
              ELSE IF failed THEN update_connection_state(a, "Failed")
              ELSE contact_candidates(a, over)
        checks == a1.connection_state = "Checking"
    IN  [a1 EXCEPT !.was_checking = checks, !.checking = IF checks /\ a.was_checking THEN @ ELSE 0]

----------------------------------------------------------------------------
(* Answers. *)

switch_role(a) == [a EXCEPT !.is_controlling = ~ @, !.nominated_pair = None]

SwitchesRole(x, a, m) ==
    /\ m.type = "REQUEST" /\ m.controlling = a.is_controlling
    /\ IF a.is_controlling THEN TieBreaker[x] < TieBreaker[Owner(m.from)]
                           ELSE TieBreaker[x] > TieBreaker[Owner(m.from)]

\* trigger_request_connectivity_check: candidates that are not there yet, and the pairs of each
\* with all the local ones.
IsKnown(a, addr, type) ==
    \E i \in DOMAIN a.remote_candidates : a.remote_candidates[i] = [addr |-> addr, type |-> type]
AddNew(a, new) ==
    LET m == Len(a.local_candidates)
        n == Len(a.remote_candidates)
    IN  [a EXCEPT !.remote_candidates = @ \o new,
                  !.candidate_pairs = @ \o [k \in 1 .. Len(new) * m |->
                                               NewPair(((k - 1) % m) + 1, n + ((k - 1) \div m) + 1)]]
AddRemote(a, addr, type) ==
    IF IsKnown(a, addr, type) THEN a ELSE AddNew(a, <<[addr |-> addr, type |-> type]>>)

Selects(a, m) == m.use_candidate /\ a.selected_pair = None

\* The candidates of the peer's description.
AddDescribed(x, a) ==
    LET new == InSomeOrder({addr \in plan.described \cap Addrs[Peer(x)] : ~ IsKnown(a, addr, "host")})
    IN  AddNew(a, [i \in DOMAIN new |-> [addr |-> new[i], type |-> "host"]])

\* Of the controlling and of the controlled selector.
handle_success_response(a, m, l, r) ==
    LET i == find_pair(a, l, r)
        a1 == [a EXCEPT !.candidate_pairs = [@ EXCEPT ![i] = [a.candidate_pairs[i] EXCEPT !.state = "Succeeded"]]]
    IN  IF ~ m.pending \/ i = None THEN a
        ELSE IF a.is_controlling /\ Selects(a, m) THEN set_selected_pair(a1, i)
        ELSE a1

handle_binding_request_controlling(a, m, l, r, waited) ==
    LET i == find_pair(a, l, r)
        a1 == [a EXCEPT !.write_outs = @ \cup {Success(a, m)}]
    IN  IF i = None THEN add_pair(a1, l, r)
        ELSE IF /\ a.candidate_pairs[i].state = "Succeeded"
                /\ a.nominated_pair = None /\ a.selected_pair = None
                /\ get_best_available_pair(a) = i /\ is_nominatable(a, i, waited)
        THEN nominate_pair([a1 EXCEPT !.nominated_pair = i])
        ELSE a1

\* The nominated pair is that on which the request came.
PairNominated_best(a, i) == get_best_valid_candidate_pair(a)   \* mutant
PairNominated(a, i) == i

Valid(p) == p.state = "Succeeded"

handle_binding_request_controlled(a, m, l, r) ==
    LET a1 == IF find_pair(a, l, r) = None THEN add_pair(a, l, r) ELSE a
        i == find_pair(a1, l, r)
        answered == [a1 EXCEPT !.write_outs = @ \cup {Success(a, m)}]
    IN  IF ~ m.use_candidate THEN ping_candidate(answered, l, r)
        ELSE IF ~ Valid(a1.candidate_pairs[i]) THEN ping_candidate(a1, l, r)
        ELSE IF Selects(a, m) THEN set_selected_pair(answered, PairNominated(a1, i))
        ELSE answered

seen(a, r) ==
    IF a.selected_pair # None /\ a.candidate_pairs[a.selected_pair].remote = r
    THEN [a EXCEPT !.silent = 0] ELSE a

\* The repair of a role conflict comes first, whatever then becomes of the message. (Its 487
\* answer is not put on the network: handle_inbound refuses it unread.)
handle_inbound(x, m, waited) ==
    LET a == IF SwitchesRole(x, agent[x], m) THEN switch_role(agent[x]) ELSE agent[x]
        l == find_local_candidate(a, m.to)
        a1 == IF m.type = "REQUEST" /\ find_remote_candidate(a, m.from) = None
              THEN AddRemote(a, m.from, "prflx") ELSE a
        r == find_remote_candidate(a1, m.from)
    IN  IF l = None THEN agent[x]
        ELSE IF a.remote_credentials = None THEN a
        ELSE IF m.type = "SUCCESS"
        THEN IF m.key = a.remote_credentials /\ r # None
             THEN LET b == handle_success_response(a, m, l, r) IN seen(b, r) ELSE a
        ELSE IF m.username # <<a.local_credentials, a.remote_credentials>> THEN a
        ELSE seen(IF a1.is_controlling THEN handle_binding_request_controlling(a1, m, l, r, waited)
                  ELSE handle_binding_request_controlled(a1, m, l, r), r)

----------------------------------------------------------------------------
(* The calls of the peer connection. *)

add_local_candidate(a, addr) ==
    [a EXCEPT !.local_candidates = Append(@, addr),
              !.candidate_pairs = @ \o [r \in DOMAIN a.remote_candidates |->
                                           NewPair(Len(a.local_candidates) + 1, r)]]

\* ControllingSelector::start; that of the controlled agent does nothing.
start(a) == IF a.is_controlling THEN [a EXCEPT !.nominated_pair = None] ELSE a

start_connectivity_checks(a, controlling, credentials) ==
    update_connection_state(start([a EXCEPT !.remote_credentials = credentials,
                                            !.is_controlling = controlling]), "Checking")

generate_restart_credentials(a) ==
    [a EXCEPT !.pending_local_credentials = a.generated + 1, !.generated = @ + 1]

\* The local candidates are kept, which is the default.
apply_restart(a) ==
    LET a1 == [a EXCEPT !.local_credentials = IF a.pending_local_credentials = None THEN @
                                              ELSE a.pending_local_credentials,
                        !.pending_local_credentials = None, !.remote_credentials = None,
                        !.candidate_pairs = <<>>, !.selected_pair = None]
        a2 == start(delete_all_candidates(a1, TRUE))
    IN  IF a.connection_state = "New" THEN a2 ELSE update_connection_state(a2, "Checking")

\* set_local_description applies what an earlier create_offer has staged.
Applied(a) == IF a.pending_local_credentials = None THEN a ELSE apply_restart(a)

----------------------------------------------------------------------------

Init ==
    /\ plan \in Plans
    /\ agent = [x \in Agents |-> NewAgent(x)]
    /\ signaling = [x \in Agents |-> "stable"]
    /\ channel = {}
    /\ net = {}

\* The agent after a call; what it wrote joins the others on the network, as far as there
\* is room.
Becomes(x, a, others) ==
    /\ agent' = [agent EXCEPT ![x] = [a EXCEPT !.write_outs = {}]]
    /\ \E kept \in SUBSET a.write_outs :
          /\ Cardinality(others \cup kept) =
                Min({plan.net, Cardinality(others \cup a.write_outs)})
          /\ net' = others \cup kept

AddLocalCandidate(x) ==
    /\ agent[x].connection_state # "Closed"
    /\ \E addr \in (Addrs[x] \cap plan.trickled) \ {agent[x].local_candidates[i] : i \in DOMAIN agent[x].local_candidates} :
          Becomes(x, add_local_candidate(agent[x], addr), net)
    /\ UNCHANGED <<plan, signaling, channel>>

AddRemoteCandidate(x) ==
    /\ agent[x].remote_credentials # None /\ agent[x].connection_state # "Closed"
    /\ \E addr \in plan.trickled \cap Addrs[Peer(x)] :
          Becomes(x, AddRemote(agent[x], addr, "host"), net)
    /\ UNCHANGED <<plan, signaling, channel>>

\* IceTransport::start, of the first negotiation.
Start(x) ==
    /\ agent[x].connection_state = "New"
    /\ Becomes(x, start_connectivity_checks(AddDescribed(x, agent[x]), x \in plan.controlling,
                                            agent[Peer(x)].local_credentials), net)
    /\ UNCHANGED <<plan, signaling, channel>>

HandleTimeout(x) ==
    /\ agent[x].remote_credentials # None
    /\ \E over \in BOOLEAN : Becomes(x, contact(agent[x], over), net)
    /\ UNCHANGED <<plan, signaling, channel>>

\* A time passes that is longer than a pending request is kept and than disconnected_timeout.
Older(n, counts) == IF counts /\ n < FailedTimeout THEN n + 1 ELSE n
Aged(a) == [a EXCEPT !.checking = Older(a.checking, a.was_checking),
                     !.silent = Older(a.silent, a.selected_pair # None)]
Tick(x) ==
    /\ ~ plan.calm
    /\ agent' = [agent EXCEPT ![x] = Aged(@)]
    /\ net' = Expired(x)
    /\ UNCHANGED <<plan, signaling, channel>>

Receive(m) ==
    /\ LET x == Owner(m.to)
       IN  \E waited \in BOOLEAN : Becomes(x, handle_inbound(x, m, waited), net \ {m})
    /\ UNCHANGED <<plan, signaling, channel>>

Lose(m) == net' = net \ {m} /\ UNCHANGED <<plan, agent, signaling, channel>>

Close(x) ==
    /\ ~ plan.calm
    /\ agent[x].connection_state # "Closed"
    /\ Becomes(x, [delete_all_candidates(agent[x], FALSE) EXCEPT !.connection_state = "Closed"], net)
    /\ UNCHANGED <<plan, signaling, channel>>

----------------------------------------------------------------------------
(* Renegotiation, of peer connections that have both started. *)

\* A restart always installs new credentials.
Restarts(old, new) == old.local_credentials # new.local_credentials

Quiet == /\ channel = {} /\ \A x \in Agents : signaling[x] = "stable"
Started == \A x \in Agents : agent[x].connection_state \notin {"New", "Closed"}

\* create_offer with ice_restart, for an offer that is thrown away.
DiscardOffer(x) ==
    /\ plan.discards /\ Quiet /\ Started /\ agent[x].generated < plan.credentials
    /\ Becomes(x, generate_restart_credentials(agent[x]), net)
    /\ UNCHANGED <<plan, signaling, channel>>

\* create_offer, with or without ice_restart, and set_local_description.
Offer(x) ==
    /\ Quiet /\ Started
    /\ \E restart \in BOOLEAN :
          /\ restart => agent[x].generated < plan.credentials
          /\ LET a == Applied(IF restart THEN generate_restart_credentials(agent[x]) ELSE agent[x])
             IN  /\ Becomes(x, a, IF Restarts(agent[x], a) THEN Expired(x) ELSE net)
                 /\ channel' = {[to |-> Peer(x), type |-> "offer",
                                  credentials |-> a.local_credentials]}
    /\ signaling' = [signaling EXCEPT ![x] = "have-local-offer"]
    /\ UNCHANGED plan

\* set_remote_description: an answerer whose peer has changed its credentials restarts.
Remote_late(a, d) ==                                       \* mutant: the two calls swapped
    IF d.credentials = a.remote_credentials THEN a
    ELSE LET b == [a EXCEPT !.remote_credentials = d.credentials]
         IN  IF d.type = "offer" THEN apply_restart(generate_restart_credentials(b)) ELSE b
Remote(a, d) ==
    IF d.credentials = a.remote_credentials THEN a
    ELSE [(IF d.type = "offer" THEN apply_restart(generate_restart_credentials(a)) ELSE a)
             EXCEPT !.remote_credentials = d.credentials]

SetRemoteDescription(x) ==
    /\ agent[x].connection_state # "Closed"
    /\ \E d \in channel : /\ d.to = x
                          /\ LET a == AddDescribed(x, Remote(agent[x], d))
                             IN  Becomes(x, a, IF Restarts(agent[x], a) THEN Expired(x) ELSE net)
                          /\ signaling' = [signaling EXCEPT ![x] = IF d.type = "offer"
                                              THEN "have-remote-offer" ELSE "stable"]
    /\ channel' = {}
    /\ UNCHANGED plan

\* create_answer and set_local_description.
Answer(x) ==
    /\ signaling[x] = "have-remote-offer" /\ agent[x].connection_state # "Closed"
    /\ LET a == Applied(agent[x])
       IN  /\ Becomes(x, a, IF Restarts(agent[x], a) THEN Expired(x) ELSE net)
           /\ channel' = {[to |-> Peer(x), type |-> "answer", credentials |-> a.local_credentials]}
    /\ signaling' = [signaling EXCEPT ![x] = "stable"]
    /\ UNCHANGED plan

Next ==
    \/ \E x \in Agents : \/ AddLocalCandidate(x) \/ AddRemoteCandidate(x)
                         \/ Start(x) \/ HandleTimeout(x) \/ Tick(x) \/ Close(x)
                         \/ DiscardOffer(x) \/ Offer(x) \/ SetRemoteDescription(x) \/ Answer(x)
    \/ \E m \in net : Receive(m) \/ Lose(m)

Spec == Init /\ [][Next]_vars

----------------------------------------------------------------------------

ConnectionStates ==
    {"New", "Checking", "Connected", "Disconnected", "Failed", "Closed"}

\* Types; and every index the agent keeps is that of something it still has: a pair names
\* candidates, the selected and the nominated pair are pairs (the comments on issue #88).
TypeOK ==
    \A x \in Agents :
       LET a == agent[x] pairs == a.candidate_pairs
       IN  /\ a.connection_state \in ConnectionStates
           /\ a.selected_pair \in 0 .. Len(pairs) /\ a.nominated_pair \in 0 .. Len(pairs)
           /\ \A i \in DOMAIN pairs : /\ pairs[i].local \in DOMAIN a.local_candidates
                                      /\ pairs[i].remote \in DOMAIN a.remote_candidates
                                      /\ pairs[i].binding_request_count \in 0 .. MaxBinding + 1

\* An agent reports a connection exactly while it has a selected pair, and that pair has
\* answered a check of its own.
ConnectedSelected ==
    \A x \in Agents :
       LET a == agent[x]
       IN  /\ a.connection_state \in {"Connected", "Disconnected"} <=> a.selected_pair # None
           /\ a.selected_pair # None => a.candidate_pairs[a.selected_pair].state = "Succeeded"

\* A role conflict is repaired once: whatever old requests are still on their way, the roles
\* of the two agents never become equal again.
RolesSettle ==
    Started /\ (\A x, y \in Agents : x # y => agent[x].is_controlling # agent[y].is_controlling)
       => \A x, y \in Agents : x # y => agent'[x].is_controlling # agent'[y].is_controlling

\* The address pair an agent has selected, as its own address and the peer's.
Selected(x) ==
    LET a == agent[x] p == a.candidate_pairs[a.selected_pair]
    IN  <<a.local_candidates[p.local], a.remote_candidates[p.remote].addr>>

\* Two agents that are both connected, in the same session, and were given different roles
\* have selected the same pair: nomination is final.
SelectedAgree ==
    \A x, y \in Agents :
       /\ x # y /\ Cardinality(plan.controlling) = 1 /\ ~ plan.discards
       /\ agent[x].selected_pair # None /\ agent[y].selected_pair # None
       /\ agent[x].remote_credentials = agent[y].local_credentials
       /\ agent[y].remote_credentials = agent[x].local_credentials
       => Selected(x) = <<Selected(y)[2], Selected(y)[1]>>

\* When no description is under way, each agent has the other's credentials, or checks would
\* be refused for good: an agent restarts whenever its peer does.
CredentialsAgree ==
    Quiet /\ Started /\ ~ plan.discards
    => \A x \in Agents : agent[x].remote_credentials = agent[Peer(x)].local_credentials

----------------------------------------------------------------------------
(* What the proofs add (IceAgentProofs). *)

Parameters ==
    /\ \E u, v \in Agents : u # v /\ Agents = {u, v}
    \* the addresses of an agent are finitely many: any of them can be listed
    /\ \A x \in Agents : \A S \in SUBSET Addrs[x] : InSomeOrder(S) \in Seq(S)
    /\ \A x, y \in Agents : x # y => Addrs[x] \cap Addrs[y] = {}
    /\ \A x \in Agents : TieBreaker[x] \in Nat
    /\ \A x, y \in Agents : x # y => TieBreaker[x] # TieBreaker[y]
    /\ MaxBinding \in Nat

AllAddrs == UNION {Addrs[x] : x \in Agents}
Candidates == [addr : AllAddrs, type : {"host", "prflx"}]
Pairs == [local : Nat, remote : Nat, state : {"Waiting", "InProgress", "Failed", "Succeeded"},
          binding_request_count : 0 .. MaxBinding + 1]
AgentFields ==
    {"connection_state", "is_controlling", "local_credentials", "pending_local_credentials", "remote_credentials",
     "generated", "local_candidates", "remote_candidates", "candidate_pairs", "nominated_pair", "selected_pair",
     "silent", "was_checking", "checking", "write_outs"}

\* The pairs of an agent name its candidates.
Named(a, pairs) == \A i \in DOMAIN pairs : /\ pairs[i].local \in DOMAIN a.local_candidates
                                           /\ pairs[i].remote \in DOMAIN a.remote_candidates
\* The tables of an agent.
Tables(x, a) ==
    /\ DOMAIN a = AgentFields
    /\ a.is_controlling \in BOOLEAN
    /\ a.local_candidates \in Seq(Addrs[x]) /\ a.remote_candidates \in Seq(Candidates)
    /\ a.candidate_pairs \in Seq(Pairs) /\ Named(a, a.candidate_pairs)
    /\ a.nominated_pair \in 0 .. Len(a.candidate_pairs)
\* An agent is connected while it has selected a pair; a closed one has no address left, and one
\* that is new no peer yet.
Stated(a) ==
    /\ a.connection_state \in ConnectionStates
    /\ a.selected_pair \in 0 .. Len(a.candidate_pairs)
    /\ a.connection_state \in {"Connected", "Disconnected"} <=> a.selected_pair # None
    /\ a.selected_pair # None => a.candidate_pairs[a.selected_pair].state = "Succeeded"
    /\ a.connection_state = "Closed" => a.local_candidates = <<>>
    /\ a.connection_state = "New" => a.remote_credentials = None

RequestFields == {"type", "from", "to", "use_candidate", "pending", "controlling", "username"}
SuccessFields == {"type", "from", "to", "use_candidate", "pending", "key"}
\* Messages are between addresses of the agents.
Message(m) ==
    /\ m.from \in AllAddrs /\ m.to \in AllAddrs
    /\ \/ m.type = "REQUEST" /\ DOMAIN m = RequestFields
       \/ m.type = "SUCCESS" /\ DOMAIN m = SuccessFields
\* A request claims the role of the agent that wrote it.
Claims(x, controlling, m) == m.type = "REQUEST" => m.from \in Addrs[x] /\ m.controlling = controlling
Writes(x, a) == \A m \in a.write_outs : Message(m) /\ Claims(x, a.is_controlling, m)

Running(x) == agent[x].connection_state \notin {"New", "Closed"}
\* The agent whose tie-breaker decides a conflict, and the other one.
Winner == CHOOSE x \in Agents : \A y \in Agents : TieBreaker[y] <= TieBreaker[x]
Loser == Peer(Winner)
\* The winner is never made to give up control, nor the loser to take it.  When each was given the
\* role that it would not win, neither claims any other.
RolesOK ==
    /\ Running(Winner) /\ Winner \in plan.controlling => agent[Winner].is_controlling
    /\ Running(Loser) /\ Loser \notin plan.controlling => ~ agent[Loser].is_controlling
    /\ Winner \notin plan.controlling /\ Loser \in plan.controlling =>
          /\ \A x \in Agents : /\ Running(x) => (agent[x].is_controlling <=> x = Loser)
                               /\ agent[x].connection_state = "New" => ~ agent[x].is_controlling
          /\ \A m \in net : m.type = "REQUEST" => (m.controlling <=> m.from \in Addrs[Loser])

\* A description carries the credentials of its sender, and whoever took one has them.
Offering(x) == /\ signaling[x] = "have-local-offer" /\ signaling[Peer(x)] = "stable"
               /\ channel = {[to |-> Peer(x), type |-> "offer", credentials |-> agent[x].local_credentials]}
Answering(x) == /\ signaling[x] = "have-local-offer" /\ signaling[Peer(x)] = "have-remote-offer"
                /\ channel = {}
                /\ agent[Peer(x)].remote_credentials = agent[x].local_credentials
Answered(x) == /\ signaling[x] = "have-local-offer" /\ signaling[Peer(x)] = "stable"
               /\ channel = {[to |-> x, type |-> "answer", credentials |-> agent[Peer(x)].local_credentials]}
               /\ agent[Peer(x)].remote_credentials = agent[x].local_credentials
CredentialsOK ==
    /\ \A x \in Agents : agent[x].pending_local_credentials = None
    /\ \/ \E x \in Agents : agent[x].connection_state = "Closed"
       \/ Quiet /\ \A x \in Agents : agent[x].connection_state # "New" =>
                                        agent[x].remote_credentials = agent[Peer(x)].local_credentials
       \/ \E x \in Agents : Offering(x) \/ Answering(x) \/ Answered(x)

AgentsOK ==
    /\ DOMAIN agent = Agents
    /\ \A x \in Agents : Tables(x, agent[x]) /\ Stated(agent[x]) /\ agent[x].write_outs = {}
IInv ==
    /\ AgentsOK
    /\ DOMAIN signaling = Agents
    /\ \A m \in net : Message(m)
    /\ ~ Quiet => \A x \in Agents : agent[x].connection_state # "New"
    /\ RolesOK
    /\ ~ plan.discards => CredentialsOK

============================================================================
