-------------------------------- MODULE Turn --------------------------------
(***************************************************************************)
(* The TURN client of rtc-turn: allocations on a relay, permissions for the *)
(* peers, channels bound to them, and the timers that keep all three alive. *)
(* The server and the network are external: the server answers by RFC 5766, *)
(* the network loses, delays and reorders.                                  *)
(*                                                                          *)
(* A unit of the clock is far longer than a transaction with all its        *)
(* retransmissions (eight seconds against minutes): the clock moves only    *)
(* when no transaction is under way, and a retransmission timer may run out *)
(* at any moment in between.                                                *)
(***************************************************************************)
EXTENDS Integers, FiniteSets

CONSTANTS Peers,             \* peers the application talks to
          Addrs,             \* relayed addresses of the server
          MAX_CHANNEL,       \* channel numbers are 1 .. MAX_CHANNEL
          PERM_REFRESH_INTERVAL, PERM_LIFETIME, CHANNEL_LIFETIME, MIN_ALLOC_REFRESH_INTERVAL,
          interval_cap,      \* the application's cap on the interval of refreshes: without one, beyond every lifetime
          MAX_RTX_COUNT,     \* requests of a transaction
          Plans,             \* bounds of a run: calls, losses, faults, ticks; and the lifetime granted
          Outstanding        \* bound: transactions under way when the application calls

VARIABLES plan,          \* what may still happen, chosen at the start
          clock,
          credential,    \* the credential in use
          tr_map,        \* transaction id -> transaction
          next_tid,
          relays,        \* relayed address -> RelayState
          addr_map,      \* peer -> Binding
          chan_map,      \* channel number -> peer
          next_channel,
          requests, responses, frames,     \* in flight
          server,
          faults,        \* transactions that timed out and nonces that went stale
          received       \* <<peer that sent, peer reported>> of channel data
client == <<credential, tr_map, next_tid, relays, addr_map, chan_map, next_channel>>
vars == <<plan, clock, credential, tr_map, next_tid, relays, addr_map, chan_map, next_channel, requests, responses, frames,
          server, faults, received>>

NoPeer == "no peer"
NoAddr == "no address"
Empty == [x \in {} |-> 0]
Without(f, x) == [y \in DOMAIN f \ {x} |-> f[y]]
Put(f, x, y) == [z \in DOMAIN f \cup {x} |-> IF z = x THEN y ELSE f[z]]
\* the values of g, and f's where it has none
Over(g, f) == [z \in DOMAIN g \cup DOMAIN f |-> IF z \in DOMAIN g THEN g[z] ELSE f[z]]
MaxOf(a, b) == IF a > b THEN a ELSE b
MinOf(a, b) == IF a < b THEN a ELSE b

allocation_refresh_interval(lifetime) == MaxOf(MinOf(lifetime \div 2, interval_cap), MIN_ALLOC_REFRESH_INTERVAL)

(***************************************************************************)
(* Requests and transactions.                                               *)
(***************************************************************************)
Request(tid, method, nonce, user, key, peers, number, lifetime) ==
    [tid |-> tid, method |-> method, nonce |-> nonce, user |-> user, key |-> key, peers |-> peers, number |-> number,
     lifetime |-> lifetime]
Transaction(type, addr, peer, r) == [type |-> type, addr |-> addr, peer |-> peer, request |-> r, n_rtx |-> 0]
perform_transaction(type, addr, peer, r) ==
    /\ tr_map' = Put(tr_map, r.tid, Transaction(type, addr, peer, r))
    /\ requests' = requests \cup {r}
    /\ next_tid' = next_tid + 2
\* a request of an allocation, signed with the key it keeps
Signed(addr, method, peers, number, lifetime) ==
    Request(next_tid, method, relays[addr].nonce, credential, relays[addr].key, peers, number, lifetime)

RelayState(nonce, lifetime) ==
    [key |-> credential, nonce |-> nonce, lifetime |-> lifetime, perm_map |-> Empty,
     refresh_alloc_timer |-> clock + allocation_refresh_interval(lifetime),
     refresh_perms_timer |-> clock + PERM_REFRESH_INTERVAL]

Calling == Cardinality(DOMAIN tr_map) < Outstanding
Budget(what) == plan[what] > 0 /\ plan' = [plan EXCEPT ![what] = @ - 1]

(***************************************************************************)
(* Calls of the application.                                                *)
(***************************************************************************)
\* a five-tuple has one allocation: the application asks for another when the last is gone
Allocate ==
    /\ relays = Empty /\ tr_map = Empty
    /\ Calling /\ Budget("allocate")
    /\ perform_transaction("allocate_attempt", NoAddr, NoPeer, Request(next_tid, "allocate", 0, 0, 0, {}, 0, 0))
    /\ UNCHANGED <<clock, credential, relays, addr_map, chan_map, next_channel, responses, frames, server, faults, received>>

create_permission(addr, p) ==
    /\ addr \in DOMAIN relays
    /\ p \in DOMAIN relays[addr].perm_map => relays[addr].perm_map[p] = "idle"
    /\ Calling /\ Budget("permit")
    /\ relays' = [relays EXCEPT ![addr].perm_map = Put(@, p, "idle")]
    /\ perform_transaction("create_permission", addr, p, Signed(addr, "create_permission", {p}, 0, 0))
    /\ UNCHANGED <<clock, credential, addr_map, chan_map, next_channel, responses, frames, server, faults, received>>

assign_channel_number == next_channel' = IF next_channel = MAX_CHANNEL THEN 1 ELSE next_channel + 1
Binding(number, st) == [number |-> number, st |-> st, refreshed_at |-> clock]
channel_bind(addr, p, number) ==
    perform_transaction("channel_bind", addr, p, Signed(addr, "channel_bind", {p}, number, 0))
\* the first data: a new binding, asked for at once
Bind(addr, p) ==
    /\ p \notin DOMAIN addr_map
    /\ assign_channel_number
    /\ addr_map' = Put(addr_map, p, Binding(next_channel, "request"))
    /\ chan_map' = Put(chan_map, next_channel, p)
    /\ channel_bind(addr, p, next_channel)
Rebind(addr, p) ==
    /\ p \in DOMAIN addr_map
    /\ addr_map[p].st = "ready" /\ clock - addr_map[p].refreshed_at > PERM_LIFETIME
    /\ addr_map' = [addr_map EXCEPT ![p].st = "refresh"]
    /\ channel_bind(addr, p, addr_map[p].number)
    /\ UNCHANGED <<chan_map, next_channel>>
\* the data itself goes in an indication or on the channel: no state changes
send_to(addr, p) ==
    /\ addr \in DOMAIN relays
    /\ p \in DOMAIN relays[addr].perm_map /\ relays[addr].perm_map[p] = "permitted"
    /\ Calling /\ Budget("send")
    /\ Bind(addr, p) \/ Rebind(addr, p)
    /\ UNCHANGED <<clock, credential, relays, responses, frames, server, faults, received>>

refresh_allocation(addr, lifetime) ==
    perform_transaction("refresh", addr, NoPeer, Signed(addr, "refresh", {}, 0, lifetime))
Close(addr) ==
    /\ addr \in DOMAIN relays
    /\ Calling /\ Budget("close")
    /\ refresh_allocation(addr, 0)
    /\ UNCHANGED <<clock, credential, relays, addr_map, chan_map, next_channel, responses, frames, server, faults, received>>

refresh_allocations(addr) ==
    /\ addr \in DOMAIN relays
    /\ Calling /\ Budget("refresh")
    /\ refresh_allocation(addr, relays[addr].lifetime)
    /\ UNCHANGED <<clock, credential, relays, addr_map, chan_map, next_channel, responses, frames, server, faults, received>>
send_binding_request ==
    /\ Calling /\ Budget("binding")
    /\ perform_transaction("binding", NoAddr, NoPeer, Request(next_tid, "binding", 0, 0, 0, {}, 0, 0))
    /\ UNCHANGED <<clock, credential, relays, addr_map, chan_map, next_channel, responses, frames, server, faults, received>>
\* closing the client forgets its transactions, not its allocations
CloseClient ==
    /\ Budget("forget")
    /\ tr_map' = Empty /\ faults' = faults + 1
    /\ UNCHANGED <<clock, credential, next_tid, relays, addr_map, chan_map, next_channel, requests, responses, frames, server, received>>

update_credentials ==
    /\ Budget("credential")
    /\ credential' = credential + 1
    /\ relays' = [a \in DOMAIN relays |-> [relays[a] EXCEPT !.key = credential + 1]]
    /\ UNCHANGED <<clock, tr_map, next_tid, addr_map, chan_map, next_channel, requests, responses, frames, server, faults, received>>

(***************************************************************************)
(* handle_timeout: a transaction whose timer ran out is retransmitted or    *)
(* given up, then every allocation looks at its own two timers.             *)
(***************************************************************************)
Due(t) == t <= clock
Retransmit(tid) ==
    /\ tid \in DOMAIN tr_map
    /\ IF tr_map[tid].n_rtx + 1 = MAX_RTX_COUNT
       THEN /\ Budget("timeout")
            /\ tr_map' = Without(tr_map, tid) /\ faults' = faults + 1
            /\ UNCHANGED requests
       ELSE /\ Budget("resend")
            /\ tr_map' = [tr_map EXCEPT ![tid].n_rtx = @ + 1]
            /\ requests' = requests \cup {tr_map[tid].request}
            /\ UNCHANGED faults
    /\ UNCHANGED <<clock, credential, next_tid, relays, addr_map, chan_map, next_channel, responses, frames, server, received>>

Rearmed_slow(r) ==                         (* mutant: permissions are refreshed when they lapse *)
    [r EXCEPT !.refresh_alloc_timer = IF Due(@) THEN clock + allocation_refresh_interval(r.lifetime) ELSE @,
              !.refresh_perms_timer = IF Due(@) THEN clock + PERM_LIFETIME ELSE @]
Rearmed(r) ==
    [r EXCEPT !.refresh_alloc_timer = IF Due(@) THEN clock + allocation_refresh_interval(r.lifetime) ELSE @,
              !.refresh_perms_timer = IF Due(@) THEN clock + PERM_REFRESH_INTERVAL ELSE @]
RefreshRequest(addr, tid) == Request(tid, "refresh", relays[addr].nonce, credential, relays[addr].key, {}, 0, relays[addr].lifetime)
PermissionsRequest(addr, tid) ==
    Request(tid, "create_permission", relays[addr].nonce, credential, relays[addr].key, DOMAIN relays[addr].perm_map, 0, 0)
\* the transactions that an allocation's timers start
Refreshes(addr) ==
    (IF Due(relays[addr].refresh_alloc_timer)
     THEN {Transaction("refresh", addr, NoPeer, RefreshRequest(addr, next_tid))} ELSE {})
    \cup (IF Due(relays[addr].refresh_perms_timer) /\ DOMAIN relays[addr].perm_map # {}
          THEN {Transaction("create_permission", addr, NoPeer, PermissionsRequest(addr, next_tid + 2))} ELSE {})
Begun(trs) == [tid \in {t.request.tid : t \in trs} |-> CHOOSE t \in trs : t.request.tid = tid]
HandleTimeout(addr) ==
    /\ addr \in DOMAIN relays
    /\ Due(relays[addr].refresh_alloc_timer) \/ Due(relays[addr].refresh_perms_timer)
    /\ relays' = [relays EXCEPT ![addr] = Rearmed(@)]
    /\ tr_map' = Over(Begun(Refreshes(addr)), tr_map)
    /\ requests' = requests \cup {t.request : t \in Refreshes(addr)}
    /\ next_tid' = next_tid + 4
    /\ UNCHANGED <<plan, clock, credential, addr_map, chan_map, next_channel, responses, frames, server, faults, received>>

(***************************************************************************)
(* handle_read: the response of a transaction, or channel data.             *)
(***************************************************************************)
\* the anonymous request was refused: the same with credentials, under the next id
AllocateAttempt(r) ==
    /\ tr_map' = Put(Without(tr_map, r.tid), r.tid + 1,
                     Transaction("allocate_request", NoAddr, NoPeer,
                                 Request(r.tid + 1, "allocate", r.nonce, credential, credential, {}, 0, 0)))
    /\ requests' = requests \cup {Request(r.tid + 1, "allocate", r.nonce, credential, credential, {}, 0, 0)}
    /\ UNCHANGED <<relays, addr_map, chan_map>>
handle_allocate_response(r, t) ==
    /\ relays' = IF r.class = "error" \/ r.lifetime = 0 THEN relays
                 ELSE Put(relays, r.addr, RelayState(t.request.nonce, r.lifetime))
    /\ UNCHANGED <<addr_map, chan_map>>

STALE_NONCE == 438
set_nonce_from_msg(relay, r) == IF r.class = "error" /\ r.code = STALE_NONCE THEN [relay EXCEPT !.nonce = r.nonce] ELSE relay
Permitted(perm_map, p, class) ==
    IF class = "error" THEN Without(perm_map, p)
    ELSE IF p \in DOMAIN perm_map THEN [perm_map EXCEPT ![p] = "permitted"] ELSE perm_map
PermissionAnswered(relay, r, t) ==
    [set_nonce_from_msg(relay, r) EXCEPT
        !.perm_map = IF t.peer = NoPeer THEN relay.perm_map ELSE Permitted(relay.perm_map, t.peer, r.class)]
handle_create_permission_response(r, t) ==
    /\ relays' = [relays EXCEPT ![t.addr] = PermissionAnswered(@, r, t)]
    /\ UNCHANGED <<addr_map, chan_map>>
Refreshed(relay, r) ==
    IF r.class = "error" THEN set_nonce_from_msg(relay, r)
    ELSE [relay EXCEPT !.lifetime = r.lifetime, !.refresh_alloc_timer = clock + allocation_refresh_interval(r.lifetime)]
handle_refresh_allocation_response(r, t) ==
    /\ relays' = IF r.class = "success" /\ r.lifetime = 0 THEN Without(relays, t.addr)
                 ELSE [relays EXCEPT ![t.addr] = Refreshed(@, r)]
    /\ UNCHANGED <<addr_map, chan_map>>
delete_by_addr(p) ==
    /\ addr_map' = Without(addr_map, p)
    /\ chan_map' = IF p \in DOMAIN addr_map THEN Without(chan_map, addr_map[p].number) ELSE chan_map
handle_channel_bind_response(r, t) ==
    /\ relays' = [relays EXCEPT ![t.addr] = set_nonce_from_msg(@, r)]
    /\ IF r.class = "error" THEN delete_by_addr(t.peer)
       ELSE /\ addr_map' = IF t.peer \in DOMAIN addr_map
                           THEN [addr_map EXCEPT ![t.peer].st = "ready", ![t.peer].refreshed_at = clock] ELSE addr_map
            /\ UNCHANGED chan_map
Answered(r, t) ==
    CASE t.type = "binding" -> UNCHANGED <<relays, addr_map, chan_map>>
      [] t.type = "allocate_request" -> handle_allocate_response(r, t)
      [] t.type = "create_permission" -> handle_create_permission_response(r, t)
      [] t.type = "refresh" -> handle_refresh_allocation_response(r, t)
      [] t.type = "channel_bind" -> handle_channel_bind_response(r, t)
handle_stun_message(r) ==
    /\ responses' = responses \ {r}
    /\ IF r.tid \notin DOMAIN tr_map THEN UNCHANGED <<tr_map, requests, relays, addr_map, chan_map>>
       ELSE IF tr_map[r.tid].type = "allocate_attempt" THEN AllocateAttempt(r)
       ELSE /\ tr_map' = Without(tr_map, r.tid)
            /\ UNCHANGED requests
            /\ IF tr_map[r.tid].type \notin {"allocate_request", "binding"} /\ tr_map[r.tid].addr \notin DOMAIN relays
               THEN UNCHANGED <<relays, addr_map, chan_map>>
               ELSE Answered(r, tr_map[r.tid])
    /\ UNCHANGED <<plan, clock, credential, next_tid, next_channel, frames, server, faults, received>>
handle_channel_data(f) ==
    /\ frames' = frames \ {f}
    /\ received' = IF f.number \in DOMAIN chan_map /\ chan_map[f.number] \in DOMAIN addr_map
                   THEN received \cup {<<f.peer, chan_map[f.number]>>} ELSE received
    /\ UNCHANGED <<plan, clock, client, requests, responses, server, faults>>

(***************************************************************************)
(* The server: external.  One allocation for this client, with permissions  *)
(* and channels.                                                            *)
(***************************************************************************)
NoAllocation == [addr |-> NoAddr, expiry |-> 0, perms |-> Empty, chans |-> Empty]
Response(r, class, code, addr, lifetime) ==
    [tid |-> r.tid, class |-> class, code |-> code, nonce |-> server.nonce, addr |-> addr, lifetime |-> lifetime]
ErrorTo(r, code) == {[alloc |-> server.alloc, out |-> Response(r, "error", code, NoAddr, 0)]}
SuccessTo(r, alloc, lifetime) == {[alloc |-> alloc, out |-> Response(r, "success", 0, alloc.addr, lifetime)]}
Granted(r, lifetime) ==
    [NoAllocation EXCEPT !.addr = CHOOSE a \in Addrs : a \notin server.used, !.expiry = clock + lifetime]
Conflict(r) ==
    LET p == CHOOSE q \in r.peers : TRUE
    IN  \/ r.number \in DOMAIN server.alloc.chans /\ server.alloc.chans[r.number].peer # p
        \/ \E n \in DOMAIN server.alloc.chans : n # r.number /\ server.alloc.chans[n].peer = p
Permit(alloc, peers) == [alloc EXCEPT !.perms = Over([p \in peers |-> clock + PERM_LIFETIME], @)]
Outcomes(r) ==
    CASE r.method = "binding" -> SuccessTo(r, server.alloc, 0)
      [] r.method # "binding" /\ r.nonce = 0 -> ErrorTo(r, 401)
      [] r.nonce # 0 /\ r.nonce # server.nonce -> ErrorTo(r, STALE_NONCE)
      [] r.nonce = server.nonce /\ r.method = "allocate" ->
            IF server.alloc # NoAllocation THEN ErrorTo(r, 437)
            ELSE SuccessTo(r, Granted(r, plan.lifetime), plan.lifetime)
      [] r.nonce = server.nonce /\ r.method = "refresh" /\ r.lifetime = 0 ->
            SuccessTo(r, NoAllocation, 0)
      [] r.nonce = server.nonce /\ r.method \notin {"allocate", "refresh"} /\ server.alloc = NoAllocation -> ErrorTo(r, 437)
      [] r.nonce = server.nonce /\ r.method = "refresh" /\ r.lifetime # 0 /\ server.alloc = NoAllocation -> ErrorTo(r, 437)
      [] r.nonce = server.nonce /\ r.method = "refresh" /\ r.lifetime # 0 /\ server.alloc # NoAllocation ->
            SuccessTo(r, [server.alloc EXCEPT !.expiry = clock + r.lifetime], r.lifetime)
      [] r.nonce = server.nonce /\ r.method = "create_permission" /\ server.alloc # NoAllocation ->
            SuccessTo(r, Permit(server.alloc, r.peers), 0)
      [] r.nonce = server.nonce /\ r.method = "channel_bind" /\ server.alloc # NoAllocation ->
            IF Conflict(r) THEN ErrorTo(r, 400)
            ELSE SuccessTo(r, [Permit(server.alloc, r.peers) EXCEPT
                                  !.chans = Put(@, r.number, [peer |-> CHOOSE q \in r.peers : TRUE, expiry |-> clock + CHANNEL_LIFETIME])], 0)
\* the answers kept for retransmissions: those whose transaction may still be under way
Recent(out) == {a \in server.answers \cup {out} : a.tid \in DOMAIN tr_map}
Serve(r) ==
    /\ requests' = requests \ {r}
    /\ \E o \in IF \E a \in server.answers : a.tid = r.tid
                THEN {[alloc |-> server.alloc, out |-> a] : a \in {b \in server.answers : b.tid = r.tid}}   \* a retransmission
                ELSE Outcomes(r) :
          /\ server' = [server EXCEPT !.alloc = o.alloc, !.used = @ \cup ({o.alloc.addr} \ {NoAddr}), !.answers = Recent(o.out)]
          /\ responses' = responses \cup {o.out}
    /\ UNCHANGED <<plan, clock, client, frames, faults, received>>
RotateNonce ==
    /\ Budget("rotate")
    /\ server' = [server EXCEPT !.nonce = @ + 1] /\ faults' = faults + 1
    /\ UNCHANGED <<clock, client, requests, responses, frames, received>>
\* a peer sends, and the server forwards it on the peer's channel
Forward(n) ==
    /\ Budget("forward")
    /\ n \in DOMAIN server.alloc.chans
    /\ server.alloc.chans[n].peer \in DOMAIN server.alloc.perms
    /\ frames' = frames \cup {[number |-> n, peer |-> server.alloc.chans[n].peer]}
    /\ UNCHANGED <<clock, client, requests, responses, server, faults, received>>
Lose ==
    /\ Budget("lose")
    /\ \/ \E r \in requests : requests' = requests \ {r} /\ UNCHANGED responses
       \/ \E r \in responses : responses' = responses \ {r} /\ UNCHANGED requests
    /\ UNCHANGED <<clock, client, frames, server, faults, received>>

Alive(f) == [x \in {y \in DOMAIN f : f[y] > clock + 1} |-> f[x]]
Expired(alloc) ==
    IF alloc # NoAllocation /\ alloc.expiry <= clock + 1 THEN NoAllocation
    ELSE [alloc EXCEPT !.perms = Alive(@), !.chans = [n \in {m \in DOMAIN @ : @[m].expiry > clock + 1} |-> @[n]]]
Tick ==
    /\ Budget("tick")
    /\ tr_map = Empty /\ requests = {}
    /\ \A a \in DOMAIN relays : ~Due(relays[a].refresh_alloc_timer) /\ ~Due(relays[a].refresh_perms_timer)
    /\ clock' = clock + 1
    /\ server' = [server EXCEPT !.alloc = Expired(@)]
    /\ UNCHANGED <<client, requests, responses, frames, faults, received>>

Init ==
    /\ plan \in Plans
    /\ clock = 0 /\ credential = 1
    /\ tr_map = Empty /\ next_tid = 2 /\ relays = Empty
    /\ addr_map = Empty /\ chan_map = Empty /\ next_channel = 1
    /\ requests = {} /\ responses = {} /\ frames = {}
    /\ server = [alloc |-> NoAllocation, used |-> {}, answers |-> {}, nonce |-> 1]
    /\ faults = 0 /\ received = {}
Next ==
    \/ Allocate
    \/ \E a \in Addrs, p \in Peers : create_permission(a, p) \/ send_to(a, p)
    \/ \E a \in Addrs : Close(a) \/ HandleTimeout(a) \/ refresh_allocations(a)
    \/ update_credentials
    \/ send_binding_request
    \/ CloseClient
    \/ \E tid \in DOMAIN tr_map : Retransmit(tid)
    \/ \E r \in responses : handle_stun_message(r)
    \/ \E f \in frames : handle_channel_data(f)
    \/ \E r \in requests : Serve(r)
    \/ RotateNonce
    \/ \E n \in 1 .. MAX_CHANNEL : Forward(n)
    \/ Lose
    \/ Tick
Spec == Init /\ [][Next]_vars

(***************************************************************************)
(* Properties.                                                              *)
(***************************************************************************)
Closing(a) == \E r \in requests \cup {tr_map[t].request : t \in DOMAIN tr_map} : r.method = "refresh" /\ r.lifetime = 0

\* An allocation the client still holds is alive at the server while none of its
\* transactions failed, and a peer it believes permitted is permitted there even if
\* one of them did: the refresh timers of RelayState are early enough.
GrantsHeld ==
    \A a \in DOMAIN relays :
        /\ faults = 0 /\ ~Closing(a) /\ relays[a].lifetime >= 2 * MIN_ALLOC_REFRESH_INTERVAL => server.alloc.addr = a
        /\ faults <= 1 /\ server.alloc.addr = a =>
              \A p \in DOMAIN relays[a].perm_map : relays[a].perm_map[p] = "permitted" => p \in DOMAIN server.alloc.perms

\* Channel data is reported as coming from the peer that sent it, whatever happened
\* to the binding since the server put the number on it.
PeersNotConfused == \A x \in received : x[1] = x[2]

\* Every request is signed with the key of the user it names, and a refresh timer
\* that was handled lies ahead again, so that a driver that waits for poll_timeout
\* does not spin.
SignedRight == \A r \in requests : r.user = r.key
TimersMove ==
    [][\A a \in Addrs : HandleTimeout(a) => relays'[a].refresh_alloc_timer > clock /\ relays'[a].refresh_perms_timer > clock]_vars

(***************************************************************************)
(* What the proofs add (TurnProofs).                                        *)
(***************************************************************************)
\* The parameters of the code, and plans that bind fewer channels than there are numbers: a
\* number that is taken again while data of its last peer is under way is out of reach.
Parameters ==
    /\ PERM_REFRESH_INTERVAL \in Nat \ {0} /\ MIN_ALLOC_REFRESH_INTERVAL \in Nat \ {0}
    /\ MAX_CHANNEL \in Nat /\ interval_cap \in Nat
    /\ \A p \in Plans : /\ {"send", "lifetime"} \subseteq DOMAIN p
                        /\ p.send \in Nat /\ p.send < MAX_CHANNEL /\ p.lifetime \in Nat

\* every request that was made and may still be answered
Pending == requests \cup {tr_map[t].request : t \in DOMAIN tr_map}

TransactionFields == {"type", "addr", "peer", "request", "n_rtx"}
Types == {"binding", "allocate_attempt", "allocate_request", "refresh", "create_permission", "channel_bind"}
IsTransaction(t) == DOMAIN t = TransactionFields /\ t.type \in Types
RelayFields == {"key", "nonce", "lifetime", "perm_map", "refresh_alloc_timer", "refresh_perms_timer"}
Methods == {"binding", "allocate", "refresh", "create_permission", "channel_bind"}
Shapes ==
    /\ {"send", "lifetime"} \subseteq DOMAIN plan
    /\ \A t \in DOMAIN tr_map : IsTransaction(tr_map[t])
    /\ \A a \in DOMAIN relays : DOMAIN relays[a] = RelayFields
    /\ DOMAIN server = {"alloc", "used", "answers", "nonce"}
    /\ DOMAIN server.alloc = {"addr", "expiry", "perms", "chans"}
    /\ \A p \in DOMAIN addr_map : DOMAIN addr_map[p] = {"number", "st", "refreshed_at"}
    /\ \A r \in Pending : r.method \in Methods

\* An allocation keeps the credential in use, and every request has the key of its user.
Keyed ==
    /\ \A a \in DOMAIN relays : relays[a].key = credential
    /\ \A r \in Pending : r.user = r.key

\* Every lifetime is a number, and so are the timers set by it.
Timed ==
    /\ clock \in Nat /\ plan.lifetime \in Nat
    /\ \A r \in Pending \cup responses \cup server.answers : r.lifetime \in Nat
    /\ \A a \in DOMAIN relays : /\ relays[a].lifetime \in Nat
                                /\ relays[a].refresh_alloc_timer \in Nat /\ relays[a].refresh_perms_timer \in Nat

\* Who a channel number means to the client, to a request, to the server and to data under way.
RequestUses(r) == IF r.method = "channel_bind" THEN {<<r.number, p>> : p \in r.peers} ELSE {}
AllocUses(alloc) == {<<n, alloc.chans[n].peer>> : n \in DOMAIN alloc.chans}
TableUses == {<<n, chan_map[n]>> : n \in DOMAIN chan_map} \cup {<<addr_map[p].number, p>> : p \in DOMAIN addr_map}
PendingUses == UNION {RequestUses(r) : r \in Pending}
FrameUses == {<<f.number, f.peer>> : f \in frames}
Uses == TableUses \cup PendingUses \cup AllocUses(server.alloc) \cup FrameUses
\* One peer for a number, and no number that was not given out.
OneMeaning ==
    /\ next_channel \in Nat /\ plan.send \in Nat /\ next_channel + plan.send <= MAX_CHANNEL
    /\ \A r \in Pending : r.method = "channel_bind" => r.peers # {}
    /\ \A u \in Uses : u[1] \in Nat /\ u[1] < next_channel
    /\ \A u, v \in Uses : u[1] = v[1] => u[2] = v[2]
    /\ PeersNotConfused
IInv == Shapes /\ Keyed /\ Timed /\ OneMeaning
=============================================================================
