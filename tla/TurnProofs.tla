----------------------------- MODULE TurnProofs -----------------------------
(***************************************************************************)
(* Proofs about the TURN client (Turn), for every set of peers and relayed  *)
(* addresses, all intervals and lifetimes, and any number of retransmissions,*)
(* losses and stale nonces: requests are signed with the key of the user    *)
(* they name, channel data is attributed to the peer that sent it, and a    *)
(* refresh timer that was handled lies ahead again.                         *)
(***************************************************************************)
EXTENDS Turn, TLAPS

\* The client starts with nothing.
LEMMA InitIInv == ASSUME Parameters PROVE Init => IInv
<1> SUFFICES ASSUME Init PROVE IInv BY Zenon
<1>1. DOMAIN tr_map = {} /\ DOMAIN relays = {} /\ DOMAIN addr_map = {} /\ DOMAIN chan_map = {}
      BY Zenon DEF Init, Empty
<1>2. Pending = {} BY <1>1, Zenon DEF Init, Pending
<1>3. DOMAIN server.alloc.chans = {} BY Zenon DEF Init, NoAllocation, Empty
<1>4. Shapes BY <1>1, <1>2, Zenon DEF Init, Shapes, NoAllocation, Parameters
<1>5. Keyed BY <1>1, <1>2, Zenon DEF Keyed
<1>6. Timed BY <1>1, <1>2, Zenon DEF Init, Timed, Parameters
<1>7. Uses = {} BY <1>1, <1>2, <1>3 DEF Init, Uses, TableUses, PendingUses, FrameUses, AllocUses
<1>8. OneMeaning
  <2>1. next_channel \in Nat /\ plan.send \in Nat /\ next_channel + plan.send <= MAX_CHANNEL
        BY DEF Init, Parameters
  <2> QED BY <1>2, <1>7, <2>1, Zenon DEF Init, OneMeaning, PeersNotConfused
<1> QED BY <1>4, <1>5, <1>6, <1>8, Zenon DEF IInv

\* A step that spends a budget: what else the plan says stays.
LEMMA Spent ==
    ASSUME Shapes, OneMeaning, Timed, NEW what, Budget(what)
    PROVE  /\ {"send", "lifetime"} \subseteq DOMAIN plan'
           /\ what # "send" => plan'.send = plan.send
           /\ what # "lifetime" => plan'.lifetime = plan.lifetime
           /\ what = "send" => plan'.send = plan.send - 1 /\ plan.send > 0
BY Zenon DEF Budget, Shapes

\* A transaction that is begun adds its request to the pending ones, and nothing else.
LEMMA Performed ==
    ASSUME Shapes, NEW type \in Types, NEW addr, NEW peer, NEW r, r.method \in Methods,
           perform_transaction(type, addr, peer, r)
    PROVE  /\ \A t \in DOMAIN tr_map' : IsTransaction(tr_map'[t])
           /\ Pending' \subseteq Pending \cup {r}
<1>1. tr_map' = Put(tr_map, r.tid, Transaction(type, addr, peer, r)) /\ requests' = requests \cup {r}
      BY Zenon DEF perform_transaction
<1>2. DOMAIN tr_map' = DOMAIN tr_map \cup {r.tid} BY <1>1, Zenon DEF Put
<1>3. \A t \in DOMAIN tr_map' : tr_map'[t] = IF t = r.tid THEN Transaction(type, addr, peer, r) ELSE tr_map[t]
      BY <1>1, <1>2, Zenon DEF Put
<1>4. IsTransaction(Transaction(type, addr, peer, r))
      /\ Transaction(type, addr, peer, r).request = r
      BY Zenon DEF Transaction, TransactionFields, IsTransaction
<1>5. \A t \in DOMAIN tr_map' : IsTransaction(tr_map'[t])
      BY <1>2, <1>3, <1>4, Zenon DEF Shapes
<1>6. \A t \in DOMAIN tr_map' : tr_map'[t].request \in Pending \cup {r}
      BY <1>2, <1>3, <1>4, Zenon DEF Pending
<1>7. Pending' \subseteq Pending \cup {r} BY <1>1, <1>6, Zenon DEF Pending
<1> QED BY <1>5, <1>7, Zenon

\* Fewer uses of the numbers leave each number its one peer.
LEMMA FewerUses ==
    ASSUME OneMeaning, next_channel' = next_channel, plan'.send = plan.send, received' = received,
           Uses' \subseteq Uses,
           \A r \in Pending' : r.method = "channel_bind" => r.peers # {}
    PROVE  OneMeaning'
BY Zenon DEF OneMeaning, PeersNotConfused

\* What the invariant says of one allocation.
RelayOK(relay, cred) ==
    /\ DOMAIN relay = RelayFields
    /\ relay.key = cred
    /\ relay.lifetime \in Nat /\ relay.refresh_alloc_timer \in Nat /\ relay.refresh_perms_timer \in Nat
RelaysOK == \A a \in DOMAIN relays : RelayOK(relays[a], credential)

\* The invariant has them all.
LEMMA RelaysAre == ASSUME IInv PROVE RelaysOK
BY Zenon DEF IInv, Shapes, Keyed, Timed, RelaysOK, RelayOK

\* A call that begins a transaction which binds no channel.
LEMMA CallStep ==
    ASSUME IInv, NEW type \in Types, NEW addr, NEW peer, NEW r,
           r.method \in Methods \ {"channel_bind"}, r.user = r.key, r.lifetime \in Nat,
           perform_transaction(type, addr, peer, r),
           NEW what, what \notin {"send", "lifetime"}, Budget(what), RelaysOK',
           UNCHANGED <<clock, credential, addr_map, chan_map, next_channel, responses, frames, server, received>>
    PROVE  IInv'
<1>1. /\ \A t \in DOMAIN tr_map' : IsTransaction(tr_map'[t])
      /\ Pending' \subseteq Pending \cup {r}
      BY Performed, Zenon DEF IInv
<1>2. {"send", "lifetime"} \subseteq DOMAIN plan' /\ plan'.send = plan.send /\ plan'.lifetime = plan.lifetime
      BY Spent, Zenon DEF IInv
<1>3. Shapes' BY <1>1, <1>2, Zenon DEF IInv, Shapes, RelaysOK, RelayOK
<1>4. Keyed' BY <1>1, Zenon DEF IInv, Keyed, RelaysOK, RelayOK
<1>5. Timed' BY <1>1, <1>2, Zenon DEF IInv, Timed, RelaysOK, RelayOK
<1>6. RequestUses(r) = {} BY Zenon DEF RequestUses
<1>7. Uses' \subseteq Uses BY <1>1, <1>6 DEF Uses, TableUses, PendingUses, FrameUses
<1>8. OneMeaning' BY <1>1, <1>2, <1>7, FewerUses, Zenon DEF IInv, OneMeaning
<1> QED BY <1>3, <1>4, <1>5, <1>8, Zenon DEF IInv

\* The requests that are not signed.
LEMMA AnonymousStep == ASSUME IInv, Allocate \/ send_binding_request PROVE IInv'
<1>1. RelaysOK BY RelaysAre, Zenon
<1>2. RelaysOK' BY <1>1, Zenon DEF RelaysOK, Allocate, send_binding_request
<1>3. CASE Allocate
  <2> DEFINE r == Request(next_tid, "allocate", 0, 0, 0, {}, 0, 0)
  <2>1. r.method = "allocate" /\ r.user = r.key /\ r.lifetime \in Nat BY Zenon DEF Request
  <2>2. perform_transaction("allocate_attempt", NoAddr, NoPeer, r) /\ Budget("allocate") BY <1>3, Zenon DEF Allocate
  <2>3. UNCHANGED <<clock, credential, addr_map, chan_map, next_channel, responses, frames, server, received>>
        BY <1>3, Zenon DEF Allocate
  <2> HIDE DEF r
  <2> QED BY <1>2, <2>1, <2>2, <2>3, CallStep, Zenon DEF Methods, Types
<1>4. CASE send_binding_request
  <2> DEFINE r == Request(next_tid, "binding", 0, 0, 0, {}, 0, 0)
  <2>1. r.method = "binding" /\ r.user = r.key /\ r.lifetime \in Nat BY Zenon DEF Request
  <2>2. perform_transaction("binding", NoAddr, NoPeer, r) /\ Budget("binding") BY <1>4, Zenon DEF send_binding_request
  <2>3. UNCHANGED <<clock, credential, addr_map, chan_map, next_channel, responses, frames, server, received>>
        BY <1>4, Zenon DEF send_binding_request
  <2> HIDE DEF r
  <2> QED BY <1>2, <2>1, <2>2, <2>3, CallStep, Zenon DEF Methods, Types
<1> QED BY <1>3, <1>4, Zenon

\* A signed request of an allocation has the key of the user it names.
LEMMA SignedFields ==
    ASSUME RelaysOK, NEW addr \in DOMAIN relays, NEW method, NEW peers, NEW number, NEW lifetime
    PROVE  /\ Signed(addr, method, peers, number, lifetime).method = method
           /\ Signed(addr, method, peers, number, lifetime).user = Signed(addr, method, peers, number, lifetime).key
           /\ Signed(addr, method, peers, number, lifetime).peers = peers
           /\ Signed(addr, method, peers, number, lifetime).number = number
           /\ Signed(addr, method, peers, number, lifetime).lifetime = lifetime
BY Zenon DEF Signed, Request, RelaysOK, RelayOK

\* A permission is asked for.
LEMMA PermitStep == ASSUME IInv, NEW addr, NEW p, create_permission(addr, p) PROVE IInv'
<1> DEFINE r == Signed(addr, "create_permission", {p}, 0, 0)
<1>1. RelaysOK /\ addr \in DOMAIN relays BY RelaysAre, Zenon DEF create_permission
<1>2. r.method = "create_permission" /\ r.user = r.key /\ r.lifetime = 0 BY <1>1, SignedFields
<1>3. relays' = [relays EXCEPT ![addr] = [relays[addr] EXCEPT !.perm_map = Put(relays[addr].perm_map, p, "idle")]]
      BY Zenon DEF create_permission
<1>4. RelaysOK' BY <1>1, <1>3, Zenon DEF RelaysOK, RelayOK, RelayFields, create_permission
<1>5. perform_transaction("create_permission", addr, p, r) /\ Budget("permit") BY Zenon DEF create_permission
<1>6. UNCHANGED <<clock, credential, addr_map, chan_map, next_channel, responses, frames, server, received>>
      BY Zenon DEF create_permission
<1> HIDE DEF r
<1> QED BY <1>2, <1>4, <1>5, <1>6, CallStep DEF Methods, Types

\* An allocation is refreshed by the application, or closed.
LEMMA RefreshStep == ASSUME IInv, NEW addr, Close(addr) \/ refresh_allocations(addr) PROVE IInv'
<1>1. RelaysOK /\ addr \in DOMAIN relays BY RelaysAre, Zenon DEF Close, refresh_allocations
<1>2. RelaysOK' BY <1>1, Zenon DEF RelaysOK, Close, refresh_allocations
<1>3. PICK lifetime \in {0, relays[addr].lifetime}, what \in {"close", "refresh"} :
          refresh_allocation(addr, lifetime) /\ Budget(what)
      BY Zenon DEF Close, refresh_allocations
<1> DEFINE r == Signed(addr, "refresh", {}, 0, lifetime)
<1>4. r.method = "refresh" /\ r.user = r.key /\ r.lifetime = lifetime BY <1>1, SignedFields
<1>5. perform_transaction("refresh", addr, NoPeer, r) BY <1>3, Zenon DEF refresh_allocation
<1>6. lifetime \in Nat BY <1>1, <1>3 DEF RelaysOK, RelayOK
<1>7. UNCHANGED <<clock, credential, addr_map, chan_map, next_channel, responses, frames, server, received>>
      BY Zenon DEF Close, refresh_allocations
<1> HIDE DEF r
<1> QED BY <1>2, <1>3, <1>4, <1>5, <1>6, <1>7, CallStep, Zenon DEF Methods, Types

\* A step that begins no transaction and gives out no number.
LEMMA KeepStep ==
    ASSUME IInv, {"send", "lifetime"} \subseteq DOMAIN plan', plan'.send = plan.send, plan'.lifetime = plan.lifetime,
           clock' \in Nat, next_channel' = next_channel, received' = received, RelaysOK',
           \A t \in DOMAIN tr_map' : IsTransaction(tr_map'[t]),
           Pending' \subseteq Pending,
           \A r \in responses' \cup server'.answers : r.lifetime \in Nat,
           DOMAIN server' = {"alloc", "used", "answers", "nonce"},
           DOMAIN server'.alloc = {"addr", "expiry", "perms", "chans"},
           \A p \in DOMAIN addr_map' : DOMAIN addr_map'[p] = {"number", "st", "refreshed_at"},
           Uses' \subseteq Uses
    PROVE  IInv'
<1>1. Shapes' BY Zenon DEF IInv, Shapes, RelaysOK, RelayOK
<1>2. Keyed' BY Zenon DEF IInv, Keyed, RelaysOK, RelayOK
<1>3. Timed' BY Zenon DEF IInv, Timed, RelaysOK, RelayOK
<1>4. OneMeaning' BY FewerUses, Zenon DEF IInv, OneMeaning
<1> QED BY <1>1, <1>2, <1>3, <1>4, Zenon DEF IInv

\* The facts of the invariant that KeepStep asks for where nothing changes.
LEMMA Facts ==
    ASSUME IInv
    PROVE  /\ {"send", "lifetime"} \subseteq DOMAIN plan /\ clock \in Nat
           /\ \A t \in DOMAIN tr_map : IsTransaction(tr_map[t])
           /\ \A r \in responses \cup server.answers : r.lifetime \in Nat
           /\ \A r \in Pending : r.lifetime \in Nat /\ r.method \in Methods /\ r.user = r.key
           /\ DOMAIN server = {"alloc", "used", "answers", "nonce"}
           /\ DOMAIN server.alloc = {"addr", "expiry", "perms", "chans"}
           /\ \A p \in DOMAIN addr_map : DOMAIN addr_map[p] = {"number", "st", "refreshed_at"}
           /\ RelaysOK
BY RelaysAre, Zenon DEF IInv, Shapes, Timed, Keyed

\* Transactions are forgotten.
LEMMA CloseClientStep == ASSUME IInv, CloseClient PROVE IInv'
<1>1. {"send", "lifetime"} \subseteq DOMAIN plan' /\ plan'.send = plan.send /\ plan'.lifetime = plan.lifetime
      BY Spent DEF IInv, CloseClient
<1>2. DOMAIN tr_map' = {} BY Zenon DEF CloseClient, Empty
<1>3. Pending' \subseteq Pending BY <1>2, Zenon DEF CloseClient, Pending
<1>4. Uses' \subseteq Uses BY <1>3 DEF CloseClient, Uses, TableUses, PendingUses, FrameUses
<1>5. RelaysOK' BY Facts, Zenon DEF CloseClient, RelaysOK
<1> QED BY <1>1, <1>2, <1>3, <1>4, <1>5, Facts, KeepStep, Zenon DEF CloseClient

\* Every allocation gets the new key at once.
LEMMA CredentialStep == ASSUME IInv, update_credentials PROVE IInv'
<1>1. {"send", "lifetime"} \subseteq DOMAIN plan' /\ plan'.send = plan.send /\ plan'.lifetime = plan.lifetime
      BY Spent DEF IInv, update_credentials
<1>2. Pending' = Pending /\ Uses' = Uses BY DEF update_credentials, Pending, Uses, TableUses, PendingUses, FrameUses
<1>3. RelaysOK' BY Facts DEF update_credentials, RelaysOK, RelayOK, RelayFields
<1> QED BY <1>1, <1>2, <1>3, Facts, KeepStep, Zenon DEF update_credentials

\* A retransmission sends the same request; the last one gives the transaction up.
LEMMA RetransmitStep == ASSUME IInv, NEW tid \in DOMAIN tr_map, Retransmit(tid) PROVE IInv'
<1>1. {"send", "lifetime"} \subseteq DOMAIN plan' /\ plan'.send = plan.send /\ plan'.lifetime = plan.lifetime
      BY Spent DEF IInv, Retransmit
<1>2. IsTransaction(tr_map[tid]) BY Facts, Zenon
<1>3. /\ \A t \in DOMAIN tr_map' : IsTransaction(tr_map'[t])
      /\ Pending' \subseteq Pending
  <2>1. CASE tr_map[tid].n_rtx + 1 = MAX_RTX_COUNT
    <3>1. tr_map' = Without(tr_map, tid) /\ requests' = requests BY <2>1, Zenon DEF Retransmit
    <3> QED BY <3>1, Facts, Zenon DEF Without, Pending
  <2>2. CASE tr_map[tid].n_rtx + 1 # MAX_RTX_COUNT
    <3>1. tr_map' = [tr_map EXCEPT ![tid] = [tr_map[tid] EXCEPT !.n_rtx = tr_map[tid].n_rtx + 1]]
          /\ requests' = requests \cup {tr_map[tid].request}
          BY <2>2, Zenon DEF Retransmit
    <3>2. DOMAIN tr_map' = DOMAIN tr_map BY <3>1, Zenon
    <3>3. \A t \in DOMAIN tr_map : /\ DOMAIN tr_map'[t] = DOMAIN tr_map[t] /\ tr_map'[t].request = tr_map[t].request
                                  /\ tr_map'[t].type = tr_map[t].type
          BY <1>2, <3>1, Facts, Zenon DEF TransactionFields, IsTransaction
    <3> QED BY <3>1, <3>2, <3>3, Facts DEF Pending, IsTransaction
  <2> QED BY <2>1, <2>2, Zenon
<1>4. Uses' \subseteq Uses BY <1>3 DEF Retransmit, Uses, TableUses, PendingUses, FrameUses
<1>5. RelaysOK' BY Facts, Zenon DEF Retransmit, RelaysOK
<1> QED BY <1>1, <1>3, <1>4, <1>5, Facts, KeepStep, Zenon DEF Retransmit

\* The interval between refreshes is positive, however short the lifetime.
LEMMA IntervalPositive ==
    ASSUME Parameters, NEW lifetime \in Nat
    PROVE  allocation_refresh_interval(lifetime) \in Nat \ {0}
BY DEF Parameters, allocation_refresh_interval, MaxOf, MinOf

\* A timer that was due lies ahead again, and the allocation is what it was otherwise.
LEMMA RearmedFields ==
    ASSUME Parameters, clock \in Nat, NEW relay, RelayOK(relay, credential)
    PROVE  /\ RelayOK(Rearmed(relay), credential)
           /\ Rearmed(relay).refresh_alloc_timer > clock
           /\ Rearmed(relay).refresh_perms_timer > clock
<1> DEFINE i == allocation_refresh_interval(relay.lifetime)
<1>1. i \in Nat \ {0} BY IntervalPositive, Zenon DEF RelayOK
<1>2. PERM_REFRESH_INTERVAL \in Nat \ {0} BY Zenon DEF Parameters
<1> DEFINE ta == IF relay.refresh_alloc_timer <= clock THEN clock + i ELSE relay.refresh_alloc_timer
<1> DEFINE tp == IF relay.refresh_perms_timer <= clock THEN clock + PERM_REFRESH_INTERVAL ELSE relay.refresh_perms_timer
<1>3. Rearmed(relay) = [relay EXCEPT !.refresh_alloc_timer = ta, !.refresh_perms_timer = tp] BY Zenon DEF Rearmed, Due
<1>4. ta \in Nat /\ ta > clock BY <1>1 DEF RelayOK
<1>5. tp \in Nat /\ tp > clock BY <1>2 DEF RelayOK
<1> HIDE DEF ta, tp
<1> QED BY <1>3, <1>4, <1>5, Zenon DEF RelayOK, RelayFields

\* The transactions that the timers begin are signed and bind no channel.
LEMMA RefreshesFields ==
    ASSUME RelaysOK, NEW addr \in DOMAIN relays, NEW t \in Refreshes(addr)
    PROVE  /\ IsTransaction(t)
           /\ t.request.method \in {"refresh", "create_permission"}
           /\ t.request.user = t.request.key
           /\ t.request.lifetime \in Nat
<1>1. \/ t = Transaction("refresh", addr, NoPeer, RefreshRequest(addr, next_tid))
      \/ t = Transaction("create_permission", addr, NoPeer, PermissionsRequest(addr, next_tid + 2))
      BY Zenon DEF Refreshes
<1>2. relays[addr].key = credential /\ relays[addr].lifetime \in Nat BY Zenon DEF RelaysOK, RelayOK
<1>3. CASE t = Transaction("refresh", addr, NoPeer, RefreshRequest(addr, next_tid))
      BY <1>2, <1>3, Zenon DEF Transaction, TransactionFields, IsTransaction, Types, RefreshRequest, Request
<1>4. CASE t = Transaction("create_permission", addr, NoPeer, PermissionsRequest(addr, next_tid + 2))
      BY <1>2, <1>4, Zenon DEF Transaction, TransactionFields, IsTransaction, Types, PermissionsRequest, Request
<1> QED BY <1>1, <1>3, <1>4, Zenon

\* The timers of an allocation run out.
LEMMA TimeoutStep == ASSUME Parameters, IInv, NEW addr, HandleTimeout(addr) PROVE IInv'
<1> DEFINE S == Refreshes(addr)
<1>1. RelaysOK /\ addr \in DOMAIN relays /\ clock \in Nat BY Facts, Zenon DEF HandleTimeout
<1>2. relays' = [relays EXCEPT ![addr] = Rearmed(relays[addr])] BY Zenon DEF HandleTimeout
<1>3. RelayOK(Rearmed(relays[addr]), credential) BY <1>1, RearmedFields, Zenon DEF RelaysOK
<1>4. RelaysOK' BY <1>1, <1>2, <1>3, Zenon DEF RelaysOK, HandleTimeout
<1>5. \A t \in S : /\ IsTransaction(t) /\ t.request.method \in {"refresh", "create_permission"}
                   /\ t.request.user = t.request.key /\ t.request.lifetime \in Nat
      BY <1>1, RefreshesFields, Zenon
<1>6. tr_map' = Over(Begun(S), tr_map) /\ requests' = requests \cup {t.request : t \in S} BY Zenon DEF HandleTimeout
<1> HIDE DEF S
<1>7. \A tid \in DOMAIN Begun(S) : Begun(S)[tid] \in S BY Zenon DEF Begun
<1>8. \A tid \in DOMAIN tr_map' : tr_map'[tid] \in S \/ (tid \in DOMAIN tr_map /\ tr_map'[tid] = tr_map[tid])
      BY <1>6, <1>7, Zenon DEF Over
<1>9. \A tid \in DOMAIN tr_map' : IsTransaction(tr_map'[tid]) BY <1>5, <1>8, Facts, Zenon
<1>10. Pending' \subseteq Pending \cup {t.request : t \in S} BY <1>6, <1>8, Zenon DEF Pending
<1>11. Uses' \subseteq Uses
  <2>1. \A t \in S : RequestUses(t.request) = {} BY <1>5, Zenon DEF RequestUses
  <2> QED BY <1>10, <2>1 DEF Uses, TableUses, PendingUses, FrameUses, HandleTimeout
<1>12. Shapes' BY <1>4, <1>5, <1>9, <1>10 DEF IInv, Shapes, HandleTimeout, RelaysOK, RelayOK, Methods
<1>13. Keyed' BY <1>4, <1>5, <1>10, Zenon DEF IInv, Keyed, RelaysOK, RelayOK
<1>14. Timed' BY <1>4, <1>5, <1>10 DEF IInv, Timed, HandleTimeout, RelaysOK, RelayOK
<1>15. OneMeaning' BY <1>5, <1>10, <1>11, FewerUses, Zenon DEF IInv, OneMeaning, HandleTimeout
<1> QED BY <1>12, <1>13, <1>14, <1>15, Zenon DEF IInv

\* A new binding takes the next number, which means nobody yet; a refreshed one keeps its own.
LEMMA SendStep == ASSUME Parameters, IInv, NEW addr, NEW p, send_to(addr, p) PROVE IInv'
<1>1. RelaysOK /\ addr \in DOMAIN relays BY Facts, Zenon DEF send_to
<1>2. {"send", "lifetime"} \subseteq DOMAIN plan' /\ plan'.send = plan.send - 1 /\ plan.send > 0 /\ plan'.lifetime = plan.lifetime
      BY Spent, Zenon DEF IInv, send_to
<1>3. PICK number : channel_bind(addr, p, number)
                    /\ ((Bind(addr, p) /\ number = next_channel) \/ (Rebind(addr, p) /\ number = addr_map[p].number))
      BY Zenon DEF send_to, Bind, Rebind
<1> DEFINE r == Signed(addr, "channel_bind", {p}, number, 0)
<1>4. r.method = "channel_bind" /\ r.user = r.key /\ r.lifetime = 0 /\ r.peers = {p} /\ r.number = number
      BY <1>1, SignedFields
<1>5. perform_transaction("channel_bind", addr, p, r) BY <1>3, Zenon DEF channel_bind
<1> HIDE DEF r
<1>6. /\ \A t \in DOMAIN tr_map' : IsTransaction(tr_map'[t])
      /\ Pending' \subseteq Pending \cup {r}
      BY <1>4, <1>5, Performed DEF IInv, Methods, Types
<1>7. UNCHANGED <<clock, credential, relays, responses, frames, server, received>> BY Zenon DEF send_to
<1>8. RelaysOK' BY <1>1, <1>7, Zenon DEF RelaysOK
<1>9. Keyed' BY <1>4, <1>6, <1>7, Zenon DEF IInv, Keyed
<1>10. Timed' BY <1>2, <1>4, <1>6, <1>7 DEF IInv, Timed
<1>11. RequestUses(r) = {<<number, p>>} BY <1>4, Zenon DEF RequestUses
<1>12. CASE Bind(addr, p) /\ number = next_channel
  <2>1. addr_map' = Put(addr_map, p, Binding(next_channel, "request")) /\ chan_map' = Put(chan_map, next_channel, p)
        BY <1>12, Zenon DEF Bind
  <2>2. \A q \in DOMAIN addr_map' : \/ q = p /\ addr_map'[q] = Binding(next_channel, "request")
                                    \/ q \in DOMAIN addr_map /\ addr_map'[q] = addr_map[q]
        BY <2>1, Zenon DEF Put
  <2>3. \A n \in DOMAIN chan_map' : \/ n = next_channel /\ chan_map'[n] = p
                                    \/ n \in DOMAIN chan_map /\ chan_map'[n] = chan_map[n]
        BY <2>1, Zenon DEF Put
  <2>4. DOMAIN Binding(next_channel, "request") = {"number", "st", "refreshed_at"}
        /\ Binding(next_channel, "request").number = next_channel
        BY Zenon DEF Binding
  <2>5. Shapes' BY <1>2, <1>4, <1>6, <1>7, <2>2, <2>4, Zenon DEF IInv, Shapes, Methods
  <2>6. Uses' \subseteq Uses \cup {<<next_channel, p>>}
        BY <1>6, <1>7, <1>11, <1>12, <2>2, <2>3, <2>4 DEF Uses, TableUses, PendingUses, FrameUses
  <2>7. next_channel \in Nat /\ plan.send \in Nat /\ next_channel + plan.send <= MAX_CHANNEL
        BY Zenon DEF IInv, OneMeaning
  <2>8. MAX_CHANNEL # next_channel => next_channel' = next_channel + 1 BY <1>12, Zenon DEF Bind, assign_channel_number
  <2>9. next_channel' = next_channel + 1 /\ next_channel' \in Nat /\ plan'.send \in Nat
        /\ next_channel' + plan'.send <= MAX_CHANNEL
    <3>1. next_channel < next_channel + plan.send BY <1>2, <2>7
    <3>2. CASE MAX_CHANNEL = next_channel BY <3>1, <3>2, <2>7
    <3>3. CASE MAX_CHANNEL # next_channel BY <3>3, <1>2, <2>7, <2>8
    <3> QED BY <3>2, <3>3, Zenon
  <2>10. \A u \in Uses : u[1] \in Nat /\ u[1] < next_channel BY Zenon DEF IInv, OneMeaning
  <2>11. \A u \in Uses' : u[1] \in Nat /\ u[1] < next_channel' BY <2>6, <2>7, <2>9, <2>10
  <2>12. \A u, v \in Uses : u[1] = v[1] => u[2] = v[2] BY Zenon DEF IInv, OneMeaning
  <2>13. \A u, v \in Uses' : u[1] = v[1] => u[2] = v[2] BY <2>6, <2>7, <2>10, <2>12
  <2>14. OneMeaning' BY <1>4, <1>6, <1>7, <2>9, <2>11, <2>13, Zenon DEF IInv, OneMeaning, PeersNotConfused
  <2> QED BY <1>9, <1>10, <2>5, <2>14, Zenon DEF IInv
<1>13. CASE Rebind(addr, p) /\ number = addr_map[p].number
  <2>1. p \in DOMAIN addr_map /\ chan_map' = chan_map /\ next_channel' = next_channel
        /\ addr_map' = [addr_map EXCEPT ![p] = [addr_map[p] EXCEPT !.st = "refresh"]]
        BY <1>13, Zenon DEF Rebind
  <2>2. DOMAIN addr_map' = DOMAIN addr_map BY <2>1, Zenon
  <2>3. \A q \in DOMAIN addr_map : DOMAIN addr_map'[q] = DOMAIN addr_map[q] /\ addr_map'[q].number = addr_map[q].number
        BY <2>1, Facts, Zenon
  <2>4. Shapes' BY <1>2, <1>4, <1>6, <1>7, <2>2, <2>3, Zenon DEF IInv, Shapes, Methods
  <2>5. <<number, p>> \in Uses BY <1>13, <2>1, Zenon DEF Uses, TableUses, PendingUses, FrameUses
  <2>6. Uses' \subseteq Uses BY <1>6, <1>7, <1>11, <2>1, <2>2, <2>3, <2>5 DEF Uses, TableUses, PendingUses, FrameUses
  <2>7. plan'.send \in Nat /\ next_channel + plan'.send <= MAX_CHANNEL
    <3>1. plan.send \in Nat /\ next_channel \in Nat /\ next_channel + plan.send <= MAX_CHANNEL
          BY Zenon DEF IInv, OneMeaning
    <3>2. plan.send > 0 /\ plan'.send = plan.send - 1 BY <1>2, Zenon
    <3> HIDE DEF IInv
    <3>3. MAX_CHANNEL \in Nat BY Zenon DEF Parameters
    <3> QED BY <3>1, <3>2, <3>3
  <2>8. OneMeaning' BY <1>4, <1>6, <1>7, <2>1, <2>6, <2>7, Zenon DEF IInv, OneMeaning, PeersNotConfused
  <2> QED BY <1>9, <1>10, <2>4, <2>8, Zenon DEF IInv
<1> QED BY <1>3, <1>12, <1>13, Zenon

\* What the handler of a response leaves of an allocation.
LEMMA NonceFields ==
    ASSUME NEW relay, RelayOK(relay, credential), NEW r
    PROVE  RelayOK(set_nonce_from_msg(relay, r), credential)
BY Zenon DEF set_nonce_from_msg, RelayOK, RelayFields

\* The permission map is all that changes further.
LEMMA PermissionFields ==
    ASSUME NEW relay, RelayOK(relay, credential), NEW r, NEW t
    PROVE  RelayOK(PermissionAnswered(relay, r, t), credential)
<1> DEFINE m == IF t.peer = NoPeer THEN relay.perm_map ELSE Permitted(relay.perm_map, t.peer, r.class)
<1>1. PermissionAnswered(relay, r, t) = [set_nonce_from_msg(relay, r) EXCEPT !.perm_map = m]
      BY Zenon DEF PermissionAnswered
<1>2. RelayOK(set_nonce_from_msg(relay, r), credential) BY NonceFields, Zenon
<1> HIDE DEF m
<1> QED BY <1>1, <1>2, Zenon DEF RelayOK, RelayFields

\* A refreshed allocation has the lifetime that was granted and its timer by it.
LEMMA RefreshedFields ==
    ASSUME Parameters, clock \in Nat, NEW relay, RelayOK(relay, credential), NEW r, r.lifetime \in Nat
    PROVE  RelayOK(Refreshed(relay, r), credential)
<1>1. CASE r.class = "error" BY <1>1, NonceFields, Zenon DEF Refreshed
<1>2. CASE r.class # "error"
  <2> DEFINE u == clock + allocation_refresh_interval(r.lifetime)
  <2>1. u \in Nat BY IntervalPositive
  <2>2. Refreshed(relay, r) = [relay EXCEPT !.lifetime = r.lifetime, !.refresh_alloc_timer = u]
        BY <1>2, Zenon DEF Refreshed
  <2> HIDE DEF u
  <2> QED BY <2>1, <2>2, Zenon DEF RelayOK, RelayFields
<1> QED BY <1>1, <1>2, Zenon

\* A new allocation has the key in use.
LEMMA RelayStateFields ==
    ASSUME Parameters, clock \in Nat, NEW nonce, NEW lifetime \in Nat
    PROVE  RelayOK(RelayState(nonce, lifetime), credential)
<1>1. clock + allocation_refresh_interval(lifetime) \in Nat BY IntervalPositive
<1>2. clock + PERM_REFRESH_INTERVAL \in Nat BY DEF Parameters
<1> QED BY <1>1, <1>2, Zenon DEF RelayState, RelayOK, RelayFields

\* The handlers of responses: allocations stay keyed, and bindings are kept or dropped, never renumbered.
LEMMA AnsweredFields ==
    ASSUME Parameters, IInv, NEW r \in responses, NEW t, IsTransaction(t), t.type # "allocate_attempt",
           t.type \notin {"allocate_request", "binding"} => t.addr \in DOMAIN relays,
           Answered(r, t), credential' = credential
    PROVE  /\ RelaysOK'
           /\ DOMAIN addr_map' \subseteq DOMAIN addr_map
           /\ \A p \in DOMAIN addr_map' : DOMAIN addr_map'[p] = DOMAIN addr_map[p] /\ addr_map'[p].number = addr_map[p].number
           /\ DOMAIN chan_map' \subseteq DOMAIN chan_map
           /\ \A n \in DOMAIN chan_map' : chan_map'[n] = chan_map[n]
<1>1. RelaysOK /\ clock \in Nat /\ r.lifetime \in Nat BY Facts, Zenon
<1>2. CASE t.type = "binding"
  <2>1. UNCHANGED <<relays, addr_map, chan_map>> BY <1>2, Zenon DEF Answered
  <2> QED BY <1>1, <2>1, Zenon DEF RelaysOK
<1>3. CASE t.type = "allocate_request"
  <2>1. handle_allocate_response(r, t) BY <1>3, Zenon DEF Answered
  <2>2. RelayOK(RelayState(t.request.nonce, r.lifetime), credential) BY <1>1, RelayStateFields, Zenon
  <2>3. RelaysOK' BY <1>1, <2>1, <2>2, Zenon DEF handle_allocate_response, RelaysOK, Put
  <2> QED BY <2>1, <2>3, Zenon DEF handle_allocate_response
<1>4. CASE t.type = "create_permission"
  <2>1. handle_create_permission_response(r, t) /\ t.addr \in DOMAIN relays BY <1>4, Zenon DEF Answered
  <2>2. RelayOK(PermissionAnswered(relays[t.addr], r, t), credential) BY <1>1, <2>1, PermissionFields, Zenon DEF RelaysOK
  <2>3. RelaysOK' BY <1>1, <2>1, <2>2, Zenon DEF handle_create_permission_response, RelaysOK
  <2> QED BY <2>1, <2>3, Zenon DEF handle_create_permission_response
<1>5. CASE t.type = "refresh"
  <2>1. handle_refresh_allocation_response(r, t) /\ t.addr \in DOMAIN relays BY <1>5, Zenon DEF Answered
  <2>2. RelayOK(Refreshed(relays[t.addr], r), credential) BY <1>1, <2>1, RefreshedFields, Zenon DEF RelaysOK
  <2>3. RelaysOK' BY <1>1, <2>1, <2>2, Zenon DEF handle_refresh_allocation_response, RelaysOK, Without
  <2> QED BY <2>1, <2>3, Zenon DEF handle_refresh_allocation_response
<1>6. CASE t.type = "channel_bind"
  <2>1. handle_channel_bind_response(r, t) /\ t.addr \in DOMAIN relays BY <1>6, Zenon DEF Answered
  <2>2. RelayOK(set_nonce_from_msg(relays[t.addr], r), credential) BY <1>1, <2>1, NonceFields, Zenon DEF RelaysOK
  <2>3. RelaysOK' BY <1>1, <2>1, <2>2, Zenon DEF handle_channel_bind_response, RelaysOK
  <2>4. CASE r.class = "error"
    <3>1. delete_by_addr(t.peer) BY <2>1, <2>4, Zenon DEF handle_channel_bind_response
    <3> QED BY <2>3, <3>1, Zenon DEF delete_by_addr, Without
  <2>5. CASE r.class # "error"
    <3>1. chan_map' = chan_map BY <2>1, <2>5, Zenon DEF handle_channel_bind_response
    <3>2. CASE t.peer \in DOMAIN addr_map
      <4>1. addr_map' = [addr_map EXCEPT ![t.peer] = [addr_map[t.peer] EXCEPT !.st = "ready", !.refreshed_at = clock]]
            BY <2>1, <2>5, <3>2, Facts, Zenon DEF handle_channel_bind_response
      <4>2. DOMAIN addr_map' = DOMAIN addr_map BY <4>1, Zenon
      <4>3. \A p \in DOMAIN addr_map : DOMAIN addr_map'[p] = DOMAIN addr_map[p] /\ addr_map'[p].number = addr_map[p].number
            BY <4>1, Facts, Zenon
      <4> QED BY <2>3, <3>1, <4>2, <4>3, Zenon
    <3>3. CASE t.peer \notin DOMAIN addr_map
      <4>1. addr_map' = addr_map BY <2>1, <2>5, <3>3, Zenon DEF handle_channel_bind_response
      <4> QED BY <2>3, <3>1, <4>1, Zenon
    <3> QED BY <3>2, <3>3, Zenon
  <2> QED BY <2>4, <2>5, Zenon
<1> QED BY <1>2, <1>3, <1>4, <1>5, <1>6, Zenon DEF IsTransaction, Types

\* A response is handled.
LEMMA ResponseStep == ASSUME Parameters, IInv, NEW r \in responses, handle_stun_message(r) PROVE IInv'
<1>1. /\ UNCHANGED <<plan, clock, credential, next_channel, frames, server, received>> /\ responses' = responses \ {r}
      BY Zenon DEF handle_stun_message
<1>2. RelaysOK BY Facts, Zenon
<1>3. \A q \in responses' \cup server'.answers : q.lifetime \in Nat BY <1>1, Facts, Zenon
<1>4. CASE r.tid \notin DOMAIN tr_map
  <2>1. UNCHANGED <<tr_map, requests, relays, addr_map, chan_map>> BY <1>4, Zenon DEF handle_stun_message
  <2>2. RelaysOK' BY <1>1, <1>2, <2>1, Zenon DEF RelaysOK
  <2>3. Pending' = Pending BY <2>1, Zenon DEF Pending
  <2>4. Uses' = Uses BY <1>1, <2>1, <2>3 DEF Uses, TableUses, PendingUses, FrameUses
  <2> QED BY <1>1, <1>3, <2>1, <2>2, <2>3, <2>4, Facts, KeepStep, Zenon
<1>5. CASE r.tid \in DOMAIN tr_map /\ tr_map[r.tid].type = "allocate_attempt"
  <2> DEFINE q == Request(r.tid + 1, "allocate", r.nonce, credential, credential, {}, 0, 0)
  <2> DEFINE t == Transaction("allocate_request", NoAddr, NoPeer, q)
  <2>1. AllocateAttempt(r) BY <1>5, Zenon DEF handle_stun_message
  <2>2. tr_map' = Put(Without(tr_map, r.tid), r.tid + 1, t) /\ requests' = requests \cup {q}
        /\ UNCHANGED <<relays, addr_map, chan_map>>
        BY <2>1, Zenon DEF AllocateAttempt
  <2>3. q.method = "allocate" /\ q.user = q.key /\ q.lifetime = 0 BY Zenon DEF Request
  <2>4. IsTransaction(t) /\ t.request = q BY Zenon DEF IsTransaction, Transaction, TransactionFields, Types
  <2> HIDE DEF q, t
  <2>5. \A x \in DOMAIN tr_map' : tr_map'[x] = t \/ (x \in DOMAIN tr_map /\ tr_map'[x] = tr_map[x])
        BY <2>2, Zenon DEF Put, Without
  <2>6. \A x \in DOMAIN tr_map' : IsTransaction(tr_map'[x]) BY <2>4, <2>5, Facts, Zenon
  <2>7. Pending' \subseteq Pending \cup {q} BY <2>2, <2>4, <2>5, Zenon DEF Pending
  <2>8. RelaysOK' BY <1>1, <1>2, <2>2, Zenon DEF RelaysOK
  <2>9. RequestUses(q) = {} BY <2>3, Zenon DEF RequestUses
  <2>10. Uses' \subseteq Uses BY <1>1, <2>2, <2>7, <2>9 DEF Uses, TableUses, PendingUses, FrameUses
  <2>11. Shapes' BY <1>1, <2>2, <2>3, <2>6, <2>7, <2>8, Zenon DEF IInv, Shapes, RelaysOK, RelayOK, Methods
  <2>12. Keyed' BY <2>3, <2>7, <2>8, Zenon DEF IInv, Keyed, RelaysOK, RelayOK
  <2>13. Timed' BY <1>1, <1>3, <2>3, <2>7, <2>8 DEF IInv, Timed, RelaysOK, RelayOK
  <2>14. OneMeaning' BY <1>1, <2>3, <2>7, <2>10, FewerUses, Zenon DEF IInv, OneMeaning
  <2> QED BY <2>11, <2>12, <2>13, <2>14, Zenon DEF IInv
<1>6. CASE r.tid \in DOMAIN tr_map /\ tr_map[r.tid].type # "allocate_attempt"
  <2> DEFINE t == tr_map[r.tid]
  <2>1. tr_map' = Without(tr_map, r.tid) /\ requests' = requests BY <1>6, Zenon DEF handle_stun_message
  <2>2. (\A x \in DOMAIN tr_map' : IsTransaction(tr_map'[x])) /\ Pending' \subseteq Pending
        BY <2>1, Facts, Zenon DEF Without, Pending
  <2>3. /\ RelaysOK'
        /\ DOMAIN addr_map' \subseteq DOMAIN addr_map
        /\ \A p \in DOMAIN addr_map' : DOMAIN addr_map'[p] = DOMAIN addr_map[p] /\ addr_map'[p].number = addr_map[p].number
        /\ DOMAIN chan_map' \subseteq DOMAIN chan_map
        /\ \A n \in DOMAIN chan_map' : chan_map'[n] = chan_map[n]
    <3>1. CASE t.type \notin {"allocate_request", "binding"} /\ t.addr \notin DOMAIN relays
      <4>1. UNCHANGED <<relays, addr_map, chan_map>> BY <1>6, <3>1, Zenon DEF handle_stun_message
      <4> QED BY <1>1, <1>2, <4>1, Zenon DEF RelaysOK
    <3>2. CASE ~(t.type \notin {"allocate_request", "binding"} /\ t.addr \notin DOMAIN relays)
      <4>1. Answered(r, t) BY <1>6, <3>2, Zenon DEF handle_stun_message
      <4>2. IsTransaction(t) /\ t.type # "allocate_attempt" BY <1>6, Facts, Zenon
      <4>3. t.type \notin {"allocate_request", "binding"} => t.addr \in DOMAIN relays BY <3>2, Zenon
      <4> HIDE DEF t
      <4> QED BY <1>1, <4>1, <4>2, <4>3, AnsweredFields, Zenon
    <3> QED BY <3>1, <3>2, Zenon
  <2>4. Uses' \subseteq Uses BY <1>1, <2>2, <2>3 DEF Uses, TableUses, PendingUses, FrameUses
  <2> QED BY <1>1, <1>3, <2>2, <2>3, <2>4, Facts, KeepStep, Zenon
<1> QED BY <1>4, <1>5, <1>6, Zenon

\* Channel data: its number means the peer that sent it to the server and the peer it is bound to here.
LEMMA DataStep == ASSUME IInv, NEW f \in frames, handle_channel_data(f) PROVE IInv'
<1>1. UNCHANGED <<plan, clock, client, requests, responses, server>> /\ frames' = frames \ {f}
      BY Zenon DEF handle_channel_data
<1>2. Pending' = Pending BY <1>1, Zenon DEF Pending, client
<1>3. Uses' \subseteq Uses BY <1>1, <1>2, Zenon DEF Uses, TableUses, PendingUses, FrameUses, client
<1>4. Shapes' /\ Keyed' /\ Timed' BY <1>1, <1>2, Zenon DEF IInv, Shapes, Keyed, Timed, client
<1>5. PeersNotConfused'
  <2>1. <<f.number, f.peer>> \in Uses
    <3>1. <<f.number, f.peer>> \in FrameUses BY Zenon DEF FrameUses
    <3> QED BY <3>1, Zenon DEF Uses
  <2>2. f.number \in DOMAIN chan_map => <<f.number, chan_map[f.number]>> \in Uses
        BY Zenon DEF Uses, TableUses, PendingUses, FrameUses
  <2>3. f.number \in DOMAIN chan_map => chan_map[f.number] = f.peer BY <2>1, <2>2, Zenon DEF IInv, OneMeaning
  <2>4. received' \subseteq received \cup {<<f.peer, f.peer>>} BY <2>3, Zenon DEF handle_channel_data
  <2> QED BY <2>4 DEF IInv, OneMeaning, PeersNotConfused
<1>6. OneMeaning' BY <1>1, <1>2, <1>3, <1>5, Zenon DEF IInv, OneMeaning, client
<1> QED BY <1>4, <1>6, Zenon DEF IInv

\* What the server makes of its allocation: no channel but those it had and the one asked for.
AllocFrom(alloc, r) ==
    /\ DOMAIN alloc = {"addr", "expiry", "perms", "chans"}
    /\ AllocUses(alloc) \subseteq AllocUses(server.alloc) \cup RequestUses(r)
OutcomeOK(o, r) == AllocFrom(o.alloc, r) /\ o.out.lifetime \in Nat

\* An error leaves the allocation as it is.
LEMMA ErrorOutcome == ASSUME IInv, NEW r, NEW code, NEW o \in ErrorTo(r, code) PROVE OutcomeOK(o, r)
<1>1. o.alloc = server.alloc /\ o.out.lifetime = 0 BY DEF ErrorTo, Response
<1> QED BY <1>1, Facts DEF OutcomeOK, AllocFrom

\* A success has the allocation and the lifetime that were granted.
LEMMA SuccessOutcome ==
    ASSUME NEW r, NEW alloc, AllocFrom(alloc, r), NEW lifetime \in Nat, NEW o \in SuccessTo(r, alloc, lifetime)
    PROVE  OutcomeOK(o, r)
<1>1. o.alloc = alloc /\ o.out.lifetime = lifetime BY DEF SuccessTo, Response
<1> QED BY <1>1, Zenon DEF OutcomeOK

\* An allocation without channels has no use of a number.
LEMMA NoUses == DOMAIN NoAllocation = {"addr", "expiry", "perms", "chans"} /\ NoAllocation.chans = Empty /\ DOMAIN Empty = {}
BY Zenon DEF NoAllocation, Empty

\* Permissions do not touch the channels.
LEMMA PermitFields ==
    ASSUME NEW alloc, DOMAIN alloc = {"addr", "expiry", "perms", "chans"}, NEW peers
    PROVE  DOMAIN Permit(alloc, peers) = {"addr", "expiry", "perms", "chans"} /\ Permit(alloc, peers).chans = alloc.chans
<1> DEFINE m == Over([p \in peers |-> clock + PERM_LIFETIME], alloc.perms)
<1>1. Permit(alloc, peers) = [alloc EXCEPT !.perms = m] BY Zenon DEF Permit
<1> HIDE DEF m
<1> QED BY <1>1, Zenon

\* A channel that is bound is bound to the peer of the request.
LEMMA BoundFields ==
    ASSUME IInv, NEW r \in Pending, r.method = "channel_bind",
           NEW alloc, alloc = [Permit(server.alloc, r.peers) EXCEPT
                !.chans = Put(@, r.number, [peer |-> CHOOSE q \in r.peers : TRUE, expiry |-> clock + CHANNEL_LIFETIME])]
    PROVE  AllocFrom(alloc, r)
<1> DEFINE c == [peer |-> CHOOSE q \in r.peers : TRUE, expiry |-> clock + CHANNEL_LIFETIME]
<1> DEFINE P == Permit(server.alloc, r.peers)
<1>1. DOMAIN P = {"addr", "expiry", "perms", "chans"} /\ P.chans = server.alloc.chans BY Facts, PermitFields, Zenon
<1>2. r.peers # {} BY Zenon DEF IInv, OneMeaning
<1>3. c.peer \in r.peers BY <1>2, Zenon
<1>4. alloc = [P EXCEPT !.chans = Put(P.chans, r.number, c)] BY Zenon
<1> HIDE DEF c, P
<1>5. DOMAIN alloc = {"addr", "expiry", "perms", "chans"} /\ alloc.chans = Put(server.alloc.chans, r.number, c)
      BY <1>1, <1>4, Zenon
<1>6. \A n \in DOMAIN alloc.chans : \/ n = r.number /\ alloc.chans[n].peer = c.peer
                                    \/ n \in DOMAIN server.alloc.chans /\ alloc.chans[n] = server.alloc.chans[n]
  <2>1. \A f, x, y : \A z \in DOMAIN Put(f, x, y) : (z = x /\ Put(f, x, y)[z] = y) \/ (z \in DOMAIN f /\ Put(f, x, y)[z] = f[z])
        BY DEF Put
  <2> QED BY <1>5, <2>1
<1>7. <<r.number, c.peer>> \in RequestUses(r) BY <1>3, Zenon DEF RequestUses
<1>8. AllocUses(alloc) \subseteq AllocUses(server.alloc) \cup RequestUses(r) BY <1>6, <1>7, Zenon DEF AllocUses
<1> QED BY <1>5, <1>8, Zenon DEF AllocFrom

\* Every outcome of a request is one of these.
LEMMA OutcomesOK == ASSUME IInv, NEW r \in Pending, NEW o \in Outcomes(r) PROVE OutcomeOK(o, r)
<1>1. r.method \in Methods /\ r.lifetime \in Nat /\ plan.lifetime \in Nat BY Facts, Zenon DEF IInv, Timed
<1>2. AllocFrom(server.alloc, r) BY Facts, Zenon DEF AllocFrom
<1>3. AllocFrom(NoAllocation, r) BY NoUses, Zenon DEF AllocFrom, AllocUses
<1>4. AllocFrom(Granted(r, plan.lifetime), r)
  <2>1. DOMAIN Granted(r, plan.lifetime) = {"addr", "expiry", "perms", "chans"} /\ Granted(r, plan.lifetime).chans = Empty
        BY NoUses, Zenon DEF Granted
  <2> QED BY <2>1, NoUses, Zenon DEF AllocFrom, AllocUses
<1>5. AllocFrom([server.alloc EXCEPT !.expiry = clock + r.lifetime], r)
  <2> DEFINE e == clock + r.lifetime
  <2> HIDE DEF e
  <2>1. DOMAIN [server.alloc EXCEPT !.expiry = e] = {"addr", "expiry", "perms", "chans"}
        /\ [server.alloc EXCEPT !.expiry = e].chans = server.alloc.chans
        BY Facts, Zenon
  <2>2. AllocFrom([server.alloc EXCEPT !.expiry = e], r) BY <2>1, Zenon DEF AllocFrom, AllocUses
  <2> QED BY <2>2, Zenon DEF e
<1>6. AllocFrom(Permit(server.alloc, r.peers), r)
  <2>1. DOMAIN Permit(server.alloc, r.peers) = {"addr", "expiry", "perms", "chans"}
        /\ Permit(server.alloc, r.peers).chans = server.alloc.chans
        BY Facts, PermitFields, Zenon
  <2> QED BY <2>1, Zenon DEF AllocFrom, AllocUses
<1> DEFINE B == [Permit(server.alloc, r.peers) EXCEPT
                !.chans = Put(@, r.number, [peer |-> CHOOSE q \in r.peers : TRUE, expiry |-> clock + CHANNEL_LIFETIME])]
<1>7. r.method = "channel_bind" => AllocFrom(B, r) BY BoundFields, Zenon
<1> HIDE DEF B
<1>8. \/ \E code : o \in ErrorTo(r, code)
      \/ o \in SuccessTo(r, server.alloc, 0)
      \/ o \in SuccessTo(r, Granted(r, plan.lifetime), plan.lifetime)
      \/ o \in SuccessTo(r, NoAllocation, 0)
      \/ o \in SuccessTo(r, [server.alloc EXCEPT !.expiry = clock + r.lifetime], r.lifetime)
      \/ o \in SuccessTo(r, Permit(server.alloc, r.peers), 0)
      \/ r.method = "channel_bind" /\ o \in SuccessTo(r, B, 0)
      BY <1>1 DEF Outcomes, Methods, B
<1>9. 0 \in Nat BY Zenon
<1> QED BY <1>1, <1>2, <1>3, <1>4, <1>5, <1>6, <1>7, <1>8, <1>9, ErrorOutcome, SuccessOutcome, Zenon

\* The server answers a request, or repeats an answer it has given.
LEMMA ServeStep == ASSUME IInv, NEW r \in requests, Serve(r) PROVE IInv'
<1>1. UNCHANGED <<plan, clock, client, frames, received>> /\ requests' = requests \ {r} BY Zenon DEF Serve
<1>2. r \in Pending BY Zenon DEF Pending
<1>3. PICK o : /\ OutcomeOK(o, r)
               /\ server' = [server EXCEPT !.alloc = o.alloc, !.used = @ \cup ({o.alloc.addr} \ {NoAddr}),
                                           !.answers = Recent(o.out)]
               /\ responses' = responses \cup {o.out}
  <2>1. PICK o \in IF \E a \in server.answers : a.tid = r.tid
                   THEN {[alloc |-> server.alloc, out |-> a] : a \in {b \in server.answers : b.tid = r.tid}}
                   ELSE Outcomes(r) :
               /\ server' = [server EXCEPT !.alloc = o.alloc, !.used = @ \cup ({o.alloc.addr} \ {NoAddr}),
                                           !.answers = Recent(o.out)]
               /\ responses' = responses \cup {o.out}
        BY Zenon DEF Serve
  <2>2. CASE \E a \in server.answers : a.tid = r.tid
    <3>1. PICK a \in server.answers : o = [alloc |-> server.alloc, out |-> a] BY <2>1, <2>2, Zenon
    <3>2. OutcomeOK(o, r) BY <3>1, Facts, Zenon DEF OutcomeOK, AllocFrom
    <3> QED BY <2>1, <3>2, Zenon
  <2>3. CASE ~\E a \in server.answers : a.tid = r.tid
    <3>1. o \in Outcomes(r) BY <2>1, <2>3, Zenon
    <3>2. OutcomeOK(o, r) BY <1>2, <3>1, OutcomesOK, Zenon
    <3> QED BY <2>1, <3>2, Zenon
  <2> QED BY <2>2, <2>3, Zenon
<1>4. /\ DOMAIN server' = {"alloc", "used", "answers", "nonce"}
      /\ server'.alloc = o.alloc /\ server'.answers = Recent(o.out)
      BY <1>3, Facts, Zenon
<1>5. \A q \in responses' \cup server'.answers : q.lifetime \in Nat
      BY <1>3, <1>4, Facts, Zenon DEF Recent, OutcomeOK
<1>6. (\A t \in DOMAIN tr_map' : IsTransaction(tr_map'[t])) /\ Pending' \subseteq Pending
      BY <1>1, Facts, Zenon DEF Pending, client
<1>7. RequestUses(r) \subseteq Uses BY <1>2, Zenon DEF Uses, TableUses, PendingUses, FrameUses
<1>8. AllocUses(server'.alloc) \subseteq Uses
  <2>1. AllocUses(server.alloc) \subseteq Uses BY Zenon DEF Uses
  <2> QED BY <1>3, <1>4, <1>7, <2>1, Zenon DEF OutcomeOK, AllocFrom
<1>9. Uses' \subseteq Uses
  <2>1. PendingUses' \subseteq Uses BY <1>6, Zenon DEF Uses, PendingUses
  <2>2. TableUses' = TableUses /\ FrameUses' = FrameUses BY <1>1, Zenon DEF TableUses, FrameUses, client
  <2> QED BY <1>8, <2>1, <2>2, Zenon DEF Uses
<1>10. RelaysOK' BY <1>1, Facts, Zenon DEF RelaysOK, client
<1>11. DOMAIN server'.alloc = {"addr", "expiry", "perms", "chans"} BY <1>3, <1>4, Zenon DEF OutcomeOK, AllocFrom
<1> QED BY <1>1, <1>4, <1>5, <1>6, <1>9, <1>10, <1>11, Facts, KeepStep, Zenon DEF client

\* The server changes its nonce.
LEMMA RotateStep == ASSUME IInv, RotateNonce PROVE IInv'
<1>1. {"send", "lifetime"} \subseteq DOMAIN plan' /\ plan'.send = plan.send /\ plan'.lifetime = plan.lifetime
      BY Spent DEF IInv, RotateNonce
<1>2. UNCHANGED <<clock, client, requests, responses, frames, received>> BY Zenon DEF RotateNonce
<1>3. DOMAIN server' = DOMAIN server /\ server'.alloc = server.alloc /\ server'.answers = server.answers
      BY Facts, Zenon DEF RotateNonce
<1>4. Pending' = Pending /\ Uses' = Uses BY <1>2, <1>3 DEF Pending, Uses, TableUses, PendingUses, FrameUses, client
<1>5. RelaysOK' BY <1>2, Facts, Zenon DEF RelaysOK, client
<1> QED BY <1>1, <1>2, <1>3, <1>4, <1>5, Facts, KeepStep, Zenon DEF client

\* Data on a channel has the number and the peer of a channel of the server.
LEMMA ForwardStep == ASSUME IInv, NEW n, Forward(n) PROVE IInv'
<1>1. {"send", "lifetime"} \subseteq DOMAIN plan' /\ plan'.send = plan.send /\ plan'.lifetime = plan.lifetime
      BY Spent DEF IInv, Forward
<1>2. UNCHANGED <<clock, client, requests, responses, server, received>> BY Zenon DEF Forward
<1> DEFINE f == [number |-> n, peer |-> server.alloc.chans[n].peer]
<1>3. frames' = frames \cup {f} /\ n \in DOMAIN server.alloc.chans BY Zenon DEF Forward
<1>4. <<f.number, f.peer>> \in Uses
  <2>1. <<f.number, f.peer>> \in AllocUses(server.alloc) BY <1>3, Zenon DEF AllocUses
  <2>2. AllocUses(server.alloc) \subseteq Uses BY Zenon DEF Uses
  <2> QED BY <2>1, <2>2, Zenon
<1> HIDE DEF f
<1>5. Pending' = Pending BY <1>2, Zenon DEF Pending, client
<1>6. Uses' \subseteq Uses \cup {<<f.number, f.peer>>}
  <2>1. TableUses' = TableUses /\ PendingUses' = PendingUses BY <1>2, <1>5, Zenon DEF TableUses, PendingUses, client
  <2>2. FrameUses' \subseteq FrameUses \cup {<<f.number, f.peer>>} BY <1>3, Zenon DEF FrameUses
  <2> QED BY <1>2, <2>1, <2>2, Zenon DEF Uses
<1>7. RelaysOK' BY <1>2, Facts, Zenon DEF RelaysOK, client
<1> QED BY <1>1, <1>2, <1>4, <1>5, <1>6, <1>7, Facts, KeepStep, Zenon DEF client

\* A request or a response is lost.
LEMMA LoseStep == ASSUME IInv, Lose PROVE IInv'
<1>1. {"send", "lifetime"} \subseteq DOMAIN plan' /\ plan'.send = plan.send /\ plan'.lifetime = plan.lifetime
      BY Spent DEF IInv, Lose
<1>2. UNCHANGED <<clock, client, frames, server, received>> BY Zenon DEF Lose
<1>3. requests' \subseteq requests /\ responses' \subseteq responses BY Zenon DEF Lose
<1>4. Pending' \subseteq Pending BY <1>2, <1>3, Zenon DEF Pending, client
<1>5. Uses' \subseteq Uses BY <1>2, <1>4 DEF Uses, TableUses, PendingUses, FrameUses, client
<1>6. RelaysOK' BY <1>2, Facts, Zenon DEF RelaysOK, client
<1> QED BY <1>1, <1>2, <1>3, <1>4, <1>5, <1>6, Facts, KeepStep, Zenon DEF client

\* What is left of the server's allocation when time passes.
LEMMA ExpiredFields ==
    ASSUME NEW alloc, DOMAIN alloc = {"addr", "expiry", "perms", "chans"}
   
    PROVE  DOMAIN Expired(alloc) = {"addr", "expiry", "perms", "chans"} /\ AllocUses(Expired(alloc)) \subseteq AllocUses(alloc)
<1>1. CASE alloc # NoAllocation /\ alloc.expiry <= clock + 1
  <2>1. Expired(alloc) = NoAllocation BY <1>1, Zenon DEF Expired
  <2> QED BY <2>1, NoUses, Zenon DEF AllocUses
<1>2. CASE ~(alloc # NoAllocation /\ alloc.expiry <= clock + 1)
  <2> DEFINE K == {m \in DOMAIN alloc.chans : alloc.chans[m].expiry > clock + 1}
  <2> DEFINE c == [n \in K |-> alloc.chans[n]]
  <2> DEFINE a == Alive(alloc.perms)
  <2>1. Expired(alloc) = [alloc EXCEPT !.perms = a, !.chans = c] BY <1>2, Zenon DEF Expired
  <2>2. DOMAIN c \subseteq DOMAIN alloc.chans /\ \A n \in DOMAIN c : c[n] = alloc.chans[n] BY Zenon
  <2> HIDE DEF a, c
  <2>3. DOMAIN Expired(alloc) = {"addr", "expiry", "perms", "chans"} /\ Expired(alloc).chans = c BY <2>1, Zenon
  <2> QED BY <2>2, <2>3, Zenon DEF AllocUses
<1> QED BY <1>1, <1>2, Zenon

\* Time passes.
LEMMA TickStep == ASSUME IInv, Tick PROVE IInv'
<1>1. {"send", "lifetime"} \subseteq DOMAIN plan' /\ plan'.send = plan.send /\ plan'.lifetime = plan.lifetime
      BY Spent DEF IInv, Tick
<1>2. UNCHANGED <<client, requests, responses, frames, received>> /\ clock' \in Nat BY Facts DEF Tick
<1>3. DOMAIN server' = DOMAIN server /\ server'.alloc = Expired(server.alloc) /\ server'.answers = server.answers
      BY Facts, Zenon DEF Tick
<1>4. DOMAIN server'.alloc = {"addr", "expiry", "perms", "chans"} /\ AllocUses(server'.alloc) \subseteq AllocUses(server.alloc)
      BY <1>3, Facts, ExpiredFields, Zenon
<1>5. Pending' = Pending BY <1>2, Zenon DEF Pending, client
<1>6. Uses' \subseteq Uses BY <1>2, <1>4, <1>5 DEF Uses, TableUses, PendingUses, FrameUses, client
<1>7. RelaysOK' BY <1>2, Facts, Zenon DEF RelaysOK, client
<1> QED BY <1>1, <1>2, <1>3, <1>4, <1>5, <1>6, <1>7, Facts, KeepStep, Zenon DEF client

\* Every step keeps the invariant.
LEMMA NextIInv == ASSUME Parameters, IInv, [Next]_vars PROVE IInv'
<1>1. CASE Allocate \/ send_binding_request BY <1>1, AnonymousStep, Zenon
<1>2. CASE \E a \in Addrs, p \in Peers : create_permission(a, p) BY <1>2, PermitStep, Zenon
<1>3. CASE \E a \in Addrs, p \in Peers : send_to(a, p) BY <1>3, SendStep, Zenon
<1>4. CASE \E a \in Addrs : Close(a) \/ refresh_allocations(a) BY <1>4, RefreshStep, Zenon
<1>5. CASE \E a \in Addrs : HandleTimeout(a) BY <1>5, TimeoutStep, Zenon
<1>6. CASE update_credentials BY <1>6, CredentialStep, Zenon
<1>7. CASE CloseClient BY <1>7, CloseClientStep, Zenon
<1>8. CASE \E tid \in DOMAIN tr_map : Retransmit(tid) BY <1>8, RetransmitStep, Zenon
<1>9. CASE \E r \in responses : handle_stun_message(r) BY <1>9, ResponseStep, Zenon
<1>10. CASE \E f \in frames : handle_channel_data(f) BY <1>10, DataStep, Zenon
<1>11. CASE \E r \in requests : Serve(r) BY <1>11, ServeStep, Zenon
<1>12. CASE RotateNonce BY <1>12, RotateStep, Zenon
<1>13. CASE \E n \in 1 .. MAX_CHANNEL : Forward(n) BY <1>13, ForwardStep, Zenon
<1>14. CASE Lose BY <1>14, LoseStep, Zenon
<1>15. CASE Tick BY <1>15, TickStep, Zenon
<1>16. CASE UNCHANGED vars
  <2>1. UNCHANGED <<plan, clock, client, requests, responses, frames, server, received>> BY <1>16, Zenon DEF vars, client
  <2>2. Pending' = Pending BY <2>1, Zenon DEF Pending, client
  <2>3. TableUses' = TableUses BY <2>1, Zenon DEF TableUses, client
  <2>4. PendingUses' = PendingUses BY <2>2, Zenon DEF PendingUses
  <2>5. FrameUses' = FrameUses BY <2>1, Zenon DEF FrameUses
  <2>6. Uses' \subseteq Uses BY <2>1, <2>3, <2>4, <2>5, Zenon DEF Uses
  <2>7. RelaysOK' BY <2>1, Facts, Zenon DEF RelaysOK, client
  <2> QED BY <2>1, <2>2, <2>6, <2>7, Facts, KeepStep, Zenon DEF client
<1> QED
    BY <1>1, <1>2, <1>3, <1>4, <1>5, <1>6, <1>7, <1>8, <1>9, <1>10, <1>11, <1>12, <1>13, <1>14, <1>15, <1>16, Zenon DEF Next

\* The invariant holds throughout.
LEMMA Invariant == ASSUME Parameters PROVE Spec => []IInv
<1>1. Init => IInv BY InitIInv, Zenon
<1>2. IInv /\ [Next]_vars => IInv' BY NextIInv, Zenon
<1> QED BY <1>1, <1>2, PTL DEF Spec

\* SignedRight for any server and network: update_credentials gives every allocation the new key
\* in the step that changes the user name, so no request names one user and has the key of another.
THEOREM SignedWithItsKey == ASSUME Parameters PROVE Spec => []SignedRight
<1>1. IInv => SignedRight BY Zenon DEF IInv, Keyed, SignedRight, Pending
<1> QED BY <1>1, Invariant, PTL

\* PeersNotConfused for any order of bindings, refusals, retransmissions, losses and expiries: the
\* number on channel data names one peer at both ends as long as numbers are not taken again.
THEOREM DataFromItsPeer == ASSUME Parameters PROVE Spec => []PeersNotConfused
<1>1. IInv => PeersNotConfused BY Zenon DEF IInv, OneMeaning
<1> QED BY <1>1, Invariant, PTL

\* TimersMove: handle_timeout puts both timers of an allocation ahead of the clock, so that a driver
\* which sleeps until poll_timeout makes progress.
THEOREM TimersAhead == ASSUME Parameters PROVE Spec => TimersMove
<1>1. ASSUME IInv, NEW a \in Addrs, HandleTimeout(a)
      PROVE  relays'[a].refresh_alloc_timer > clock /\ relays'[a].refresh_perms_timer > clock
  <2>1. RelaysOK /\ clock \in Nat /\ a \in DOMAIN relays BY <1>1, Facts, Zenon DEF HandleTimeout
  <2>2. RelayOK(relays[a], credential) BY <2>1, Zenon DEF RelaysOK
  <2>3. relays'[a] = Rearmed(relays[a]) BY <1>1, <2>1, Zenon DEF HandleTimeout
  <2> QED BY <2>1, <2>2, <2>3, RearmedFields, Zenon
<1>2. IInv => [\A a \in Addrs : HandleTimeout(a) =>
                  relays'[a].refresh_alloc_timer > clock /\ relays'[a].refresh_perms_timer > clock]_vars
      BY <1>1, Zenon
<1> QED BY <1>2, Invariant, PTL DEF TimersMove

=============================================================================
