------------------------ MODULE SctpHandshakeProofs ------------------------
(***************************************************************************)
(* Proofs about SctpHandshake, for any number of server associations and   *)
(* any retransmission limits.  Each action preserves the inductive         *)
(* invariant IInv; the three safety properties are conjuncts of it.        *)
(***************************************************************************)
EXTENDS SctpHandshake, TLAPS

\* The fields a packet of each type carries, and their ranges.
LEMMA PacketShape ==
    ASSUME NEW m \in Packets
    PROVE  /\ m.type = "INIT" => m.initiate_tag = Client
           /\ m.type = "INIT_ACK" => m.initiate_tag \in Servers /\ m.cookie = m.initiate_tag
           /\ m.type = "COOKIE_ECHO" => m.to \in Servers /\ m.cookie \in Servers
           /\ m.type = "COOKIE_ACK" => m.to \in Assocs \cup {NoTag}
BY DEF Packets, INIT, INIT_ACK, COOKIE_ECHO, COOKIE_ACK

\* The packets the handlers build are packets.
LEMMA PacketsBuilt ==
    /\ INIT \in Packets /\ INIT.type = "INIT"
    /\ \A s \in Servers : /\ INIT_ACK(s) \in Packets
                          /\ INIT_ACK(s).type = "INIT_ACK"
                          /\ INIT_ACK(s).initiate_tag = s
    /\ \A s, c \in Servers : /\ COOKIE_ECHO(s, c) \in Packets
                             /\ COOKIE_ECHO(s, c).type = "COOKIE_ECHO"
                             /\ COOKIE_ECHO(s, c).to = s
                             /\ COOKIE_ECHO(s, c).cookie = c
    /\ \A a \in Assocs \cup {NoTag} : /\ COOKIE_ACK(a) \in Packets
                                      /\ COOKIE_ACK(a).type = "COOKIE_ACK"
                                      /\ COOKIE_ACK(a).to = a
<1>1. INIT \in Packets /\ INIT.type = "INIT" BY DEF Packets, INIT
<1>2. ASSUME NEW s \in Servers PROVE INIT_ACK(s) \in Packets BY DEF Packets
<1>3. ASSUME NEW s \in Servers, NEW c \in Servers PROVE COOKIE_ECHO(s, c) \in Packets
      BY DEF Packets
<1>4. ASSUME NEW a \in Assocs \cup {NoTag} PROVE COOKIE_ACK(a) \in Packets
      BY DEF Packets
<1> QED BY <1>1, <1>2, <1>3, <1>4, Zenon DEF INIT_ACK, COOKIE_ECHO, COOKIE_ACK

\* The invariant holds before anything is sent.
LEMMA InitIInv == Init => IInv
<1> SUFFICES ASSUME Init PROVE IInv BY Zenon
<1> USE TagAssumption, RetransAssumption DEF Init, Assocs, HandshakeStates
<1>a. retrans_init \in 0 .. MaxInit + 1 /\ retrans_cookie \in 0 .. MaxCookie + 1 OBVIOUS
<1>b. /\ state \in [Assocs -> HandshakeStates]
      /\ peer_verification_tag \in [Assocs -> Assocs \cup {NoTag}]
      /\ my_cookie \in [Assocs -> Servers \cup {NoTag}]
      /\ handshake_completed \in [Assocs -> BOOLEAN]
      BY Zenon
<1>1. TypeOK BY <1>a, <1>b, Zenon DEF TypeOK
<1>2. PacketsOK BY Zenon DEF PacketsOK
<1>3. ServersOK /\ ClientOK /\ RetransOK BY Zenon DEF ServersOK, ClientOK, RetransOK
<1>4. CompletedAgree /\ ServerFirst /\ NeverStranded
      BY Zenon DEF CompletedAgree, ServerFirst, NeverStranded
<1> QED BY <1>1, <1>2, <1>3, <1>4, Zenon DEF IInv

USE DEF Assocs, HandshakeStates

\* Association::new sends the first INIT.
LEMMA ConnectStep == IInv /\ connect => IInv'
<1> SUFFICES ASSUME IInv, connect PROVE IInv' BY Zenon
<1> USE TagAssumption, RetransAssumption, PacketsBuilt DEF IInv, connect
<1>1. TypeOK' BY DEF TypeOK
<1>2. PacketsOK' BY DEF TypeOK, PacketsOK
<1>3. ServersOK' BY DEF TypeOK, ServersOK
<1>4. ClientOK' BY Zenon DEF TypeOK, ClientOK
<1>5. CompletedAgree' BY Zenon DEF TypeOK, CompletedAgree
<1>6. ServerFirst' BY Zenon DEF TypeOK, ServerFirst
<1>7. NeverStranded' BY Zenon DEF TypeOK, NeverStranded, ClientOK
<1>8. RetransOK' BY DEF TypeOK, RetransOK
<1> QED BY <1>1, <1>2, <1>3, <1>4, <1>5, <1>6, <1>7, <1>8, Zenon

\* The endpoint spawns an association for an INIT (handle_init).
LEMMA HandleInitStep ==
    ASSUME IInv, NEW m \in net, handle_init(m)
    PROVE  IInv'
<1> PICK s \in Servers \ associations :
       /\ associations' = associations \cup {s}
       /\ peer_verification_tag' = [peer_verification_tag EXCEPT ![s] = m.initiate_tag]
       /\ my_cookie' = [my_cookie EXCEPT ![s] = s]
       /\ net' = net \cup {INIT_ACK(s)}
    BY Zenon DEF handle_init
<1> m.initiate_tag = Client BY PacketShape, Zenon DEF IInv, TypeOK, handle_init
<1> peer_verification_tag'[Client] = peer_verification_tag[Client]
    BY TagAssumption, Zenon DEF IInv, TypeOK
<1> UNCHANGED <<state, handshake_completed, timerVars>> BY Zenon DEF handle_init
<1> USE TagAssumption, RetransAssumption, PacketsBuilt DEF IInv, timerVars
<1>1. TypeOK' BY DEF TypeOK
<1>2. PacketsOK' BY DEF TypeOK, PacketsOK
<1>3. ServersOK' BY Zenon DEF TypeOK, ServersOK
<1>4. ClientOK' BY Zenon DEF TypeOK, ClientOK
<1>5. CompletedAgree' BY Zenon DEF TypeOK, CompletedAgree
<1>6. ServerFirst' BY Zenon DEF TypeOK, ServerFirst
<1>7. NeverStranded' BY Zenon DEF TypeOK, NeverStranded
<1>8. RetransOK' BY Zenon DEF TypeOK, RetransOK
<1> QED BY <1>1, <1>2, <1>3, <1>4, <1>5, <1>6, <1>7, <1>8, Zenon

\* The client takes the first INIT-ACK and no later one (handle_init_ack).
LEMMA HandleInitAckStep ==
    ASSUME IInv, NEW m \in net, handle_init_ack(m)
    PROVE  IInv'
<1> /\ m.initiate_tag \in Servers
    /\ m.cookie = m.initiate_tag
    /\ m.initiate_tag \in associations
    BY PacketShape, Zenon DEF IInv, TypeOK, PacketsOK, handle_init_ack
<1> peer_verification_tag'[Client] = m.initiate_tag
    BY Zenon DEF IInv, TypeOK, handle_init_ack
\* In COOKIE-WAIT the client has no peer, so no packet or association names one.
<1> peer_verification_tag[Client] = NoTag BY Zenon DEF IInv, ClientOK, handle_init_ack
<1> \A s \in Servers : ~ handshake_completed[s]
    BY TagAssumption, Zenon DEF IInv, CompletedAgree
<1> USE TagAssumption, RetransAssumption, PacketsBuilt DEF IInv, handle_init_ack
<1>a. /\ state' \in [Assocs -> HandshakeStates]
      /\ peer_verification_tag' \in [Assocs -> Assocs \cup {NoTag}]
      /\ net' \subseteq Packets
      /\ retrans_init' \in 0 .. MaxInit + 1
      BY DEF TypeOK
<1>1. TypeOK' BY <1>a, Zenon DEF TypeOK
<1>2. PacketsOK'
  <2> SUFFICES ASSUME NEW p \in net'
               PROVE  /\ p.type = "INIT_ACK" => p.initiate_tag \in associations'
                      /\ p.type = "COOKIE_ECHO" =>
                            p.cookie = p.to /\ p.to = m.initiate_tag
                      /\ p.type # "COOKIE_ACK"
      BY SMTT(30) DEF PacketsOK
  <2>1. CASE p \in net
        BY <2>1, PacketShape DEF TypeOK, PacketsOK
  <2>2. CASE p = COOKIE_ECHO(m.initiate_tag, m.cookie)
        BY <2>2
  <2> QED BY <2>1, <2>2, Zenon
<1>3. ServersOK' BY DEF TypeOK, ServersOK
<1>4. ClientOK' BY Zenon DEF TypeOK, ClientOK
<1>5. CompletedAgree' BY Zenon DEF TypeOK, CompletedAgree
<1>6. ServerFirst' BY Zenon DEF TypeOK, ServerFirst
<1>7. NeverStranded' BY Zenon DEF TypeOK, NeverStranded
<1>8. RetransOK' BY DEF TypeOK, RetransOK
<1> QED BY <1>1, <1>2, <1>3, <1>4, <1>5, <1>6, <1>7, <1>8, Zenon

\* A server association completes on its own cookie only (handle_cookie_echo).
LEMMA HandleCookieEchoStep ==
    ASSUME IInv, NEW m \in net, handle_cookie_echo(m)
    PROVE  IInv'
<1> /\ m.to \in Servers \cap associations
    /\ m.to = peer_verification_tag[Client]
    /\ peer_verification_tag[m.to] = Client
    BY PacketShape, Zenon DEF IInv, TypeOK, PacketsOK, ServersOK, handle_cookie_echo
<1> USE TagAssumption, RetransAssumption, PacketsBuilt DEF IInv, handle_cookie_echo, timerVars
<1>1. TypeOK' BY DEF TypeOK
<1>2. PacketsOK' BY DEF TypeOK, PacketsOK
<1>3. ServersOK' BY DEF TypeOK, ServersOK
<1>4. ClientOK' BY Zenon DEF TypeOK, ClientOK
<1>5. CompletedAgree' BY DEF TypeOK, CompletedAgree
<1>6. ServerFirst' BY Zenon DEF TypeOK, ServerFirst
<1>7. NeverStranded' BY Zenon DEF TypeOK, NeverStranded
<1>8. RetransOK' BY Zenon DEF TypeOK, RetransOK
<1> QED BY <1>1, <1>2, <1>3, <1>4, <1>5, <1>6, <1>7, <1>8, Zenon

\* The client completes on a COOKIE-ACK of its peer (handle_cookie_ack).
LEMMA HandleCookieAckStep ==
    ASSUME IInv, NEW m \in net, handle_cookie_ack(m)
    PROVE  IInv'
<1> /\ m.to = Client
    /\ peer_verification_tag[Client] \in Servers
    /\ handshake_completed[peer_verification_tag[Client]]
    BY Zenon DEF IInv, PacketsOK, handle_cookie_ack
<1> USE TagAssumption, RetransAssumption DEF IInv, handle_cookie_ack
<1>a. /\ state' \in [Assocs -> HandshakeStates]
      /\ handshake_completed' \in [Assocs -> BOOLEAN]
      /\ retrans_cookie' \in 0 .. MaxCookie + 1
      BY DEF TypeOK
<1>1. TypeOK' BY <1>a, Zenon DEF TypeOK
<1>2. PacketsOK' BY Zenon DEF TypeOK, PacketsOK
<1>3. ServersOK' BY Zenon DEF TypeOK, ServersOK
<1>4. ClientOK' BY Zenon DEF TypeOK, ClientOK
<1>5. CompletedAgree' BY Zenon DEF TypeOK, CompletedAgree
<1>6. ServerFirst' BY Zenon DEF TypeOK, ServerFirst, ClientOK
<1>7. NeverStranded' BY Zenon DEF TypeOK, NeverStranded
<1>8. RetransOK' BY SMTT(30) DEF TypeOK, RetransOK
<1> QED BY <1>1, <1>2, <1>3, <1>4, <1>5, <1>6, <1>7, <1>8, Zenon

\* An expiry of T1 sends the stored packet again, or reports the failure.
LEMMA TimeoutStep == IInv /\ (T1InitTimeout \/ T1CookieTimeout) => IInv'
<1> SUFFICES ASSUME IInv, T1InitTimeout \/ T1CookieTimeout PROVE IInv' BY Zenon
<1>a. /\ net' \subseteq Packets
      /\ PacketsOK'
  <2>1. CASE T1InitTimeout
    <3>1. /\ net' \subseteq net \cup {INIT}
          /\ UNCHANGED <<associations, peer_verification_tag, handshake_completed>>
          BY <2>1, Zenon DEF T1InitTimeout
    <3> QED BY <3>1, PacketsBuilt DEF IInv, TypeOK, PacketsOK
  <2>2. CASE T1CookieTimeout
    <3>1. state[Client] = "CookieEchoed" BY <2>2, Zenon DEF T1CookieTimeout, IInv, NeverStranded
    <3>2. peer_verification_tag[Client] \in Servers BY <3>1, Zenon DEF IInv, ClientOK
    <3>3. stored_cookie_echo \in {NoTag, peer_verification_tag[Client]} BY Zenon DEF IInv, ClientOK
    <3>4. /\ net' \subseteq net \cup {COOKIE_ECHO(peer_verification_tag[Client],
                                               peer_verification_tag[Client])}
          /\ UNCHANGED <<associations, peer_verification_tag, handshake_completed>>
          BY <2>2, <3>3, Zenon DEF T1CookieTimeout
    <3> QED BY <3>2, <3>4, PacketsBuilt DEF IInv, TypeOK, PacketsOK
  <2> QED BY <2>1, <2>2, Zenon
<1> USE TagAssumption, RetransAssumption DEF IInv, T1InitTimeout, T1CookieTimeout
<1>b. /\ retrans_init' \in 0 .. MaxInit + 1
      /\ retrans_cookie' \in 0 .. MaxCookie + 1
      BY DEF TypeOK, RetransOK
<1>1. TypeOK' BY <1>a, <1>b, Zenon DEF TypeOK
<1>3. ServersOK' BY Zenon DEF ServersOK
<1>4. ClientOK' BY Zenon DEF ClientOK
<1>5. CompletedAgree' BY Zenon DEF CompletedAgree
<1>6. ServerFirst' BY Zenon DEF ServerFirst
<1>7. NeverStranded' BY DEF TypeOK, NeverStranded
<1>8. RetransOK' BY DEF TypeOK, RetransOK, NeverStranded, ClientOK
<1> QED BY <1>a, <1>1, <1>3, <1>4, <1>5, <1>6, <1>7, <1>8, Zenon

\* The application closes an association.
LEMMA CloseStep == ASSUME IInv, NEW a \in Assocs, close(a) PROVE IInv'
<1> USE TagAssumption, RetransAssumption DEF IInv, close
<1>a. /\ retrans_init' \in 0 .. MaxInit + 1
      /\ retrans_cookie' \in 0 .. MaxCookie + 1
      BY DEF TypeOK
<1>b. state' \in [Assocs -> HandshakeStates] BY Zenon DEF TypeOK
<1>c. t1_init' \in BOOLEAN /\ t1_cookie' \in BOOLEAN BY Zenon DEF TypeOK
<1>1. TypeOK' BY <1>a, <1>b, <1>c, Zenon DEF TypeOK
<1>2. PacketsOK' BY Zenon DEF TypeOK, PacketsOK
<1>3. ServersOK' BY Zenon DEF TypeOK, ServersOK
<1>4. ClientOK' BY Zenon DEF TypeOK, ClientOK
<1>5. CompletedAgree' BY Zenon DEF TypeOK, CompletedAgree
<1>6. ServerFirst' BY Zenon DEF TypeOK, ServerFirst
<1>7. NeverStranded'
  <2>1. CASE a = Client BY <2>1, Zenon DEF TypeOK, NeverStranded
  <2>2. CASE a # Client BY <2>2, Zenon DEF TypeOK, NeverStranded
  <2> QED BY <2>1, <2>2, Zenon
<1>8. RetransOK' BY Zenon DEF TypeOK, RetransOK
<1> QED BY <1>1, <1>2, <1>3, <1>4, <1>5, <1>6, <1>7, <1>8, Zenon

\* Every step preserves the invariant: one lemma above for each action.
LEMMA NextIInv == IInv /\ [Next]_vars => IInv'
<1> SUFFICES ASSUME IInv, [Next]_vars PROVE IInv' BY Zenon
<1>1. CASE connect BY <1>1, ConnectStep, Zenon
<1>2. CASE T1InitTimeout \/ T1CookieTimeout BY <1>2, TimeoutStep, Zenon
<1>3. ASSUME NEW m \in net, Receive(m) PROVE IInv'
      BY <1>3, HandleInitStep, HandleInitAckStep, HandleCookieEchoStep, HandleCookieAckStep, Zenon
      DEF Receive
<1>4. ASSUME NEW m \in net, Lose(m) PROVE IInv'
      BY <1>4 DEF Lose, timerVars, IInv, TypeOK, PacketsOK, ServersOK, ClientOK,
                  CompletedAgree, ServerFirst, NeverStranded, RetransOK
<1>5. ASSUME NEW a \in Assocs, close(a) PROVE IInv' BY <1>5, CloseStep, SMTT(30)
<1>6. CASE UNCHANGED vars
      BY <1>6 DEF vars, timerVars, IInv, TypeOK, PacketsOK, ServersOK, ClientOK,
                  CompletedAgree, ServerFirst, NeverStranded, RetransOK
<1> QED BY <1>1, <1>2, <1>3, <1>4, <1>5, <1>6, Zenon DEF Next

\* IInv is an invariant of the handshake.
THEOREM Invariance == Spec => []IInv
BY InitIInv, NextIInv, PTL DEF Spec

\* The type invariant, for every set of server tags.
THEOREM TypeCorrect == Spec => []TypeOK
<1> IInv => TypeOK BY Zenon DEF IInv
<1> QED BY Invariance, PTL

\* At most one of the associations spawned by retransmitted INITs completes its
\* handshake, and it is the one the client talks to (Association::handle_cookie_echo).
THEOREM Agreement == Spec => []CompletedAgree
<1> IInv => CompletedAgree BY Zenon DEF IInv
<1> QED BY Invariance, PTL

\* A connected client's peer has connected before it (Association::handle_cookie_ack).
THEOREM ServerConnectsFirst == Spec => []ServerFirst
<1> IInv => ServerFirst BY Zenon DEF IInv
<1> QED BY Invariance, PTL

\* A handshaking client always has its T1 timer armed or has reported failure
\* (Association::handle_timeout).
THEOREM NotStranded == Spec => []NeverStranded
<1> IInv => NeverStranded BY Zenon DEF IInv
<1> QED BY Invariance, PTL
============================================================================
