--------------------------- MODULE SctpHandshake ---------------------------
(***************************************************************************)
(* Association setup of rtc-sctp: the four-way handshake between one       *)
(* client association and the associations a server endpoint spawns for    *)
(* the INITs it receives (association/mod.rs, endpoint/mod.rs, timer.rs).  *)
(*                                                                         *)
(* An association is named by its verification tag (my_verification_tag,   *)
(* the endpoint's local aid).  The tag also stands for the random initial  *)
(* TSN and for the state cookie of the association: the code sets          *)
(* peer_verification_tag and peer_last_tsn at the same place, and a cookie *)
(* is generated once per association.                                      *)
(*                                                                         *)
(* The network is the set of packets in transit.  Receiving a packet       *)
(* leaves it there (a duplicate may follow), Lose removes it, and nothing  *)
(* orders the packets.  A timer is armed or not, and an armed timer may    *)
(* expire at any moment; what is counted is its expirations.               *)
(***************************************************************************)
EXTENDS Naturals, FiniteSets

CONSTANTS
    Client,      \* the tag of the client association
    Servers,     \* the tags the server endpoint can hand out
    NoTag,       \* "no tag": peer_verification_tag = 0, or no cookie
    MaxInit,     \* max_t1_init_retrans
    MaxCookie    \* max_t1_cookie_retrans

Assocs == {Client} \cup Servers

ASSUME TagAssumption == Client \notin Servers /\ NoTag \notin Assocs
ASSUME RetransAssumption == MaxInit \in Nat /\ MaxCookie \in Nat

VARIABLES
    net,                    \* the packets in transit
    associations,           \* the tags of the associations that exist
    state,                  \* AssociationState of each association
    peer_verification_tag,
    my_cookie,              \* the cookie an association has generated, or NoTag
    handshake_completed,
    stored_init,            \* the client's INIT is kept for retransmission
    stored_cookie_echo,     \* the cookie in the client's COOKIE-ECHO, or NoTag
    t1_init, t1_cookie,     \* the client's T1 timers: armed or not
    retrans_init,           \* their expirations since they were last stopped
    retrans_cookie,
    error                   \* the client has reported HandshakeFailed

timerVars == <<stored_init, stored_cookie_echo, t1_init, t1_cookie,
               retrans_init, retrans_cookie, error>>
vars == <<net, associations, state, peer_verification_tag, my_cookie,
          handshake_completed, timerVars>>

HandshakeStates == {"Closed", "CookieWait", "CookieEchoed", "Established"}

\* An INIT carries no verification tag: its sender does not know one yet.
INIT == [type |-> "INIT", initiate_tag |-> Client]
INIT_ACK(s) == [type |-> "INIT_ACK", to |-> Client, initiate_tag |-> s, cookie |-> s]
COOKIE_ECHO(s, c) == [type |-> "COOKIE_ECHO", to |-> s, cookie |-> c]
COOKIE_ACK(a) == [type |-> "COOKIE_ACK", to |-> a]

Packets == {INIT}
    \cup {INIT_ACK(s) : s \in Servers}
    \cup {COOKIE_ECHO(s, c) : s \in Servers, c \in Servers}
    \cup {COOKIE_ACK(a) : a \in Assocs \cup {NoTag}}

Init ==
    /\ net = {}
    /\ associations = {}
    /\ state = [a \in Assocs |-> "Closed"]
    /\ peer_verification_tag = [a \in Assocs |-> NoTag]
    /\ my_cookie = [a \in Assocs |-> NoTag]
    /\ handshake_completed = [a \in Assocs |-> FALSE]
    /\ stored_init = FALSE
    /\ stored_cookie_echo = NoTag
    /\ t1_init = FALSE
    /\ t1_cookie = FALSE
    /\ retrans_init = 0
    /\ retrans_cookie = 0
    /\ error = FALSE

----------------------------------------------------------------------------
(* The client. *)

\* Endpoint::connect and Association::new: the client sends its INIT at once.
connect ==
    /\ Client \notin associations
    /\ associations' = associations \cup {Client}
    /\ state' = [state EXCEPT ![Client] = "CookieWait"]
    /\ stored_init' = TRUE
    /\ t1_init' = TRUE
    /\ net' = net \cup {INIT}
    /\ UNCHANGED <<peer_verification_tag, my_cookie, handshake_completed,
                   stored_cookie_echo, t1_cookie, retrans_init, retrans_cookie, error>>

\* Mutants of handle_init_ack: the state is not checked; T1-init is not stopped.
handle_init_ack_any_state(m) ==
    /\ m.type = "INIT_ACK"
    /\ Client \in associations
    /\ state[Client] # "Closed"
    /\ peer_verification_tag' = [peer_verification_tag EXCEPT ![Client] = m.initiate_tag]
    /\ t1_init' = FALSE
    /\ retrans_init' = 0
    /\ stored_init' = FALSE
    /\ stored_cookie_echo' = m.cookie
    /\ net' = net \cup {COOKIE_ECHO(m.initiate_tag, m.cookie)}
    /\ t1_cookie' = TRUE
    /\ state' = [state EXCEPT ![Client] = "CookieEchoed"]
    /\ UNCHANGED <<associations, my_cookie, handshake_completed, retrans_cookie, error>>
handle_init_ack_t1_runs_on(m) ==
    /\ m.type = "INIT_ACK"
    /\ Client \in associations
    /\ state[Client] = "CookieWait"
    /\ peer_verification_tag' = [peer_verification_tag EXCEPT ![Client] = m.initiate_tag]
    /\ stored_init' = FALSE
    /\ stored_cookie_echo' = m.cookie
    /\ net' = net \cup {COOKIE_ECHO(m.initiate_tag, m.cookie)}
    /\ t1_cookie' = TRUE
    /\ state' = [state EXCEPT ![Client] = "CookieEchoed"]
    /\ UNCHANGED <<associations, my_cookie, handshake_completed, t1_init, retrans_init,
                   retrans_cookie, error>>

\* An INIT ACK counts in COOKIE-WAIT only.
handle_init_ack(m) ==
    /\ m.type = "INIT_ACK"
    /\ Client \in associations
    /\ state[Client] = "CookieWait"
    /\ peer_verification_tag' = [peer_verification_tag EXCEPT ![Client] = m.initiate_tag]
    /\ t1_init' = FALSE
    /\ retrans_init' = 0
    /\ stored_init' = FALSE
    /\ stored_cookie_echo' = m.cookie
    /\ net' = net \cup {COOKIE_ECHO(m.initiate_tag, m.cookie)}
    /\ t1_cookie' = TRUE
    /\ state' = [state EXCEPT ![Client] = "CookieEchoed"]
    /\ UNCHANGED <<associations, my_cookie, handshake_completed, retrans_cookie, error>>

\* A COOKIE ACK counts in COOKIE-ECHOED only.
handle_cookie_ack(m) ==
    /\ m.type = "COOKIE_ACK"
    /\ m.to \in associations
    /\ state[m.to] = "CookieEchoed"
    /\ t1_cookie' = FALSE
    /\ retrans_cookie' = 0
    /\ stored_cookie_echo' = NoTag
    /\ state' = [state EXCEPT ![m.to] = "Established"]
    /\ handshake_completed' = [handshake_completed EXCEPT ![m.to] = TRUE]
    /\ UNCHANGED <<net, associations, peer_verification_tag, my_cookie,
                   stored_init, t1_init, retrans_init, error>>

(* mutant: the last expiration stops the timer and reports nothing *)
T1InitTimeout_silent ==
    /\ t1_init
    /\ retrans_init' = retrans_init + 1
    /\ IF retrans_init' > MaxInit
       THEN t1_init' = FALSE /\ UNCHANGED net
       ELSE /\ net' = IF stored_init THEN net \cup {INIT} ELSE net
            /\ UNCHANGED t1_init
    /\ UNCHANGED <<associations, state, peer_verification_tag, my_cookie, handshake_completed,
                   stored_init, stored_cookie_echo, t1_cookie, retrans_cookie, error>>

\* T1-init expires: the INIT is sent again, or the handshake is reported failed.
T1InitTimeout ==
    /\ t1_init
    /\ retrans_init' = retrans_init + 1
    /\ IF retrans_init' > MaxInit
       THEN error' = TRUE /\ t1_init' = FALSE /\ UNCHANGED net
       ELSE /\ net' = IF stored_init THEN net \cup {INIT} ELSE net
            /\ UNCHANGED <<error, t1_init>>
    /\ UNCHANGED <<associations, state, peer_verification_tag, my_cookie, handshake_completed,
                   stored_init, stored_cookie_echo, t1_cookie, retrans_cookie>>

\* T1-cookie expires: likewise for the COOKIE ECHO.
T1CookieTimeout ==
    /\ t1_cookie
    /\ retrans_cookie' = retrans_cookie + 1
    /\ IF retrans_cookie' > MaxCookie
       THEN error' = TRUE /\ t1_cookie' = FALSE /\ UNCHANGED net
       ELSE /\ net' = IF stored_cookie_echo # NoTag
                      THEN net \cup {COOKIE_ECHO(peer_verification_tag[Client], stored_cookie_echo)}
                      ELSE net
            /\ UNCHANGED <<error, t1_cookie>>
    /\ UNCHANGED <<associations, state, peer_verification_tag, my_cookie, handshake_completed,
                   stored_init, stored_cookie_echo, t1_init, retrans_init>>

----------------------------------------------------------------------------
(* The server. *)

\* Endpoint::handle routes on the verification tag.  An INIT has none, and the
\* initiate tag it carries is the peer's, so it is a first packet: it spawns an
\* association, while the endpoint has room, which answers with its cookie.
handle_init(m) ==
    /\ m.type = "INIT"
    /\ \E s \in Servers \ associations :
          /\ associations' = associations \cup {s}
          /\ peer_verification_tag' = [peer_verification_tag EXCEPT ![s] = m.initiate_tag]
          /\ my_cookie' = [my_cookie EXCEPT ![s] = s]
          /\ net' = net \cup {INIT_ACK(s)}
    /\ UNCHANGED <<state, handshake_completed, timerVars>>

\* A COOKIE ECHO with the right cookie establishes the association, or is only
\* answered again when it is established already.  COOKIE_ECHO is sent to server
\* tags alone, so the T1 timers the code stops here, the client's, are not armed.
handle_cookie_echo(m) ==
    /\ m.type = "COOKIE_ECHO"
    /\ m.to \in associations
    /\ my_cookie[m.to] # NoTag
    /\ my_cookie[m.to] = m.cookie
    /\ state[m.to] \in HandshakeStates
    /\ state' = [state EXCEPT ![m.to] = "Established"]
    /\ handshake_completed' = [handshake_completed EXCEPT ![m.to] = TRUE]
    /\ net' = net \cup {COOKIE_ACK(peer_verification_tag[m.to])}
    /\ UNCHANGED <<associations, peer_verification_tag, my_cookie, timerVars>>

----------------------------------------------------------------------------

\* Association::close, called by the application or on an error of handle_inbound:
\* the state is Closed and every timer is stopped.
close(a) ==
    /\ a \in associations
    /\ state[a] # "Closed"
    /\ state' = [state EXCEPT ![a] = "Closed"]
    /\ IF a = Client
       THEN /\ t1_init' = FALSE /\ t1_cookie' = FALSE
            /\ retrans_init' = 0 /\ retrans_cookie' = 0
       ELSE UNCHANGED <<t1_init, t1_cookie, retrans_init, retrans_cookie>>
    /\ UNCHANGED <<net, associations, peer_verification_tag, my_cookie, handshake_completed,
                   stored_init, stored_cookie_echo, error>>

Lose(m) ==
    /\ net' = net \ {m}
    /\ UNCHANGED <<associations, state, peer_verification_tag, my_cookie,
                   handshake_completed, timerVars>>

Receive(m) ==
    \/ handle_init(m)
    \/ handle_init_ack(m)
    \/ handle_cookie_echo(m)
    \/ handle_cookie_ack(m)

Next ==
    \/ connect
    \/ T1InitTimeout
    \/ T1CookieTimeout
    \/ \E m \in net : Receive(m) \/ Lose(m)
    \/ \E a \in Assocs : close(a)

\* The driver calls handle_timeout once poll_timeout's instant has passed.
Fairness == WF_vars(T1InitTimeout) /\ WF_vars(T1CookieTimeout)

Spec == Init /\ [][Next]_vars /\ Fairness

----------------------------------------------------------------------------

\* Types; a T1 timer never counts past the expiration that exceeds its limit, which is the
\* one that reports the failure.
TypeOK ==
    /\ net \subseteq Packets
    /\ associations \subseteq Assocs
    /\ state \in [Assocs -> HandshakeStates]
    /\ peer_verification_tag \in [Assocs -> Assocs \cup {NoTag}]
    /\ my_cookie \in [Assocs -> Servers \cup {NoTag}]
    /\ handshake_completed \in [Assocs -> BOOLEAN]
    /\ stored_init \in BOOLEAN
    /\ stored_cookie_echo \in Servers \cup {NoTag}
    /\ t1_init \in BOOLEAN
    /\ t1_cookie \in BOOLEAN
    /\ retrans_init \in 0 .. MaxInit + 1
    /\ retrans_cookie \in 0 .. MaxCookie + 1
    /\ error \in BOOLEAN

\* However many associations retransmitted INITs have spawned, at most one of
\* them completes its handshake, and it is the one the client talks to.
CompletedAgree ==
    \A s \in Servers : handshake_completed[s] =>
        /\ peer_verification_tag[s] = Client
        /\ peer_verification_tag[Client] = s

\* The client never counts itself connected before the server association it
\* talks to does: no COOKIE ACK of another association or of an earlier state is
\* taken for the one it waits for.
ServerFirst ==
    handshake_completed[Client] =>
        /\ peer_verification_tag[Client] \in Servers \cap associations
        /\ handshake_completed[peer_verification_tag[Client]]

\* A handshaking client is never left with nothing to wake it: the timer of its
\* state is armed with the packet to send again, or it has reported the failure.
NeverStranded ==
    /\ state[Client] = "CookieWait" => (t1_init /\ stored_init) \/ error
    /\ state[Client] = "CookieEchoed" =>
          (t1_cookie /\ stored_cookie_echo = peer_verification_tag[Client]) \/ error
    /\ t1_init => state[Client] = "CookieWait"
    /\ t1_cookie => state[Client] = "CookieEchoed"

\* Whatever is lost, a client that has started either completes the handshake,
\* reports its failure or is closed: the retransmissions are bounded.
Resolves ==
    Client \in associations ~>
        handshake_completed[Client] \/ error \/ state[Client] = "Closed"

----------------------------------------------------------------------------
(* What the four properties above rest on: the inductive invariant. *)

\* What a packet in transit says of the associations.
PacketsOK ==
    \A m \in net :
        /\ m.type = "INIT_ACK" => m.initiate_tag \in associations
        /\ m.type = "COOKIE_ECHO" =>
              m.cookie = m.to /\ m.to = peer_verification_tag[Client]
        /\ m.type = "COOKIE_ACK" =>
              /\ m.to = Client
              /\ peer_verification_tag[Client] \in Servers
              /\ handshake_completed[peer_verification_tag[Client]]

\* A server association answers to the client from the start and is never
\* itself waiting for an answer.
ServersOK ==
    \A s \in Servers :
        /\ s \in associations => peer_verification_tag[s] = Client
        /\ state[s] \in {"Closed", "Established"}

\* The client fixes its peer when it leaves COOKIE-WAIT, never to change it.
ClientOK ==
    /\ peer_verification_tag[Client] \in (Servers \cap associations) \cup {NoTag}
    /\ state[Client] = "CookieWait" => peer_verification_tag[Client] = NoTag
    /\ state[Client] \in {"CookieEchoed", "Established"} => peer_verification_tag[Client] # NoTag
    /\ Client \notin associations =>
          peer_verification_tag[Client] = NoTag /\ state[Client] = "Closed"
    /\ stored_cookie_echo \in {NoTag, peer_verification_tag[Client]}

\* An armed T1 timer has expirations left.
RetransOK ==
    /\ t1_init => retrans_init <= MaxInit
    /\ t1_cookie => retrans_cookie <= MaxCookie
    /\ Client \notin associations => retrans_init = 0 /\ retrans_cookie = 0
    /\ state[Client] = "CookieWait" => retrans_cookie = 0

IInv ==
    /\ TypeOK /\ PacketsOK /\ ServersOK /\ ClientOK /\ RetransOK
    /\ CompletedAgree /\ ServerFirst /\ NeverStranded
============================================================================
