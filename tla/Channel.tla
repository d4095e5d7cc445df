------------------------------ MODULE Channel ------------------------------
(***************************************************************************)
(* What a data channel promises the two applications that share it: it is  *)
(* created on one side (or on both, when negotiated out of band), opens    *)
(* once, carries messages each way while it is open, and closes once for   *)
(* good.  A reliable ordered channel hands over a growing prefix of what   *)
(* was sent; any other channel hands over each message at most once.       *)
(***************************************************************************)
EXTENDS Integers, Sequences, SequencesExt

CONSTANTS Labels,       \* the channels
          Sides,        \* the two ends
          Peer(_),      \* the other end
          InOrder(_)    \* the channels that are ordered and reliable

VARIABLES phase,        \* phase[l][x]: "none", "connecting", "open", "closed"
          sent,         \* sent[l][x]: the messages x has sent on l
          got           \* got[l][x]: the messages x has been handed on l

vars == <<phase, sent, got>>

Init ==
  /\ phase = [l \in Labels |-> [x \in Sides |-> "none"]]
  /\ sent = [l \in Labels |-> [x \in Sides |-> <<>>]]
  /\ got = [l \in Labels |-> [x \in Sides |-> <<>>]]

(* The phases one end goes through; an end that did not create the channel *)
(* opens it only when its peer did                                         *)
Moves(l, x) ==
  \/ phase'[l][x] = phase[l][x]
  \/ phase[l][x] = "none" /\ phase'[l][x] = "connecting"
  \/ phase[l][x] = "none" /\ phase'[l][x] = "open" /\ phase[l][Peer(x)] # "none"
  \/ phase[l][x] = "connecting" /\ phase'[l][x] = "open"
  \/ phase[l][x] # "none" /\ phase'[l][x] = "closed"

(* An end sends before it has closed the channel *)
Sends(l, x) ==
  \/ sent'[l][x] = sent[l][x]
  \/ /\ phase[l][x] \in {"connecting", "open"}
     /\ \E m \in 1 .. 9 : sent'[l][x] = Append(sent[l][x], m)

Once(q) == \A i, j \in 1 .. Len(q) : i # j => q[i] # q[j]

(* Messages are handed over at an open end, as the channel promises *)
Gets(l, x) ==
  \/ got'[l][x] = got[l][x]
  \/ /\ phase'[l][x] = "open"
     /\ IsPrefix(got[l][x], got'[l][x])
     /\ IF InOrder(l) THEN IsPrefix(got'[l][x], sent[l][Peer(x)])
        ELSE /\ ToSet(got'[l][x]) \subseteq ToSet(sent[l][Peer(x)])
             /\ Once(got'[l][x])

(* What a step may do to the channel l *)
Keeps(l) == \A x \in Sides : Moves(l, x) /\ Sends(l, x) /\ Gets(l, x)

Next == \A l \in Labels : Keeps(l)

Spec == Init /\ [][Next]_vars
=============================================================================
