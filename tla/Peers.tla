------------------------------- MODULE Peers -------------------------------
(***************************************************************************)
(* The bootnodes a node keeps connections to: the peer states and the list *)
(* of connectable peers of src/src/modules/networking/networking.cpp.      *)
(* connectToPeers runs on a timer; connections come and go in libp2p,      *)
(* which tells of them by events and by the end of connection attempts.    *)
(*                                                                         *)
(* Abstractions.  Time is whether a backoff has run out.  Of a connection  *)
(* only its existence matters.                                             *)
(***************************************************************************)
EXTENDS Naturals, FiniteSets

CONSTANTS Bootnodes,    \* the peers of the chain spec, without this node
          Aggregators,  \* subnet_aggregators_
          Limits,       \* values of maxBootnodes; a large one stands for none
          InitBackoff,  \* kInitBackoff
          MaxBackoff,   \* kMaxBackoff
          MaxAttempts,  \* bound: attempts in flight to one peer
          MaxLinks      \* bound: connections with one peer

ASSUME PeersAssumption ==
  /\ IsFiniteSet(Bootnodes)
  /\ Aggregators \subseteq Bootnodes
  /\ {MaxBackoff, MaxAttempts, MaxLinks} \cup Limits \subseteq Nat
  /\ InitBackoff \in 1 .. MaxBackoff

VARIABLES limit,     \* maxBootnodes of the configuration
          peer,      \* peer_states_: state, and backoff for the next failure
          listed,    \* how often connectable_peers_ has a peer
          attempts,  \* host->connect calls that have not returned
          links,     \* connections that libp2p has with a peer
          status     \* "starting", "up", or "threw"

vars == <<limit, peer, listed, attempts, links, status>>

Backoff == InitBackoff .. MaxBackoff
PeerState == [state : {"Connectable", "Connecting", "Connected", "Backoff", "BackoffOver"},
              backoff : Backoff]

-----------------------------------------------------------------------------
(* connectToPeers. *)

Lesser(m, n) == IF m < n THEN m ELSE n

\* peers whose backoff has run out become connectable
Refreshed ==
  [p \in Bootnodes |->
     IF peer[p].state = "BackoffOver" THEN [peer[p] EXCEPT !.state = "Connectable"]
     ELSE peer[p]]

\* Mutant: aggregators are listed as well.
RelistedAll ==
  [p \in Bootnodes |->
     IF peer[p].state = "BackoffOver" THEN listed[p] + 1 ELSE listed[p]]

Relisted ==
  [p \in Bootnodes |->
     IF peer[p].state = "BackoffOver" /\ p \notin Aggregators
     THEN listed[p] + 1 ELSE listed[p]]

ActiveIn(states) ==
  {p \in Bootnodes : states[p].state \in {"Connecting", "Connected"}}

\* aggregators are dialled whatever the limit
DialledAggregators ==
  {p \in Aggregators : Refreshed[p].state = "Connectable"}

Want == Lesser(Cardinality(Bootnodes), limit)

\* Mutant: the aggregators dialled in this pass do not count.
WantMoreAll == Want - Lesser(Want, Cardinality(ActiveIn(peer)))

\* how many peers are to be taken from the list
WantMore ==
  Want - Lesser(Want, Cardinality(ActiveIn(peer) \cup DialledAggregators))

\* random picks from the list until there are enough
Picks ==
  LET list == {p \in Bootnodes : Relisted[p] > 0}
  IN  {s \in SUBSET list : Cardinality(s) = Lesser(WantMore, Cardinality(list))}

Dial(dialled) ==
  /\ peer' = [p \in Bootnodes |->
                IF p \in dialled THEN [Refreshed[p] EXCEPT !.state = "Connecting"]
                ELSE Refreshed[p]]
  /\ attempts' = [p \in Bootnodes |->
                    IF p \in dialled THEN attempts[p] + 1 ELSE attempts[p]]

\* std::get of a peer that is not connectable throws
ConnectToPeers ==
  /\ status \in {"starting", "up"}
  /\ \A p \in Bootnodes : attempts[p] < MaxAttempts
  /\ \E picked \in Picks :
       /\ Dial(DialledAggregators \cup picked)
       /\ listed' = [p \in Bootnodes |->
                       IF p \in picked THEN Relisted[p] - 1 ELSE Relisted[p]]
       /\ status' = IF \A p \in picked : /\ Refreshed[p].state = "Connectable"
                                          /\ p \notin DialledAggregators
                    THEN "up" ELSE "threw"
  /\ UNCHANGED <<limit, links>>

-----------------------------------------------------------------------------
(* Events of libp2p. *)

\* on_peer_connected, for a new connection in either direction
OnPeerConnected(p) ==
  /\ links' = [links EXCEPT ![p] = @ + 1]
  /\ IF peer[p].state = "Connectable" /\ listed[p] = 0
     THEN status' = "threw" /\ UNCHANGED <<peer, listed>>
     ELSE /\ peer' = [peer EXCEPT ![p] = [state |-> "Connected", backoff |-> InitBackoff]]
          /\ listed' = IF peer[p].state = "Connectable"
                       THEN [listed EXCEPT ![p] = @ - 1] ELSE listed
          /\ UNCHANGED status

\* a connection from the peer; the first handler of the io thread is the timer's
Inbound(p) ==
  /\ status = "up"
  /\ links[p] < MaxLinks
  /\ OnPeerConnected(p)
  /\ UNCHANGED <<limit, attempts>>

\* host->connect returns: with a new connection,
AttemptConnects(p) ==
  /\ status = "up"
  /\ attempts[p] > 0
  /\ links[p] < MaxLinks
  /\ attempts' = [attempts EXCEPT ![p] = @ - 1]
  /\ OnPeerConnected(p)
  /\ UNCHANGED limit

\* with a connection that was there already,
AttemptReuses(p) ==
  /\ status = "up"
  /\ attempts[p] > 0
  /\ links[p] > 0
  /\ attempts' = [attempts EXCEPT ![p] = @ - 1]
  /\ UNCHANGED <<limit, peer, listed, links, status>>

\* Mutant: a failed attempt leaves the peer as it is.
AfterFailureNone(s) == s

AfterFailure(s) ==
  IF s.state = "Connecting"
  THEN [state |-> "Backoff", backoff |-> Lesser(2 * s.backoff, MaxBackoff)]
  ELSE s

\* or with an error
AttemptFails(p) ==
  /\ status = "up"
  /\ attempts[p] > 0
  /\ attempts' = [attempts EXCEPT ![p] = @ - 1]
  /\ peer' = [peer EXCEPT ![p] = AfterFailure(@)]
  /\ UNCHANGED <<limit, listed, links, status>>

\* Mutant: every closed connection counts as a disconnect.
AfterAnyClose(p) ==
  IF peer[p].state = "Connected"
  THEN [state |-> "Backoff", backoff |-> InitBackoff]
  ELSE peer[p]

\* on_peer_disconnected comes with the last connection
AfterClose(p) ==
  IF links[p] = 1 /\ peer[p].state = "Connected"
  THEN [state |-> "Backoff", backoff |-> InitBackoff]
  ELSE peer[p]

Close(p) ==
  /\ status = "up"
  /\ links[p] > 0
  /\ links' = [links EXCEPT ![p] = @ - 1]
  /\ peer' = [peer EXCEPT ![p] = AfterClose(p)]
  /\ UNCHANGED <<limit, listed, attempts, status>>

\* backoff_until passes
BackoffPasses(p) ==
  /\ status = "up"
  /\ peer[p].state = "Backoff"
  /\ peer' = [peer EXCEPT ![p].state = "BackoffOver"]
  /\ UNCHANGED <<limit, listed, attempts, links, status>>

Init ==
  /\ limit \in Limits
  /\ peer = [p \in Bootnodes |-> [state |-> "Connectable", backoff |-> InitBackoff]]
  /\ listed = [p \in Bootnodes |-> IF p \in Aggregators THEN 0 ELSE 1]
  /\ attempts = [p \in Bootnodes |-> 0]
  /\ links = [p \in Bootnodes |-> 0]
  /\ status = "starting"

AttemptEnds(p) == AttemptConnects(p) \/ AttemptReuses(p) \/ AttemptFails(p)

Next ==
  \/ ConnectToPeers
  \/ \E p \in Bootnodes :
       \/ Inbound(p)
       \/ AttemptConnects(p)
       \/ AttemptReuses(p)
       \/ AttemptFails(p)
       \/ Close(p)
       \/ BackoffPasses(p)

\* the timer fires, attempts return (libp2p bounds them by a timeout) and
\* time passes
Fairness ==
  /\ WF_vars(ConnectToPeers)
  /\ \A p \in Bootnodes : WF_vars(AttemptEnds(p)) /\ WF_vars(BackoffPasses(p))

Spec == Init /\ [][Next]_vars

FairSpec == Spec /\ Fairness

-----------------------------------------------------------------------------
(* Properties. *)

\* The list that random peers are picked from has every connectable peer once,
\* aggregators excepted, and no other.  on_peer_connected and connectToPeers
\* rely on it: neither the logic_error of the one nor a bad variant access is
\* ever thrown.
ListMatches ==
  /\ status # "threw"
  /\ \A p \in Bootnodes :
       listed[p] = IF peer[p].state = "Connectable" /\ p \notin Aggregators THEN 1 ELSE 0

\* A peer is marked Connected exactly while libp2p has a connection with it,
\* and Connecting only while an attempt is under way, although several
\* attempts and connections of one peer overlap.
StateIsReal ==
  \A p \in Bootnodes :
    /\ peer[p].state = "Connected" <=> links[p] > 0
    /\ peer[p].state = "Connecting" => attempts[p] > 0

\* connectToPeers takes no peer from the list that would bring the number of
\* active peers above the limit.
LimitKept ==
  [][(\E p \in Bootnodes \ Aggregators :
        peer'[p].state = "Connecting" /\ peer[p].state # "Connecting")
     => Cardinality(ActiveIn(peer')) <= Want]_vars

\* Without a limit no peer is given up: again and again it is connected or an
\* attempt is under way.
NeverGivenUp ==
  limit >= Cardinality(Bootnodes) =>
    \A p \in Bootnodes : []<>(attempts[p] > 0 \/ links[p] > 0)
=============================================================================
