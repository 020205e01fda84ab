---------------------------- MODULE PeersProofs ----------------------------
(***************************************************************************)
(* Theorems about Peers, for every set of bootnodes and aggregators, every *)
(* limit, every backoff and every number of attempts and connections that  *)
(* overlap.                                                                *)
(***************************************************************************)
EXTENDS Peers, FiniteSetTheorems, TLAPS

Typed ==
  /\ limit \in Limits
  /\ peer \in [Bootnodes -> PeerState]
  /\ listed \in [Bootnodes -> Nat]
  /\ attempts \in [Bootnodes -> Nat]
  /\ links \in [Bootnodes -> Nat]
  /\ status \in {"starting", "up", "threw"}

\* The inductive invariant.  on_peer_connected throws for a connectable peer
\* that is not in the list, and no aggregator is: that it never meets one is
\* because the timer's first pass dials all of them, and later passes those
\* whose backoff has run out.
PeersInv ==
  /\ Typed
  /\ ListMatches
  /\ StateIsReal
  /\ status = "up" => \A p \in Aggregators : peer[p].state # "Connectable"

\* The bootnodes start in order.
LEMMA InitInv == Init => PeersInv
  BY PeersAssumption
  DEF Init, PeersInv, Typed, ListMatches, StateIsReal, PeerState, Backoff

-----------------------------------------------------------------------------
(* The timer. *)

\* What the pass makes of the peers before it dials any.
LEMMA RefreshedPeers ==
  ASSUME PeersInv
  PROVE  /\ Refreshed \in [Bootnodes -> PeerState]
         /\ Relisted \in [Bootnodes -> Nat]
         /\ \A p \in Bootnodes :
              /\ Refreshed[p].state # "BackoffOver"
              /\ Refreshed[p].state = "Connectable"
                   <=> peer[p].state \in {"Connectable", "BackoffOver"}
              /\ Refreshed[p].state # "Connectable" => Refreshed[p] = peer[p]
              /\ Relisted[p] = IF Refreshed[p].state = "Connectable" /\ p \notin Aggregators
                               THEN 1 ELSE 0
  BY PeersAssumption
  DEF PeersInv, Typed, ListMatches, Refreshed, Relisted, PeerState

\* The peers that are picked are connectable, and none of them was dialled as
\* an aggregator.
LEMMA PickedPeers ==
  ASSUME PeersInv, NEW picked \in Picks
  PROVE  /\ picked \subseteq Bootnodes
         /\ \A p \in picked : /\ Refreshed[p].state = "Connectable"
                              /\ p \notin Aggregators
                              /\ p \notin DialledAggregators
                              /\ Relisted[p] = 1
  BY RefreshedPeers DEF Picks, DialledAggregators

\* The pass of the timer keeps list, marks and attempts together.
LEMMA ConnectStep == ASSUME PeersInv, ConnectToPeers PROVE PeersInv'
<1>1. PICK picked \in Picks :
        /\ Dial(DialledAggregators \cup picked)
        /\ listed' = [p \in Bootnodes |->
                        IF p \in picked THEN Relisted[p] - 1 ELSE Relisted[p]]
        /\ status' = IF \A p \in picked : /\ Refreshed[p].state = "Connectable"
                                           /\ p \notin DialledAggregators
                     THEN "up" ELSE "threw"
  BY DEF ConnectToPeers
<1>2. /\ DialledAggregators \subseteq Bootnodes /\ picked \subseteq Bootnodes
      /\ \A p \in DialledAggregators \cup picked : Refreshed[p].state = "Connectable"
  BY PickedPeers, PeersAssumption DEF DialledAggregators
<1>3. status' = "up" /\ UNCHANGED <<limit, links>>
  BY <1>1, PickedPeers DEF ConnectToPeers
<1>4. /\ peer' = [p \in Bootnodes |->
                    IF p \in DialledAggregators \cup picked
                    THEN [Refreshed[p] EXCEPT !.state = "Connecting"] ELSE Refreshed[p]]
      /\ attempts' = [p \in Bootnodes |->
                        IF p \in DialledAggregators \cup picked
                        THEN attempts[p] + 1 ELSE attempts[p]]
  BY <1>1 DEF Dial
<1>5. \A p \in Bootnodes :
        /\ peer'[p] \in PeerState
        /\ p \in DialledAggregators \cup picked => peer'[p].state = "Connecting"
        /\ p \notin DialledAggregators \cup picked => peer'[p] = Refreshed[p]
  BY <1>4, RefreshedPeers DEF PeerState
<1>6. Typed'
  <2>1. peer' \in [Bootnodes -> PeerState]
    BY <1>4, <1>5
  <2>2. listed' \in [Bootnodes -> Nat]
    BY <1>1, RefreshedPeers, PickedPeers
  <2>3. attempts' \in [Bootnodes -> Nat]
    BY <1>4 DEF PeersInv, Typed
  <2> QED BY <1>3, <2>1, <2>2, <2>3 DEF PeersInv, Typed
<1>7. ListMatches'
  <2>1. ASSUME NEW p \in Bootnodes
        PROVE  listed'[p] = IF peer'[p].state = "Connectable" /\ p \notin Aggregators
                            THEN 1 ELSE 0
    <3>1. CASE p \in picked
      BY <1>1, <1>5, <3>1, PickedPeers
    <3>2. CASE p \in DialledAggregators /\ p \notin picked
      BY <1>1, <1>5, <3>2, RefreshedPeers DEF DialledAggregators
    <3>3. CASE p \notin DialledAggregators \cup picked
      BY <1>1, <1>5, <3>3, RefreshedPeers
    <3> QED BY <3>1, <3>2, <3>3
  <2> QED BY <1>3, <2>1 DEF ListMatches
<1>8. StateIsReal'
  <2>1. ASSUME NEW p \in Bootnodes
        PROVE  /\ peer'[p].state = "Connected" <=> links'[p] > 0
               /\ peer'[p].state = "Connecting" => attempts'[p] > 0
    <3>1. CASE p \in DialledAggregators \cup picked
      <4>1. peer[p].state \in {"Connectable", "BackoffOver"}
        BY <1>2, <3>1, RefreshedPeers
      <4> QED BY <1>3, <1>4, <1>5, <3>1, <4>1 DEF PeersInv, Typed, StateIsReal
    <3>2. CASE p \notin DialledAggregators \cup picked
      <4>1. peer'[p].state # "Connectable" => peer'[p] = peer[p]
        BY <1>5, <3>2, RefreshedPeers
      <4>2. peer'[p].state = "Connectable" => peer[p].state \in {"Connectable", "BackoffOver"}
        BY <1>5, <3>2, RefreshedPeers
      <4>3. links'[p] = links[p] /\ attempts'[p] = attempts[p]
        BY <1>3, <1>4, <3>2
      <4> QED BY <4>1, <4>2, <4>3 DEF PeersInv, StateIsReal
    <3> QED BY <3>1, <3>2
  <2> QED BY <2>1 DEF StateIsReal
<1>9. \A p \in Aggregators : peer'[p].state # "Connectable"
  BY <1>5, PeersAssumption DEF DialledAggregators
<1> QED BY <1>6, <1>7, <1>8, <1>9 DEF PeersInv

-----------------------------------------------------------------------------
(* Events of libp2p. *)

\* on_peer_connected does not throw, and marks the peer whatever it was before.
LEMMA ConnectedStep ==
  ASSUME PeersInv, status = "up", NEW p \in Bootnodes, OnPeerConnected(p),
         limit' = limit, attempts' \in [Bootnodes -> Nat],
         \A q \in Bootnodes \ {p} : attempts'[q] = attempts[q]
  PROVE  PeersInv'
<1>1. ~(peer[p].state = "Connectable" /\ listed[p] = 0)
  BY PeersAssumption DEF PeersInv, ListMatches
<1>2. /\ peer' = [peer EXCEPT ![p] = [state |-> "Connected", backoff |-> InitBackoff]]
      /\ listed' = IF peer[p].state = "Connectable"
                   THEN [listed EXCEPT ![p] = @ - 1] ELSE listed
      /\ links' = [links EXCEPT ![p] = @ + 1]
      /\ status' = status
  BY <1>1 DEF OnPeerConnected
<1>3. /\ peer' \in [Bootnodes -> PeerState]
      /\ peer'[p].state = "Connected"
      /\ \A q \in Bootnodes \ {p} : peer'[q] = peer[q]
  BY <1>2, PeersAssumption DEF PeersInv, Typed, PeerState, Backoff
<1>4. /\ listed' \in [Bootnodes -> Nat]
      /\ listed'[p] = 0
      /\ \A q \in Bootnodes \ {p} : listed'[q] = listed[q]
  BY <1>1, <1>2 DEF PeersInv, Typed, ListMatches
<1>5. /\ links' \in [Bootnodes -> Nat]
      /\ links'[p] > 0
      /\ \A q \in Bootnodes \ {p} : links'[q] = links[q]
  BY <1>2 DEF PeersInv, Typed
<1>6. Typed'
  BY <1>2, <1>3, <1>4, <1>5 DEF PeersInv, Typed
<1>7. ListMatches'
  BY <1>2, <1>3, <1>4 DEF PeersInv, ListMatches
<1>8. StateIsReal'
  BY <1>3, <1>5 DEF PeersInv, StateIsReal
<1>9. \A q \in Aggregators : peer'[q].state # "Connectable"
  BY <1>3, PeersAssumption DEF PeersInv
<1> QED BY <1>6, <1>7, <1>8, <1>9 DEF PeersInv

\* A connection that the peer opened.
LEMMA InboundStep ==
  ASSUME PeersInv, NEW p \in Bootnodes, Inbound(p) PROVE PeersInv'
<1>1. attempts' \in [Bootnodes -> Nat] /\ \A q \in Bootnodes \ {p} : attempts'[q] = attempts[q]
  BY DEF PeersInv, Typed, Inbound
<1> QED BY <1>1, ConnectedStep DEF Inbound

\* A connection that an attempt opened.
LEMMA AttemptConnectsStep ==
  ASSUME PeersInv, NEW p \in Bootnodes, AttemptConnects(p) PROVE PeersInv'
<1>1. attempts' \in [Bootnodes -> Nat] /\ \A q \in Bootnodes \ {p} : attempts'[q] = attempts[q]
  BY DEF PeersInv, Typed, AttemptConnects
<1> QED BY <1>1, ConnectedStep DEF AttemptConnects

\* A connection was there, so the peer is not marked as being dialled.
LEMMA AttemptReusesStep ==
  ASSUME PeersInv, NEW p \in Bootnodes, AttemptReuses(p) PROVE PeersInv'
<1>1. Typed'
  BY DEF PeersInv, Typed, AttemptReuses
<1>2. ListMatches' /\ (status' = "up" => \A q \in Aggregators : peer'[q].state # "Connectable")
  BY DEF PeersInv, AttemptReuses, ListMatches
<1>3. StateIsReal'
  BY DEF PeersInv, Typed, AttemptReuses, StateIsReal
<1> QED BY <1>1, <1>2, <1>3 DEF PeersInv

\* An action that changes the mark of one peer, to one that is neither
\* connectable nor connecting, or not at all.
LEMMA MarkStep ==
  ASSUME PeersInv, status = "up", UNCHANGED <<limit, listed, status>>,
         NEW p \in Bootnodes, NEW new \in PeerState,
         peer' = [peer EXCEPT ![p] = new],
         attempts' \in [Bootnodes -> Nat], links' \in [Bootnodes -> Nat],
         \A q \in Bootnodes \ {p} : attempts'[q] = attempts[q] /\ links'[q] = links[q],
         new.state = "Connectable" <=> peer[p].state = "Connectable",
         new.state = "Connected" <=> links'[p] > 0,
         new.state = "Connecting" => attempts'[p] > 0
  PROVE  PeersInv'
<1>1. peer' \in [Bootnodes -> PeerState] /\ peer'[p] = new
      /\ \A q \in Bootnodes \ {p} : peer'[q] = peer[q]
  BY DEF PeersInv, Typed
<1>2. Typed'
  BY <1>1 DEF PeersInv, Typed
<1>3. ListMatches'
  BY <1>1 DEF PeersInv, ListMatches
<1>4. StateIsReal'
  BY <1>1 DEF PeersInv, StateIsReal
<1>5. \A q \in Aggregators : peer'[q].state # "Connectable"
  BY <1>1, PeersAssumption DEF PeersInv
<1> QED BY <1>2, <1>3, <1>4, <1>5 DEF PeersInv

\* A failed attempt makes a peer that is being dialled wait, and no other.
LEMMA AttemptFailsStep ==
  ASSUME PeersInv, NEW p \in Bootnodes, AttemptFails(p) PROVE PeersInv'
<1> DEFINE new == AfterFailure(peer[p])
<1>0. peer[p] \in PeerState /\ Lesser(2 * peer[p].backoff, MaxBackoff) \in Backoff
  <2>1. peer[p] \in PeerState /\ peer[p].backoff \in Backoff
    BY DEF PeersInv, Typed, PeerState
  <2>2. InitBackoff \in Nat /\ MaxBackoff \in Nat /\ InitBackoff <= MaxBackoff
    BY PeersAssumption
  <2> QED BY <2>1, <2>2 DEF Backoff, Lesser
<1>1. /\ new \in PeerState
      /\ new.state = IF peer[p].state = "Connecting" THEN "Backoff" ELSE peer[p].state
  BY <1>0 DEF AfterFailure, PeerState
<1>2. /\ peer' = [peer EXCEPT ![p] = new]
      /\ attempts' \in [Bootnodes -> Nat] /\ links' \in [Bootnodes -> Nat]
      /\ \A q \in Bootnodes \ {p} : attempts'[q] = attempts[q] /\ links'[q] = links[q]
      /\ links'[p] = links[p] /\ status = "up" /\ UNCHANGED <<limit, listed, status>>
  BY DEF PeersInv, Typed, AttemptFails
<1> HIDE DEF new
<1>3. /\ new.state = "Connectable" <=> peer[p].state = "Connectable"
      /\ new.state = "Connected" <=> links'[p] > 0
      /\ new.state # "Connecting"
  BY <1>1, <1>2 DEF PeersInv, StateIsReal
<1> QED BY <1>1, <1>2, <1>3, MarkStep

\* Only the last connection that closes makes the peer wait.
LEMMA CloseStep ==
  ASSUME PeersInv, NEW p \in Bootnodes, Close(p) PROVE PeersInv'
<1> DEFINE new == AfterClose(p)
<1>1. /\ new \in PeerState
      /\ new.state = IF links[p] = 1 /\ peer[p].state = "Connected" THEN "Backoff"
                     ELSE peer[p].state
  BY PeersAssumption DEF PeersInv, Typed, AfterClose, PeerState, Backoff
<1>2. /\ peer' = [peer EXCEPT ![p] = new]
      /\ attempts' \in [Bootnodes -> Nat] /\ links' \in [Bootnodes -> Nat]
      /\ \A q \in Bootnodes \ {p} : attempts'[q] = attempts[q] /\ links'[q] = links[q]
      /\ links'[p] = links[p] - 1 /\ links[p] > 0 /\ links[p] \in Nat
      /\ attempts'[p] = attempts[p]
      /\ status = "up" /\ UNCHANGED <<limit, listed, status>>
  BY DEF PeersInv, Typed, Close
<1> HIDE DEF new
<1>3. peer[p].state = "Connected"
  BY <1>2 DEF PeersInv, StateIsReal
<1>4. /\ new.state = "Connectable" <=> peer[p].state = "Connectable"
      /\ new.state = "Connected" <=> links'[p] > 0
      /\ new.state # "Connecting"
  BY <1>1, <1>2, <1>3
<1> QED BY <1>1, <1>2, <1>4, MarkStep

\* A wait that is over changes the mark of one peer, which has no connection.
LEMMA BackoffPassesStep ==
  ASSUME PeersInv, NEW p \in Bootnodes, BackoffPasses(p) PROVE PeersInv'
<1> DEFINE new == [peer[p] EXCEPT !.state = "BackoffOver"]
<1>1. new \in PeerState /\ new.state = "BackoffOver" /\ peer' = [peer EXCEPT ![p] = new]
  BY DEF PeersInv, Typed, PeerState, BackoffPasses
<1>2. /\ attempts' \in [Bootnodes -> Nat] /\ links' \in [Bootnodes -> Nat]
      /\ \A q \in Bootnodes \ {p} : attempts'[q] = attempts[q] /\ links'[q] = links[q]
      /\ links'[p] = links[p] /\ peer[p].state = "Backoff"
      /\ status = "up" /\ UNCHANGED <<limit, listed, status>>
  BY DEF PeersInv, Typed, BackoffPasses
<1> HIDE DEF new
<1>3. ~(links'[p] > 0)
  BY <1>2 DEF PeersInv, StateIsReal
<1> QED BY <1>1, <1>2, <1>3, MarkStep

\* Every step keeps the invariant.
LEMMA StepInv == PeersInv /\ [Next]_vars => PeersInv'
<1> SUFFICES ASSUME PeersInv, [Next]_vars PROVE PeersInv'
  OBVIOUS
<1>1. CASE UNCHANGED vars
  BY <1>1 DEF vars, PeersInv, Typed, ListMatches, StateIsReal
<1>2. CASE Next
  BY <1>2, ConnectStep, InboundStep, AttemptConnectsStep, AttemptReusesStep,
     AttemptFailsStep, CloseStep, BackoffPassesStep DEF Next
<1> QED BY <1>1, <1>2

-----------------------------------------------------------------------------
(* The theorems. *)

\* The list, the marks and the connections agree in every behaviour.
THEOREM PeersInvariant == Spec => []PeersInv
  BY InitInv, StepInv, PTL DEF Spec

\* The list that peers are picked from has every connectable peer once and no
\* other, so that nothing throws in the timer or in a callback of libp2p.
THEOREM ListAlwaysMatches == Spec => []ListMatches
<1>1. PeersInv => ListMatches
  BY DEF PeersInv
<1> QED BY <1>1, PeersInvariant, PTL

\* The marks of the peers follow the connections that libp2p really has.
THEOREM StateAlwaysReal == Spec => []StateIsReal
<1>1. PeersInv => StateIsReal
  BY DEF PeersInv
<1> QED BY <1>1, PeersInvariant, PTL

-----------------------------------------------------------------------------
(* The limit. *)

\* What the pass wants from the list and what is active do not exceed the limit.
LEMMA WantMoreFits ==
  ASSUME PeersInv, WantMore > 0
  PROVE  /\ WantMore \in Nat
         /\ Cardinality(ActiveIn(peer) \cup DialledAggregators) + WantMore = Want
<1>1. IsFiniteSet(Bootnodes) /\ limit \in Nat
  BY PeersAssumption DEF PeersInv, Typed
<1>2. IsFiniteSet(ActiveIn(peer) \cup DialledAggregators)
  <2>1. ActiveIn(peer) \cup DialledAggregators \subseteq Bootnodes
    BY PeersAssumption DEF ActiveIn, DialledAggregators
  <2> QED BY <1>1, <2>1, FS_Subset
<1>3. /\ Cardinality(Bootnodes) \in Nat
      /\ Cardinality(ActiveIn(peer) \cup DialledAggregators) \in Nat
  BY <1>1, <1>2, FS_CardinalityType
<1> QED BY <1>1, <1>3 DEF WantMore, Want, Lesser

\* connectToPeers takes no peer from the list that would bring the number of
\* active peers above the limit.
LEMMA LimitStep ==
  ASSUME PeersInv, ConnectToPeers, NEW x \in Bootnodes \ Aggregators,
         peer'[x].state = "Connecting", peer[x].state # "Connecting"
  PROVE  Cardinality(ActiveIn(peer')) <= Want
<1> DEFINE active == ActiveIn(peer) \cup DialledAggregators
<1>1. PICK picked \in Picks : Dial(DialledAggregators \cup picked)
  BY DEF ConnectToPeers
<1>2. peer' = [p \in Bootnodes |->
                 IF p \in DialledAggregators \cup picked
                 THEN [Refreshed[p] EXCEPT !.state = "Connecting"] ELSE Refreshed[p]]
  BY <1>1 DEF Dial
<1>3. \A p \in Bootnodes : p \notin DialledAggregators \cup picked => peer'[p] = Refreshed[p]
  BY <1>2
<1>4. x \in picked
  <2>1. x \notin DialledAggregators
    BY DEF DialledAggregators
  <2>2. ASSUME x \notin picked PROVE FALSE
    BY <1>3, <2>1, <2>2, RefreshedPeers
  <2> QED BY <2>2
<1>5. /\ IsFiniteSet(Bootnodes) /\ active \subseteq Bootnodes
      /\ picked \subseteq Bootnodes
  BY PeersAssumption, PickedPeers DEF ActiveIn, DialledAggregators
<1>6. IsFiniteSet(active) /\ IsFiniteSet(picked)
  BY <1>5, FS_Subset
<1>7. ActiveIn(peer') \subseteq active \cup picked
  <2>1. ASSUME NEW p \in ActiveIn(peer'), p \notin DialledAggregators \cup picked
        PROVE  p \in ActiveIn(peer)
    BY <1>3, <2>1, RefreshedPeers DEF ActiveIn
  <2> QED BY <2>1
<1>8. Cardinality(picked) <= WantMore /\ WantMore > 0
  <2> DEFINE list == {p \in Bootnodes : Relisted[p] > 0}
  <2>1. Cardinality(picked) = Lesser(WantMore, Cardinality(list))
    BY DEF Picks
  <2>2. IsFiniteSet(list)
    BY <1>5, FS_Subset
  <2>3. Cardinality(list) \in Nat /\ Cardinality(picked) \in Nat
    BY <1>6, <2>2, FS_CardinalityType
  <2>4. Cardinality(picked) # 0
    BY <1>4, <1>6, FS_EmptySet
  <2>5. WantMore \in Int
    <3>1. limit \in Nat
      BY PeersAssumption DEF PeersInv, Typed
    <3>2. Cardinality(Bootnodes) \in Nat /\ Cardinality(active) \in Nat
      BY <1>5, <1>6, FS_CardinalityType
    <3> QED BY <3>1, <3>2 DEF WantMore, Want, Lesser
  <2> HIDE DEF list
  <2> QED BY <2>1, <2>3, <2>4, <2>5 DEF Lesser
<1>9. Cardinality(active) + WantMore = Want /\ WantMore \in Nat
  BY <1>8, WantMoreFits
<1> HIDE DEF active
<1>10. Cardinality(active \cup picked) <= Cardinality(active) + Cardinality(picked)
  <2>1. Cardinality(active \cup picked)
          = Cardinality(active) + Cardinality(picked) - Cardinality(active \cap picked)
    BY <1>6, FS_Union
  <2>2. IsFiniteSet(active \cap picked)
    BY <1>6, FS_Intersection
  <2>3. /\ Cardinality(active \cap picked) \in Nat
        /\ Cardinality(active) \in Nat /\ Cardinality(picked) \in Nat
    BY <1>6, <2>2, FS_CardinalityType
  <2> QED BY <2>1, <2>3
<1>11. IsFiniteSet(active \cup picked)
  BY <1>6, FS_Union
<1>12. Cardinality(ActiveIn(peer')) <= Cardinality(active \cup picked)
  BY <1>7, <1>11, FS_Subset
<1>13. /\ Cardinality(active) \in Nat /\ Cardinality(picked) \in Nat
       /\ Cardinality(active \cup picked) \in Nat
       /\ Cardinality(ActiveIn(peer')) \in Nat
  BY <1>6, <1>7, <1>11, FS_Subset, FS_CardinalityType
<1> QED BY <1>8, <1>9, <1>10, <1>12, <1>13

\* Only the timer's pass dials: every other step leaves no peer newly marked
\* as being dialled.
LEMMA OnlyTimerDials ==
  ASSUME PeersInv, Next, ~ConnectToPeers, NEW x \in Bootnodes,
         peer'[x].state = "Connecting"
  PROVE  peer[x].state = "Connecting"
<1>1. PICK p \in Bootnodes : \/ Inbound(p) \/ AttemptConnects(p) \/ AttemptReuses(p)
                             \/ AttemptFails(p) \/ Close(p) \/ BackoffPasses(p)
  BY DEF Next
<1>2. CASE Inbound(p) \/ AttemptConnects(p)
  BY <1>2 DEF PeersInv, Typed, PeerState, Inbound, AttemptConnects, OnPeerConnected
<1>3. CASE AttemptReuses(p)
  BY <1>3 DEF AttemptReuses
<1>4. CASE AttemptFails(p)
  BY <1>4 DEF PeersInv, Typed, AttemptFails, AfterFailure
<1>5. CASE Close(p)
  BY <1>5 DEF PeersInv, Typed, Close, AfterClose
<1>6. CASE BackoffPasses(p)
  BY <1>6 DEF PeersInv, Typed, PeerState, BackoffPasses
<1> QED BY <1>1, <1>2, <1>3, <1>4, <1>5, <1>6

\* A peer is taken from the list only while the active peers, with it and with
\* the aggregators dialled in the same pass, are not more than the limit.
THEOREM LimitAlwaysKept == Spec => LimitKept
<1>1. PeersInv /\ [Next]_vars =>
        [(\E p \in Bootnodes \ Aggregators :
            peer'[p].state = "Connecting" /\ peer[p].state # "Connecting")
         => Cardinality(ActiveIn(peer')) <= Want]_vars
  BY LimitStep, OnlyTimerDials
<1> QED BY <1>1, PeersInvariant, PTL DEF Spec, LimitKept
=============================================================================
