----------------------------- MODULE NodeSetup -----------------------------
(***************************************************************************)
(* How a node finds out who it is: the validator registry is read from     *)
(* annotated_validators.yaml, the bootnodes from nodes.yaml, and from both *)
(* the fork choice takes the node's validator and the networking module    *)
(* the peers it will dial and their part in its subnet.                    *)
(*                                                                         *)
(* Abstractions.  A file is the sequence of its entries; an ENR decodes to *)
(* a peer with or without the aggregator flag, or does not decode.         *)
(* Addresses and the names of peers, which only metrics use, are left out. *)
(***************************************************************************)
EXTENDS Naturals, Sequences, FiniteSets
LOCAL INSTANCE SequencesExt

CONSTANTS RegistryFiles,    \* sequences of [node, indices]
          NodesFiles,       \* sequences of [valid, peer, aggregator]
          OwnNode,          \* node id of the configuration
          OwnPeer,          \* the peer id of its key
          CliIsAggregator,
          SubnetCount,
          ValidatorCount    \* of the genesis state

VARIABLES stage,       \* what comes next, or how the start ended
          file,        \* entries of the registry that are still to be read
          owner,       \* index_to_node_
          indices,     \* node_to_indices_
          current,     \* current_validator_indices_
          bootnodes,   \* of the chain spec
          aggregates,  \* is_aggregator_
          connectable, \* connectable_peers_
          aggregators  \* subnet_aggregators_

suVars == <<stage, file, owner, indices, current, bootnodes, aggregates,
            connectable, aggregators>>

-----------------------------------------------------------------------------
(* ValidatorRegistryImpl. *)

ReadFile ==
  /\ stage = "file"
  /\ file' \in RegistryFiles
  /\ stage' = "registry"
  /\ UNCHANGED <<owner, indices, current, bootnodes, aggregates, connectable, aggregators>>

IndicesOf(node) == IF node \in DOMAIN indices THEN indices[node] ELSE {}

\* an index that another node has
Taken(entry) ==
  \E i \in ToSet(entry.indices) : i \in DOMAIN owner /\ owner[i] # entry.node

\* one node of the map; an index that is repeated for its node is ignored
ReadEntry ==
  /\ stage = "registry"
  /\ file # << >>
  /\ LET entry == Head(file)
         given == ToSet(entry.indices)
     IN  IF Taken(entry)
         THEN stage' = "raised" /\ UNCHANGED <<owner, indices>>
         ELSE /\ owner' = [i \in DOMAIN owner \cup given |->
                             IF i \in given THEN entry.node ELSE owner[i]]
              /\ indices' = IF given = {} THEN indices
                            ELSE [n \in DOMAIN indices \cup {entry.node} |->
                                    IF n = entry.node THEN IndicesOf(n) \cup given
                                    ELSE indices[n]]
              /\ UNCHANGED stage
  /\ file' = Tail(file)
  /\ UNCHANGED <<current, bootnodes, aggregates, connectable, aggregators>>

\* a node that the registry does not have, or without an id, gets no index
FindOwn ==
  /\ stage = "registry"
  /\ file = << >>
  /\ current' = IndicesOf(OwnNode)
  /\ stage' = "chain spec"
  /\ UNCHANGED <<file, owner, indices, bootnodes, aggregates, connectable, aggregators>>

-----------------------------------------------------------------------------
(* ChainSpecImpl. *)

\* entries that do not decode are left out, and the later ones move up
Decoded(nodes) == SelectSeq(nodes, LAMBDA n : n.valid)

\* the command line can make the node an aggregator, not the reverse
LoadBootNodes ==
  /\ stage = "chain spec"
  /\ \E nodes \in NodesFiles :
       LET found == Decoded(nodes)
           own == SelectSeq(found, LAMBDA n : n.peer = OwnPeer)
       IN  /\ bootnodes' = found
           /\ aggregates' = (CliIsAggregator \/ (own # << >> /\ Head(own).aggregator))
  /\ stage' = "fork choice"
  /\ UNCHANGED <<file, owner, indices, current, connectable, aggregators>>

-----------------------------------------------------------------------------
(* ForkChoiceStore and NetworkingImpl. *)

\* getValidatorId: SL_FATAL unless the node has one validator
GetValidatorId ==
  /\ stage = "fork choice"
  /\ stage' = IF Cardinality(current) = 1 THEN "networking" ELSE "fatal"
  /\ UNCHANGED <<file, owner, indices, current, bootnodes, aggregates, connectable, aggregators>>

Subnets == {i % SubnetCount : i \in current}

\* positions in the list count as validator indices, from 0; what comes after
\* the last validator is not looked at
OtherPeers(nodes) ==
  {i \in DOMAIN nodes : i <= ValidatorCount /\ nodes[i].peer # OwnPeer}

OnLoadedSuccess ==
  /\ stage = "networking"
  /\ LET mine == {i \in OtherPeers(bootnodes) :
                    bootnodes[i].aggregator /\ (i - 1) % SubnetCount \in Subnets}
         rest == SetToSortSeq(OtherPeers(bootnodes) \ mine, <)
     IN  /\ aggregators' = {bootnodes[i].peer : i \in mine}
         /\ connectable' = [k \in DOMAIN rest |-> bootnodes[rest[k]].peer]
  /\ stage' = "up"
  /\ UNCHANGED <<file, owner, indices, current, bootnodes, aggregates>>

-----------------------------------------------------------------------------
suInit ==
  /\ stage = "file"
  /\ file = << >>
  /\ owner = [i \in {} |-> i] /\ indices = [n \in {} |-> n]
  /\ current = {}
  /\ bootnodes = << >>
  /\ aggregates = FALSE
  /\ connectable = << >> /\ aggregators = {}

suNext ==
  \/ ReadFile \/ ReadEntry \/ FindOwn
  \/ LoadBootNodes \/ GetValidatorId \/ OnLoadedSuccess

suSpec == suInit /\ [][suNext]_suVars

-----------------------------------------------------------------------------
(* Properties. *)

\* The two maps of the registry are inverse to each other however the entries
\* of the file are ordered and repeated: no validator has two nodes, so no two
\* nodes sign for it.
RegistryAgrees ==
  /\ \A n \in DOMAIN indices : \A i \in indices[n] : i \in DOMAIN owner /\ owner[i] = n
  /\ \A i \in DOMAIN owner : i \in IndicesOf(owner[i])

\* A node that comes up has one validator, and the peers it starts with are as
\* connectToPeers takes for granted: none twice, none both in the list and
\* among the aggregators, and the node itself in neither.
PeersReady ==
  stage = "up" =>
    /\ Cardinality(current) = 1
    /\ IsInjective(connectable)
    /\ ToSet(connectable) \cap aggregators = {}
    /\ OwnPeer \notin ToSet(connectable) \cup aggregators
=============================================================================
