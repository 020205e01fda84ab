----------------------------- MODULE ForkChoice -----------------------------
(***************************************************************************)
(* ForkChoiceStore (src/src/blockchain/fork_choice.cpp): the clock, the    *)
(* two stages of attestations, LMD-GHOST, the safe target, the node's own  *)
(* votes and blocks, and the import of blocks and attestations.            *)
(*                                                                         *)
(* ForkChoiceStoreMutex holds its lock for a whole operation, so each one  *)
(* is a function from store to store, composed of the functions the code   *)
(* is composed of.  An operation that can fail half way returns what it    *)
(* had changed until then.                                                 *)
(*                                                                         *)
(* Abstractions.  Signatures are verified before anything changes; only    *)
(* verified messages are modelled.  A pruned block has no state, although  *)
(* the cache of states may keep it for a while.                            *)
(***************************************************************************)
EXTENDS BlockTransition, CachedTree
LOCAL INSTANCE SequencesExt
LOCAL INSTANCE FiniteSetsExt

CONSTANTS Genesis,              \* the anchor block, <<0, id>>
          OwnValidator,         \* validator_id_: a node has exactly one
          Aggregator,           \* is_aggregator_
          SubnetCount,          \* subnet_count_
          MaxAttestationsData   \* MAX_ATTESTATIONS_DATA

ASSUME ForkChoiceAssumption ==
  /\ Genesis \in {0} \X Ids
  /\ Ids \subseteq Nat \ {0}
  /\ OwnValidator \in Validator
  /\ Aggregator \in BOOLEAN
  /\ SubnetCount \in Nat \ {0}
  /\ MaxAttestationsData \in Nat

CONSTANTS BlockSlots,   \* bound: slots of the blocks received
          VoteDelays,   \* bound: slots from a head to a vote for it
          Scopes        \* bound: the scopes that behaviours are looked at in

\* a scope: the sets of validators that vote together, the interval in which
\* the node starts, the intervals between two calls of onTick and the last one,
\* the blocks and attestations received, the attestations in a received block
Scope == [voters : SUBSET SUBSET Validator, start : Nat, jumps : SUBSET Nat,
          time : Nat, blocks : Nat, gossips : Nat, body : Nat]

ASSUME ForkChoiceBounds ==
  /\ BlockSlots \subseteq Nat \ {0}
  /\ VoteDelays \subseteq Nat
  /\ Scopes \subseteq Scope

VARIABLES store,      \* the store, see EmptyStore
          status,     \* "up", or "aborted" by SL_FATAL
          voted,      \* the attestations the last onTick published
          blocks,     \* blocks and
          gossips,    \* attestations received so far
          scope       \* the scope of this behaviour

vars == <<store, status, voted, blocks, gossips, scope>>

Pool == INSTANCE AttestationPool
          WITH Data <- {}, Validators <- Validator, MaxFinalized <- 0,
               pool <- store.pool, finalized <- SlotOf(store.tree.root),
               published <- {}

EmptyStore(start) ==
  [time |-> start,                        \* time_, in intervals
   tree |-> NewTree(Genesis),             \* block tree in memory
   parent |-> [b \in {Genesis} |-> ZeroHash],  \* headers in the storage
   state |-> [b \in {Genesis} |-> GenesisState(Genesis)],
   head |-> Genesis,
   safe |-> Genesis,                      \* safe_target_
   known |-> [v \in {} |-> v],            \* latest_known_attestations_
   new |-> [v \in {} |-> v],              \* latest_new_attestations_
   pool |-> Pool!EmptyPool]               \* attestations_by_data_

IntervalsPerSlot == 5
SlotAt(time) == time \div IntervalsPerSlot
PhaseAt(time) == time % IntervalsPerSlot

JustificationLookbackSlots == 3

Has(st, b) == b \in DOMAIN st.parent

\* stored blocks from b down to the anchor
Chain(st, b) ==
  LET chain[x \in DOMAIN st.parent] ==
        IF st.parent[x] \in DOMAIN st.parent
        THEN {x} \cup chain[st.parent[x]]
        ELSE {x}
  IN  IF Has(st, b) THEN chain[b] ELSE {}

PutAt(f, k, v) == [x \in DOMAIN f \cup {k} |-> IF x = k THEN v ELSE f[x]]
Without(f, keys) == [x \in DOMAIN f \ keys |-> f[x]]
PointAt(b) == [root |-> b, slot |-> SlotOf(b)]

\* an operation that went through, and one that failed half way
Success(st) == [ok |-> TRUE, store |-> st]
Failure(st) == [ok |-> FALSE, store |-> st]

-----------------------------------------------------------------------------
(* LMD-GHOST. *)

\* votes for b or a block after it
Weight(st, votes, b) ==
  Cardinality({v \in DOMAIN votes : b \in Chain(st, votes[v].head.root)})

\* the order of hashes: ids, and slots between equal ids
HashBefore(a, b) == a[2] < b[2] \/ (a[2] = b[2] /\ a[1] < b[1])

\* Mutant: votes are not looked at.
HighestHash(st, votes, children) ==
  CHOOSE c \in children : \A d \in children \ {c} : HashBefore(d, c)

\* max_element: most votes, then the highest hash
BestChild(st, votes, children) ==
  CHOOSE c \in children : \A d \in children \ {c} :
    \/ Weight(st, votes, c) > Weight(st, votes, d)
    \/ Weight(st, votes, c) = Weight(st, votes, d) /\ HashBefore(d, c)

\* Mutant: the walk starts at the finalized block.
AnchorFinalized(st) == st.tree.root

Anchor(st) == IF Has(st, st.tree.justified) THEN st.tree.justified ELSE st.tree.root

ComputeLmdGhostHead(st, votes, min_score) ==
  LET heavy(b) == {c \in Children(st.tree, b) :
                     min_score > 0 => Weight(st, votes, c) >= min_score}
      walk[b \in Nodes(st.tree)] ==
        IF heavy(b) = {} THEN b ELSE walk[BestChild(st, votes, heavy(b))]
  IN  walk[Anchor(st)]

\* updateHead: a head whose header is gone cannot be compared with the new one
UpdateHead(st) ==
  IF Has(st, st.head)
  THEN Success([st EXCEPT !.head = ComputeLmdGhostHead(st, st.known, 0)])
  ELSE Failure(st)

UpdateSafeTarget(st) ==
  [st EXCEPT !.safe =
     ComputeLmdGhostHead(st, st.new, (2 * NumValidators + 2) \div 3)]

\* every new attestation replaces the known one of its validator
AcceptNewAttestations(st) ==
  UpdateHead([st EXCEPT
    !.known = [v \in DOMAIN @ \cup DOMAIN st.new |->
                 IF v \in DOMAIN st.new THEN st.new[v] ELSE @[v]],
    !.new = [v \in {} |-> v]]).store

-----------------------------------------------------------------------------
(* Attestations.  A data has the slot of the vote and three checkpoints.   *)

ValidateAttestation(st, d) ==
  /\ \A c \in {d.source, d.target, d.head} : Has(st, c.root)
  /\ d.source.slot <= d.target.slot
  /\ d.target.slot <= d.head.slot
  /\ d.source.slot = SlotOf(d.source.root)
  /\ d.target.slot = SlotOf(d.target.root)
  /\ d.slot <= SlotAt(st.time) + 1

\* there is no vote of v, or one that is older than d
Later(votes, v, d) == v \in DOMAIN votes => votes[v].slot < d.slot

\* from a block: the vote is known at once and supersedes a pending one
OnChainAttestation(st, v, d) ==
  Success([st EXCEPT
    !.known = IF Later(@, v, d) THEN PutAt(@, v, d) ELSE @,
    !.new = IF v \in DOMAIN @ /\ @[v].slot <= d.slot THEN Without(@, {v}) ELSE @])

\* from the network: the vote waits for the next interval that accepts it
OnGossipVote(st, v, d) ==
  IF d.slot > SlotAt(st.time) THEN Failure(st)
  ELSE Success([st EXCEPT !.new = IF Later(@, v, d) THEN PutAt(@, v, d) ELSE @])

OnAttestation(st, v, d, is_from_block) ==
  IF ~ValidateAttestation(st, d) THEN Failure(st)
  ELSE IF is_from_block THEN OnChainAttestation(st, v, d)
  ELSE OnGossipVote(st, v, d)

AddProof(st, d, bits) ==
  [st EXCEPT !.pool =
     Pool!AddProofToAggregate(@, SlotOf(st.tree.root), d, bits)]

\* Mutant: the proofs of a block do not go into the pool.
AggregatedKeepNone(st, d, bits, is_from_block) ==
  FoldLeft(LAMBDA r, v :
             IF r.ok THEN OnAttestation(r.store, v, d, is_from_block) ELSE r,
           Success(st), SetToSortSeq(bits, <))

\* one round per participant: the proof is added before the vote is looked at
OnAggregatedAttestation(st, d, bits, is_from_block) ==
  FoldLeft(LAMBDA r, v :
             IF r.ok THEN OnAttestation(AddProof(r.store, d, bits), v, d, is_from_block)
             ELSE r,
           Success(st), SetToSortSeq(bits, <))

\* the signers have keys; that these verify is taken for granted
ValidateAggregatedSignature(bits) == bits \subseteq Validator

OnGossipAggregatedAttestation(st, d, bits) ==
  IF d.target.root \notin DOMAIN st.state THEN Failure(st)
  ELSE IF ValidateAggregatedSignature(bits)
  THEN OnAggregatedAttestation(st, d, bits, FALSE)
  ELSE Success(st)

\* a single vote counts only through the aggregators of its subnet
OwnSubnet(v) == v % SubnetCount = OwnValidator % SubnetCount

OnGossipAttestation(st, d, v) ==
  IF ~ValidateAttestation(st, d) \/ d.target.root \notin DOMAIN st.state
  THEN Failure(st)
  ELSE IF ~(Aggregator /\ OwnSubnet(v)) THEN Success(st)
  ELSE Success([st EXCEPT !.pool =
         Pool!AddSignatureToAggregate(@, SlotOf(st.tree.root), d, v)])

-----------------------------------------------------------------------------
(* Blocks. *)

VoteOf(d, bits) == [source |-> d.source, target |-> d.target, bits |-> bits]

PostState(st, b, body) ==
  BlockResult(st.state[b.parent_root], b,
              [i \in DOMAIN body |-> VoteOf(body[i].data, body[i].bits)])

\* addBlock and putState
AddBlock(st, b, state) ==
  [st EXCEPT !.tree = AddNode(@, b.root, b.parent_root),
             !.parent = PutAt(@, b.root, b.parent_root),
             !.state = PutAt(@, b.root, state)]

\* setJustified, when the post-state has a higher justified checkpoint
UpdateJustified(st, state) ==
  IF state.justified.slot <= SlotOf(st.tree.justified) THEN Success(st)
  ELSE IF state.justified.root \notin Nodes(st.tree) THEN Failure(st)
  ELSE Success([st EXCEPT !.tree = WithJustifiedNode(@, state.justified.root)])

\* finalize and prune, when it has a higher finalized checkpoint.  Which leaf
\* becomes the best block plays no part here.
UpdateFinalized(st, state) ==
  LET root == state.finalized.root
      pruned == PrunedBy(st.tree, root)
  IN  IF state.finalized.slot <= SlotOf(st.tree.root) THEN st
      ELSE [st EXCEPT !.tree = CHOOSE t \in FinalizedTrees(@, root) : TRUE,
                      !.parent = Without(@, pruned),
                      !.state = Without(@, pruned),
                      !.pool = Pool!PrunePool(@, SlotOf(root))]

\* the attestations of the body, until one is refused
ImportBody(st, body) ==
  IF Len(body) > MaxAttestationsData THEN Failure(st)
  ELSE FoldLeft(LAMBDA r, a :
                  IF r.ok THEN OnAggregatedAttestation(r.store, a.data, a.bits, TRUE)
                  ELSE r,
                Success(st), body)

\* the keys are those of the parent's state
ValidateBlockSignatures(st, b, body) ==
  /\ b.parent_root \in DOMAIN st.state
  /\ \A i \in DOMAIN body : ValidateAggregatedSignature(body[i].bits)

OnBlock(st, b, body) ==
  IF Has(st, b.root) THEN Success(st)
  ELSE IF ~ValidateBlockSignatures(st, b, body) \/ ~PostState(st, b, body).ok
          \/ b.parent_root \notin Nodes(st.tree)
  THEN Failure(st)
  ELSE LET state == PostState(st, b, body).state
           justified == UpdateJustified(AddBlock(st, b, state), state)
           imported == ImportBody(UpdateFinalized(justified.store, state), body)
       IN  IF ~justified.ok THEN justified
           ELSE IF ~imported.ok THEN imported
           ELSE UpdateHead(imported.store)

BlockOf(slot, id, parent) ==
  [slot |-> slot, proposer |-> slot % NumValidators, parent_root |-> parent,
   root |-> <<slot, id>>]

-----------------------------------------------------------------------------
(* The node's own votes and blocks. *)

\* back from the head, at most three blocks, to the safe target or the
\* justified block; then on to a slot that can be justified
GetAttestationTarget(st) ==
  LET limit == IF SlotOf(st.safe) > SlotOf(st.tree.justified)
               THEN SlotOf(st.safe) ELSE SlotOf(st.tree.justified)
      back[b \in DOMAIN st.parent, i \in 0 .. JustificationLookbackSlots] ==
        IF i > 0 /\ SlotOf(b) > limit THEN back[st.parent[b], i - 1] ELSE b
      justifiable[b \in DOMAIN st.parent] ==
        IF IsJustifiableSlot(SlotOf(st.tree.root), SlotOf(b)) THEN b
        ELSE justifiable[st.parent[b]]
  IN  justifiable[back[st.head, JustificationLookbackSlots]]

OwnAttestation(st) ==
  [slot |-> SlotAt(st.time),
   head |-> PointAt(st.head),
   target |-> PointAt(GetAttestationTarget(st)),
   source |-> PointAt(st.tree.justified)]

\* by source, then target, then head, then slot
DataBefore(a, b) ==
  LET key(d) == <<d.source.root, d.target.root, d.head.root, <<d.slot, 0>>>>
  IN  \E i \in 1 .. 4 : /\ Before(key(a)[i], key(b)[i])
                        /\ \A j \in 1 .. i - 1 : key(a)[j] = key(b)[j]

ProofsOf(st, d) == Pool!AttestationsByData(st.pool, d).proofs

\* one data of the sorted list.  work has the body so far, the source that
\* the next data must have, and whether to go on.
ProposeNext(st, b, work, d) ==
  LET body == work.body \o SetToSeq({[data |-> d, bits |-> p] : p \in ProofsOf(st, d)})
      post == PostState(st, b, body)
  IN  IF work.end # "" \/ d.source # work.source THEN work
      ELSE IF ProofsOf(st, d) = {} THEN [work EXCEPT !.end = "break"]
      ELSE IF ~post.ok THEN [work EXCEPT !.end = "error"]
      ELSE [work EXCEPT !.body = body, !.source = post.state.justified]

GetProposalAttestations(st, b) ==
  LET sorted == SetToSortSeq({d \in {st.known[v] : v \in DOMAIN st.known} :
                                Has(st, d.head.root)},
                             DataBefore)
  IN  FoldLeft(LAMBDA work, d : ProposeNext(st, b, work, d),
               [body |-> << >>, source |-> st.state[b.parent_root].justified,
                end |-> ""],
               sorted)

OwnId == CHOOSE id \in Ids : TRUE

\* produceBlockWithSignatures on the head: the block goes through onBlock
ProduceBlock(st) ==
  LET b == BlockOf(SlotAt(st.time), OwnId, st.head)
      work == GetProposalAttestations(st, b)
  IN  IF work.end = "error" \/ ~PostState(st, b, work.body).ok THEN Failure(st)
      ELSE OnBlock(st, b, work.body)

-----------------------------------------------------------------------------
(* onTick.  Each interval of its loop returns the store and the votes that *)
(* it publishes.                                                           *)

Quietly(st) == [store |-> st, votes |-> {}]

IsProducer(st) == SlotAt(st.time) % NumValidators = OwnValidator

\* interval 0 of a slot after genesis
Propose(st) ==
  IF SlotAt(st.time) = 0 \/ ~IsProducer(st) THEN Quietly(st)
  ELSE Quietly(ProduceBlock(AcceptNewAttestations(st)).store)

\* interval 1.  The node's own vote goes through onGossipAttestation.
Vote(st) ==
  LET accepted == AcceptNewAttestations(st)
      d == OwnAttestation(accepted)
      voting == OnGossipAttestation(accepted, d, OwnValidator)
  IN  IF d.source.slot > d.target.slot \/ ~voting.ok THEN Quietly(accepted)
      ELSE [Quietly(voting.store) EXCEPT !.votes = {d}]

\* interval 2.  The node imports what it aggregated like any other proof.
WithState(st) == {d \in DOMAIN st.pool : d.target.root \in DOMAIN st.state}

Aggregate(st) ==
  LET results == SetToSeq(Pool!AggregationResult(st.pool, WithState(st)))
      merged == [st EXCEPT !.pool = Pool!AggregateSignatures(@, WithState(st))]
  IN  IF ~Aggregator THEN Quietly(st)
      ELSE Quietly(FoldLeft(LAMBDA s, a :
                              OnGossipAggregatedAttestation(s, a.data, a.participants).store,
                            merged, results))

\* intervals 3 and 4
RefreshTarget(st) == Quietly(UpdateSafeTarget(st))
TakeVotes(st) == Quietly(AcceptNewAttestations(st))

Interval(st) ==
  CASE PhaseAt(st.time) = 0 -> Propose(st)
    [] PhaseAt(st.time) = 1 -> Vote(st)
    [] PhaseAt(st.time) = 2 -> Aggregate(st)
    [] PhaseAt(st.time) = 3 -> RefreshTarget(st)
    [] PhaseAt(st.time) = 4 -> TakeVotes(st)

NextInterval(result) ==
  LET next == Interval([result.store EXCEPT !.time = @ + 1])
  IN  [next EXCEPT !.votes = @ \cup result.votes]

\* the intervals since the last call, one after the other
Ticked(st, intervals) ==
  FoldLeft(LAMBDA result, i : NextInterval(result), Quietly(st),
           [i \in 1 .. intervals |-> i])

\* Without the state or the header of its head the node gives up, at the
\* latest when it votes.
OnTick(intervals) ==
  /\ status = "up"
  /\ store.time + intervals <= scope.time
  /\ IF Has(store, store.head)
     THEN LET result == Ticked(store, intervals)
          IN  /\ store' = result.store
              /\ voted' = result.votes
              /\ UNCHANGED status
     ELSE /\ status' = "aborted"
          /\ UNCHANGED <<store, voted>>
  /\ UNCHANGED <<blocks, gossips, scope>>

-----------------------------------------------------------------------------
(* What the network brings: votes for the chain of a known block, or of one *)
(* that has not arrived, with the sources that honest validators use.      *)

\* a child of a known block that never arrives: no block has id 0
UnknownHead(parent) == <<SlotOf(parent) + 1, 0>>

VotesOn(st, b, head) ==
  [slot : {SlotOf(head) + delay : delay \in VoteDelays},
   head : {PointAt(head)},
   target : {PointAt(t) : t \in Chain(st, b)},
   source : {PointAt(st.tree.justified)}
              \cup ({st.state[b].justified} \ {GenesisState(Genesis).justified})]

Votes(st) ==
  UNION {VotesOn(st, b, b) : b \in Nodes(st.tree) \cap DOMAIN st.state}

VotesForUnknown(st) ==
  UNION {VotesOn(st, b, UnknownHead(b)) : b \in Nodes(st.tree) \cap DOMAIN st.state}

ReceiveVote ==
  /\ status = "up"
  /\ gossips < scope.gossips
  /\ gossips' = gossips + 1
  /\ \E d \in Votes(store) :
       \/ \E v \in Validator \ {OwnValidator} :
            store' = OnGossipAttestation(store, d, v).store
       \/ \E bits \in scope.voters :
            store' = OnGossipAggregatedAttestation(store, d, bits).store
  /\ UNCHANGED <<status, voted, blocks, scope>>

Bodies(st) ==
  LET entries == [data : Votes(st) \cup VotesForUnknown(st), bits : scope.voters]
  IN  UNION {[1 .. n -> entries] : n \in 0 .. scope.body}

ReceiveBlock ==
  /\ status = "up"
  /\ blocks < scope.blocks
  /\ blocks' = blocks + 1
  /\ \E slot \in BlockSlots, id \in Ids, parent \in Nodes(store.tree) :
       /\ slot % NumValidators # OwnValidator
       /\ \E body \in Bodies(store) :
            store' = OnBlock(store, BlockOf(slot, id, parent), body).store
  /\ store' # store
  /\ UNCHANGED <<status, voted, gossips, scope>>

Init ==
  /\ scope \in Scopes
  /\ store = EmptyStore(scope.start)
  /\ status = "up"
  /\ voted = {}
  /\ blocks = 0
  /\ gossips = 0

Next ==
  \/ \E intervals \in scope.jumps : OnTick(intervals)
  \/ ReceiveVote
  \/ ReceiveBlock

Spec == Init /\ [][Next]_vars

-----------------------------------------------------------------------------
(* Properties. *)

\* Every vote that the fork choice counts, or is about to count, can be put
\* into a block: while its target is after the finalized slot, a proof in the
\* pool names its validator, however proofs were merged, replaced and pruned.
VotesCarryProof ==
  \A votes \in {store.known, store.new} : \A v \in DOMAIN votes :
    votes[v].target.slot > SlotOf(store.tree.root)
      => v \in UNION ProofsOf(store, votes[v])

\* The node's own votes are consistent: the source is on the chain of the
\* target and the target on the chain of the head, whatever blocks and votes
\* moved the head, the justified block and the safe target before.
VoteFollowsChain(d) ==
  /\ d.target.root \in Chain(store', d.head.root)
  /\ d.source.root \in Chain(store', d.target.root)

VotesFollowChain ==
  [][store'.time # store.time => \A d \in voted' : VoteFollowsChain(d)]_vars

\* the store after an interval that accepts votes
Accepts ==
  /\ store'.time # store.time
  /\ PhaseAt(store'.time) \in {1, 4}

\* Once votes are accepted, the head is after every block that has more than
\* half of the counted votes.
HeadAfterMajority ==
  [][Accepts =>
       \A b \in Nodes(store'.tree) :
         /\ 2 * Weight(store', store'.known, b) > Cardinality(DOMAIN store'.known)
         /\ Descends(store'.tree, b, Anchor(store'))
         => Descends(store'.tree, store'.head, b)]_vars

\* Of each validator only the attestation from the highest slot is kept.
NewestVoteKept ==
  [][\A v \in DOMAIN store.known :
       v \in DOMAIN store'.known /\ store'.known[v].slot >= store.known[v].slot]_vars

=============================================================================
