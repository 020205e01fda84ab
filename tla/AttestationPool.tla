-------------------------- MODULE AttestationPool --------------------------
(***************************************************************************)
(* The aggregation pool of ForkChoiceStore, attestations_by_data_          *)
(* (src/src/blockchain/fork_choice.cpp): single signatures and aggregated  *)
(* proofs collected for each attestation data.                             *)
(*                                                                         *)
(* Abstractions.  A signature is the validator that made it and a proof is *)
(* the set of its participants: both are verified before they come here    *)
(* and what they contain is never looked at again.  The order of the       *)
(* proofs of one data decides nothing, so they are a set.                  *)
(***************************************************************************)
EXTENDS Naturals, FiniteSets

CONSTANTS Data,       \* attestation data; each has a target with a slot
          Validators  \* validator indices

ASSUME PoolAssumption == \A d \in Data : d.target.slot \in Nat

Entries == [signatures : SUBSET Validators, proofs : SUBSET SUBSET Validators]

-----------------------------------------------------------------------------
(* The operations, as functions of the pool. *)

EmptyPool == [d \in {} |-> [signatures |-> {}, proofs |-> {}]]

\* the entry of the data, created empty when there is none
AttestationsByData(pool, d) ==
  IF d \in DOMAIN pool THEN pool[d] ELSE [signatures |-> {}, proofs |-> {}]

WithEntry(pool, d, entry) ==
  [x \in DOMAIN pool \cup {d} |-> IF x = d THEN entry ELSE pool[x]]

Proven(entry) == UNION entry.proofs

Covered(entry) == entry.signatures \cup Proven(entry)

\* a target before the finalized slot is of no use any more
TooOld(d, finalized) == d.target.slot < finalized

\* Mutant: a validator that a proof already names is not looked for.
AddSignatureUnchecked(pool, finalized, d, v) ==
  IF TooOld(d, finalized) THEN pool
  ELSE LET entry == AttestationsByData(pool, d)
       IN  WithEntry(pool, d, [entry EXCEPT !.signatures = @ \cup {v}])

AddSignatureToAggregate(pool, finalized, d, v) ==
  IF TooOld(d, finalized) THEN pool
  ELSE LET entry == AttestationsByData(pool, d)
       IN  WithEntry(pool, d,
             IF v \in Proven(entry)
             THEN entry
             ELSE [entry EXCEPT !.signatures = @ \cup {v}])

\* Mutant: every proof that the new one overlaps is dropped.
RetainedDisjoint(proofs, new) == {p \in proofs : p \cap new = {}}

\* Mutant: a proof that the new one replaces is kept.
RetainedAll(proofs, new) == proofs

\* the proofs kept: those not contained in the new one, and an equal one
Retained(proofs, new) == {p \in proofs : ~(p \subseteq new) \/ new \subseteq p}

AddProofToAggregate(pool, finalized, d, new) ==
  IF TooOld(d, finalized) THEN pool
  ELSE LET entry == AttestationsByData(pool, d)
           kept == Retained(entry.proofs, new)
       IN  WithEntry(pool, d,
             IF new \subseteq UNION kept
             THEN [entry EXCEPT !.proofs = kept]
             ELSE [signatures |-> entry.signatures \ new,
                   proofs |-> kept \cup {new}])

\* more than the one proof that would come out again
WorthAggregating(entry) ==
  entry.signatures # {} \/ Cardinality(entry.proofs) > 1

\* the data that aggregateSignatures works on; states holds the data whose
\* target state can be loaded
Aggregated(pool, states) ==
  {d \in DOMAIN pool \cap states : WorthAggregating(pool[d])}

\* signatures and proofs of a data become one proof
AggregateSignatures(pool, states) ==
  [d \in DOMAIN pool |->
     IF d \in Aggregated(pool, states)
     THEN [signatures |-> {}, proofs |-> {Covered(pool[d])}]
     ELSE pool[d]]

AggregationResult(pool, states) ==
  {[data |-> d, participants |-> Covered(pool[d])] : d \in Aggregated(pool, states)}

PrunePool(pool, finalized) ==
  [d \in {x \in DOMAIN pool : x.target.slot > finalized} |-> pool[d]]

-----------------------------------------------------------------------------
(* The pool in the life of the store. *)

CONSTANT MaxFinalized  \* bound: the finalized slot grows no further

ASSUME BoundAssumption == MaxFinalized \in Nat

VARIABLES pool,       \* attestations_by_data_
          finalized,  \* block_tree_->lastFinalized().slot
          published   \* what the last aggregateSignatures returned

vars == <<pool, finalized, published>>

Init ==
  /\ pool = EmptyPool
  /\ finalized = 0
  /\ published = {}

\* onGossipAttestation, at the end
AddSignature(d, v) ==
  /\ pool' = AddSignatureToAggregate(pool, finalized, d, v)
  /\ UNCHANGED <<finalized, published>>

\* onAggregatedAttestation, which names at least one validator
AddProof(d, new) ==
  /\ new # {}
  /\ pool' = AddProofToAggregate(pool, finalized, d, new)
  /\ UNCHANGED <<finalized, published>>

\* onTick, interval 2
Aggregate(states) ==
  /\ pool' = AggregateSignatures(pool, states)
  /\ published' = AggregationResult(pool, states)
  /\ UNCHANGED finalized

\* onBlock, when the post-state finalizes a later slot
FinalizeAndPrune(slot) ==
  /\ slot > finalized
  /\ slot <= MaxFinalized
  /\ finalized' = slot
  /\ pool' = PrunePool(pool, slot)
  /\ UNCHANGED published

Next ==
  \/ \E d \in Data, v \in Validators : AddSignature(d, v)
  \/ \E d \in Data, new \in SUBSET Validators : AddProof(d, new)
  \/ \E states \in SUBSET Data : Aggregate(states)
  \/ \E slot \in 1 .. MaxFinalized : FinalizeAndPrune(slot)

Spec == Init /\ [][Next]_vars

-----------------------------------------------------------------------------
(* Properties. *)

\* Type correctness of the pool.
TypeOK ==
  /\ DOMAIN pool \subseteq Data
  /\ \A d \in DOMAIN pool : pool[d] \in Entries
  /\ finalized \in Nat
  /\ published \subseteq [data : Data, participants : SUBSET Validators]

\* No validator counts twice for a data: whoever has a signature waiting is
\* in no proof.  aggregateSignatures hands both to one aggregation.
NoDoubleSigner ==
  \A d \in DOMAIN pool : pool[d].signatures \cap Proven(pool[d]) = {}

\* No proof of a data is contained in another one: a proposer puts every
\* proof of the pool into its block and a contained one is a wasted place.
NoContainedProof ==
  \A d \in DOMAIN pool : \A p, q \in pool[d].proofs : p \subseteq q => p = q

\* The pool behaves like a ledger of who signed what: replacing, merging and
\* dropping proofs never loses a validator, never adds one, and each
\* published proof names exactly the validators known at that moment.
votesOf == [d \in Data |-> IF d \in DOMAIN pool THEN Covered(pool[d]) ELSE {}]

Ledger == INSTANCE VoteLedger WITH votes <- votesOf

LedgerSpec == Ledger!Spec
=============================================================================
