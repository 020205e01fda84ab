----------------------- MODULE AttestationPoolProofs -----------------------
(***************************************************************************)
(* Theorems about AttestationPool, for every set of data, every set of     *)
(* validators and every bound.                                             *)
(***************************************************************************)
EXTENDS AttestationPool, FiniteSetTheorems, TLAPS

\* An entry of the pool is in order: nobody signs twice, no proof is empty
\* or contained in another.
EntryOK(entry) ==
  /\ entry \in Entries
  /\ entry.signatures \cap Proven(entry) = {}
  /\ {} \notin entry.proofs
  /\ \A p, q \in entry.proofs : p \subseteq q => p = q

\* The inductive invariant: every entry of the pool is in order.
PoolInv ==
  /\ DOMAIN pool \subseteq Data
  /\ pool = [d \in DOMAIN pool |-> pool[d]]
  /\ \A d \in DOMAIN pool : EntryOK(pool[d])
  /\ finalized \in Nat
  /\ published \subseteq [data : Data, participants : SUBSET Validators]

-----------------------------------------------------------------------------
(* What the operations do to one entry. *)

\* An entry that is not there yet counts as one in order without votes.
LEMMA FreshEntry ==
  ASSUME PoolInv, NEW d \in Data
  PROVE  /\ EntryOK(AttestationsByData(pool, d))
         /\ Covered(AttestationsByData(pool, d)) = votesOf[d]
  BY DEF PoolInv, EntryOK, AttestationsByData, Entries, Proven, Covered, votesOf

\* A signature leaves the entry in order and adds exactly its validator.
LEMMA SignatureEntry ==
  ASSUME NEW entry, EntryOK(entry), NEW v \in Validators, v \notin Proven(entry),
         NEW new, new = [entry EXCEPT !.signatures = @ \cup {v}]
  PROVE  /\ EntryOK(new)
         /\ Covered(new) = Covered(entry) \cup {v}
  BY DEF EntryOK, Entries, Proven, Covered

\* Dropping the proofs contained in the new one loses nobody but the
\* participants of the new one.
LEMMA RetainedCovers ==
  ASSUME NEW proofs, NEW new
  PROVE  /\ Retained(proofs, new) \subseteq proofs
         /\ (UNION Retained(proofs, new)) \cup new = (UNION proofs) \cup new
  BY DEF Retained

\* what addProofToAggregate makes of an entry
AfterProof(entry, new) ==
  IF new \subseteq UNION Retained(entry.proofs, new)
  THEN [entry EXCEPT !.proofs = Retained(entry.proofs, new)]
  ELSE [signatures |-> entry.signatures \ new,
        proofs |-> Retained(entry.proofs, new) \cup {new}]

\* A proof leaves the entry in order and adds exactly its participants.
LEMMA ProofEntry ==
  ASSUME NEW entry, EntryOK(entry), NEW new \in SUBSET Validators, new # {}
  PROVE  /\ EntryOK(AfterProof(entry, new))
         /\ Covered(AfterProof(entry, new)) = Covered(entry) \cup new
<1> DEFINE kept == Retained(entry.proofs, new)
           after == AfterProof(entry, new)
<1>0. after = IF new \subseteq UNION kept
              THEN [entry EXCEPT !.proofs = kept]
              ELSE [signatures |-> entry.signatures \ new, proofs |-> kept \cup {new}]
  BY DEF AfterProof
<1>r. kept = Retained(entry.proofs, new)
  OBVIOUS
<1> HIDE DEF kept, after
<1>1. kept \subseteq entry.proofs /\ (UNION kept) \cup new = Proven(entry) \cup new
  BY <1>r, RetainedCovers DEF Proven
<1>2. CASE new \subseteq UNION kept
  <2>1. after.signatures = entry.signatures /\ after.proofs = kept /\ after \in Entries
    BY <1>0, <1>1, <1>2 DEF EntryOK, Entries
  <2>2. EntryOK(after)
    BY <1>1, <2>1 DEF EntryOK, Proven
  <2>3. Covered(after) = Covered(entry) \cup new
    BY <1>1, <1>2, <2>1 DEF Covered, Proven
  <2> QED BY <2>2, <2>3 DEF after
<1>3. CASE ~(new \subseteq UNION kept)
  <2>1. after.signatures = entry.signatures \ new /\ after.proofs = kept \cup {new}
        /\ after \in Entries
    BY <1>0, <1>1, <1>3 DEF EntryOK, Entries
  <2>2. Proven(after) = (UNION kept) \cup new
    BY <2>1 DEF Proven
  <2>3. after.signatures \cap Proven(after) = {}
    BY <1>1, <2>1, <2>2 DEF EntryOK
  <2>4. \A p \in kept : ~(p \subseteq new) /\ ~(new \subseteq p)
    BY <1>r, <1>3 DEF Retained
  <2>5. \A p, q \in after.proofs : p \subseteq q => p = q
    BY <1>1, <2>1, <2>4 DEF EntryOK
  <2>6. EntryOK(after)
    BY <1>1, <2>1, <2>3, <2>5 DEF EntryOK
  <2>7. Covered(after) = Covered(entry) \cup new
    BY <1>1, <2>1, <2>2 DEF Covered
  <2> QED BY <2>6, <2>7 DEF after
<1> QED BY <1>2, <1>3

\* Aggregation leaves the entry in order, with the same validators.
LEMMA AggregatedEntry ==
  ASSUME NEW entry, EntryOK(entry), WorthAggregating(entry),
         NEW new, new = [signatures |-> {}, proofs |-> {Covered(entry)}]
  PROVE  EntryOK(new) /\ Covered(new) = Covered(entry) /\ Covered(entry) # {}
<1>1. ASSUME entry.proofs = {} PROVE ~(Cardinality(entry.proofs) > 1)
  <2>1. Cardinality(entry.proofs) = 0
    BY <1>1, FS_EmptySet
  <2> QED BY <2>1
<1>2. entry.signatures # {} \/ entry.proofs # {}
  BY <1>1 DEF WorthAggregating
<1>3. Covered(entry) # {}
  <2>1. CASE entry.signatures # {}
    BY <2>1 DEF Covered
  <2>2. CASE entry.proofs # {}
    <3>1. PICK p \in entry.proofs : p # {}
      BY <2>2, Zenon DEF EntryOK
    <3>2. p \subseteq Proven(entry)
      BY DEF Proven
    <3> QED BY <3>1, <3>2 DEF Covered
  <2> QED BY <1>2, <2>1, <2>2
<1>4. Covered(entry) \in SUBSET Validators
  BY DEF EntryOK, Entries, Covered, Proven
<1>5. new \in Entries /\ new.signatures = {} /\ new.proofs = {Covered(entry)}
  BY <1>4 DEF Entries
<1>6. Proven(new) = Covered(entry)
  BY <1>5 DEF Proven
<1>7. EntryOK(new)
  BY <1>3, <1>5 DEF EntryOK
<1>8. Covered(new) = Covered(entry)
  BY <1>5, <1>6, Zenon DEF Covered
<1> QED BY <1>3, <1>7, <1>8

-----------------------------------------------------------------------------
(* One lemma per action: it keeps the invariant, and it is a step of the   *)
(* ledger or leaves the ledger as it is.                                   *)

\* Writing one entry in order changes the votes of that data only.
LEMMA WriteEntry ==
  ASSUME PoolInv, NEW d \in Data, NEW entry, EntryOK(entry),
         pool' = WithEntry(pool, d, entry), UNCHANGED <<finalized, published>>
  PROVE  PoolInv' /\ votesOf' = [votesOf EXCEPT ![d] = Covered(entry)]
<1>1. DOMAIN pool' = DOMAIN pool \cup {d}
  BY DEF WithEntry
<1>2. \A x \in DOMAIN pool' : pool'[x] = IF x = d THEN entry ELSE pool[x]
  BY DEF WithEntry
<1>3. pool' = [x \in DOMAIN pool' |-> pool'[x]]
  BY DEF WithEntry
<1>4. PoolInv'
  <2>1. \A x \in DOMAIN pool' : EntryOK(pool'[x])
    BY <1>1, <1>2 DEF PoolInv
  <2> QED BY <1>1, <1>3, <2>1 DEF PoolInv, EntryOK, Proven
<1>5. votesOf' = [votesOf EXCEPT ![d] = Covered(entry)]
  BY <1>1, <1>2, Zenon DEF votesOf, Covered, Proven
<1> QED BY <1>4, <1>5

\* The initial pool is in order and an empty ledger.
LEMMA InitStep == Init => PoolInv /\ Ledger!Init
  BY DEF Init, EmptyPool, PoolInv, Ledger!Init, votesOf

\* A signature that is too old changes nothing; one that a proof covers, or a
\* new one, adds its validator to the ledger.
LEMMA AddSignatureStep ==
  ASSUME PoolInv, NEW d \in Data, NEW v \in Validators, AddSignature(d, v)
  PROVE  PoolInv' /\ [Ledger!Next]_(Ledger!vars)
<1> DEFINE entry == AttestationsByData(pool, d)
<1>1. CASE TooOld(d, finalized)
  <2>1. UNCHANGED vars
    BY <1>1 DEF AddSignature, AddSignatureToAggregate, vars
  <2> QED BY <2>1 DEF vars, PoolInv, EntryOK, Proven, Ledger!vars, votesOf, Covered
<1>2. CASE ~TooOld(d, finalized)
  <2>1. d.target.slot >= finalized
    BY <1>2, PoolAssumption DEF TooOld, PoolInv
  <2>2. EntryOK(entry) /\ Covered(entry) = votesOf[d]
    BY FreshEntry
  <2>3. PICK new : /\ pool' = WithEntry(pool, d, new)
                   /\ EntryOK(new) /\ Covered(new) = votesOf[d] \cup {v}
    <3>1. CASE v \in Proven(entry)
      BY <1>2, <2>2, <3>1 DEF AddSignature, AddSignatureToAggregate, Covered
    <3>2. CASE v \notin Proven(entry)
      BY <1>2, <2>2, <3>2, SignatureEntry DEF AddSignature, AddSignatureToAggregate
    <3> QED BY <3>1, <3>2
  <2>4. PoolInv' /\ votesOf' = [votesOf EXCEPT ![d] = @ \cup {v}]
    BY <2>3, WriteEntry DEF AddSignature
  <2>5. Ledger!Collect(d, {v})
    BY <2>1, <2>4 DEF Ledger!Collect, AddSignature
  <2> QED BY <2>4, <2>5 DEF Ledger!Next
<1> QED BY <1>1, <1>2

\* A proof adds its participants to the ledger, or is too old.
LEMMA AddProofStep ==
  ASSUME PoolInv, NEW d \in Data, NEW new \in SUBSET Validators, AddProof(d, new)
  PROVE  PoolInv' /\ [Ledger!Next]_(Ledger!vars)
<1> DEFINE entry == AttestationsByData(pool, d)
           after == AfterProof(entry, new)
<1>1. CASE TooOld(d, finalized)
  <2>1. UNCHANGED vars
    BY <1>1 DEF AddProof, AddProofToAggregate, vars
  <2> QED BY <2>1 DEF vars, PoolInv, EntryOK, Proven, Ledger!vars, votesOf, Covered
<1>2. CASE ~TooOld(d, finalized)
  <2>1. d.target.slot >= finalized
    BY <1>2, PoolAssumption DEF TooOld, PoolInv
  <2>2. EntryOK(entry) /\ Covered(entry) = votesOf[d]
    BY FreshEntry
  <2>3. pool' = WithEntry(pool, d, after) /\ new # {}
    BY <1>2 DEF AddProof, AddProofToAggregate, AfterProof
  <2>4. EntryOK(after) /\ Covered(after) = votesOf[d] \cup new
    <3> HIDE DEF entry
    <3>1. EntryOK(after) /\ Covered(after) = Covered(entry) \cup new
      BY <2>2, <2>3, ProofEntry
    <3> QED BY <2>2, <3>1
  <2>5. PoolInv' /\ votesOf' = [votesOf EXCEPT ![d] = @ \cup new]
    <3> HIDE DEF after
    <3> QED BY <2>3, <2>4, WriteEntry DEF AddProof
  <2>6. Ledger!Collect(d, new)
    BY <2>1, <2>5 DEF Ledger!Collect, AddProof
  <2> QED BY <2>5, <2>6 DEF Ledger!Next
<1> QED BY <1>1, <1>2

\* Aggregation publishes all the votes of each data it works on.
LEMMA AggregateStep ==
  ASSUME PoolInv, NEW states \in SUBSET Data, Aggregate(states)
  PROVE  PoolInv' /\ [Ledger!Next]_(Ledger!vars)
<1> DEFINE D == Aggregated(pool, states)
<1>1. D \subseteq DOMAIN pool /\ D \subseteq Data
      /\ \A d \in D : WorthAggregating(pool[d])
  BY DEF Aggregated
<1>2. DOMAIN pool' = DOMAIN pool
      /\ pool' = [d \in DOMAIN pool' |-> pool'[d]]
      /\ \A d \in DOMAIN pool :
           pool'[d] = IF d \in D
                      THEN [signatures |-> {}, proofs |-> {Covered(pool[d])}]
                      ELSE pool[d]
  BY DEF Aggregate, AggregateSignatures
<1>3. \A d \in D : /\ EntryOK(pool'[d]) /\ Covered(pool'[d]) = Covered(pool[d])
                   /\ Covered(pool[d]) # {}
  <2> TAKE d \in D
  <2>1. EntryOK(pool[d]) /\ WorthAggregating(pool[d])
    BY <1>1 DEF PoolInv
  <2>2. pool'[d] = [signatures |-> {}, proofs |-> {Covered(pool[d])}]
    BY <1>1, <1>2, Zenon
  <2> QED BY <2>1, <2>2, AggregatedEntry
<1>4. \A d \in DOMAIN pool : EntryOK(pool'[d]) /\ Covered(pool'[d]) = Covered(pool[d])
  BY <1>2, <1>3 DEF PoolInv
<1>5. votesOf' = votesOf
  BY <1>2, <1>4, Zenon DEF votesOf, Covered, Proven
<1>6. \A d \in D : votesOf[d] = Covered(pool[d]) /\ votesOf[d] # {}
  BY <1>1, <1>3 DEF votesOf
<1>7. published' = {[data |-> d, participants |-> votesOf[d]] : d \in D}
  BY <1>6 DEF Aggregate, AggregationResult
<1>8. Ledger!Publish(D)
  BY <1>5, <1>6, <1>7 DEF Ledger!Publish, Aggregate
<1>9. published' \subseteq [data : Data, participants : SUBSET Validators]
  <2>1. \A d \in D : votesOf[d] \in SUBSET Validators
    BY <1>1, <1>6 DEF PoolInv, EntryOK, Entries, Covered, Proven
  <2> QED BY <1>1, <1>7, <2>1
<1>10. PoolInv'
  BY <1>2, <1>4, <1>9 DEF PoolInv, Aggregate, EntryOK, Proven
<1> QED BY <1>1, <1>8, <1>10 DEF Ledger!Next

\* Finalization forgets what the ledger forgets.
LEMMA FinalizeStep ==
  ASSUME PoolInv, NEW slot \in 1 .. MaxFinalized, FinalizeAndPrune(slot)
  PROVE  PoolInv' /\ [Ledger!Next]_(Ledger!vars)
<1>1. DOMAIN pool' = {d \in DOMAIN pool : d.target.slot > slot}
      /\ pool' = [d \in DOMAIN pool' |-> pool'[d]]
      /\ \A d \in DOMAIN pool' : pool'[d] = pool[d]
  BY DEF FinalizeAndPrune, PrunePool
<1>2. slot \in Nat
  BY BoundAssumption
<1>3. PoolInv'
  BY <1>1, <1>2 DEF PoolInv, FinalizeAndPrune, EntryOK, Proven
<1>4. votesOf' = [d \in Data |-> IF d.target.slot > finalized' THEN votesOf[d] ELSE {}]
  BY <1>1, Zenon DEF votesOf, FinalizeAndPrune, Covered, Proven
<1>5. Ledger!Forget
  BY <1>4 DEF Ledger!Forget, FinalizeAndPrune
<1> QED BY <1>3, <1>5 DEF Ledger!Next

\* Every step keeps the invariant and is a step of the ledger.
LEMMA PoolStep ==
  ASSUME PoolInv, [Next]_vars
  PROVE  PoolInv' /\ [Ledger!Next]_(Ledger!vars)
<1>1. CASE UNCHANGED vars
  BY <1>1 DEF vars, PoolInv, EntryOK, Proven, Ledger!vars, votesOf, Covered
<1>2. CASE Next
  BY <1>2, AddSignatureStep, AddProofStep, AggregateStep, FinalizeStep DEF Next
<1> QED BY <1>1, <1>2

-----------------------------------------------------------------------------
(* Theorems. *)

\* Every reachable pool is in order.
THEOREM PoolInvariant == Spec => []PoolInv
  BY InitStep, PoolStep, PTL DEF Spec

\* The pool keeps its type (fork_choice.hpp, AttestationsByData).
THEOREM PoolTyped == Spec => []TypeOK
<1>1. PoolInv => TypeOK
  BY DEF PoolInv, TypeOK, EntryOK
<1> QED BY <1>1, PoolInvariant, PTL

\* addSignatureToAggregate and addProofToAggregate never let a validator
\* count both as a signature and in a proof of one data.
THEOREM SignerUnique == Spec => []NoDoubleSigner
<1>1. PoolInv => NoDoubleSigner
  BY DEF PoolInv, NoDoubleSigner, EntryOK
<1> QED BY <1>1, PoolInvariant, PTL

\* addProofToAggregate keeps the proofs of a data incomparable.
THEOREM ProofsIncomparable == Spec => []NoContainedProof
<1>1. PoolInv => NoContainedProof
  BY DEF PoolInv, NoContainedProof, EntryOK
<1> QED BY <1>1, PoolInvariant, PTL

\* The pool implements the ledger of votes: no operation loses or invents a
\* voter, and a published proof names all of them.
THEOREM PoolIsLedger == Spec => LedgerSpec
<1>1. Spec => []PoolInv
  BY PoolInvariant
<1> QED
  BY <1>1, InitStep, PoolStep, PTL DEF Spec, LedgerSpec, Ledger!Spec
=============================================================================
