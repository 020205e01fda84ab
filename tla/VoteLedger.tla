----------------------------- MODULE VoteLedger -----------------------------
(***************************************************************************)
(* What the aggregation pool of the fork choice store promises: for each   *)
(* attestation data it remembers who is known to have signed it, forgets   *)
(* nobody before the target is finalized, and what it publishes for a data *)
(* is one proof that names exactly those validators.  How the pool splits  *)
(* them between single signatures and overlapping proofs is not visible    *)
(* here.                                                                   *)
(***************************************************************************)
EXTENDS Naturals, FiniteSets

CONSTANTS Data,       \* attestation data; each has a target with a slot
          Validators  \* validator indices

VARIABLES votes,      \* votes[d]: the validators known to have signed d
          finalized,  \* the latest finalized slot
          published   \* what the last aggregation returned

vars == <<votes, finalized, published>>

Init ==
  /\ votes = [d \in Data |-> {}]
  /\ finalized = 0
  /\ published = {}

\* a signature, or a proof for several validators, is taken in
Collect(d, participants) ==
  /\ d.target.slot >= finalized
  /\ votes' = [votes EXCEPT ![d] = @ \cup participants]
  /\ UNCHANGED <<finalized, published>>

\* some of the data that has votes is published, each with all of its votes
Publish(D) ==
  /\ \A d \in D : votes[d] # {}
  /\ published' = {[data |-> d, participants |-> votes[d]] : d \in D}
  /\ UNCHANGED <<votes, finalized>>

\* finalization forgets the votes for targets that can no longer matter
Forget ==
  /\ finalized' > finalized
  /\ votes' = [d \in Data |->
                IF d.target.slot > finalized' THEN votes[d] ELSE {}]
  /\ UNCHANGED published

Next ==
  \/ \E d \in Data, participants \in SUBSET Validators : Collect(d, participants)
  \/ \E D \in SUBSET Data : Publish(D)
  \/ Forget

Spec == Init /\ [][Next]_vars
=============================================================================
