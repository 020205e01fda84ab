-------------------------- MODULE BlockTransition --------------------------
(***************************************************************************)
(* The whole transition of one block, as its callers see it: the post      *)
(* state, or a refusal.  StateTransition looks inside, attestation by      *)
(* attestation.                                                            *)
(***************************************************************************)
EXTENDS Stf
LOCAL INSTANCE SequencesExt

\* a transition in progress that failed keeps its state and stays failed
ProcessNext(result, base, a) ==
  IF result.ok /\ Verdict(result.state, base, a) \notin {"error", "throw", "abort"}
  THEN [result EXCEPT !.state = ProcessAttestation(@, base, a)]
  ELSE [result EXCEPT !.ok = FALSE]

ProcessAttestations(s, atts) ==
  FoldLeft(LAMBDA result, a : ProcessNext(result, s.finalized.slot, a),
           [ok |-> TRUE, state |-> s], atts)

\* stateTransition of a block that carries the attestations atts
BlockResult(s, b, atts) ==
  IF HeaderAccepted(s, b)
  THEN ProcessAttestations(ProcessBlockHeader(s, b), atts)
  ELSE [ok |-> FALSE, state |-> s]
=============================================================================
