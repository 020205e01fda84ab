-------------------------- MODULE StateTransition --------------------------
(***************************************************************************)
(* One chain growing block by block through STF::stateTransition.  The     *)
(* transition works on a copy of the parent state: `work` is that copy,    *)
(* and each iteration of the loop of processAttestations is a step of its  *)
(* own.  The copy becomes the chain's state only when the whole block is   *)
(* accepted; an error drops it.                                            *)
(***************************************************************************)
EXTENDS Stf

CONSTANTS Attestations,          \* the attestations blocks may carry
          MaxSlot,               \* bound: no block after this slot
          MaxBlockAttestations   \* bound: attestations in one block

ASSUME ChainAssumption ==
  /\ Attestations \subseteq Attestation
  /\ MaxSlot \in Nat
  /\ MaxBlockAttestations \in Nat
  /\ Ids # {}

VARIABLES state,  \* the state of the last accepted block
          work,   \* the copy the transition in progress works on
          base,   \* finalized slot at the start of processAttestations
          pc,     \* "idle", "attestations", or how the process died
          count   \* attestations of the block processed so far

vars == <<state, work, base, pc, count>>

Init ==
  \E id \in Ids :
    /\ state = GenesisState(<<0, id>>)
    /\ work = state
    /\ base = 0
    /\ pc = "idle"
    /\ count = 0

\* stateTransition: processSlots and processBlockHeader succeed
StartBlock(b) ==
  /\ pc = "idle"
  /\ HeaderAccepted(state, b)
  /\ work' = ProcessBlockHeader(state, b)
  /\ base' = work'.finalized.slot
  /\ pc' = "attestations"
  /\ UNCHANGED <<state, count>>

\* the transition returns an error: its copy of the state is gone
DropBlock ==
  /\ work' = state
  /\ base' = 0
  /\ pc' = "idle"
  /\ count' = 0
  /\ UNCHANGED state

\* one iteration of the loop of processAttestations
AttestationStep(a) ==
  /\ pc = "attestations"
  /\ count < MaxBlockAttestations
  /\ \/ /\ Verdict(work, base, a) = "error"
        /\ DropBlock
     \/ /\ Verdict(work, base, a) # "error"
        /\ work' = ProcessAttestation(work, base, a)
        /\ pc' = CASE Verdict(work, base, a) = "throw" -> "threw"
                   [] Verdict(work, base, a) = "abort" -> "aborted"
                   [] OTHER -> "attestations"
        /\ count' = count + 1
        /\ UNCHANGED <<state, base>>

\* the state root of the block matches: the transition returns the new state
AcceptBlock ==
  /\ pc = "attestations"
  /\ state' = work
  /\ base' = 0
  /\ pc' = "idle"
  /\ count' = 0
  /\ UNCHANGED work

\* STATE_ROOT_DOESNT_MATCH
RejectStateRoot ==
  /\ pc = "attestations"
  /\ DropBlock

BlockOf(slot, proposer, parent, id) ==
  [slot |-> slot, proposer |-> proposer, parent_root |-> parent,
   root |-> <<slot, id>>]

Next ==
  \/ \E slot \in 1 .. MaxSlot, proposer \in Validator, id \in Ids,
        parent \in (0 .. MaxSlot) \X Ids :
       StartBlock(BlockOf(slot, proposer, parent, id))
  \/ \E a \in Attestations : AttestationStep(a)
  \/ AcceptBlock
  \/ RejectStateRoot

Spec == Init /\ [][Next]_vars

-----------------------------------------------------------------------------
(* Properties. *)

\* Type correctness of the chain state and of the working copy.
TypeOK ==
  /\ state \in State
  /\ work \in State
  /\ base \in Slot
  /\ pc \in {"idle", "attestations", "threw", "aborted"}
  /\ count \in 0 .. MaxBlockAttestations

\* processAttestations takes .value() of isSlotJustified and .at() of
\* root_to_slot without a check: neither ever throws, whatever mix of votes,
\* empty slots and finalizations the earlier blocks and attestations made.
NoThrow == pc # "threw"

\* The checkpoints of a state lie on its own chain, the justified one not
\* behind the finalized one and inside the window with its bit set, however
\* often finalization shifted the window.
CheckpointsHold(s) ==
  /\ s.finalized.slot <= s.justified.slot
  /\ IsSlotJustified(s.window, s.finalized.slot, s.justified.slot)
  /\ s.history # << >> =>
       \A c \in {s.justified, s.finalized} :
         c.slot < Len(s.history) /\ HistoryAt(s, c.slot) = c.root

CheckpointsOnChain == CheckpointsHold(state) /\ CheckpointsHold(work)

\* Votes are only kept for a block of the chain after the finalized slot that
\* is not justified and whose votes do not reach two thirds: nothing that
\* should have been justified or pruned lingers in the state.
PendingVotesHold(s) ==
  \A r \in DOMAIN s.justifications :
    /\ ~Supermajority(s.justifications[r])
    /\ \E slot \in s.finalized.slot + 1 .. Len(s.history) - 1 :
         /\ HistoryAt(s, slot) = r
         /\ ~IsSlotJustified(s.window, s.finalized.slot, slot)

PendingVotes == PendingVotesHold(state) /\ PendingVotesHold(work)

\* Along a chain the finalized slot never moves back, and a slot that was
\* justified stays justified: rebasing the window loses no bit.
JustifiedStays ==
  /\ state'.finalized.slot >= state.finalized.slot
  /\ \A slot \in 0 .. Len(state.history) - 1 :
       IsSlotJustified(state.window, state.finalized.slot, slot)
         => IsSlotJustified(state'.window, state'.finalized.slot, slot)

FinalityMonotone == [][JustifiedStays]_vars

=============================================================================
