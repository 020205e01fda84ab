-------------------------------- MODULE Stf --------------------------------
(***************************************************************************)
(* The state transition function of a Lean consensus chain: what one block *)
(* does to the state of its parent                                         *)
(* (src/src/blockchain/state_transition_function.cpp).                     *)
(*                                                                         *)
(* Abstractions.  A block root is <<slot, id>>: hashes do not collide, and *)
(* a hash covers the slot of its block.  Hashing and the caching of the    *)
(* state root in the latest header are therefore left out: the header of a *)
(* block carries the root the block has once its state root is filled in.  *)
(* A bit list is its length and the set of its indices that are set.       *)
(***************************************************************************)
EXTENDS Integers, Sequences, FiniteSets

CONSTANTS NumValidators,  \* number of validators in the registry
          Ids,            \* tells apart the blocks of one slot
          ZeroHash,       \* kZeroHash
          Asserts         \* TRUE: the build keeps BOOST_ASSERT (Debug preset)

ASSUME StfAssumption ==
  /\ NumValidators \in Nat \ {0}
  /\ Asserts \in BOOLEAN
  /\ ZeroHash \notin Nat \X Ids

Slot == Nat
BlockRoot == Slot \X Ids
Root == BlockRoot \cup {ZeroHash}
Checkpoint == [root : Root, slot : Slot]
Validator == 0 .. NumValidators - 1

-----------------------------------------------------------------------------
(* Justifiable slots. *)

\* A candidate behind the finalized slot makes the unsigned distance wrap: as
\* a double, 2^64 - k rounds to 2^64, whose root 2^32 is whole, for k <= 1024.
WrapsToSquare == 1024

\* isJustifiableSlot is only meant for candidates not behind the finalized slot
JustifiableAssert(finalized, candidate) == candidate >= finalized

IsJustifiableSlot(finalized, candidate) ==
  LET delta == candidate - finalized
  IN  IF delta < 0
      THEN 0 - delta <= WrapsToSquare
      ELSE \/ delta <= 5
           \/ \E x \in 0 .. delta : x * x = delta \/ x * x + x = delta

-----------------------------------------------------------------------------
(* The window of justified slots, which starts right after the finalized   *)
(* slot.                                                                   *)

Window == [size : Nat, set : SUBSET Nat]

\* bit of a slot in the window; only slots after the finalized one have one
JustifiedIndexAfter(finalized, slot) == slot - finalized - 1

\* Mutant: the window ends one slot early.
ExtendShort(w, finalized, slot) ==
  LET size == JustifiedIndexAfter(finalized, slot)
  IN  IF slot > finalized /\ size > w.size THEN [w EXCEPT !.size = size] ELSE w

ExtendToSlot(w, finalized, slot) ==
  LET size == JustifiedIndexAfter(finalized, slot) + 1
  IN  IF slot > finalized /\ size > w.size THEN [w EXCEPT !.size = size] ELSE w

\* isSlotJustified has a value (the callers take it unchecked)
HasJustifiedBit(w, finalized, slot) ==
  slot > finalized => JustifiedIndexAfter(finalized, slot) < w.size

IsSlotJustified(w, finalized, slot) ==
  slot > finalized => JustifiedIndexAfter(finalized, slot) \in w.set

WithJustified(w, finalized, slot) ==
  IF slot > finalized
  THEN [w EXCEPT !.set = @ \cup {JustifiedIndexAfter(finalized, slot)}]
  ELSE w

\* Mutant: the bits move one place too far.
ShiftTooFar(w, delta) ==
  IF delta \in 0 .. w.size
  THEN [size |-> w.size - delta,
        set  |-> {i - delta - 1 : i \in {j \in w.set : j > delta}}]
  ELSE [size |-> 0, set |-> {}]

\* delta is unsigned: a negative one stands for a huge one, past the window
ShiftWindow(w, delta) ==
  IF delta \in 0 .. w.size
  THEN [size |-> w.size - delta,
        set  |-> {i - delta : i \in {j \in w.set : j >= delta}}]
  ELSE [size |-> 0, set |-> {}]

-----------------------------------------------------------------------------
(* Chain state. *)

Header == [slot : Slot, root : BlockRoot]

\* the votes collected for each root that is not yet justified
Justifications == UNION {[roots -> SUBSET Validator] : roots \in SUBSET Root}

State ==
  [slot : Slot,
   header : Header,                    \* latest_block_header
   history : Seq(Root),                \* historical_block_hashes
   justified : Checkpoint,             \* latest_justified
   finalized : Checkpoint,             \* latest_finalized
   window : Window,                    \* justified_slots
   justifications : Justifications]    \* justifications_*

HistoryAt(s, slot) == s.history[slot + 1]

GenesisState(root) ==
  [slot |-> 0,
   header |-> [slot |-> 0, root |-> root],
   history |-> << >>,
   justified |-> [root |-> ZeroHash, slot |-> 0],
   finalized |-> [root |-> ZeroHash, slot |-> 0],
   window |-> [size |-> 0, set |-> {}],
   justifications |-> [r \in {} |-> {}]]

-----------------------------------------------------------------------------
(* Slots and header of a block. *)

Block == [slot : Slot, proposer : Nat, parent_root : Root, root : BlockRoot]

ValidateProposerIndex(b) == b.proposer = b.slot % NumValidators

\* processSlots and processBlockHeader accept the block
HeaderAccepted(s, b) ==
  /\ s.slot < b.slot
  /\ s.header.slot < b.slot
  /\ ValidateProposerIndex(b)
  /\ b.parent_root = s.header.root

\* the roots the header pushes: its parent, and zero for every empty slot
PushedRoots(s, b) ==
  <<s.header.root>> \o [i \in 1 .. b.slot - s.header.slot - 1 |-> ZeroHash]

\* the first block after genesis names the root of the genesis checkpoint
NameGenesis(s, checkpoint) ==
  IF s.header.slot = 0
  THEN [checkpoint EXCEPT !.root = s.header.root]
  ELSE checkpoint

ProcessBlockHeader(s, b) ==
  [slot |-> b.slot,
   header |-> [slot |-> b.slot, root |-> b.root],
   history |-> s.history \o PushedRoots(s, b),
   justified |-> NameGenesis(s, s.justified),
   finalized |-> NameGenesis(s, s.finalized),
   window |-> ExtendToSlot(s.window, s.finalized.slot, b.slot - 1),
   justifications |-> s.justifications]

-----------------------------------------------------------------------------
(* One attestation of a block.  base is the finalized slot when the block  *)
(* started: root_to_slot is built once, from the slots after it.           *)

Attestation == [source : Checkpoint, target : Checkpoint, bits : SUBSET Nat]

RootSlots(s, base, root) ==
  {slot \in base + 1 .. Len(s.history) - 1 : HistoryAt(s, slot) = root}

\* root_to_slot.at(root) has a value
InRootToSlot(s, base, root) == RootSlots(s, base, root) # {}

\* root_to_slot.at(root), the last of the slots, is after the finalized slot
RootIsAfter(s, base, root, finalized) ==
  \E slot \in RootSlots(s, base, root) : slot > finalized

SlotOutOfHistory(s, a) ==
  \/ a.source.slot >= Len(s.history)
  \/ a.target.slot >= Len(s.history)

\* .value() of an optional without a value
MissingBit(s, a) ==
  \/ ~HasJustifiedBit(s.window, s.finalized.slot, a.source.slot)
  \/ /\ IsSlotJustified(s.window, s.finalized.slot, a.source.slot)
     /\ ~HasJustifiedBit(s.window, s.finalized.slot, a.target.slot)

\* Mutant: the target root is not compared with the chain.
CountsAnyTarget(s, a) ==
  /\ IsSlotJustified(s.window, s.finalized.slot, a.source.slot)
  /\ ~IsSlotJustified(s.window, s.finalized.slot, a.target.slot)
  /\ a.source.root # ZeroHash
  /\ a.target.root # ZeroHash
  /\ a.source.root = HistoryAt(s, a.source.slot)
  /\ a.target.slot > a.source.slot
  /\ IsJustifiableSlot(s.finalized.slot, a.target.slot)

\* none of the checks that skip the attestation applies
Counts(s, a) ==
  /\ IsSlotJustified(s.window, s.finalized.slot, a.source.slot)
  /\ ~IsSlotJustified(s.window, s.finalized.slot, a.target.slot)
  /\ a.source.root # ZeroHash
  /\ a.target.root # ZeroHash
  /\ a.source.root = HistoryAt(s, a.source.slot)
  /\ a.target.root = HistoryAt(s, a.target.slot)
  /\ a.target.slot > a.source.slot
  /\ IsJustifiableSlot(s.finalized.slot, a.target.slot)

InvalidVoter(a) == ~(a.bits \subseteq Validator)

VotesFor(s, root) ==
  IF root \in DOMAIN s.justifications THEN s.justifications[root] ELSE {}

NewVotes(s, a) == VotesFor(s, a.target.root) \cup a.bits

Supermajority(voters) == 3 * Cardinality(voters) >= 2 * NumValidators

\* the votes are kept for later blocks
TrackVotes(s, a) ==
  [s EXCEPT !.justifications =
     [r \in DOMAIN s.justifications \cup {a.target.root} |->
        IF r = a.target.root THEN NewVotes(s, a) ELSE s.justifications[r]]]

\* Mutant: the votes of the justified target are kept.
JustifyKeepVotes(s, a) ==
  [s EXCEPT !.justified = a.target,
            !.window = WithJustified(s.window, s.finalized.slot, a.target.slot)]

\* the target is justified and its votes are dropped
Justify(s, a) ==
  [s EXCEPT !.justified = a.target,
            !.window = WithJustified(s.window, s.finalized.slot, a.target.slot),
            !.justifications =
              [r \in DOMAIN s.justifications \ {a.target.root} |->
                 s.justifications[r]]]

\* a slot between source and target could still be justified
JustifiableBetween(s, a) ==
  \E slot \in a.source.slot + 1 .. a.target.slot - 1 :
    IsJustifiableSlot(s.finalized.slot, slot)

\* the search stops at its first slot when that slot is behind the finalized
\* one, where a build that keeps assertions aborts
BreaksAssert(s, a) ==
  /\ a.source.slot + 1 < a.target.slot
  /\ ~JustifiableAssert(s.finalized.slot, a.source.slot + 1)

\* the source is finalized: the window and the votes are cut there
Finalize(s, base, a) ==
  LET delta == a.source.slot - s.finalized.slot
  IN  [s EXCEPT !.finalized = a.source,
                !.window = IF delta # 0 THEN ShiftWindow(s.window, delta) ELSE @,
                !.justifications =
                   IF delta # 0
                   THEN [r \in {q \in DOMAIN @ :
                                  RootIsAfter(s, base, q, a.source.slot)} |-> @[r]]
                   ELSE @]

\* what becomes of the attestation
Verdict(s, base, a) ==
  IF SlotOutOfHistory(s, a) THEN "error"
  ELSE IF MissingBit(s, a) THEN "throw"
  ELSE IF ~Counts(s, a) THEN "skip"
  ELSE IF InvalidVoter(a) THEN "error"
  ELSE IF ~Supermajority(NewVotes(s, a)) THEN "track"
  ELSE IF Asserts /\ BreaksAssert(s, a) THEN "abort"
  ELSE IF JustifiableBetween(s, a) THEN "justify"
  ELSE IF /\ a.source.slot # s.finalized.slot
          /\ \E r \in DOMAIN Justify(s, a).justifications : ~InRootToSlot(s, base, r)
  THEN "throw"
  ELSE "finalize"

ProcessAttestation(s, base, a) ==
  CASE Verdict(s, base, a) = "track" -> TrackVotes(s, a)
    [] Verdict(s, base, a) = "justify" -> Justify(s, a)
    [] Verdict(s, base, a) = "finalize" -> Finalize(Justify(s, a), base, a)
    [] OTHER -> s
=============================================================================
