----------------------- MODULE StateTransitionProofs -----------------------
(***************************************************************************)
(* Theorems about StateTransition, for every number of validators, every   *)
(* set of attestations and chains of any length.                           *)
(***************************************************************************)
EXTENDS StateTransition, TLAPS

\* A root in the history is the zero hash or names the slot it stands for: no
\* block occurs twice.
HistoryNamed(s) ==
  \A slot \in 0 .. Len(s.history) - 1 :
    \/ HistoryAt(s, slot) = ZeroHash
    \/ HistoryAt(s, slot) \in BlockRoot /\ HistoryAt(s, slot)[1] = slot

\* The window ends with the history.
WindowFits(s) ==
  /\ s.window.set \subseteq 0 .. s.window.size - 1
  /\ IF s.history = << >>
     THEN s.window.size = 0 /\ s.finalized.slot = 0 /\ s.justified.slot = 0
     ELSE s.window.size = Len(s.history) - 1 - s.finalized.slot

\* What every state of the chain and every working copy satisfies.
Sound(s) ==
  /\ s \in State
  /\ s.header.root[1] = s.header.slot
  /\ Len(s.history) = s.header.slot
  /\ HistoryNamed(s)
  /\ WindowFits(s)
  /\ CheckpointsHold(s)
  /\ PendingVotesHold(s)
  /\ ZeroHash \notin DOMAIN s.justifications

\* t is s after some blocks or attestations: nothing justified is lost
Grown(s, t) ==
  /\ t.finalized.slot >= s.finalized.slot
  /\ Len(t.history) >= Len(s.history)
  /\ \A slot \in 0 .. Len(s.history) - 1 :
       IsSlotJustified(s.window, s.finalized.slot, slot)
         => IsSlotJustified(t.window, t.finalized.slot, slot)

\* The inductive invariant.
ChainInv ==
  /\ Sound(state)
  /\ Sound(work)
  /\ Grown(state, work)
  /\ base \in Slot
  /\ pc \in {"idle", "attestations", "aborted"}
  /\ count \in 0 .. MaxBlockAttestations
  /\ pc = "attestations" => base <= work.finalized.slot /\ work.history # << >>

-----------------------------------------------------------------------------
(* What the operations make of the fields of a state. *)

\* The votes for the target are added.
LEMMA TrackVotesFields ==
  ASSUME NEW s \in State, NEW a \in Attestation, a.bits \subseteq Validator
  PROVE  LET t == TrackVotes(s, a)
         IN  /\ t \in State
             /\ t.slot = s.slot /\ t.header = s.header /\ t.history = s.history
             /\ t.justified = s.justified /\ t.finalized = s.finalized
             /\ t.window = s.window
             /\ DOMAIN t.justifications = DOMAIN s.justifications \cup {a.target.root}
             /\ \A r \in DOMAIN t.justifications :
                  t.justifications[r] = IF r = a.target.root THEN NewVotes(s, a)
                                        ELSE s.justifications[r]
<1> DEFINE votes == [r \in DOMAIN s.justifications \cup {a.target.root} |->
                       IF r = a.target.root THEN NewVotes(s, a) ELSE s.justifications[r]]
<1>1. PICK roots \in SUBSET Root : s.justifications \in [roots -> SUBSET Validator]
  BY DEF State, Justifications
<1>2. NewVotes(s, a) \in SUBSET Validator
  BY <1>1 DEF NewVotes, VotesFor
<1>3. a.target.root \in Root
  BY DEF Attestation, Checkpoint
<1>4. votes \in [roots \cup {a.target.root} -> SUBSET Validator]
  BY <1>1, <1>2
<1>5. votes \in Justifications
  BY Zenon, <1>3, <1>4 DEF Justifications
<1>6. TrackVotes(s, a) = [s EXCEPT !.justifications = votes]
  BY DEF TrackVotes
<1> HIDE DEF votes
<1>7. /\ [s EXCEPT !.justifications = votes] \in State
      /\ [s EXCEPT !.justifications = votes].justifications = votes
  BY <1>5 DEF State
<1>8. LET t == TrackVotes(s, a)
      IN  /\ t.slot = s.slot /\ t.header = s.header /\ t.history = s.history
          /\ t.justified = s.justified /\ t.finalized = s.finalized
          /\ t.window = s.window
  BY <1>6 DEF State
<1> QED BY <1>6, <1>7, <1>8 DEF votes

\* The target becomes the justified checkpoint.
LEMMA JustifyFields ==
  ASSUME NEW s \in State, NEW a \in Attestation,
         WithJustified(s.window, s.finalized.slot, a.target.slot) \in Window
  PROVE  LET t == Justify(s, a)
         IN  /\ t \in State
             /\ t.slot = s.slot /\ t.header = s.header /\ t.history = s.history
             /\ t.justified = a.target /\ t.finalized = s.finalized
             /\ t.window = WithJustified(s.window, s.finalized.slot, a.target.slot)
             /\ DOMAIN t.justifications = DOMAIN s.justifications \ {a.target.root}
             /\ \A r \in DOMAIN t.justifications :
                  t.justifications[r] = s.justifications[r]
<1> DEFINE votes == [r \in DOMAIN s.justifications \ {a.target.root} |-> s.justifications[r]]
           window == WithJustified(s.window, s.finalized.slot, a.target.slot)
<1>1. PICK roots \in SUBSET Root : s.justifications \in [roots -> SUBSET Validator]
  BY DEF State, Justifications
<1>2. votes \in [roots \ {a.target.root} -> SUBSET Validator]
  BY <1>1
<1>3. votes \in Justifications
  BY Zenon, <1>2 DEF Justifications
<1>4. Justify(s, a) = [s EXCEPT !.justified = a.target, !.window = window,
                                !.justifications = votes]
  BY DEF Justify
<1>5. a.target \in Checkpoint /\ window \in Window
  BY DEF Attestation
<1> HIDE DEF votes, window
<1>6. LET t == [s EXCEPT !.justified = a.target, !.window = window,
                         !.justifications = votes]
      IN  /\ t \in State
          /\ t.justified = a.target /\ t.window = window /\ t.justifications = votes
  BY Zenon, <1>3, <1>5 DEF State
<1>7. LET t == Justify(s, a)
      IN  /\ t.slot = s.slot /\ t.header = s.header /\ t.history = s.history
          /\ t.finalized = s.finalized
  BY <1>4 DEF State
<1> QED BY <1>4, <1>6, <1>7 DEF votes, window

\* The source becomes the finalized checkpoint.
LEMMA FinalizeFields ==
  ASSUME NEW s \in State, NEW a \in Attestation, NEW b,
         NEW w \in Window,
         w = IF a.source.slot - s.finalized.slot # 0
             THEN ShiftWindow(s.window, a.source.slot - s.finalized.slot)
             ELSE s.window
  PROVE  LET t == Finalize(s, b, a)
         IN  /\ t \in State
             /\ t.slot = s.slot /\ t.header = s.header /\ t.history = s.history
             /\ t.justified = s.justified /\ t.finalized = a.source
             /\ t.window = w
             /\ DOMAIN t.justifications \subseteq DOMAIN s.justifications
             /\ \A r \in DOMAIN t.justifications :
                  /\ t.justifications[r] = s.justifications[r]
                  /\ a.source.slot # s.finalized.slot
                       => RootIsAfter(s, b, r, a.source.slot)
<1> DEFINE kept == {q \in DOMAIN s.justifications : RootIsAfter(s, b, q, a.source.slot)}
           votes == IF a.source.slot - s.finalized.slot # 0
                    THEN [r \in kept |-> s.justifications[r]] ELSE s.justifications
<1>0. a.source \in Checkpoint /\ a.source.slot \in Nat /\ s.finalized.slot \in Nat
  BY DEF Attestation, Checkpoint, Slot, State
<1>1. PICK roots \in SUBSET Root : s.justifications \in [roots -> SUBSET Validator]
  BY DEF State, Justifications
<1>2. votes \in Justifications
  <2>1. CASE a.source.slot - s.finalized.slot # 0
    <3>1. votes \in [kept -> SUBSET Validator] /\ kept \in SUBSET Root
      BY <1>1, <2>1
    <3> QED BY <3>1 DEF Justifications
  <2>2. CASE a.source.slot - s.finalized.slot = 0
    BY <2>2 DEF State
  <2> QED BY <2>1, <2>2
<1>3. /\ DOMAIN votes \subseteq DOMAIN s.justifications
      /\ \A r \in DOMAIN votes :
           /\ votes[r] = s.justifications[r]
           /\ a.source.slot # s.finalized.slot => RootIsAfter(s, b, r, a.source.slot)
  BY <1>0
<1>4. Finalize(s, b, a) = [s EXCEPT !.finalized = a.source, !.window = w,
                                    !.justifications = votes]
  BY DEF Finalize, State
<1> HIDE DEF votes, kept
<1>5. LET t == [s EXCEPT !.finalized = a.source, !.window = w, !.justifications = votes]
      IN  /\ t \in State
          /\ t.finalized = a.source /\ t.window = w /\ t.justifications = votes
  BY Zenon, <1>0, <1>2 DEF State
<1>6. LET t == [s EXCEPT !.finalized = a.source, !.window = w, !.justifications = votes]
      IN  /\ t.slot = s.slot /\ t.header = s.header /\ t.history = s.history
          /\ t.justified = s.justified
  BY DEF State
<1> QED BY <1>3, <1>4, <1>5, <1>6

-----------------------------------------------------------------------------
(* The window. *)

\* Setting the bit of a slot sets no other and keeps the size.
LEMMA JustifiedWindow ==
  ASSUME NEW w \in Window, w.set \subseteq 0 .. w.size - 1,
         NEW f \in Nat, NEW g \in Nat, g > f, HasJustifiedBit(w, f, g)
  PROVE  LET t == WithJustified(w, f, g)
         IN  /\ t \in Window
             /\ t.size = w.size
             /\ t.set \subseteq 0 .. t.size - 1
             /\ \A slot \in Nat :
                  IsSlotJustified(t, f, slot) <=> slot = g \/ IsSlotJustified(w, f, slot)
<1> DEFINE t == WithJustified(w, f, g)
<1>1. /\ t = [w EXCEPT !.set = w.set \cup {g - f - 1}]
      /\ g - f - 1 \in 0 .. w.size - 1
  BY DEF Window, WithJustified, JustifiedIndexAfter, HasJustifiedBit
<1>2. t \in Window /\ t.size = w.size /\ t.set = w.set \cup {g - f - 1}
  BY <1>1 DEF Window
<1> QED BY <1>1, <1>2 DEF IsSlotJustified, JustifiedIndexAfter

\* Cutting the window at a slot keeps the bits of the slots after it.
LEMMA ShiftedWindow ==
  ASSUME NEW w \in Window, w.set \subseteq 0 .. w.size - 1,
         NEW f \in Nat, NEW g \in Nat, f <= g, g - f <= w.size
  PROVE  LET t == ShiftWindow(w, g - f)
         IN  /\ t \in Window
             /\ t.size = w.size - (g - f)
             /\ t.set \subseteq 0 .. t.size - 1
             /\ \A slot \in Nat :
                  slot > g => (IsSlotJustified(t, g, slot) <=> IsSlotJustified(w, f, slot))
<1> DEFINE d == g - f
           bits == {i - d : i \in {j \in w.set : j >= d}}
           t == ShiftWindow(w, d)
<1>1. d \in 0 .. w.size /\ w.size \in Nat /\ w.set \subseteq Nat
  BY DEF Window
<1>2. t = [size |-> w.size - d, set |-> bits]
  BY <1>1 DEF ShiftWindow
<1>3. bits \subseteq 0 .. (w.size - d) - 1
  BY <1>1
<1>4. ASSUME NEW slot \in Nat, slot > g
      PROVE  slot - g - 1 \in bits <=> slot - f - 1 \in w.set
  <2>1. slot - g - 1 = (slot - f - 1) - d /\ slot - f - 1 >= d
    BY <1>4
  <2>2. ASSUME slot - g - 1 \in bits PROVE slot - f - 1 \in w.set
    <3>1. PICK i \in w.set : i >= d /\ slot - g - 1 = i - d
      BY <2>2
    <3>2. i = slot - f - 1
      BY <1>1, <2>1, <3>1
    <3> QED BY <3>1, <3>2
  <2>3. ASSUME slot - f - 1 \in w.set PROVE slot - g - 1 \in bits
    BY <2>1, <2>3
  <2> QED BY <2>2, <2>3
<1>5. t \in Window
  <2>1. bits \in SUBSET Nat /\ w.size - d \in Nat
    BY <1>1, <1>3
  <2> HIDE DEF bits, t, d
  <2> QED BY <1>2, <2>1 DEF Window
<1>6. ASSUME NEW slot \in Nat, slot > g
      PROVE  IsSlotJustified(t, g, slot) <=> IsSlotJustified(w, f, slot)
  <2> HIDE DEF bits
  <2>1. slot > f
    BY <1>6
  <2> QED BY <1>2, <1>4, <1>6, <2>1 DEF IsSlotJustified, JustifiedIndexAfter
<1>7. t.size = w.size - d /\ t.set = bits
  BY <1>2
<1> HIDE DEF bits, t
<1> QED BY <1>3, <1>5, <1>6, <1>7 DEF t

-----------------------------------------------------------------------------
(* Attestations. *)

\* What is known of an attestation that is not skipped.
LEMMA Counted ==
  ASSUME NEW s, Sound(s), NEW b, NEW a \in Attestation, s.history # << >>,
         Verdict(s, b, a) \in {"track", "justify", "finalize"}
  PROVE  /\ a.bits \subseteq Validator
         /\ a.source \in Checkpoint /\ a.target \in Checkpoint
         /\ a.source.slot \in Nat /\ a.target.slot \in Nat
         /\ a.source.slot < a.target.slot /\ a.target.slot < Len(s.history)
         /\ s.finalized.slot < a.target.slot
         /\ HistoryAt(s, a.source.slot) = a.source.root
         /\ HistoryAt(s, a.target.slot) = a.target.root
         /\ a.target.root # ZeroHash
         /\ HasJustifiedBit(s.window, s.finalized.slot, a.target.slot)
         /\ IsSlotJustified(s.window, s.finalized.slot, a.source.slot)
         /\ ~IsSlotJustified(s.window, s.finalized.slot, a.target.slot)
<1>1. ~SlotOutOfHistory(s, a) /\ ~MissingBit(s, a) /\ Counts(s, a) /\ ~InvalidVoter(a)
  BY DEF Verdict
<1>2. /\ a.source \in Checkpoint /\ a.target \in Checkpoint
      /\ a.source.slot \in Nat /\ a.target.slot \in Nat
      /\ s.finalized.slot \in Nat /\ Len(s.history) \in Nat
  BY DEF Attestation, Checkpoint, Slot, Sound, State
<1>3. s.finalized.slot < a.target.slot
  BY <1>1, <1>2 DEF Counts, IsSlotJustified
<1> QED BY <1>1, <1>2, <1>3 DEF SlotOutOfHistory, MissingBit, Counts, InvalidVoter

\* What leaves header and history alone leaves the chain's part of the invariant.
LEMMA SameChain ==
  ASSUME NEW s, Sound(s), NEW t \in State,
         t.header = s.header, t.history = s.history
  PROVE  /\ t.header.root[1] = t.header.slot
         /\ Len(t.history) = t.header.slot
         /\ HistoryNamed(t)
         /\ \A slot : HistoryAt(t, slot) = HistoryAt(s, slot)
  BY Zenon DEF Sound, HistoryNamed, HistoryAt

\* Votes that do not suffice are kept.
LEMMA TrackStep ==
  ASSUME NEW s, Sound(s), NEW b, NEW a \in Attestation, s.history # << >>,
         Verdict(s, b, a) = "track"
  PROVE  Sound(TrackVotes(s, a)) /\ Grown(s, TrackVotes(s, a))
<1> DEFINE t == TrackVotes(s, a)
<1>1. s \in State /\ Len(s.history) \in Nat /\ s.finalized.slot \in Nat
  BY DEF Sound, State, Checkpoint, Slot
<1>2. /\ t \in State
      /\ t.header = s.header /\ t.history = s.history
      /\ t.justified = s.justified /\ t.finalized = s.finalized /\ t.window = s.window
      /\ DOMAIN t.justifications = DOMAIN s.justifications \cup {a.target.root}
      /\ \A r \in DOMAIN t.justifications :
           t.justifications[r] = IF r = a.target.root THEN NewVotes(s, a)
                                 ELSE s.justifications[r]
  BY <1>1, Counted, TrackVotesFields
<1>3. ~Supermajority(NewVotes(s, a))
  BY DEF Verdict
<1> HIDE DEF t
<1>4. PendingVotesHold(t)
  <2> SUFFICES ASSUME NEW r \in DOMAIN t.justifications
               PROVE  /\ ~Supermajority(t.justifications[r])
                      /\ \E slot \in t.finalized.slot + 1 .. Len(t.history) - 1 :
                           /\ HistoryAt(t, slot) = r
                           /\ ~IsSlotJustified(t.window, t.finalized.slot, slot)
    BY DEF PendingVotesHold
  <2>1. CASE r = a.target.root
    <3>1. a.target.slot \in t.finalized.slot + 1 .. Len(t.history) - 1
      BY <1>1, <1>2, Counted
    <3> QED BY <1>2, <1>3, <2>1, <3>1, Counted, SameChain
  <2>2. CASE r # a.target.root
    BY <1>2, <2>2, SameChain DEF Sound, PendingVotesHold
  <2> QED BY <2>1, <2>2
<1>5. CheckpointsHold(t)
  BY <1>2, SameChain DEF Sound, CheckpointsHold
<1>6. Sound(t)
  <2>1. ZeroHash \notin DOMAIN t.justifications
    BY <1>2, Counted DEF Sound
  <2> QED BY <1>2, <1>4, <1>5, <2>1, SameChain DEF Sound, WindowFits
<1>7. Grown(s, t)
  BY <1>1, <1>2 DEF Grown
<1> QED BY <1>6, <1>7 DEF t

\* The target is justified: its bit is set, and only its votes are dropped.
LEMMA JustifyStep ==
  ASSUME NEW s, Sound(s), NEW b, NEW a \in Attestation, s.history # << >>,
         Verdict(s, b, a) \in {"justify", "finalize"}
  PROVE  /\ Sound(Justify(s, a)) /\ Grown(s, Justify(s, a))
         /\ Justify(s, a).history = s.history
         /\ Justify(s, a).finalized = s.finalized
         /\ Justify(s, a).justified = a.target
<1> DEFINE t == Justify(s, a)
           f == s.finalized.slot
<1>1. s \in State /\ Len(s.history) \in Nat /\ f \in Nat /\ s.window \in Window
  BY DEF Sound, State, Checkpoint, Slot
<1>2. /\ a.target \in Checkpoint
      /\ a.target.slot \in Nat
      /\ f < a.target.slot /\ a.target.slot < Len(s.history)
      /\ HistoryAt(s, a.target.slot) = a.target.root
      /\ HasJustifiedBit(s.window, f, a.target.slot)
  BY Counted
<1>3. s.window.set \subseteq 0 .. s.window.size - 1
  BY DEF Sound, WindowFits
<1>4. LET w == WithJustified(s.window, f, a.target.slot)
      IN  /\ w \in Window
          /\ w.size = s.window.size
          /\ w.set \subseteq 0 .. w.size - 1
          /\ \A slot \in Nat : IsSlotJustified(w, f, slot)
                                 <=> slot = a.target.slot \/ IsSlotJustified(s.window, f, slot)
  BY <1>1, <1>2, <1>3, JustifiedWindow
<1>5. /\ t \in State
      /\ t.header = s.header /\ t.history = s.history
      /\ t.justified = a.target /\ t.finalized = s.finalized
      /\ t.window = WithJustified(s.window, f, a.target.slot)
      /\ DOMAIN t.justifications = DOMAIN s.justifications \ {a.target.root}
      /\ \A r \in DOMAIN t.justifications : t.justifications[r] = s.justifications[r]
  BY <1>1, <1>4, JustifyFields
<1> HIDE DEF t
<1>6. /\ \A slot \in Nat : IsSlotJustified(t.window, f, slot)
                              <=> slot = a.target.slot \/ IsSlotJustified(s.window, f, slot)
      /\ t.window.size = s.window.size /\ t.window.set \subseteq 0 .. t.window.size - 1
  BY <1>4, <1>5
<1>7. PendingVotesHold(t)
  <2> SUFFICES ASSUME NEW r \in DOMAIN t.justifications
               PROVE  /\ ~Supermajority(t.justifications[r])
                      /\ \E slot \in f + 1 .. Len(s.history) - 1 :
                           /\ HistoryAt(s, slot) = r
                           /\ ~IsSlotJustified(t.window, f, slot)
    BY <1>5, SameChain DEF PendingVotesHold
  <2>1. r \in DOMAIN s.justifications /\ r # a.target.root
    BY <1>5
  <2>2. PICK slot \in f + 1 .. Len(s.history) - 1 :
          HistoryAt(s, slot) = r /\ ~IsSlotJustified(s.window, f, slot)
    BY <2>1 DEF Sound, PendingVotesHold
  <2>3. slot \in Nat /\ slot # a.target.slot
    BY <1>1, <1>2, <2>1, <2>2
  <2>4. ~IsSlotJustified(t.window, f, slot)
    BY <1>6, <2>2, <2>3
  <2>5. ~Supermajority(t.justifications[r])
    BY <1>5, <2>1 DEF Sound, PendingVotesHold
  <2> QED BY <2>2, <2>4, <2>5
<1>8. CheckpointsHold(t)
  <2>1. t.finalized.slot <= t.justified.slot
    BY <1>1, <1>2, <1>5
  <2>2. IsSlotJustified(t.window, t.finalized.slot, t.justified.slot)
    BY <1>2, <1>5, <1>6
  <2>3. \A c \in {t.justified, t.finalized} :
          c.slot < Len(t.history) /\ HistoryAt(t, c.slot) = c.root
    BY <1>2, <1>5, SameChain DEF Sound, CheckpointsHold
  <2> QED BY <2>1, <2>2, <2>3 DEF CheckpointsHold
<1>9. WindowFits(t)
  BY <1>5, <1>6 DEF Sound, WindowFits
<1>10. Sound(t)
  BY <1>5, <1>7, <1>8, <1>9, SameChain DEF Sound
<1>11. Grown(s, t)
  BY <1>1, <1>5, <1>6 DEF Grown
<1> QED BY <1>5, <1>10, <1>11 DEF t

\* A source behind the finalized slot finalizes nothing: the finalized slot
\* itself lies between it and the target, and is at a distance of zero.
LEMMA SourceNotBehind ==
  ASSUME NEW s, Sound(s), NEW b, NEW a \in Attestation, s.history # << >>,
         Verdict(s, b, a) = "finalize"
  PROVE  s.finalized.slot <= a.source.slot
<1>1. ~JustifiableBetween(s, a)
  BY DEF Verdict
<1>2. /\ s.finalized.slot \in Nat /\ a.source.slot \in Nat /\ a.target.slot \in Nat
      /\ s.finalized.slot < a.target.slot
  BY Counted DEF Sound, State, Checkpoint, Slot
<1>3. IsJustifiableSlot(s.finalized.slot, s.finalized.slot)
  BY <1>2 DEF IsJustifiableSlot
<1>4. ~(s.finalized.slot \in a.source.slot + 1 .. a.target.slot - 1)
  BY <1>1, <1>3 DEF JustifiableBetween
<1> QED BY <1>2, <1>4

\* The source of a justified target is finalized.
LEMMA FinalizeStep ==
  ASSUME NEW s, Sound(s), NEW b \in Nat, NEW a \in Attestation, s.history # << >>,
         Verdict(s, b, a) = "finalize"
  PROVE  LET u == Finalize(Justify(s, a), b, a)
         IN  Sound(u) /\ Grown(s, u) /\ u.history = s.history
<1> DEFINE t == Justify(s, a)
           u == Finalize(t, b, a)
           f == s.finalized.slot
           g == a.source.slot
           w == IF g - t.finalized.slot # 0 THEN ShiftWindow(t.window, g - t.finalized.slot)
                ELSE t.window
<1>1. /\ Sound(t) /\ Grown(s, t)
      /\ t.history = s.history /\ t.finalized = s.finalized /\ t.justified = a.target
  BY JustifyStep
<1>2. /\ a.source \in Checkpoint
      /\ g \in Nat /\ a.target.slot \in Nat
      /\ g < a.target.slot /\ f < a.target.slot /\ a.target.slot < Len(s.history)
      /\ HistoryAt(s, g) = a.source.root
      /\ HistoryAt(s, a.target.slot) = a.target.root
  BY Counted
<1>3. f <= g
  BY SourceNotBehind
<1> HIDE DEF t
<1>4. /\ t \in State /\ Len(s.history) \in Nat /\ f \in Nat /\ t.window \in Window
      /\ t.window.set \subseteq 0 .. t.window.size - 1
      /\ t.window.size = Len(s.history) - 1 - f
  <2>1. t \in State
    BY <1>1 DEF Sound
  <2>2. Len(t.history) \in Nat /\ t.finalized.slot \in Nat /\ t.window \in Window
    BY <2>1 DEF State, Checkpoint, Slot
  <2> QED BY <1>1, <2>1, <2>2 DEF Sound, WindowFits
<1>5. /\ w \in Window
      /\ w.size = t.window.size - (g - f)
      /\ w.set \subseteq 0 .. w.size - 1
      /\ \A slot \in Nat :
           slot > g => (IsSlotJustified(w, g, slot) <=> IsSlotJustified(t.window, f, slot))
  <2>1. CASE g = f
    BY <1>1, <1>4, <2>1 DEF Window
  <2>2. CASE g # f
    <3>1. w = ShiftWindow(t.window, g - f)
      BY <1>1, <1>2, <1>4, <2>2
    <3>2. g - f <= t.window.size
      BY <1>2, <1>4
    <3> HIDE DEF w
    <3> QED BY Zenon, <1>2, <1>3, <1>4, <3>1, <3>2, ShiftedWindow
  <2> QED BY <2>1, <2>2
<1>6. /\ u \in State
      /\ u.header = t.header /\ u.history = t.history
      /\ u.justified = t.justified /\ u.finalized = a.source /\ u.window = w
      /\ DOMAIN u.justifications \subseteq DOMAIN t.justifications
      /\ \A r \in DOMAIN u.justifications :
           /\ u.justifications[r] = t.justifications[r]
           /\ g # f => RootIsAfter(t, b, r, g)
  BY <1>1, <1>4, <1>5, FinalizeFields, SMTT(40)
<1> HIDE DEF u, w
<1>7. PendingVotesHold(u)
  <2> SUFFICES ASSUME NEW r \in DOMAIN u.justifications
               PROVE  /\ ~Supermajority(u.justifications[r])
                      /\ \E slot \in g + 1 .. Len(t.history) - 1 :
                           /\ HistoryAt(t, slot) = r
                           /\ ~IsSlotJustified(w, g, slot)
    BY <1>1, <1>6, SameChain DEF PendingVotesHold
  <2>1. r \in DOMAIN t.justifications
    BY <1>6
  <2>2. PICK slot \in f + 1 .. Len(t.history) - 1 :
          HistoryAt(t, slot) = r /\ ~IsSlotJustified(t.window, f, slot)
    BY <1>1, <2>1 DEF Sound, PendingVotesHold
  <2>3. slot > g
    <3>1. CASE g = f
      BY <1>1, <1>4, <2>2, <3>1
    <3>2. CASE g # f
      <4>1. PICK later \in b + 1 .. Len(t.history) - 1 :
              HistoryAt(t, later) = r /\ later > g
        BY <1>6, <3>2 DEF RootIsAfter, RootSlots
      <4>2. r # ZeroHash
        BY <1>1, <2>1 DEF Sound
      <4>3. later \in 0 .. Len(t.history) - 1 /\ slot \in 0 .. Len(t.history) - 1
        BY <1>1, <1>4, <2>2, <4>1
      <4>4. r[1] = later /\ r[1] = slot
        BY <1>1, <2>2, <4>1, <4>2, <4>3 DEF Sound, HistoryNamed
      <4> QED BY <4>1, <4>4
    <3> QED BY <3>1, <3>2
  <2>4. slot \in Nat /\ slot \in g + 1 .. Len(t.history) - 1
    BY <1>1, <1>2, <1>4, <2>2, <2>3
  <2>5. ~IsSlotJustified(w, g, slot)
    BY <1>5, <2>2, <2>3, <2>4
  <2>6. ~Supermajority(u.justifications[r])
    BY <1>1, <1>6, <2>1 DEF Sound, PendingVotesHold
  <2> QED BY <2>2, <2>4, <2>5, <2>6
<1>8. CheckpointsHold(u)
  <2>1. u.finalized.slot <= u.justified.slot
    BY <1>1, <1>2, <1>6
  <2>2. IsSlotJustified(u.window, u.finalized.slot, u.justified.slot)
    <3>1. IsSlotJustified(t.window, f, a.target.slot)
      BY <1>1 DEF Sound, CheckpointsHold
    <3> QED BY <1>1, <1>2, <1>5, <1>6, <3>1
  <2>3. \A c \in {u.justified, u.finalized} :
          c.slot < Len(u.history) /\ HistoryAt(u, c.slot) = c.root
    BY <1>1, <1>2, <1>4, <1>6 DEF HistoryAt
  <2> QED BY <2>1, <2>2, <2>3 DEF CheckpointsHold
<1>9. WindowFits(u)
  BY <1>1, <1>2, <1>3, <1>4, <1>5, <1>6 DEF WindowFits
<1>10. Sound(u)
  <2>1. ZeroHash \notin DOMAIN u.justifications
    BY <1>1, <1>6 DEF Sound
  <2> QED BY <1>1, <1>6, <1>7, <1>8, <1>9, <2>1, SameChain DEF Sound
<1>11. Grown(s, u)
  <2>1. ASSUME NEW slot \in 0 .. Len(s.history) - 1,
               IsSlotJustified(s.window, f, slot)
        PROVE  IsSlotJustified(w, g, slot)
    <3>1. IsSlotJustified(t.window, f, slot)
      BY <1>1, <2>1 DEF Grown
    <3>2. CASE slot > g
      BY <1>4, <1>5, <3>1, <3>2
    <3>3. CASE slot <= g
      BY <1>2, <1>4, <3>3 DEF IsSlotJustified
    <3> QED BY <1>2, <1>4, <3>2, <3>3
  <2> QED BY <1>1, <1>2, <1>3, <1>4, <1>6, <2>1 DEF Grown
<1> QED BY <1>1, <1>6, <1>10, <1>11 DEF t, u

-----------------------------------------------------------------------------
(* Headers. *)

\* A concatenation, entry by entry.
LEMMA Joined ==
  ASSUME NEW p \in Seq(Root), NEW q \in Seq(Root)
  PROVE  /\ p \o q \in Seq(Root)
         /\ Len(p \o q) = Len(p) + Len(q)
         /\ \A i \in 1 .. Len(p) : (p \o q)[i] = p[i]
         /\ \A i \in Len(p) + 1 .. Len(p) + Len(q) : (p \o q)[i] = q[i - Len(p)]
  OBVIOUS

\* The roots that a header pushes fill the slots from its parent's to the one
\* before its own.
LEMMA Pushed ==
  ASSUME NEW s, Sound(s), NEW b \in Block, s.header.slot < b.slot
  PROVE  LET h == s.history \o PushedRoots(s, b)
         IN  /\ h \in Seq(Root)
             /\ Len(h) = b.slot
             /\ \A i \in 1 .. Len(s.history) : h[i] = s.history[i]
             /\ h[Len(s.history) + 1] = s.header.root
             /\ \A i \in Len(s.history) + 2 .. b.slot : h[i] = ZeroHash
<1> DEFINE n == b.slot - s.header.slot - 1
           empty == [i \in 1 .. n |-> ZeroHash]
<1>1. /\ s.header.slot \in Nat /\ b.slot \in Nat /\ n \in Nat
      /\ s.history \in Seq(Root) /\ Len(s.history) = s.header.slot
      /\ s.header.root \in Root
  BY DEF Sound, State, Header, Block, Slot, Root
<1>2. empty \in Seq(Root) /\ Len(empty) = n
  BY <1>1 DEF Root
<1>3. /\ <<s.header.root>> \in Seq(Root) /\ Len(<<s.header.root>>) = 1
      /\ <<s.header.root>>[1] = s.header.root
  BY <1>1
<1>4. PushedRoots(s, b) = <<s.header.root>> \o empty
  BY DEF PushedRoots
<1>5. \A i \in 1 .. n : empty[i] = ZeroHash
  OBVIOUS
<1> HIDE DEF empty
<1>6. /\ PushedRoots(s, b) \in Seq(Root) /\ Len(PushedRoots(s, b)) = n + 1
      /\ PushedRoots(s, b)[1] = s.header.root
      /\ \A i \in 2 .. n + 1 : PushedRoots(s, b)[i] = ZeroHash
  BY <1>1, <1>2, <1>3, <1>4, <1>5
<1> DEFINE p == PushedRoots(s, b)
           h == s.history \o p
<1> HIDE DEF p
<1>7. p \in Seq(Root) /\ Len(p) = n + 1
  BY <1>6 DEF p
<1>8. /\ h \in Seq(Root) /\ Len(h) = b.slot
      /\ \A i \in 1 .. Len(s.history) : h[i] = s.history[i]
      /\ \A i \in Len(s.history) + 1 .. b.slot : h[i] = p[i - Len(s.history)]
  <2>1. Len(s.history) + Len(p) = b.slot
    BY <1>1, <1>7
  <2>2. s.history \in Seq(Root) /\ p \in Seq(Root)
    BY <1>1, <1>7
  <2>3. /\ h \in Seq(Root) /\ Len(h) = Len(s.history) + Len(p)
        /\ \A i \in 1 .. Len(s.history) : h[i] = s.history[i]
        /\ \A i \in Len(s.history) + 1 .. Len(s.history) + Len(p) :
             h[i] = p[i - Len(s.history)]
    BY <2>2, Joined, Zenon
  <2> HIDE DEF h
  <2> QED BY <2>1, <2>3
<1>10. h[Len(s.history) + 1] = s.header.root
  <2>1. Len(s.history) + 1 \in Len(s.history) + 1 .. b.slot
        /\ (Len(s.history) + 1) - Len(s.history) = 1
    BY <1>1
  <2>2. p[1] = s.header.root
    BY <1>6 DEF p
  <2> HIDE DEF h
  <2> QED BY <1>8, <2>1, <2>2
<1>11. ASSUME NEW i \in Len(s.history) + 2 .. b.slot PROVE h[i] = ZeroHash
  <2>1. i \in Len(s.history) + 1 .. b.slot /\ i - Len(s.history) \in 2 .. n + 1
    <3> DEFINE m == Len(s.history)
    <3>1. m \in Nat /\ b.slot \in Nat /\ n = b.slot - m - 1
      BY <1>1
    <3>2. i \in m + 2 .. b.slot
      OBVIOUS
    <3> HIDE DEF m, n
    <3>3. i \in m + 1 .. b.slot /\ i - m \in 2 .. n + 1
      BY <3>1, <3>2
    <3> QED BY <3>3 DEF m, n
  <2>2. p[i - Len(s.history)] = ZeroHash
    BY <1>6, <2>1 DEF p
  <2> HIDE DEF h
  <2> QED BY <1>8, <2>1, <2>2
<1> QED BY <1>8, <1>10, <1>11 DEF p

\* A header extends the history and the window and names the genesis.
LEMMA HeaderStep ==
  ASSUME NEW s, Sound(s), NEW b \in Block, b.root[1] = b.slot, HeaderAccepted(s, b)
  PROVE  LET t == ProcessBlockHeader(s, b)
         IN  Sound(t) /\ Grown(s, t) /\ t.history # << >>
<1> DEFINE t == ProcessBlockHeader(s, b)
           f == s.finalized.slot
           n == Len(s.history)
<1>1. /\ s \in State /\ n \in Nat /\ f \in Nat /\ s.justified.slot \in Nat
      /\ s.header.slot = n /\ s.window \in Window /\ s.window.size \in Nat
      /\ s.header.root \in BlockRoot /\ s.header.root[1] = n
      /\ s.justified \in Checkpoint /\ s.finalized \in Checkpoint
      /\ b.slot \in Nat /\ b.root \in BlockRoot /\ n < b.slot
  BY DEF Sound, State, Header, Checkpoint, Slot, Window, Block, HeaderAccepted
<1>2. /\ t.slot = b.slot /\ t.header = [slot |-> b.slot, root |-> b.root]
      /\ t.history = s.history \o PushedRoots(s, b)
      /\ t.justified = NameGenesis(s, s.justified)
      /\ t.finalized = NameGenesis(s, s.finalized)
      /\ t.window = ExtendToSlot(s.window, f, b.slot - 1)
      /\ t.justifications = s.justifications
  BY Zenon DEF ProcessBlockHeader
<1>3. /\ t.history \in Seq(Root) /\ Len(t.history) = b.slot
      /\ \A i \in 1 .. n : t.history[i] = s.history[i]
      /\ t.history[n + 1] = s.header.root
      /\ \A i \in n + 2 .. b.slot : t.history[i] = ZeroHash
  <2> DEFINE h == s.history \o PushedRoots(s, b)
  <2>1. /\ h \in Seq(Root) /\ Len(h) = b.slot
        /\ \A i \in 1 .. n : h[i] = s.history[i]
        /\ h[n + 1] = s.header.root
        /\ \A i \in n + 2 .. b.slot : h[i] = ZeroHash
    BY Zenon, <1>1, Pushed
  <2>2. t.history = h
    BY Zenon, <1>2
  <2> HIDE DEF h, n, t
  <2> QED BY Zenon, <2>1, <2>2
<1>4. \A c \in Checkpoint : /\ NameGenesis(s, c) \in Checkpoint
                            /\ NameGenesis(s, c).slot = c.slot
                            /\ NameGenesis(s, c).root = IF n = 0 THEN s.header.root ELSE c.root
  BY <1>1 DEF NameGenesis, Checkpoint, Root
<1>5. /\ t.window \in Window /\ t.window.set = s.window.set
      /\ t.window.size = b.slot - 1 - f
      /\ s.window.size <= t.window.size
  <2>1. s.window.size <= b.slot - 1 - f /\ (b.slot - 1 <= f => s.window.size = b.slot - 1 - f)
    <3>1. CASE s.history = << >>
      BY <1>1, <3>1 DEF Sound, WindowFits
    <3>2. CASE s.history # << >>
      <4>1. f < n /\ s.window.size = n - 1 - f
        BY <3>2 DEF Sound, WindowFits, CheckpointsHold
      <4>2. n \in Nat /\ f \in Nat /\ b.slot \in Nat /\ n < b.slot
        BY <1>1
      <4> HIDE DEF n, f
      <4> QED BY <4>1, <4>2
    <3> QED BY <3>1, <3>2
  <2>2. CASE b.slot - 1 > f /\ b.slot - 1 - f > s.window.size
    <3>1. t.window = [s.window EXCEPT !.size = b.slot - 1 - f] /\ b.slot - 1 - f \in Nat
      BY <1>1, <1>2, <2>2, SMTT(40) DEF ExtendToSlot, JustifiedIndexAfter
    <3> QED BY <1>1, <2>1, <3>1 DEF Window
  <2>3. CASE ~(b.slot - 1 > f /\ b.slot - 1 - f > s.window.size)
    <3>1. t.window = s.window
      BY <1>1, <1>2, <2>3 DEF ExtendToSlot, JustifiedIndexAfter
    <3> QED BY <1>1, <2>1, <2>3, <3>1
  <2> QED BY <2>2, <2>3
<1>6. t \in State
  <2>1. t.header \in Header /\ s.justifications \in Justifications
    BY <1>1, <1>2, SMTT(40) DEF Header, Slot, State
  <2> QED BY Zenon, <1>1, <1>2, <1>3, <1>4, <1>5, <2>1 DEF ProcessBlockHeader, State, Slot
<1> HIDE DEF t
<1>7. t.finalized.slot = f /\ t.justified.slot = s.justified.slot
  BY <1>1, <1>2, <1>4
<1>8. \A slot : IsSlotJustified(t.window, f, slot) <=> IsSlotJustified(s.window, f, slot)
  BY <1>5 DEF IsSlotJustified
<1>9. /\ \A slot \in 0 .. n - 1 : HistoryAt(t, slot) = HistoryAt(s, slot)
      /\ HistoryAt(t, n) = s.header.root
      /\ \A slot \in n + 1 .. b.slot - 1 : HistoryAt(t, slot) = ZeroHash
  <2>1. ASSUME NEW slot \in 0 .. n - 1 PROVE HistoryAt(t, slot) = HistoryAt(s, slot)
    <3>1. slot + 1 \in 1 .. n
      BY <1>1
    <3> QED BY <1>3, <3>1 DEF HistoryAt
  <2>2. ASSUME NEW slot \in n + 1 .. b.slot - 1 PROVE HistoryAt(t, slot) = ZeroHash
    <3>1. slot + 1 \in n + 2 .. b.slot
      BY <1>1
    <3> QED BY <1>3, <3>1 DEF HistoryAt
  <2> QED BY <1>3, <2>1, <2>2 DEF HistoryAt
<1>10. HistoryNamed(t)
  <2> SUFFICES ASSUME NEW slot \in 0 .. b.slot - 1
               PROVE  \/ HistoryAt(t, slot) = ZeroHash
                      \/ HistoryAt(t, slot) \in BlockRoot /\ HistoryAt(t, slot)[1] = slot
    BY <1>3 DEF HistoryNamed
  <2>1. CASE slot \in 0 .. n - 1
    BY <1>9, <2>1 DEF Sound, HistoryNamed
  <2>2. CASE slot = n
    BY <1>1, <1>9, <2>2
  <2>3. CASE slot \in n + 1 .. b.slot - 1
    BY <1>9, <2>3
  <2>4. slot \in 0 .. n - 1 \/ slot = n \/ slot \in n + 1 .. b.slot - 1
    BY <1>1
  <2> QED BY Zenon, <2>1, <2>2, <2>3, <2>4
<1>11. WindowFits(t)
  <2>1. t.history # << >>
    BY <1>1, <1>3
  <2>2. t.window.set \subseteq 0 .. t.window.size - 1
    BY <1>1, <1>5 DEF Sound, WindowFits, Window
  <2> QED BY <1>3, <1>5, <1>7, <2>1, <2>2 DEF WindowFits
<1>12. CheckpointsHold(t)
  <2>1. s.finalized.slot <= s.justified.slot
        /\ IsSlotJustified(s.window, f, s.justified.slot)
    BY DEF Sound, CheckpointsHold
  <2>2. ASSUME NEW c \in {s.justified, s.finalized}
        PROVE  c.slot < b.slot /\ HistoryAt(t, c.slot) = NameGenesis(s, c).root
    <3>1. CASE n = 0
      <4>1. c.slot = 0 /\ c \in Checkpoint
        BY <1>1, <3>1 DEF Sound, WindowFits
      <4> QED BY <1>1, <1>4, <1>9, <3>1, <4>1
    <3>2. CASE n # 0
      <4>1. c \in Checkpoint /\ c.slot \in 0 .. n - 1 /\ HistoryAt(s, c.slot) = c.root
        BY <1>1, <3>2 DEF Sound, CheckpointsHold
      <4>2. HistoryAt(t, c.slot) = c.root
        BY Zenon, <1>9, <4>1
      <4>3. NameGenesis(s, c).root = c.root
        BY Zenon, <1>4, <3>2, <4>1
      <4>4. c.slot < b.slot
        BY <1>1, <4>1
      <4> QED BY Zenon, <4>2, <4>3, <4>4
    <3> QED BY <3>1, <3>2
  <2> QED BY <1>2, <1>3, <1>7, <1>8, <2>1, <2>2 DEF CheckpointsHold
<1>13. PendingVotesHold(t)
  <2> SUFFICES ASSUME NEW r \in DOMAIN s.justifications
               PROVE  /\ ~Supermajority(s.justifications[r])
                      /\ \E slot \in f + 1 .. b.slot - 1 :
                           /\ HistoryAt(t, slot) = r
                           /\ ~IsSlotJustified(t.window, f, slot)
    BY Zenon, <1>2, <1>3, <1>7 DEF PendingVotesHold
  <2>1. PICK slot \in f + 1 .. n - 1 :
          HistoryAt(s, slot) = r /\ ~IsSlotJustified(s.window, f, slot)
    BY DEF Sound, PendingVotesHold
  <2>2. slot \in f + 1 .. b.slot - 1 /\ slot \in 0 .. n - 1
    BY <1>1, <2>1
  <2>3. ~Supermajority(s.justifications[r])
    BY DEF Sound, PendingVotesHold
  <2> QED BY <1>8, <1>9, <2>1, <2>2, <2>3
<1>14. Sound(t)
  <2>1. t.header.root[1] = t.header.slot /\ Len(t.history) = t.header.slot
    BY <1>2, <1>3, SMTT(40)
  <2> QED BY <1>2, <1>6, <1>10, <1>11, <1>12, <1>13, <2>1 DEF Sound
<1>15. Grown(s, t)
  BY <1>1, <1>3, <1>7, <1>8, SMTT(40) DEF Grown
<1>16. t.history # << >>
  BY <1>1, <1>3
<1> QED BY <1>14, <1>15, <1>16 DEF t

-----------------------------------------------------------------------------
(* The chain. *)

\* Nothing is justified but the genesis, which has no bit.
LEMMA InitInv == Init => ChainInv
<1> SUFFICES ASSUME NEW id \in Ids, state = GenesisState(<<0, id>>), work = state,
                    base = 0, pc = "idle", count = 0
             PROVE  ChainInv
  BY DEF Init
<1> DEFINE none == [r \in {} |-> {}]
<1>1. none \in Justifications
  <2>1. none \in [{} -> SUBSET Validator]
    OBVIOUS
  <2> QED BY Zenon, <2>1 DEF Justifications
<1>2. /\ state.slot = 0 /\ state.header = [slot |-> 0, root |-> <<0, id>>]
      /\ state.history = << >>
      /\ state.justified = [root |-> ZeroHash, slot |-> 0]
      /\ state.finalized = [root |-> ZeroHash, slot |-> 0]
      /\ state.window = [size |-> 0, set |-> {}]
      /\ state.justifications = none
  BY DEF GenesisState
<1>3. state \in State
  BY <1>1 DEF GenesisState, State, Slot, Header, Checkpoint, Root, BlockRoot, Window
<1>4. DOMAIN state.justifications = {}
  BY <1>2
<1>5. state.header.slot = 0 /\ state.header.root[1] = 0 /\ Len(state.history) = 0
  BY <1>2
<1>6. HistoryNamed(state)
  BY <1>5 DEF HistoryNamed
<1>7. WindowFits(state)
  BY <1>2 DEF WindowFits
<1>8. CheckpointsHold(state)
  BY <1>2, SMTT(40) DEF CheckpointsHold, IsSlotJustified
<1>9. PendingVotesHold(state)
  BY <1>4 DEF PendingVotesHold
<1>10. Sound(state)
  BY <1>3, <1>4, <1>5, <1>6, <1>7, <1>8, <1>9 DEF Sound
<1>11. Grown(state, state)
  BY <1>2, <1>5 DEF Grown
<1> QED BY <1>10, <1>11, ChainAssumption DEF ChainInv, Slot

\* Growing is transitive: the copy is compared with the state it was made from.
LEMMA GrownTransitive ==
  ASSUME NEW s, NEW t, NEW u, Sound(s), Sound(t), Sound(u), Grown(s, t), Grown(t, u)
  PROVE  Grown(s, u)
<1>1. ASSUME NEW x, Sound(x) PROVE Len(x.history) \in Nat /\ x.finalized.slot \in Nat
  <2>1. x \in State
    BY <1>1 DEF Sound
  <2> QED BY <2>1 DEF State, Checkpoint, Slot
<1>2. /\ Len(s.history) \in Nat /\ s.finalized.slot \in Nat
      /\ Len(t.history) \in Nat /\ t.finalized.slot \in Nat
      /\ Len(u.history) \in Nat /\ u.finalized.slot \in Nat
  BY <1>1
<1>3. u.finalized.slot >= s.finalized.slot /\ Len(u.history) >= Len(s.history)
  BY <1>2 DEF Grown
<1>4. \A slot \in 0 .. Len(s.history) - 1 : slot \in 0 .. Len(t.history) - 1
  BY <1>2 DEF Grown
<1>5. \A slot \in 0 .. Len(s.history) - 1 :
        IsSlotJustified(s.window, s.finalized.slot, slot)
          => IsSlotJustified(u.window, u.finalized.slot, slot)
  BY Zenon, <1>4 DEF Grown
<1> QED BY Zenon, <1>3, <1>5 DEF Grown

\* A state has grown from itself.
LEMMA GrownReflexive == ASSUME NEW s, Sound(s) PROVE Grown(s, s)
<1>0. s \in State
  BY DEF Sound
<1>1. Len(s.history) \in Nat /\ s.finalized.slot \in Nat
  BY <1>0 DEF State, Checkpoint, Slot
<1> QED BY <1>1 DEF Grown

\* An attestation never makes an unchecked access fail: every slot of the
\* history has its bit, and a root that has votes is in root_to_slot.
LEMMA NeverThrows ==
  ASSUME NEW s, Sound(s), NEW b \in Nat, b <= s.finalized.slot, s.history # << >>,
         NEW a \in Attestation
  PROVE  Verdict(s, b, a) # "throw"
<1>1. /\ s \in State /\ Len(s.history) \in Nat /\ s.finalized.slot \in Nat
      /\ a.source.slot \in Nat /\ a.target.slot \in Nat
  BY DEF Sound, State, Checkpoint, Slot, Attestation
<1>2. ~SlotOutOfHistory(s, a) => ~MissingBit(s, a)
  <2>1. s.window.size = Len(s.history) - 1 - s.finalized.slot
    BY DEF Sound, WindowFits
  <2>2. \A slot \in Nat : slot < Len(s.history)
                             => HasJustifiedBit(s.window, s.finalized.slot, slot)
    BY <1>1, <2>1 DEF HasJustifiedBit, JustifiedIndexAfter
  <2> QED BY <1>1, <2>2 DEF SlotOutOfHistory, MissingBit
<1>3. ASSUME NEW r \in DOMAIN s.justifications PROVE InRootToSlot(s, b, r)
  <2>1. PICK slot \in s.finalized.slot + 1 .. Len(s.history) - 1 : HistoryAt(s, slot) = r
    BY DEF Sound, PendingVotesHold
  <2>2. slot \in b + 1 .. Len(s.history) - 1
    BY <1>1, <2>1
  <2> QED BY <2>1, <2>2 DEF InRootToSlot, RootSlots
<1>4. DOMAIN Justify(s, a).justifications \subseteq DOMAIN s.justifications
  BY <1>1 DEF Justify, State
<1> QED BY <1>2, <1>3, <1>4 DEF Verdict

\* Every attestation that is processed leaves the copy sound and grown.
LEMMA ProcessStep ==
  ASSUME NEW s, Sound(s), NEW b \in Nat, b <= s.finalized.slot, s.history # << >>,
         NEW a \in Attestation
  PROVE  LET t == ProcessAttestation(s, b, a)
         IN  Sound(t) /\ Grown(s, t) /\ t.history # << >>
<1>1. CASE Verdict(s, b, a) = "track"
  <2>1. ProcessAttestation(s, b, a) = TrackVotes(s, a)
    BY <1>1 DEF ProcessAttestation
  <2>2. a.bits \subseteq Validator /\ s \in State
    BY Zenon, <1>1, Counted DEF Sound
  <2>3. TrackVotes(s, a).history = s.history
    BY <2>2, TrackVotesFields
  <2> QED BY <1>1, <2>1, <2>3, TrackStep
<1>2. CASE Verdict(s, b, a) = "justify"
  <2>1. ProcessAttestation(s, b, a) = Justify(s, a)
    BY <1>2 DEF ProcessAttestation
  <2> QED BY <1>2, <2>1, JustifyStep
<1>3. CASE Verdict(s, b, a) = "finalize"
  <2>1. ProcessAttestation(s, b, a) = Finalize(Justify(s, a), b, a)
    BY <1>3 DEF ProcessAttestation
  <2> QED BY <1>3, <2>1, FinalizeStep
<1>4. CASE Verdict(s, b, a) \notin {"track", "justify", "finalize"}
  <2>1. ProcessAttestation(s, b, a) = s
    BY <1>4 DEF ProcessAttestation
  <2> QED BY <2>1, GrownReflexive
<1> QED BY <1>1, <1>2, <1>3, <1>4

\* Every step keeps the invariant and loses nothing that was justified.
LEMMA StepInv ==
  ASSUME ChainInv, [Next]_vars
  PROVE  ChainInv' /\ JustifiedStays
<1>0. JustifiedStays \/ ~Grown(state, state')
  BY DEF JustifiedStays, Grown
<1>1. ASSUME NEW slot \in 1 .. MaxSlot, NEW proposer \in Validator, NEW id \in Ids,
             NEW parent \in (0 .. MaxSlot) \X Ids,
             StartBlock(BlockOf(slot, proposer, parent, id))
      PROVE  ChainInv' /\ state' = state
  <2> DEFINE b == BlockOf(slot, proposer, parent, id)
  <2>1. b \in Block /\ b.root[1] = b.slot
    BY StfAssumption, ChainAssumption DEF BlockOf, Block, BlockRoot, Root, Slot, Validator
  <2>2. /\ HeaderAccepted(state, b) /\ work' = ProcessBlockHeader(state, b)
        /\ base' = work'.finalized.slot /\ pc' = "attestations"
        /\ UNCHANGED <<state, count>>
    BY <1>1 DEF StartBlock
  <2> HIDE DEF b
  <2>3. Sound(work') /\ Grown(state, work') /\ work'.history # << >>
    BY <2>1, <2>2, HeaderStep DEF ChainInv
  <2>4. base' \in Slot /\ base' <= work'.finalized.slot
    BY <2>2, <2>3 DEF Sound, State, Checkpoint, Slot
  <2> QED BY <2>2, <2>3, <2>4 DEF ChainInv
<1>2. ASSUME DropBlock PROVE ChainInv' /\ state' = state
  BY <1>2, ChainAssumption, GrownReflexive DEF ChainInv, DropBlock, Slot
<1>3. ASSUME NEW a \in Attestations, AttestationStep(a)
      PROVE  ChainInv' /\ state' = state
  <2>1. CASE Verdict(work, base, a) = "error" /\ DropBlock
    BY <1>2, <2>1
  <2>2. CASE Verdict(work, base, a) # "error"
    <3>1. /\ pc = "attestations" /\ count < MaxBlockAttestations
          /\ work' = ProcessAttestation(work, base, a)
          /\ pc' = CASE Verdict(work, base, a) = "throw" -> "threw"
                     [] Verdict(work, base, a) = "abort" -> "aborted"
                     [] OTHER -> "attestations"
          /\ count' = count + 1
          /\ UNCHANGED <<state, base>>
      BY <1>3, <2>2 DEF AttestationStep
    <3>2. /\ a \in Attestation /\ base \in Nat
          /\ base <= work.finalized.slot /\ work.history # << >>
          /\ Sound(state) /\ Sound(work) /\ Grown(state, work)
      BY <3>1, ChainAssumption DEF ChainInv, Slot
    <3>3. Sound(work') /\ Grown(work, work') /\ work'.history # << >>
      BY <3>1, <3>2, ProcessStep
    <3>4. pc' \in {"attestations", "aborted"}
      BY <3>1, <3>2, NeverThrows
    <3>5. Grown(state, work')
      BY <3>2, <3>3, GrownTransitive
    <3>6. base <= work'.finalized.slot
      <4>1. work.finalized.slot \in Nat /\ work'.finalized.slot \in Nat
        BY <3>2, <3>3 DEF Sound, State, Checkpoint, Slot
      <4> QED BY <3>2, <3>3, <4>1 DEF Grown
    <3>7. count' \in 0 .. MaxBlockAttestations
      BY <3>1, ChainAssumption DEF ChainInv
    <3> QED BY <3>1, <3>2, <3>3, <3>4, <3>5, <3>6, <3>7 DEF ChainInv
  <2> QED BY <1>3, <2>1, <2>2 DEF AttestationStep
<1>4. ASSUME AcceptBlock PROVE ChainInv' /\ Grown(state, state')
  <2>1. /\ state' = work /\ work' = work /\ base' = 0 /\ pc' = "idle" /\ count' = 0
    BY <1>4 DEF AcceptBlock
  <2> QED BY <2>1, ChainAssumption, GrownReflexive DEF ChainInv, Slot
<1>5. ASSUME UNCHANGED vars PROVE ChainInv' /\ state' = state
  BY <1>5 DEF vars, ChainInv
<1>6. Grown(state, state)
  BY GrownReflexive DEF ChainInv
<1> QED BY <1>0, <1>1, <1>2, <1>3, <1>4, <1>5, <1>6 DEF Next, RejectStateRoot

\* Every reachable state and working copy is sound.
THEOREM ChainInvariant == Spec => []ChainInv
<1>1. ChainInv /\ [Next]_vars => ChainInv'
  BY StepInv
<1> QED BY InitInv, <1>1, PTL DEF Spec

\* No unchecked optional of processAttestations is ever empty
\* (state_transition_function.cpp, isSlotJustified and root_to_slot).
THEOREM NeverThrew == Spec => []NoThrow
<1>1. ChainInv => NoThrow
  BY DEF ChainInv, NoThrow
<1> QED BY <1>1, ChainInvariant, PTL

\* The checkpoints of every state lie on its own chain, in order.
THEOREM CheckpointsAlwaysOnChain == Spec => []CheckpointsOnChain
<1>1. ChainInv => CheckpointsOnChain
  BY DEF ChainInv, Sound, CheckpointsOnChain
<1> QED BY <1>1, ChainInvariant, PTL

\* No votes linger that should have been counted or pruned.
THEOREM VotesAlwaysPending == Spec => []PendingVotes
<1>1. ChainInv => PendingVotes
  BY DEF ChainInv, Sound, PendingVotes
<1> QED BY <1>1, ChainInvariant, PTL

\* The finalized slot never moves back and a justified slot stays justified.
THEOREM FinalityAlwaysMonotone == Spec => FinalityMonotone
<1>1. ChainInv /\ [Next]_vars => [JustifiedStays]_vars
  BY StepInv
<1> QED BY <1>1, ChainInvariant, PTL DEF Spec, FinalityMonotone

=============================================================================
