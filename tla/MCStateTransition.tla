------------------------- MODULE MCStateTransition -------------------------
(* Small instances of StateTransition. *)
EXTENDS StateTransition

CONSTANTS VoterSets  \* the sets of voters an attestation may carry

\* every checkpoint of a block, and a zero root for an empty slot
MCCheckpoints ==
  [root : {<<s, id>> : s \in 0 .. MaxSlot, id \in Ids} \cup {ZeroHash},
   slot : 0 .. MaxSlot]

\* source and target name a root of their own slot, or the zero root
MCAttestations ==
  LET ok == {c \in MCCheckpoints : c.root = ZeroHash \/ c.root[1] = c.slot}
  IN  {a \in [source : ok, target : ok, bits : VoterSets] :
         a.source.root # ZeroHash \/ a.target.root # ZeroHash}
=============================================================================
