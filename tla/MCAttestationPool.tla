------------------------- MODULE MCAttestationPool -------------------------
(* Instance of AttestationPool for TLC: one data per target slot.           *)
EXTENDS AttestationPool

CONSTANT TargetSlots  \* the slots of the targets voted for

MCData == {[target |-> [slot |-> s]] : s \in TargetSlots}
=============================================================================
