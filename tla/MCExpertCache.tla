---------------------------- MODULE MCExpertCache ----------------------------
EXTENDS ExpertCache, TLC
Perms == UNION {Permutations(S) : S \in {Layer, Expert, Slot, GSlot, Ring}}
=============================================================================
