------------------------- MODULE MCConditionManager -------------------------
(* Instances of ConditionManager for TLC.                                   *)
EXTENDS ConditionManager, TLC

Symmetry == Permutations(Types) \cup Permutations(Values) \cup Permutations(UIDs)
=============================================================================
