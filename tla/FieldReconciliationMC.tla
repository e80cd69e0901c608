----------------------- MODULE FieldReconciliationMC -----------------------
(* Instances of FieldReconciliation for TLC.  Intents and operations are   *)
(* told apart by nothing but what happens to them.                         *)
EXTENDS FieldReconciliation, TLC

Alike == Permutations(Intents) \cup Permutations(Operations)
=============================================================================
