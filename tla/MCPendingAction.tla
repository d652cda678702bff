-------------------------- MODULE MCPendingAction --------------------------
(* Small instances of PendingAction for TLC.                               *)
EXTENDS PendingAction, TLC

ActionPermutations == Permutations(Actions)
=============================================================================
