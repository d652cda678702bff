----------------------------- MODULE MCChatRun -----------------------------
(* Small instances of ChatRun for TLC.                                     *)
EXTENDS ChatRun, TLC

RequestPermutations == Permutations(Requests)
=============================================================================
