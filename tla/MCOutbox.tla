------------------------------ MODULE MCOutbox ------------------------------
(* Small instances of Outbox for TLC.                                      *)
EXTENDS Outbox, TLC

WorkerPermutations == Permutations(Workers)
WorkersAndAggregates == Permutations(Workers) \cup Permutations(Aggregates)
=============================================================================
