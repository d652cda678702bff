-------------------------- MODULE MCOrderLifecycle --------------------------
(* Small instances of OrderLifecycle for TLC.                              *)
EXTENDS OrderLifecycle, TLC

CONSTANT StockPerSku

\* Every SKU starts with the same number of units.
MCStock == [s \in Skus |-> StockPerSku]

\* Orders, requests and keys are only compared with each other.
AnyNames == Permutations(Orders) \cup Permutations(Requests) \cup Permutations(Keys)
=============================================================================
