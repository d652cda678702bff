----------------------------- MODULE MCCheckout -----------------------------
(* A small instance of Checkout for TLC: two units of one SKU, whose price *)
(* changes, and one unit of another.                                       *)
EXTENDS Checkout, TLC

MCSkus == {1, 2}
MCStock == <<2, 1>>
MCOffers == <<{"low", "high"}, {"low"}>>

Interchangeable == Permutations(Processes) \cup Permutations(Keys)
=============================================================================
