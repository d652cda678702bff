----------------------------- MODULE OrderLedger -----------------------------
(***************************************************************************)
(* What Orders promise to the shop and to the customer, without payment    *)
(* attempts, requests, reservations or locks: the units of an Order leave  *)
(* the free stock when it is placed; the customer is charged at most once  *)
(* and only while the Order is open; a charged Order can only be paid, and *)
(* then its units are sold; an Order that is not charged may be closed,    *)
(* and then its units are free again.                                      *)
(***************************************************************************)
EXTENDS Integers

CONSTANTS Orders, Skus, Stock, MaxQuantity

VARIABLES
  status,    \* status of each Order
  lines,     \* units of each SKU in an Order
  charged,   \* Orders the customer was charged for
  free,      \* units of each SKU a new Order may take
  sold       \* units of each SKU that were paid for

ledger == <<status, lines, charged, free, sold>>

Init ==
  /\ status = [o \in Orders |-> "absent"]
  /\ lines = [o \in Orders |-> [s \in Skus |-> 0]]
  /\ charged = {}
  /\ free = Stock
  /\ sold = [s \in Skus |-> 0]

Place(o, q) ==
  /\ status[o] = "absent"
  /\ \A s \in Skus : q[s] <= free[s]
  /\ status' = [status EXCEPT ![o] = "pending_payment"]
  /\ lines' = [lines EXCEPT ![o] = q]
  /\ free' = [s \in Skus |-> free[s] - q[s]]
  /\ UNCHANGED <<charged, sold>>

Charge(o) ==
  /\ status[o] = "pending_payment"
  /\ o \notin charged
  /\ charged' = charged \cup {o}
  /\ UNCHANGED <<status, lines, free, sold>>

Pay(o) ==
  /\ status[o] = "pending_payment"
  /\ o \in charged
  /\ status' = [status EXCEPT ![o] = "paid"]
  /\ sold' = [s \in Skus |-> sold[s] + lines[o][s]]
  /\ UNCHANGED <<lines, charged, free>>

Close(o) ==
  /\ status[o] = "pending_payment"
  /\ o \notin charged
  /\ \E closed \in {"cancelled", "expired"} : status' = [status EXCEPT ![o] = closed]
  /\ free' = [s \in Skus |-> free[s] + lines[o][s]]
  /\ UNCHANGED <<lines, charged, sold>>

Next ==
  \E o \in Orders :
    \/ \E q \in [Skus -> 0 .. MaxQuantity] : Place(o, q)
    \/ Charge(o)
    \/ Pay(o)
    \/ Close(o)

Spec == Init /\ [][Next]_ledger
=============================================================================
