--------------------------- MODULE OrderLifecycle ---------------------------
(***************************************************************************)
(* The commerce core of ShopMind: Orders, the inventory they reserve, the  *)
(* payment attempts made for them, the external payment provider and the   *)
(* outbox events the transitions enqueue.                                  *)
(*                                                                         *)
(* A database transaction is one action.  A payment request is not: it is  *)
(* a process that runs several transactions and one call to the provider   *)
(* outside of any transaction, so that other requests, the expiration      *)
(* sweeper and crashes come between its steps.                             *)
(*                                                                         *)
(* An attempt is identified by its Order and its Idempotency-Key, unique   *)
(* for a user and an Order.  The money, the snapshots of the catalog and   *)
(* the hash of a request's body are left out; a request rejected because   *)
(* its body differs changes nothing and is not modelled.                   *)
(***************************************************************************)
EXTENDS Integers, FiniteSets, Functions

CONSTANTS
  Orders,       \* Orders the users may create
  Skus,         \* SKUs of the catalog
  Keys,         \* Idempotency-Keys a client uses for the payments of an Order
  Requests,     \* payment requests that may be in progress at the same time
  Stock,        \* units on hand of each SKU at the start
  MaxQuantity   \* units of a SKU an order item may hold

ASSUME StockAssumption == Stock \in [Skus -> Nat]
ASSUME MaxQuantityAssumption == MaxQuantity \in Nat \ {0}

VARIABLES
  orderStatus,   \* shopmind_orders.status, "absent" before the row exists
  orderVersion,  \* shopmind_orders.version
  overdue,       \* Orders whose expires_at has passed
  lines,         \* quantities of the order items
  reservation,   \* status of the reservation of each order item
  onHand,        \* catalog_inventory.on_hand_quantity
  reserved,      \* catalog_inventory.reserved_quantity
  attempt,       \* shopmind_payment_attempts.status by Order and key
  charge,        \* the provider's operation for an attempt
  request,       \* the payment requests in progress
  events,        \* outbox events: aggregate, sequence, type
  claimedOn      \* history: status the Order had when the attempt was inserted

stockVars == <<onHand, reserved>>
orderVars == <<orderStatus, orderVersion, lines, reservation>>
vars == <<orderStatus, orderVersion, overdue, lines, reservation, onHand,
          reserved, attempt, charge, request, events, claimedOn>>

-----------------------------------------------------------------------------
OrderStatuses == {"pending_payment", "paid", "cancelled", "expired"}
ClosedStatuses == {"cancelled", "expired"}
ReservationStatuses == {"none", "active", "released", "consumed"}
ActiveStatuses == {"processing", "unknown", "provider_succeeded"}
AttemptStatuses == ActiveStatuses \cup {"failed", "succeeded"}
ChargeStatuses == {"none", "unknown", "succeeded", "declined"}
Quantities == [Skus -> 0 .. MaxQuantity]

\* A payment request is idle or on its way to one of its transactions, with
\* what its session remembers: the Order status of its first, unlocked read
\* and the outcome it heard from the provider.
Stages == {"lookup", "claim", "resolve", "persist", "finalize"}
Idle == [stage |-> "idle"]
InProgress == [stage : Stages, order : Orders, key : Keys,
               seen : OrderStatuses, outcome : ChargeStatuses]

Event(o, n, type) == [order |-> o, sequence |-> n, type |-> type]

\* The SKUs an Order has an item of.
Items(o) == {s \in Skus : lines[o][s] > 0}

HasActiveAttempt(o) == \E k \in Keys : attempt[o][k] \in ActiveStatuses

\* Faulty: only a finished payment stops Cancel and expiry.
OnlySuccessBlocks(o) == \A k \in Keys : attempt[o][k] # "succeeded"

\* Faulty: any attempt stops them, also a declined one.
AnyAttemptBlocks(o) == \A k \in Keys : attempt[o][k] = "absent"

\* The history gate shared by Cancel and expiry: no attempt, or failed ones.
PaymentHistoryAllows(o) == \A k \in Keys : attempt[o][k] \in {"absent", "failed"}

ReservationsActive(o) ==
  /\ Items(o) # {}
  /\ \A s \in Items(o) : reservation[o][s] = "active"

MarkReservations(o, status) ==
  reservation' = [reservation EXCEPT ![o] =
                    [s \in Skus |-> IF s \in Items(o) THEN status ELSE @[s]]]

-----------------------------------------------------------------------------
Init ==
  /\ orderStatus = [o \in Orders |-> "absent"]
  /\ orderVersion = [o \in Orders |-> 0]
  /\ overdue = {}
  /\ lines = [o \in Orders |-> [s \in Skus |-> 0]]
  /\ reservation = [o \in Orders |-> [s \in Skus |-> "none"]]
  /\ onHand = Stock
  /\ reserved = [s \in Skus |-> 0]
  /\ attempt = [o \in Orders |-> [k \in Keys |-> "absent"]]
  /\ charge = [o \in Orders |-> [k \in Keys |-> "none"]]
  /\ request = [r \in Requests |-> Idle]
  /\ events = {}
  /\ claimedOn = [o \in Orders |-> [k \in Keys |-> "absent"]]

-----------------------------------------------------------------------------
(* Orders.                                                                 *)

\* The Order, its items, their reservations and its first event.
CreateOrder(o, q) ==
  /\ orderStatus[o] = "absent"
  /\ \E s \in Skus : q[s] > 0
  /\ \A s \in Skus : reserved[s] + q[s] <= onHand[s]
  /\ orderStatus' = [orderStatus EXCEPT ![o] = "pending_payment"]
  /\ orderVersion' = [orderVersion EXCEPT ![o] = 1]
  /\ lines' = [lines EXCEPT ![o] = q]
  /\ reservation' = [reservation EXCEPT ![o] =
                       [s \in Skus |-> IF q[s] > 0 THEN "active" ELSE "none"]]
  /\ reserved' = [s \in Skus |-> reserved[s] + q[s]]
  /\ events' = events \cup {Event(o, 1, "created")}
  /\ UNCHANGED <<overdue, onHand, attempt, charge, request, claimedOn>>

\* expires_at is fixed when the Order is created and time goes by.
PassDeadline(o) ==
  /\ orderStatus[o] # "absent"
  /\ o \notin overdue
  /\ overdue' = overdue \cup {o}
  /\ UNCHANGED <<orderVars, stockVars, attempt, charge, request, events, claimedOn>>

\* Faulty: the counters are lowered and the reservations stay active.
ReleaseWithoutMark(o) ==
  /\ ReservationsActive(o)
  /\ reserved' = [s \in Skus |-> reserved[s] - lines[o][s]]
  /\ UNCHANGED reservation

\* What Cancel and expiry do to the reservations of an Order.
ReleaseActiveReservations(o) ==
  /\ ReservationsActive(o)
  /\ \A s \in Items(o) : reserved[s] >= lines[o][s]
  /\ reserved' = [s \in Skus |-> reserved[s] - lines[o][s]]
  /\ MarkReservations(o, "released")

\* The common part of the two transitions that close an unpaid Order.
CloseOrder(o, status) ==
  /\ orderStatus[o] = "pending_payment"
  /\ PaymentHistoryAllows(o)
  /\ ReleaseActiveReservations(o)
  /\ orderStatus' = [orderStatus EXCEPT ![o] = status]
  /\ orderVersion' = [orderVersion EXCEPT ![o] = @ + 1]
  /\ events' = events \cup {Event(o, orderVersion[o] + 1, status)}
  /\ UNCHANGED <<overdue, lines, onHand, attempt, charge, request, claimedOn>>

CancelOrder(o) == CloseOrder(o, "cancelled")

ExpireOrder(o) ==
  /\ o \in overdue
  /\ CloseOrder(o, "expired")

-----------------------------------------------------------------------------
(* Payments.                                                               *)

Goto(r, stage) == request' = [request EXCEPT ![r].stage = stage]

Return(r) == request' = [request EXCEPT ![r] = Idle]

\* A payment request reads the Order without locking it.
BeginPayment(r, o, k) ==
  /\ request[r] = Idle
  /\ orderStatus[o] # "absent"
  /\ request' = [request EXCEPT ![r] =
                   [stage |-> "lookup", order |-> o, key |-> k,
                    seen |-> orderStatus[o], outcome |-> "none"]]
  /\ UNCHANGED <<orderVars, stockVars, overdue, attempt, charge, events, claimedOn>>

\* Faulty: a success that waits for its finalization counts as settled.
ResumeUnsettledOnly(r, status) ==
  IF status \in {"failed", "succeeded", "provider_succeeded"}
  THEN Return(r) ELSE Goto(r, "resolve")

\* What a request does next about an attempt that exists already.  A succeeded
\* attempt of an Order read as pending is reported as an inconsistency.
ResumeAttempt(r, status) ==
  CASE status \in {"failed", "succeeded"} -> Return(r)
    [] status = "provider_succeeded" -> Goto(r, "finalize")
    [] OTHER -> Goto(r, "resolve")

\* The unlocked lookup of the attempt by its key.
LookupAttempt(r) ==
  /\ request[r].stage = "lookup"
  /\ LET found == attempt[request[r].order][request[r].key]
     IN  IF found = "absent" THEN Goto(r, "claim") ELSE ResumeAttempt(r, found)
  /\ UNCHANGED <<orderVars, stockVars, overdue, attempt, charge, events, claimedOn>>

\* Faulty: the attempts of other keys are not looked at.
MayClaimAnyKey(o, seen) == seen = "pending_payment" /\ o \notin overdue

\* The checks on a new claim.  The Order row is locked, but the session keeps
\* the attributes it loaded with the first read: the status is the one seen.
MayClaim(o, seen) ==
  /\ seen = "pending_payment"
  /\ o \notin overdue
  /\ ~HasActiveAttempt(o)

\* The transaction that holds the Order's lock: resume the attempt another
\* request inserted meanwhile, or insert a new one, or reject the request.
ClaimAttempt(r) ==
  /\ request[r].stage = "claim"
  /\ LET o == request[r].order
         k == request[r].key
     IN  \/ /\ attempt[o][k] # "absent"
            /\ ResumeAttempt(r, attempt[o][k])
            /\ UNCHANGED <<attempt, claimedOn>>
         \/ /\ attempt[o][k] = "absent"
            /\ MayClaim(o, request[r].seen)
            /\ attempt' = [attempt EXCEPT ![o][k] = "processing"]
            /\ claimedOn' = [claimedOn EXCEPT ![o][k] = orderStatus[o]]
            /\ Goto(r, "resolve")
         \/ /\ attempt[o][k] = "absent"
            /\ ~MayClaim(o, request[r].seen)
            /\ Return(r)
            /\ UNCHANGED <<attempt, claimedOn>>
  /\ UNCHANGED <<orderVars, stockVars, overdue, charge, events>>

\* The provider's operation for a key: charged once, then only its outcome
\* becomes known, and a decided outcome never changes.
ChargeOutcomes(c) == IF c \in {"none", "unknown"}
                     THEN ChargeStatuses \ {"none"}
                     ELSE {c}

\* The call outside of any transaction: read the result, charge if there is
\* none.  The provider may be out of reach, or its answer may be lost.
ResolveOutcome(r) ==
  /\ request[r].stage = "resolve"
  /\ LET o == request[r].order
         k == request[r].key
     IN  \E result \in ChargeOutcomes(charge[o][k]) \cup {charge[o][k]},
            heard \in ChargeStatuses \ {"none"} :
           /\ heard \in {result, "unknown"}
           /\ charge' = [charge EXCEPT ![o][k] = result]
           /\ request' = [request EXCEPT ![r].stage = "persist",
                                         ![r].outcome = heard]
  /\ UNCHANGED <<orderVars, stockVars, overdue, attempt, events, claimedOn>>

\* Faulty: the last answer wins.
LastAnswerWins(status, outcome) ==
  CASE outcome = "succeeded" -> "provider_succeeded"
    [] outcome = "declined" -> "failed"
    [] OTHER -> "unknown"

\* Faulty: an answer that was lost counts as a decline.
UnknownIsDecline(status, outcome) ==
  IF status \in {"failed", "succeeded", "provider_succeeded"} THEN status
  ELSE IF outcome = "succeeded" THEN "provider_succeeded" ELSE "failed"

\* The status an attempt takes from an outcome: a settled attempt and a known
\* success are not changed by a late answer.
AfterOutcome(status, outcome) ==
  IF status \in {"failed", "succeeded", "provider_succeeded"}
  THEN status
  ELSE CASE outcome = "succeeded" -> "provider_succeeded"
         [] outcome = "declined" -> "failed"
         [] OTHER -> "unknown"

PersistOutcome(r) ==
  /\ request[r].stage = "persist"
  /\ LET o == request[r].order
         k == request[r].key
     IN  attempt' = [attempt EXCEPT ![o][k] = AfterOutcome(@, request[r].outcome)]
  /\ IF request[r].outcome = "succeeded" THEN Goto(r, "finalize") ELSE Return(r)
  /\ UNCHANGED <<orderVars, stockVars, overdue, charge, events, claimedOn>>

\* Faulty: the Order is not checked again when its payment is finalized.
FinalizeUnchecked(o, k) == attempt[o][k] = "provider_succeeded"

MayFinalize(o, k) ==
  /\ attempt[o][k] = "provider_succeeded"
  /\ orderStatus[o] = "pending_payment"
  /\ ReservationsActive(o)
  /\ \A s \in Items(o) : reserved[s] >= lines[o][s] /\ onHand[s] >= lines[o][s]

\* The transaction that turns a successful charge into a paid Order.
FinalizePayment(r) ==
  /\ request[r].stage = "finalize"
  /\ LET o == request[r].order
         k == request[r].key
     IN  /\ MayFinalize(o, k)
         /\ onHand' = [s \in Skus |-> onHand[s] - lines[o][s]]
         /\ reserved' = [s \in Skus |-> reserved[s] - lines[o][s]]
         /\ MarkReservations(o, "consumed")
         /\ orderStatus' = [orderStatus EXCEPT ![o] = "paid"]
         /\ orderVersion' = [orderVersion EXCEPT ![o] = @ + 1]
         /\ attempt' = [attempt EXCEPT ![o][k] = "succeeded"]
         /\ events' = events \cup {Event(o, orderVersion[o] + 1, "paid")}
  /\ Return(r)
  /\ UNCHANGED <<overdue, lines, charge, claimedOn>>

\* The request returns without a change: the payment is finalized already, or
\* an error rolls the transaction back and the attempt waits for a retry.
AbandonFinalization(r) ==
  /\ request[r].stage = "finalize"
  /\ ~MayFinalize(request[r].order, request[r].key)
  /\ Return(r)
  /\ UNCHANGED <<orderVars, stockVars, overdue, attempt, charge, events, claimedOn>>

\* The process, the connection or the database fails between two steps.
CrashRequest(r) ==
  /\ request[r] # Idle
  /\ Return(r)
  /\ UNCHANGED <<orderVars, stockVars, overdue, attempt, charge, events, claimedOn>>

-----------------------------------------------------------------------------
Next ==
  \/ \E o \in Orders, q \in Quantities : CreateOrder(o, q)
  \/ \E o \in Orders : PassDeadline(o)
  \/ \E o \in Orders : CancelOrder(o)
  \/ \E o \in Orders : ExpireOrder(o)
  \/ \E r \in Requests, o \in Orders, k \in Keys : BeginPayment(r, o, k)
  \/ \E r \in Requests : LookupAttempt(r)
  \/ \E r \in Requests : ClaimAttempt(r)
  \/ \E r \in Requests : ResolveOutcome(r)
  \/ \E r \in Requests : PersistOutcome(r)
  \/ \E r \in Requests : FinalizePayment(r)
  \/ \E r \in Requests : AbandonFinalization(r)
  \/ \E r \in Requests : CrashRequest(r)

Spec == Init /\ [][Next]_vars
-----------------------------------------------------------------------------
(* Safety.                                                                 *)

TypeOK ==
  /\ orderStatus \in [Orders -> OrderStatuses \cup {"absent"}]
  /\ orderVersion \in [Orders -> 0 .. 2]
  /\ overdue \subseteq Orders
  /\ lines \in [Orders -> Quantities]
  /\ reservation \in [Orders -> [Skus -> ReservationStatuses]]
  /\ onHand \in [Skus -> Nat]
  /\ reserved \in [Skus -> Nat]
  /\ attempt \in [Orders -> [Keys -> AttemptStatuses \cup {"absent"}]]
  /\ charge \in [Orders -> [Keys -> ChargeStatuses]]
  /\ request \in [Requests -> InProgress \cup {Idle}]
  /\ events \subseteq [order : Orders, sequence : 1 .. 2,
                       type : {"created", "paid", "cancelled", "expired"}]
  /\ claimedOn \in [Orders -> [Keys -> OrderStatuses \cup {"absent"}]]

\* What the status of an Order's reservations must be.
ReservationOf(status) ==
  CASE status = "absent" -> "none"
    [] status = "pending_payment" -> "active"
    [] status = "paid" -> "consumed"
    [] OTHER -> "released"

\* The reservations of an Order agree with its status: they are released or
\* consumed exactly when the Order leaves pending_payment, never twice.
ReservationsFollowOrder ==
  \A o \in Orders, s \in Skus :
    reservation[o][s] = IF s \in Items(o) THEN ReservationOf(orderStatus[o]) ELSE "none"

\* Units of a SKU in the reservations that have a status.
Holders(s, status) == {o \in Orders : reservation[o][s] = status}

UnitsIn(s, status) == SumFunctionOnSet([o \in Orders |-> lines[o][s]], Holders(s, status))

\* The counters of the inventory are the sums of the reservations behind them:
\* what is reserved is on hand, and only what was paid for has left.
StockConserved ==
  \A s \in Skus :
    /\ reserved[s] = UnitsIn(s, "active")
    /\ onHand[s] = Stock[s] - UnitsIn(s, "consumed")
    /\ reserved[s] <= onHand[s]

\* An Order is paid exactly when one of its attempts is settled as succeeded,
\* and there is only one: finalize_payment changes Order and attempt together.
PaidExactlyOnce ==
  \A o \in Orders :
    /\ orderStatus[o] = "paid" <=> \E k \in Keys : attempt[o][k] = "succeeded"
    /\ \A k1, k2 \in Keys :
         attempt[o][k1] = "succeeded" /\ attempt[o][k2] = "succeeded" => k1 = k2

\* At most one attempt of an Order is active, whatever the requests do between
\* the check and the insert (the partial unique index never has to reject).
OneActiveAttempt ==
  \A o \in Orders, k1, k2 \in Keys :
    attempt[o][k1] \in ActiveStatuses /\ attempt[o][k2] \in ActiveStatuses => k1 = k2

\* The attempt agrees with the provider: a recorded success was charged, a
\* failed attempt was declined, and nothing was charged without an attempt.
AttemptMatchesProvider ==
  \A o \in Orders, k \in Keys :
    /\ attempt[o][k] \in {"provider_succeeded", "succeeded"} => charge[o][k] = "succeeded"
    /\ attempt[o][k] = "failed" => charge[o][k] = "declined"
    /\ charge[o][k] # "none" => attempt[o][k] # "absent"

\* An attempt inserted while its Order was payable.
ClaimedOnPayable(o, k) == claimedOn[o][k] = "pending_payment"

\* While such an attempt is active its Order stays pending_payment: neither
\* Cancel, nor expiry, nor another payment overtakes it, so the success the
\* provider may report can always be finalized.
ActiveAttemptProtectsOrder ==
  \A o \in Orders, k \in Keys :
    ClaimedOnPayable(o, k) /\ attempt[o][k] \in ActiveStatuses =>
      orderStatus[o] = "pending_payment"

\* Such attempts charge the customer at most once for an Order, and not at all
\* for an Order that was cancelled or expired.
ChargedAtMostOnce ==
  \A o \in Orders :
    LET charged == {k \in Keys : ClaimedOnPayable(o, k) /\ charge[o][k] = "succeeded"}
    IN  /\ \A k1, k2 \in charged : k1 = k2
        /\ orderStatus[o] \in ClosedStatuses => charged = {}

\* Every version of an Order has its event, in sequence: created first, then
\* the event of the status the Order ended in.
EventPerVersion ==
  \A o \in Orders :
    {e \in events : e.order = o} =
      CASE orderStatus[o] = "absent" -> {}
        [] orderStatus[o] = "pending_payment" -> {Event(o, 1, "created")}
        [] OTHER -> {Event(o, 1, "created"), Event(o, 2, orderStatus[o])}

(* What a step may never do.                                               *)

\* A known success of the provider is kept until it is finalized, and a
\* settled attempt keeps its status whatever answers arrive late.
SettledAttemptsKept ==
  [][\A o \in Orders, k \in Keys :
       /\ attempt[o][k] = "provider_succeeded" =>
            attempt'[o][k] \in {"provider_succeeded", "succeeded"}
       /\ attempt[o][k] \in {"failed", "succeeded"} =>
            attempt'[o][k] = attempt[o][k]]_vars

\* The doc's promise that Cancel excludes payments: no attempt is inserted for
\* an Order that is cancelled, expired or paid.
NewAttemptsOnPayableOrders ==
  \A o \in Orders, k \in Keys :
    attempt[o][k] # "absent" => ClaimedOnPayable(o, k)

\* A replay of a succeeded payment finds its Order paid: the error for a
\* succeeded attempt of a pending Order is raised only for such an Order.
InconsistencyIsReal ==
  \A r \in Requests :
    request[r].stage \in {"lookup", "claim"} /\ request[r].seen = "pending_payment" =>
      (attempt[request[r].order][request[r].key] = "succeeded" =>
         orderStatus[request[r].order] = "pending_payment")

-----------------------------------------------------------------------------
(* Liveness.                                                               *)

\* The sweeper runs again and again and attempts every overdue Order.
SweeperFairness == \A o \in Orders : WF_vars(ExpireOrder(o))

\* A client retries a payment whose attempt is not settled yet, with its key.
RetryPayment(o, k) ==
  /\ attempt[o][k] \in ActiveStatuses
  /\ \E r \in Requests : BeginPayment(r, o, k)

Handling(r, o, k) == request[r] # Idle /\ request[r].order = o /\ request[r].key = k

\* The provider is reached and knows how its operation ended.
ProviderAnswers(r) ==
  /\ ResolveOutcome(r)
  /\ request'[r].outcome \in {"succeeded", "declined"}

PersistDecision(r) ==
  /\ PersistOutcome(r)
  /\ request[r].outcome \in {"succeeded", "declined"}

\* Crashes may come at any step, again and again, but not before each of the
\* same client's steps for ever.
RetryFairness ==
  \A o \in Orders, k \in Keys :
    /\ SF_vars(RetryPayment(o, k))
    /\ \A r \in Requests :
         /\ SF_vars(Handling(r, o, k) /\ LookupAttempt(r))
         /\ SF_vars(Handling(r, o, k) /\ ClaimAttempt(r))
         /\ SF_vars(Handling(r, o, k) /\ ProviderAnswers(r))
         /\ SF_vars(Handling(r, o, k) /\ PersistOutcome(r))
         /\ SF_vars(Handling(r, o, k) /\ PersistDecision(r))
         /\ SF_vars(Handling(r, o, k) /\ (FinalizePayment(r) \/ AbandonFinalization(r)))

RetriedSpec == Spec /\ SweeperFairness /\ RetryFairness

\* Every payment claimed for a payable Order is settled by retries with its
\* key, even after crashes, lost answers and the deadline.
ClaimedPaymentsSettle ==
  \A o \in Orders, k \in Keys :
    (ClaimedOnPayable(o, k) /\ attempt[o][k] \in ActiveStatuses) ~>
      attempt[o][k] \in {"failed", "succeeded"}

\* No overdue Order holds its reservation for ever: it is paid by the payment
\* that deferred its expiry, or it is closed.
OverdueOrdersSettle ==
  \A o \in Orders : o \in overdue ~> orderStatus[o] # "pending_payment"

-----------------------------------------------------------------------------
(* The ledger these tables implement: free units are those on hand and not *)
(* reserved, sold ones have left, and an Order is charged when one of the  *)
(* attempts claimed while it was payable succeeded at the provider.        *)

Charged == {o \in Orders : \E k \in Keys :
              ClaimedOnPayable(o, k) /\ charge[o][k] = "succeeded"}

Ledger == INSTANCE OrderLedger WITH
  status <- orderStatus,
  charged <- Charged,
  free <- [s \in Skus |-> onHand[s] - reserved[s]],
  sold <- [s \in Skus |-> Stock[s] - onHand[s]]

\* Every transaction, provider call and crash is a step of the ledger or
\* leaves it unchanged.
ImplementsLedger == Ledger!Spec
=============================================================================
