----------------------- MODULE OrderLifecycle_proofs -----------------------
(***************************************************************************)
(* What OrderLifecycle guarantees for every set of Orders, SKUs, keys and  *)
(* requests and every initial stock.                                       *)
(*                                                                         *)
(* The properties of the charges are not inductive: that a cancelled Order *)
(* is never charged rests on what a request on its way remembers and on    *)
(* the Order status an attempt was claimed on.  IInv adds these facts.     *)
(*                                                                         *)
(* The last part is about ExpirationSweep, the sweep that finds the Orders *)
(* OrderLifecycle expires, for any number of Orders and sweepers.          *)
(***************************************************************************)
EXTENDS OrderLifecycle, ExpirationSweep, Totals, TLAPS

\* The version counts the transitions of an Order.
VersionOf(status) ==
  CASE status = "absent" -> 0
    [] status = "pending_payment" -> 1
    [] OTHER -> 2

VersionsFollowOrder == \A o \in Orders : orderVersion[o] = VersionOf(orderStatus[o])

\* Attempts belong to Orders that exist, and an Order that was not payable when
\* an attempt was claimed never becomes payable again.
ClaimsRecorded ==
  \A o \in Orders, k \in Keys :
    /\ attempt[o][k] = "absent" <=> claimedOn[o][k] = "absent"
    /\ attempt[o][k] # "absent" => orderStatus[o] # "absent"
    /\ claimedOn[o][k] \notin {"absent", "pending_payment"} =>
         orderStatus[o] # "pending_payment"

\* A request that calls the provider works for an attempt that exists, and the
\* decided outcome it carries is the one of the provider's operation.
RequestsGrounded ==
  \A r \in Requests :
    LET o == request[r].order
        k == request[r].key
    IN  /\ request[r] # Idle => orderStatus[o] # "absent"
        /\ request[r].stage \in {"resolve", "persist", "finalize"} => attempt[o][k] # "absent"
        /\ request[r].stage = "persist" =>
             /\ request[r].outcome = "succeeded" => charge[o][k] = "succeeded"
             /\ request[r].outcome = "declined" => charge[o][k] = "declined"

\* The part of the invariant about the tables.
TablesAgree ==
  /\ VersionsFollowOrder
  /\ ClaimsRecorded
  /\ ReservationsFollowOrder
  /\ PaidExactlyOnce
  /\ OneActiveAttempt
  /\ AttemptMatchesProvider
  /\ ActiveAttemptProtectsOrder

IInv == TypeOK /\ RequestsGrounded /\ TablesAgree

USE DEF OrderStatuses, ClosedStatuses, ReservationStatuses, ActiveStatuses,
        AttemptStatuses, ChargeStatuses

-----------------------------------------------------------------------------
(* The initial states satisfy the invariant: no Order exists.              *)
LEMMA InitInvariant == Init => IInv
<1> SUFFICES ASSUME Init PROVE IInv
  OBVIOUS
<1>1. TypeOK
  BY StockAssumption, MaxQuantityAssumption DEF Init, TypeOK, Quantities, Idle
<1>2. RequestsGrounded
  BY DEF Init, RequestsGrounded, Idle
<1>3. TablesAgree
  BY DEF Init, TablesAgree, VersionsFollowOrder, VersionOf, ClaimsRecorded,
         ReservationsFollowOrder, Items, PaidExactlyOnce, OneActiveAttempt,
         AttemptMatchesProvider, ActiveAttemptProtectsOrder
<1> QED BY <1>1, <1>2, <1>3 DEF IInv

(* A request keeps its type when it moves to another stage.                *)
LEMMA GotoType ==
  ASSUME NEW r \in Requests, NEW stage \in Stages, TypeOK, request[r] # Idle, Goto(r, stage)
  PROVE  request' \in [Requests -> InProgress \cup {Idle}]
BY ZenonT(60) DEF TypeOK, Goto, InProgress, Stages, Idle

(* A request keeps its type when it returns.                               *)
LEMMA ReturnType ==
  ASSUME NEW r \in Requests, TypeOK, Return(r)
  PROVE  request' \in [Requests -> InProgress \cup {Idle}]
BY DEF TypeOK, Return

(* A request that is not idle has an Order, a key and a stage.             *)
LEMMA HandledRequest ==
  ASSUME NEW r \in Requests, TypeOK, request[r].stage \in Stages
  PROVE  /\ request[r] # Idle
         /\ request[r] \in InProgress
         /\ request[r].order \in Orders
         /\ request[r].key \in Keys
         /\ request[r].seen \in OrderStatuses
         /\ request[r].outcome \in ChargeStatuses
BY DEF TypeOK, InProgress, Stages, Idle

(* Quantities and counters are natural numbers.                            *)
LEMMA CountersAreNaturals ==
  ASSUME TypeOK, NEW o \in Orders, NEW s \in Skus
  PROVE  lines[o][s] \in Nat /\ reserved[s] \in Nat /\ onHand[s] \in Nat
<1>1. lines[o] \in [Skus -> 0 .. MaxQuantity]
  BY DEF TypeOK, Quantities
<1>2. lines[o][s] \in 0 .. MaxQuantity
  BY <1>1
<1> QED BY <1>2, MaxQuantityAssumption DEF TypeOK

(* Steps that change a request, or the time, leave the tables as they are. *)
LEMMA TablesUnchanged ==
  ASSUME TablesAgree, UNCHANGED <<orderVars, attempt, charge, claimedOn>>
  PROVE  TablesAgree'
BY DEF TablesAgree, orderVars, VersionsFollowOrder, VersionOf, ClaimsRecorded,
       ReservationsFollowOrder, ReservationOf, Items, PaidExactlyOnce, OneActiveAttempt,
       AttemptMatchesProvider, ActiveAttemptProtectsOrder, ClaimedOnPayable
-----------------------------------------------------------------------------
(* One lemma for each action.                                              *)

(* A new Order has one version, active reservations and no attempts.       *)
LEMMA CreateOrderInvariant ==
  ASSUME IInv, NEW o \in Orders, NEW q \in Quantities, CreateOrder(o, q)
  PROVE  IInv'
<1> USE DEF CreateOrder
<1>1. TypeOK'
  <2>1. \A s \in Skus : reserved[s] + q[s] \in Nat
    BY DEF IInv, TypeOK, Quantities
  <2>2. Event(o, 1, "created") \in [order : Orders, sequence : 1 .. 2,
                                   type : {"created", "paid", "cancelled", "expired"}]
    BY DEF Event
  <2> QED BY <2>1, <2>2 DEF IInv, TypeOK
<1>2. RequestsGrounded'
  BY DEF IInv, TypeOK, RequestsGrounded
<1>3. VersionsFollowOrder' /\ ReservationsFollowOrder'
  BY DEF IInv, TypeOK, TablesAgree, VersionsFollowOrder, VersionOf, ReservationsFollowOrder,
         ReservationOf, Items, Quantities
<1>4. ClaimsRecorded' /\ PaidExactlyOnce' /\ OneActiveAttempt' /\ AttemptMatchesProvider'
  BY DEF IInv, TypeOK, TablesAgree, ClaimsRecorded, PaidExactlyOnce, OneActiveAttempt,
         AttemptMatchesProvider
<1>5. ActiveAttemptProtectsOrder'
  BY DEF IInv, TypeOK, TablesAgree, ClaimsRecorded, ActiveAttemptProtectsOrder, ClaimedOnPayable
<1> QED BY <1>1, <1>2, <1>3, <1>4, <1>5 DEF IInv, TablesAgree

(* Cancel and expiry find failed attempts at most, and release what the    *)
(* Order reserved.                                                         *)
LEMMA CloseOrderInvariant ==
  ASSUME IInv, NEW o \in Orders, NEW status \in ClosedStatuses, CloseOrder(o, status)
  PROVE  IInv'
<1> USE DEF CloseOrder
<1>1. TypeOK'
  <2>1. \A s \in Skus : reserved[s] - lines[o][s] \in Nat
    <3> SUFFICES ASSUME NEW s \in Skus PROVE reserved[s] - lines[o][s] \in Nat
      OBVIOUS
    <3>1. lines[o][s] \in Nat /\ reserved[s] \in Nat
      BY CountersAreNaturals DEF IInv
    <3>2. CASE lines[o][s] > 0
      BY <3>1, <3>2 DEF ReleaseActiveReservations, Items
    <3>3. CASE lines[o][s] = 0
      BY <3>1, <3>3
    <3> QED BY <3>1, <3>2, <3>3
  <2>2. orderVersion[o] = 1
    BY DEF IInv, TablesAgree, VersionsFollowOrder, VersionOf
  <2>3. Event(o, orderVersion[o] + 1, status)
           \in [order : Orders, sequence : 1 .. 2,
               type : {"created", "paid", "cancelled", "expired"}]
    BY <2>2 DEF Event
  <2>4. reservation' \in [Orders -> [Skus -> ReservationStatuses]]
    BY DEF IInv, TypeOK, ReleaseActiveReservations, MarkReservations
  <2>5. reserved' \in [Skus -> Nat]
    BY <2>1 DEF ReleaseActiveReservations
  <2>6. orderStatus' \in [Orders -> OrderStatuses \cup {"absent"}] /\ orderVersion' \in [Orders -> 0 .. 2]
    BY <2>2 DEF IInv, TypeOK
  <2>7. events' \subseteq [order : Orders, sequence : 1 .. 2,
                          type : {"created", "paid", "cancelled", "expired"}]
    BY <2>3 DEF IInv, TypeOK
  <2> QED BY <2>4, <2>5, <2>6, <2>7 DEF IInv, TypeOK
<1>2. RequestsGrounded'
  BY DEF IInv, TypeOK, RequestsGrounded
<1>3. VersionsFollowOrder' /\ ReservationsFollowOrder'
  BY DEF IInv, TypeOK, TablesAgree, VersionsFollowOrder, VersionOf, ReservationsFollowOrder,
         ReservationOf, Items, ReleaseActiveReservations, MarkReservations
<1>4. ClaimsRecorded' /\ PaidExactlyOnce' /\ OneActiveAttempt' /\ AttemptMatchesProvider'
  BY DEF IInv, TypeOK, TablesAgree, ClaimsRecorded, PaidExactlyOnce, OneActiveAttempt,
         AttemptMatchesProvider
<1>5. ActiveAttemptProtectsOrder'
  BY ZenonT(60) DEF IInv, TypeOK, TablesAgree, ActiveAttemptProtectsOrder, ClaimedOnPayable,
         PaymentHistoryAllows
<1> QED BY <1>1, <1>2, <1>3, <1>4, <1>5 DEF IInv, TablesAgree

LEMMA PassDeadlineInvariant ==
  ASSUME IInv, NEW o \in Orders, PassDeadline(o)
  PROVE  IInv'
<1> USE DEF PassDeadline
<1>1. TypeOK'
  BY DEF IInv, TypeOK, orderVars, stockVars
<1>2. RequestsGrounded'
  BY DEF IInv, RequestsGrounded, orderVars
<1>3. TablesAgree'
  BY TablesUnchanged DEF IInv
<1> QED BY <1>1, <1>2, <1>3 DEF IInv
LEMMA BeginPaymentInvariant ==
  ASSUME IInv, NEW r \in Requests, NEW o \in Orders, NEW k \in Keys, BeginPayment(r, o, k)
  PROVE  IInv'
<1> USE DEF BeginPayment
<1>1. TypeOK'
  <2>1. [stage |-> "lookup", order |-> o, key |-> k, seen |-> orderStatus[o], outcome |-> "none"]
           \in InProgress
    BY DEF IInv, TypeOK, InProgress, Stages
  <2> QED BY <2>1 DEF IInv, TypeOK, orderVars, stockVars
<1>2. RequestsGrounded'
  BY DEF IInv, TypeOK, RequestsGrounded, orderVars, Idle
<1>3. TablesAgree'
  BY TablesUnchanged DEF IInv
<1> QED BY <1>1, <1>2, <1>3 DEF IInv

(* A request that only moves on or returns changes no table, and it goes   *)
(* on to the provider or to the finalization only for an attempt it found. *)
LEMMA MoveInvariant ==
  ASSUME IInv, NEW r \in Requests, request[r].stage \in Stages,
         UNCHANGED <<orderVars, stockVars, overdue, attempt, charge, events, claimedOn>>,
         \/ Return(r)
         \/ Goto(r, "claim")
         \/ /\ attempt[request[r].order][request[r].key] # "absent"
            /\ Goto(r, "resolve") \/ Goto(r, "finalize")
  PROVE  IInv'
<1>1. TypeOK'
  <2>1. request' \in [Requests -> InProgress \cup {Idle}]
    BY GotoType, ReturnType, HandledRequest DEF IInv, Stages
  <2> QED BY <2>1 DEF IInv, TypeOK, orderVars, stockVars
<1>2. RequestsGrounded'
  <2>1. request[r] \in InProgress /\ request[r] # Idle /\ request \in [Requests -> InProgress \cup {Idle}]
    BY HandledRequest DEF IInv, TypeOK
  <2>2. CASE Return(r)
    BY <2>1, <2>2 DEF IInv, RequestsGrounded, orderVars, Return, Idle
  <2>3. CASE Goto(r, "claim")
    <3>1. request'[r] = [request[r] EXCEPT !.stage = "claim"]
      BY <2>1, <2>3 DEF Goto
    <3>2. \A p \in Requests : p # r => request'[p] = request[p]
      BY <2>1, <2>3 DEF Goto
    <3>3. request'[r].stage = "claim" /\ request'[r].order = request[r].order
      BY <2>1, <3>1 DEF InProgress
    <3> QED BY <2>1, <3>2, <3>3 DEF IInv, RequestsGrounded, orderVars
  <2>4. ASSUME NEW stage \in {"resolve", "finalize"}, Goto(r, stage),
               attempt[request[r].order][request[r].key] # "absent"
        PROVE  RequestsGrounded'
    <3>1. request'[r] = [request[r] EXCEPT !.stage = stage]
      BY <2>1, <2>4 DEF Goto
    <3>2. \A p \in Requests : p # r => request'[p] = request[p]
      BY <2>1, <2>4 DEF Goto
    <3>3. /\ request'[r].stage = stage
          /\ request'[r].order = request[r].order
          /\ request'[r].key = request[r].key
      BY <2>1, <3>1 DEF InProgress
    <3> QED BY <2>1, <2>4, <3>2, <3>3 DEF IInv, RequestsGrounded, orderVars
  <2> QED BY <2>2, <2>3, <2>4
<1>3. TablesAgree'
  BY TablesUnchanged DEF IInv
<1> QED BY <1>1, <1>2, <1>3 DEF IInv

LEMMA LookupAttemptInvariant ==
  ASSUME IInv, NEW r \in Requests, LookupAttempt(r)
  PROVE  IInv'
<1>1. request[r].stage \in Stages
  BY DEF LookupAttempt, Stages
<1>2. \/ Return(r)
      \/ Goto(r, "claim")
      \/ /\ attempt[request[r].order][request[r].key] # "absent"
         /\ Goto(r, "resolve") \/ Goto(r, "finalize")
  BY DEF LookupAttempt, ResumeAttempt
<1> QED BY <1>1, <1>2, MoveInvariant DEF LookupAttempt

LEMMA AbandonFinalizationInvariant ==
  ASSUME IInv, NEW r \in Requests, AbandonFinalization(r)
  PROVE  IInv'
BY MoveInvariant DEF AbandonFinalization, Stages

LEMMA CrashRequestInvariant ==
  ASSUME IInv, NEW r \in Requests, CrashRequest(r)
  PROVE  IInv'
<1>1. request[r].stage \in Stages
  BY DEF CrashRequest, IInv, TypeOK, InProgress
<1> QED BY <1>1, MoveInvariant DEF CrashRequest

(* The insert happens only when no attempt of the Order is active, so the  *)
(* new one is the only one; what the Order is at that moment is recorded.  *)
LEMMA ClaimAttemptInvariant ==
  ASSUME IInv, NEW r \in Requests, ClaimAttempt(r)
  PROVE  IInv'
<1> DEFINE o == request[r].order
           k == request[r].key
<1>1. request[r].stage \in Stages
  BY DEF ClaimAttempt, Stages
<1>2. /\ o \in Orders /\ k \in Keys
      /\ request[r] # Idle /\ request[r] \in InProgress
  BY <1>1, HandledRequest DEF IInv
<1>3. CASE UNCHANGED <<attempt, claimedOn>>
  <2>1. \/ Return(r)
        \/ /\ attempt[o][k] # "absent"
           /\ Goto(r, "resolve") \/ Goto(r, "finalize")
        \/ attempt' # attempt
    BY <1>2, <1>3 DEF ClaimAttempt, ResumeAttempt, IInv, TypeOK
  <2> QED BY <1>1, <1>3, <2>1, MoveInvariant DEF ClaimAttempt
<1>4. CASE /\ attempt[o][k] = "absent"
           /\ MayClaim(o, request[r].seen)
           /\ attempt' = [attempt EXCEPT ![o][k] = "processing"]
           /\ claimedOn' = [claimedOn EXCEPT ![o][k] = orderStatus[o]]
           /\ Goto(r, "resolve")
  <2>0. UNCHANGED <<orderVars, stockVars, overdue, charge, events>>
    BY DEF ClaimAttempt
  <2>1. orderStatus[o] # "absent"
    BY <1>2 DEF IInv, RequestsGrounded
  <2>2. TypeOK'
    <3>1. request' \in [Requests -> InProgress \cup {Idle}]
      BY <1>2, <1>4, GotoType DEF IInv, Stages
    <3>2. attempt' \in [Orders -> [Keys -> AttemptStatuses \cup {"absent"}]]
      BY <1>2, <1>4 DEF IInv, TypeOK
    <3>3. claimedOn' \in [Orders -> [Keys -> OrderStatuses \cup {"absent"}]]
      BY <1>2, <1>4 DEF IInv, TypeOK
    <3> QED BY <2>0, <3>1, <3>2, <3>3 DEF IInv, TypeOK, orderVars, stockVars
  <2>3. RequestsGrounded'
    BY <1>2, <1>4, <2>0 DEF IInv, TypeOK, RequestsGrounded, orderVars, Goto, Idle, InProgress
  <2>4. VersionsFollowOrder' /\ ReservationsFollowOrder'
    BY <2>0 DEF IInv, TablesAgree, VersionsFollowOrder, ReservationsFollowOrder, Items, orderVars
  <2>5. ClaimsRecorded'
    BY <1>2, <1>4, <2>0, <2>1 DEF IInv, TypeOK, TablesAgree, ClaimsRecorded, orderVars
  <2>6. AttemptMatchesProvider'
    BY <1>2, <1>4, <2>0 DEF IInv, TypeOK, TablesAgree, AttemptMatchesProvider
  <2>7. PaidExactlyOnce'
    <3>1. \A p \in Orders, j \in Keys : attempt'[p][j] = "succeeded" <=> attempt[p][j] = "succeeded"
      BY <1>2, <1>4 DEF IInv, TypeOK
    <3> QED BY <2>0, <3>1 DEF IInv, TablesAgree, PaidExactlyOnce, orderVars
  <2>8. OneActiveAttempt'
    BY <1>2, <1>4, <2>0 DEF IInv, TypeOK, TablesAgree, OneActiveAttempt, MayClaim, HasActiveAttempt
  <2>9. ActiveAttemptProtectsOrder'
    BY <1>2, <1>4, <2>0 DEF IInv, TypeOK, TablesAgree, ActiveAttemptProtectsOrder,
       ClaimedOnPayable, orderVars
  <2> QED BY <2>2, <2>3, <2>4, <2>5, <2>6, <2>7, <2>8, <2>9 DEF IInv, TablesAgree
<1> QED BY <1>3, <1>4 DEF ClaimAttempt
(* The provider answers for a claimed attempt; a decided operation keeps   *)
(* its outcome, so no recorded success or decline becomes wrong.           *)
LEMMA ResolveOutcomeInvariant ==
  ASSUME IInv, NEW r \in Requests, ResolveOutcome(r)
  PROVE  IInv'
<1> DEFINE o == request[r].order
           k == request[r].key
<1>1. request[r].stage \in Stages
  BY DEF ResolveOutcome, Stages
<1>2. /\ o \in Orders /\ k \in Keys
      /\ request[r] # Idle /\ request[r] \in InProgress
  BY <1>1, HandledRequest DEF IInv
<1>3. UNCHANGED <<orderVars, stockVars, overdue, attempt, events, claimedOn>>
  BY DEF ResolveOutcome
<1>4. PICK result \in ChargeOutcomes(charge[o][k]) \cup {charge[o][k]},
           heard \in ChargeStatuses \ {"none"} :
        /\ heard \in {result, "unknown"}
        /\ charge' = [charge EXCEPT ![o][k] = result]
        /\ request' = [request EXCEPT ![r].stage = "persist", ![r].outcome = heard]
  BY DEF ResolveOutcome
<1>5. charge[o][k] \in ChargeStatuses /\ result \in ChargeStatuses
  BY <1>2, <1>4 DEF IInv, TypeOK, ChargeOutcomes
<1>6. /\ charge[o][k] \in {"succeeded", "declined"} => result = charge[o][k]
      /\ charge \in [Orders -> [Keys -> ChargeStatuses]]
      /\ charge'[o][k] = result
      /\ \A p \in Orders, j \in Keys : <<p, j>> # <<o, k>> => charge'[p][j] = charge[p][j]
      /\ attempt[o][k] # "absent"
  BY <1>1, <1>2, <1>4, ZenonT(60) DEF IInv, TypeOK, ChargeOutcomes, RequestsGrounded, ResolveOutcome
<1>7. /\ request'[r] \in InProgress
      /\ request'[r].stage = "persist" /\ request'[r].outcome = heard
      /\ request'[r].order = o /\ request'[r].key = k
      /\ \A p \in Requests : p # r => request'[p] = request[p]
      /\ request' \in [Requests -> InProgress \cup {Idle}]
  <2>1. request'[r] = [request[r] EXCEPT !.stage = "persist", !.outcome = heard]
    BY <1>4 DEF IInv, TypeOK
  <2>2. request'[r] \in InProgress
    <3>1. heard \in ChargeStatuses
      OBVIOUS
    <3>2. ASSUME NEW q \in InProgress
          PROVE  [q EXCEPT !.stage = "persist", !.outcome = heard] \in InProgress
      BY <3>1 DEF InProgress, Stages
    <3> QED BY <1>2, <2>1, <3>2
  <2> QED BY <1>2, <1>4, <2>1, <2>2 DEF IInv, TypeOK, InProgress
<1>8. TypeOK'
  BY <1>2, <1>3, <1>4, <1>5, <1>6, <1>7 DEF IInv, TypeOK, orderVars, stockVars
<1>9. RequestsGrounded'
  <2> SUFFICES ASSUME NEW p \in Requests
               PROVE  RequestsGrounded!(p)'
    BY DEF RequestsGrounded
  <2>1. CASE p = r
    BY <1>2, <1>3, <1>4, <1>6, <1>7, <2>1 DEF IInv, RequestsGrounded, orderVars, Idle
  <2>2. CASE p # r /\ request[p] # Idle
    <3>1. request[p].order \in Orders /\ request[p].key \in Keys
      BY <2>2 DEF IInv, TypeOK, InProgress
    <3> QED BY <1>3, <1>6, <1>7, <2>2, <3>1 DEF IInv, RequestsGrounded, orderVars
  <2>3. CASE p # r /\ request[p] = Idle
    BY <1>7, <2>3 DEF Idle
  <2> QED BY <2>1, <2>2, <2>3
<1>10. AttemptMatchesProvider'
  BY <1>2, <1>3, <1>6 DEF IInv, TablesAgree, AttemptMatchesProvider
<1>11. VersionsFollowOrder' /\ ReservationsFollowOrder'
  BY <1>3 DEF IInv, TablesAgree, VersionsFollowOrder, ReservationsFollowOrder, Items, orderVars
<1>12. ClaimsRecorded' /\ PaidExactlyOnce' /\ OneActiveAttempt' /\ ActiveAttemptProtectsOrder'
  BY <1>3 DEF IInv, TablesAgree, ClaimsRecorded, PaidExactlyOnce, OneActiveAttempt,
     ActiveAttemptProtectsOrder, ClaimedOnPayable, orderVars
<1> QED BY <1>8, <1>9, <1>10, <1>11, <1>12 DEF IInv, TablesAgree

(* A settled attempt keeps its status, and an active one stays active or   *)
(* fails with the outcome the provider decided.                            *)
LEMMA PersistOutcomeInvariant ==
  ASSUME IInv, NEW r \in Requests, PersistOutcome(r)
  PROVE  IInv'
<1> DEFINE o == request[r].order
           k == request[r].key
           after == AfterOutcome(attempt[o][k], request[r].outcome)
<1>1. request[r].stage \in Stages
  BY DEF PersistOutcome, Stages
<1>2. /\ o \in Orders /\ k \in Keys
      /\ request[r] # Idle /\ request[r] \in InProgress
      /\ request[r].outcome \in ChargeStatuses
  BY <1>1, HandledRequest DEF IInv
<1>3. UNCHANGED <<orderVars, stockVars, overdue, charge, events, claimedOn>>
  BY DEF PersistOutcome
<1>4. /\ attempt[o][k] \in AttemptStatuses
      /\ request[r].outcome = "succeeded" => charge[o][k] = "succeeded"
      /\ request[r].outcome = "declined" => charge[o][k] = "declined"
  BY <1>2 DEF PersistOutcome, IInv, TypeOK, RequestsGrounded
<1>5. /\ after \in AttemptStatuses
      /\ after = "succeeded" <=> attempt[o][k] = "succeeded"
      /\ after \in ActiveStatuses => attempt[o][k] \in ActiveStatuses
      /\ after = "provider_succeeded" => charge[o][k] = "succeeded"
      /\ after = "failed" => charge[o][k] = "declined"
  BY <1>2, <1>4 DEF AfterOutcome, IInv, TablesAgree, AttemptMatchesProvider
<1>6. /\ attempt' \in [Orders -> [Keys -> AttemptStatuses \cup {"absent"}]]
      /\ attempt'[o][k] = after
      /\ \A p \in Orders, j \in Keys : <<p, j>> # <<o, k>> => attempt'[p][j] = attempt[p][j]
  BY <1>2, <1>5 DEF PersistOutcome, IInv, TypeOK
<1>7. request' \in [Requests -> InProgress \cup {Idle}]
  BY <1>2, GotoType, ReturnType DEF PersistOutcome, IInv, Stages
<1>8. TypeOK'
  BY <1>3, <1>6, <1>7 DEF IInv, TypeOK, orderVars, stockVars
<1>9. RequestsGrounded'
  <2>1. /\ request'[r] = Idle \/ /\ request'[r].stage = "finalize"
                                 /\ request'[r].order = o
                                 /\ request'[r].key = k
        /\ \A p \in Requests : p # r => request'[p] = request[p]
    BY <1>2 DEF PersistOutcome, Goto, Return, IInv, TypeOK, InProgress
  <2> SUFFICES ASSUME NEW p \in Requests
               PROVE  RequestsGrounded!(p)'
    BY DEF RequestsGrounded
  <2>2. CASE p = r /\ request'[r] = Idle
    BY <2>2 DEF Idle
  <2>5. CASE p = r /\ request'[r] # Idle
    <3>1. /\ request'[r].stage = "finalize" /\ request'[r].order = o /\ request'[r].key = k
          /\ orderStatus[o] # "absent" /\ attempt[o][k] # "absent" /\ attempt'[o][k] # "absent"
      BY <1>2, <1>4, <1>5, <1>6, <2>1, <2>5 DEF IInv, RequestsGrounded, PersistOutcome
    <3> QED BY <1>2, <1>3, <2>5, <3>1 DEF orderVars
  <2>3. CASE p # r /\ request[p] # Idle
    <3>1. request[p].order \in Orders /\ request[p].key \in Keys
      BY <2>3 DEF IInv, TypeOK, InProgress
    <3>2. /\ request'[p] = request[p] /\ UNCHANGED <<charge, orderStatus>>
          /\ orderStatus[request[p].order] # "absent"
      BY <1>3, <2>1, <2>3 DEF IInv, RequestsGrounded, orderVars
    <3>3. attempt[request[p].order][request[p].key] # "absent" =>
            attempt'[request[p].order][request[p].key] # "absent"
      BY <1>5, <1>6, <3>1
    <3> QED BY <3>2, <3>3 DEF IInv, RequestsGrounded
  <2>4. CASE p # r /\ request[p] = Idle
    BY <2>1, <2>4 DEF Idle
  <2> QED BY <2>2, <2>3, <2>4, <2>5
<1>10. VersionsFollowOrder' /\ ReservationsFollowOrder'
  BY <1>3 DEF IInv, TablesAgree, VersionsFollowOrder, ReservationsFollowOrder, Items, orderVars
<1>11. ClaimsRecorded'
  BY <1>3, <1>4, <1>5, <1>6 DEF IInv, TablesAgree, ClaimsRecorded, orderVars
<1>12. AttemptMatchesProvider'
  BY <1>3, <1>4, <1>5, <1>6 DEF IInv, TablesAgree, AttemptMatchesProvider
<1>13. PaidExactlyOnce'
  <2>1. \A p \in Orders, j \in Keys : attempt'[p][j] = "succeeded" <=> attempt[p][j] = "succeeded"
    BY <1>5, <1>6
  <2> QED BY <1>3, <2>1 DEF IInv, TablesAgree, PaidExactlyOnce, orderVars
<1>14. OneActiveAttempt' /\ ActiveAttemptProtectsOrder'
  <2>1. \A p \in Orders, j \in Keys :
          attempt'[p][j] \in ActiveStatuses => attempt[p][j] \in ActiveStatuses
    BY <1>5, <1>6
  <2> QED BY <1>3, <2>1 DEF IInv, TablesAgree, OneActiveAttempt, ActiveAttemptProtectsOrder,
          ClaimedOnPayable, orderVars
<1> QED BY <1>8, <1>9, <1>10, <1>11, <1>12, <1>13, <1>14 DEF IInv, TablesAgree
(* The Order is paid with the one success that was active, so no other     *)
(* attempt claimed for it is active or succeeded.                          *)
LEMMA FinalizePaymentInvariant ==
  ASSUME IInv, NEW r \in Requests, FinalizePayment(r)
  PROVE  IInv'
<1> DEFINE o == request[r].order
           k == request[r].key
<1>1. request[r].stage \in Stages
  BY DEF FinalizePayment, Stages
<1>2. /\ o \in Orders /\ k \in Keys
      /\ request[r] # Idle /\ request[r] \in InProgress
  BY <1>1, HandledRequest DEF IInv
<1>3. /\ MayFinalize(o, k)
      /\ onHand' = [s \in Skus |-> onHand[s] - lines[o][s]]
      /\ reserved' = [s \in Skus |-> reserved[s] - lines[o][s]]
      /\ MarkReservations(o, "consumed")
      /\ orderStatus' = [orderStatus EXCEPT ![o] = "paid"]
      /\ orderVersion' = [orderVersion EXCEPT ![o] = @ + 1]
      /\ attempt' = [attempt EXCEPT ![o][k] = "succeeded"]
      /\ events' = events \cup {Event(o, orderVersion[o] + 1, "paid")}
      /\ Return(r)
      /\ UNCHANGED <<overdue, lines, charge, claimedOn>>
  BY DEF FinalizePayment
<1>4. /\ attempt[o][k] = "provider_succeeded"
      /\ orderStatus[o] = "pending_payment"
      /\ orderVersion[o] = 1
  BY <1>2, <1>3 DEF MayFinalize, IInv, TablesAgree, VersionsFollowOrder, VersionOf
<1>5. /\ attempt' \in [Orders -> [Keys -> AttemptStatuses \cup {"absent"}]]
      /\ attempt'[o][k] = "succeeded"
      /\ \A p \in Orders, j \in Keys : <<p, j>> # <<o, k>> => attempt'[p][j] = attempt[p][j]
      /\ orderStatus'[o] = "paid"
      /\ \A p \in Orders : p # o => orderStatus'[p] = orderStatus[p]
  BY <1>2, <1>3 DEF IInv, TypeOK
<1>6. TypeOK'
  <2>1. request' \in [Requests -> InProgress \cup {Idle}]
    BY <1>3, ReturnType DEF IInv
  <2>2. \A s \in Skus : reserved[s] - lines[o][s] \in Nat /\ onHand[s] - lines[o][s] \in Nat
    <3> SUFFICES ASSUME NEW s \in Skus
                 PROVE  reserved[s] - lines[o][s] \in Nat /\ onHand[s] - lines[o][s] \in Nat
      OBVIOUS
    <3>1. lines[o][s] \in Nat /\ reserved[s] \in Nat /\ onHand[s] \in Nat
      BY <1>2, CountersAreNaturals DEF IInv
    <3>2. CASE lines[o][s] > 0
      BY <1>3, <3>1, <3>2 DEF MayFinalize, Items
    <3>3. CASE lines[o][s] = 0
      BY <3>1, <3>3
    <3> QED BY <3>1, <3>2, <3>3
  <2>3. reserved' \in [Skus -> Nat] /\ onHand' \in [Skus -> Nat]
    BY <1>3, <2>2
  <2>4. events' \subseteq [order : Orders, sequence : 1 .. 2,
                          type : {"created", "paid", "cancelled", "expired"}]
    <3>1. Event(o, orderVersion[o] + 1, "paid")
             \in [order : Orders, sequence : 1 .. 2,
                 type : {"created", "paid", "cancelled", "expired"}]
      BY <1>2, <1>4 DEF Event
    <3> QED BY <1>3, <3>1 DEF IInv, TypeOK
  <2>5. orderStatus' \in [Orders -> OrderStatuses \cup {"absent"}] /\ orderVersion' \in [Orders -> 0 .. 2]
    <3>1. orderVersion[o] + 1 \in 0 .. 2
      BY <1>4
    <3>2. orderVersion' = [orderVersion EXCEPT ![o] = orderVersion[o] + 1]
      BY <1>3
    <3>3. orderVersion' \in [Orders -> 0 .. 2]
      BY <3>1, <3>2 DEF IInv, TypeOK
    <3> QED BY <1>3, <3>3 DEF IInv, TypeOK
  <2>6. reservation' \in [Orders -> [Skus -> ReservationStatuses]]
    BY <1>3, ZenonT(60) DEF IInv, TypeOK, MarkReservations
  <2> QED BY <1>3, <1>5, <2>1, <2>3, <2>4, <2>5, <2>6 DEF IInv, TypeOK
<1>7. RequestsGrounded'
  <2> SUFFICES ASSUME NEW p \in Requests
               PROVE  RequestsGrounded!(p)'
    BY DEF RequestsGrounded
  <2>1. request'[r] = Idle /\ \A q \in Requests : q # r => request'[q] = request[q]
    BY <1>3 DEF Return, IInv, TypeOK
  <2>2. CASE p = r
    BY <2>1, <2>2 DEF Idle
  <2>3. CASE p # r /\ request[p] # Idle
    <3>1. request[p].order \in Orders /\ request[p].key \in Keys
      BY <2>3 DEF IInv, TypeOK, InProgress
    <3> QED BY <1>3, <1>5, <2>1, <2>3, <3>1 DEF IInv, RequestsGrounded
  <2>4. CASE p # r /\ request[p] = Idle
    BY <2>1, <2>4 DEF Idle
  <2> QED BY <2>2, <2>3, <2>4
<1>8. VersionsFollowOrder' /\ ReservationsFollowOrder'
  BY <1>2, <1>3, <1>4 DEF IInv, TypeOK, TablesAgree, VersionsFollowOrder, VersionOf,
     ReservationsFollowOrder, ReservationOf, Items, MarkReservations
<1>9. ClaimsRecorded' /\ AttemptMatchesProvider'
  BY <1>3, <1>4, <1>5 DEF IInv, TablesAgree, ClaimsRecorded, AttemptMatchesProvider
<1>10. PaidExactlyOnce'
  <2>1. \A j \in Keys : attempt[o][j] # "succeeded"
    BY <1>2, <1>4 DEF IInv, TablesAgree, PaidExactlyOnce
  <2> QED BY <1>2, <1>5, <2>1, SMTT(30) DEF IInv, TablesAgree, PaidExactlyOnce
<1>11. OneActiveAttempt' /\ ActiveAttemptProtectsOrder'
  <2>1. \A j \in Keys : attempt'[o][j] \notin ActiveStatuses
    BY <1>2, <1>4, <1>5 DEF IInv, TablesAgree, OneActiveAttempt
  <2> QED BY <1>2, <1>3, <1>5, <2>1 DEF IInv, TablesAgree, OneActiveAttempt,
          ActiveAttemptProtectsOrder, ClaimedOnPayable
<1> QED BY <1>6, <1>7, <1>8, <1>9, <1>10, <1>11 DEF IInv, TablesAgree

-----------------------------------------------------------------------------
(* Every step preserves the invariant.                                     *)
LEMMA NextInvariant == IInv /\ [Next]_vars => IInv'
<1> SUFFICES ASSUME IInv, [Next]_vars PROVE IInv'
  OBVIOUS
<1>1. ASSUME NEW o \in Orders, NEW q \in Quantities, CreateOrder(o, q) PROVE IInv'
  BY <1>1, CreateOrderInvariant
<1>2. ASSUME NEW o \in Orders, PassDeadline(o) PROVE IInv'
  BY <1>2, PassDeadlineInvariant
<1>3. ASSUME NEW o \in Orders, CancelOrder(o) PROVE IInv'
  BY <1>3, CloseOrderInvariant DEF CancelOrder
<1>4. ASSUME NEW o \in Orders, ExpireOrder(o) PROVE IInv'
  BY <1>4, CloseOrderInvariant DEF ExpireOrder
<1>5. ASSUME NEW r \in Requests, NEW o \in Orders, NEW k \in Keys, BeginPayment(r, o, k)
      PROVE  IInv'
  BY <1>5, BeginPaymentInvariant
<1>6. ASSUME NEW r \in Requests, LookupAttempt(r) PROVE IInv'
  BY <1>6, LookupAttemptInvariant
<1>7. ASSUME NEW r \in Requests, ClaimAttempt(r) PROVE IInv'
  BY <1>7, ClaimAttemptInvariant
<1>8. ASSUME NEW r \in Requests, ResolveOutcome(r) PROVE IInv'
  BY <1>8, ResolveOutcomeInvariant
<1>9. ASSUME NEW r \in Requests, PersistOutcome(r) PROVE IInv'
  BY <1>9, PersistOutcomeInvariant
<1>10. ASSUME NEW r \in Requests, FinalizePayment(r) PROVE IInv'
  BY <1>10, FinalizePaymentInvariant
<1>11. ASSUME NEW r \in Requests, AbandonFinalization(r) \/ CrashRequest(r) PROVE IInv'
  BY <1>11, AbandonFinalizationInvariant, CrashRequestInvariant
<1>12. CASE UNCHANGED vars
  <2>1. TypeOK'
    BY <1>12 DEF vars, IInv, TypeOK
  <2>2. RequestsGrounded'
    BY <1>12 DEF vars, IInv, RequestsGrounded
  <2>3. TablesAgree'
    BY <1>12, TablesUnchanged DEF vars, IInv, orderVars
  <2> QED BY <2>1, <2>2, <2>3 DEF IInv
<1> QED BY <1>1, <1>2, <1>3, <1>4, <1>5, <1>6, <1>7, <1>8, <1>9, <1>10, <1>11, <1>12 DEF Next

(* The inductive invariant holds in every reachable state.                 *)
THEOREM Invariance == Spec => []IInv
<1>1. Init => IInv
  BY InitInvariant
<1>2. IInv /\ [Next]_vars => IInv'
  BY NextInvariant
<1> QED BY <1>1, <1>2, PTL DEF Spec

(* Every variable keeps its type; the counters of the inventory never go   *)
(* below zero, and no Order has more than two versions.                    *)
THEOREM TypeCorrect == Spec => []TypeOK
<1>1. IInv => TypeOK
  BY DEF IInv
<1> QED BY <1>1, Invariance, PTL

(* The reservations of an Order are active while it waits for payment,     *)
(* consumed when it is paid and released when it is closed.                *)
THEOREM ReservationsCorrect == Spec => []ReservationsFollowOrder
<1>1. IInv => ReservationsFollowOrder
  BY DEF IInv, TablesAgree
<1> QED BY <1>1, Invariance, PTL

(* An Order is paid exactly when one attempt, and only one, is settled as  *)
(* succeeded.                                                              *)
THEOREM PaidOnce == Spec => []PaidExactlyOnce
<1>1. IInv => PaidExactlyOnce
  BY DEF IInv, TablesAgree
<1> QED BY <1>1, Invariance, PTL

(* What an attempt says of the provider is what the provider has decided,   *)
(* however many answers are lost, late or doubled.                          *)
THEOREM ProviderAgrees == Spec => []AttemptMatchesProvider
<1>1. IInv => AttemptMatchesProvider
  BY DEF IInv, TablesAgree
<1> QED BY <1>1, Invariance, PTL

(* The unique index on the active attempts of an Order never has to reject *)
(* an insert.                                                              *)
THEOREM ActiveAttemptUnique == Spec => []OneActiveAttempt
<1>1. IInv => OneActiveAttempt
  BY DEF IInv, TablesAgree
<1> QED BY <1>1, Invariance, PTL

(* While an attempt claimed for a payable Order is active, nothing else    *)
(* ends the Order.                                                         *)
THEOREM OrderProtected == Spec => []ActiveAttemptProtectsOrder
<1>1. IInv => ActiveAttemptProtectsOrder
  BY DEF IInv, TablesAgree
<1> QED BY <1>1, Invariance, PTL

(* The attempts claimed for a payable Order charge the customer at most    *)
(* once, and never for an Order that was cancelled or expired.             *)
THEOREM CustomerChargedOnce == Spec => []ChargedAtMostOnce
<1>1. IInv => ChargedAtMostOnce
  <2> SUFFICES ASSUME IInv, NEW o \in Orders,
                      NEW k1 \in Keys, ClaimedOnPayable(o, k1), charge[o][k1] = "succeeded",
                      NEW k2 \in Keys, ClaimedOnPayable(o, k2), charge[o][k2] = "succeeded"
               PROVE  k1 = k2 /\ orderStatus[o] \notin ClosedStatuses
    BY DEF ChargedAtMostOnce
  <2>1. ASSUME NEW k \in Keys, ClaimedOnPayable(o, k), charge[o][k] = "succeeded"
        PROVE  attempt[o][k] \in ActiveStatuses \cup {"succeeded"}
    BY <2>1, SMTT(30) DEF IInv, TypeOK, TablesAgree, AttemptMatchesProvider
  <2>2. attempt[o][k1] \in ActiveStatuses => orderStatus[o] = "pending_payment"
    BY DEF IInv, TablesAgree, ActiveAttemptProtectsOrder
  <2>3. attempt[o][k2] \in ActiveStatuses => orderStatus[o] = "pending_payment"
    BY DEF IInv, TablesAgree, ActiveAttemptProtectsOrder
  <2>4. \A k \in Keys : attempt[o][k] = "succeeded" => orderStatus[o] = "paid"
    BY DEF IInv, TablesAgree, PaidExactlyOnce
  <2>5. CASE attempt[o][k1] \in ActiveStatuses
    BY <2>1, <2>2, <2>4, <2>5 DEF IInv, TablesAgree, OneActiveAttempt
  <2>6. CASE attempt[o][k1] = "succeeded"
    BY <2>1, <2>3, <2>4, <2>6 DEF IInv, TablesAgree, PaidExactlyOnce
  <2> QED BY <2>1, <2>5, <2>6
<1> QED BY <1>1, Invariance, PTL

-----------------------------------------------------------------------------
(* The counters of the inventory are sums over the reservations.           *)

Units(s) == [o \in Orders |-> lines[o][s]]

Counted(s) ==
  /\ IsFiniteSet(Holders(s, "active")) /\ IsFiniteSet(Holders(s, "consumed"))
  /\ reserved[s] = UnitsIn(s, "active")
  /\ onHand[s] = Stock[s] - UnitsIn(s, "consumed")
  /\ reserved[s] <= onHand[s]

StockCounted == \A s \in Skus : Counted(s)

LEMMA UnitsNatural ==
  ASSUME TypeOK, NEW s \in Skus, NEW status, IsFiniteSet(Holders(s, status))
  PROVE  UnitsIn(s, status) \in Nat /\ \A o \in Orders : Units(s)[o] = lines[o][s] /\ Units(s)[o] \in Nat
<1>1. \A o \in Orders : Units(s)[o] = lines[o][s] /\ Units(s)[o] \in Nat
  BY CountersAreNaturals DEF Units
<1>2. Holders(s, status) \subseteq Orders
  BY DEF Holders
<1> QED BY <1>1, <1>2, SumIsNatural DEF UnitsIn, Units

(* The sum stays when its holders and their lines do, ...                  *)
LEMMA HoldersKept ==
  ASSUME NEW s \in Skus, NEW status, IsFiniteSet(Holders(s, status)),
         Holders(s, status)' = Holders(s, status),
         \A o \in Holders(s, status) : lines'[o][s] = lines[o][s]
  PROVE  UnitsIn(s, status)' = UnitsIn(s, status) /\ IsFiniteSet(Holders(s, status)')
<1>1. \A o \in Holders(s, status) : Units(s)'[o] = Units(s)[o]
  BY DEF Units, Holders
<1>2. SumFunctionOnSet(Units(s)', Holders(s, status)) = SumFunctionOnSet(Units(s), Holders(s, status))
  BY <1>1, SumDependsOnValues
<1> QED BY <1>2 DEF UnitsIn, Units

(* ... grows by the line of a new holder ...                               *)
LEMMA HolderAdded ==
  ASSUME TypeOK, TypeOK', NEW s \in Skus, NEW status, IsFiniteSet(Holders(s, status)),
         NEW o \in Orders, o \notin Holders(s, status),
         Holders(s, status)' = Holders(s, status) \cup {o},
         \A p \in Orders : p # o => lines'[p][s] = lines[p][s]
  PROVE  /\ UnitsIn(s, status)' = UnitsIn(s, status) + lines'[o][s]
         /\ IsFiniteSet(Holders(s, status)')
<1> DEFINE H == Holders(s, status)
<1>1. H \subseteq Orders /\ \A p \in H : p \in Orders /\ p # o
  BY DEF Holders
<1>2. \A p \in Orders : /\ Units(s)[p] = lines[p][s] /\ Units(s)'[p] = lines'[p][s]
                        /\ lines[p][s] \in Nat /\ lines'[p][s] \in Nat
  <2>1. \A p \in Orders : lines'[p][s] \in Nat
    BY MaxQuantityAssumption DEF TypeOK, Quantities
  <2> QED BY <2>1, CountersAreNaturals DEF Units
<1>3. SumFunctionOnSet(Units(s)', H) = SumFunctionOnSet(Units(s), H)
  <2>1. \A p \in H : Units(s)'[p] = Units(s)[p]
    BY <1>1, <1>2
  <2> HIDE DEF H
  <2> QED BY <2>1, SumDependsOnValues DEF H
<1>4. /\ IsFiniteSet(H \cup {o})
      /\ SumFunctionOnSet(Units(s)', H \cup {o}) = lines'[o][s] + SumFunctionOnSet(Units(s)', H)
  <2>1. \A p \in H \cup {o} : Units(s)'[p] \in Nat
    BY <1>1, <1>2
  <2>2. Units(s)'[o] = lines'[o][s]
    BY <1>2
  <2>3. IsFiniteSet(H) /\ o \notin H
    OBVIOUS
  <2> HIDE DEF H
  <2> QED BY <2>1, <2>2, <2>3, SumWith
<1>5. UnitsIn(s, status) \in Nat /\ lines'[o][s] \in Nat
      /\ lines'[o][s] + UnitsIn(s, status) = UnitsIn(s, status) + lines'[o][s]
  BY <1>2, UnitsNatural
<1>6. UnitsIn(s, status)' = lines'[o][s] + UnitsIn(s, status)
  BY <1>3, <1>4 DEF UnitsIn, Units
<1> QED BY <1>4, <1>5, <1>6

(* ... and shrinks by the line of one that leaves.                         *)
LEMMA HolderGone ==
  ASSUME TypeOK, NEW s \in Skus, NEW status, IsFiniteSet(Holders(s, status)),
         NEW o \in Holders(s, status),
         Holders(s, status)' = Holders(s, status) \ {o}, lines' = lines
  PROVE  /\ UnitsIn(s, status)' = UnitsIn(s, status) - lines[o][s]
         /\ IsFiniteSet(Holders(s, status)')
<1> DEFINE H == Holders(s, status)
<1>1. H \subseteq Orders /\ o \in Orders
  BY DEF Holders
<1>2. \A p \in Orders : Units(s)[p] = lines[p][s] /\ lines[p][s] \in Nat
  BY CountersAreNaturals DEF Units
<1>3. SumFunctionOnSet(Units(s), H) = lines[o][s] + SumFunctionOnSet(Units(s), H \ {o})
  <2>1. \A p \in H : Units(s)[p] \in Nat
    BY <1>1, <1>2
  <2>2. Units(s)[o] = lines[o][s]
    BY <1>1, <1>2
  <2>3. IsFiniteSet(H) /\ o \in H
    OBVIOUS
  <2> HIDE DEF H
  <2> QED BY <2>1, <2>2, <2>3, SumWithout
<1>4. IsFiniteSet(H \ {o}) /\ SumFunctionOnSet(Units(s), H \ {o}) \in Nat
  <2>1. IsFiniteSet(H \ {o})
    BY FS_Subset
  <2>2. \A p \in H \ {o} : Units(s)[p] \in Nat
    BY <1>1, <1>2
  <2> HIDE DEF H
  <2> QED BY <2>1, <2>2, SumIsNatural
<1>5. UnitsIn(s, status) = SumFunctionOnSet(Units(s), H)
  BY DEF UnitsIn, Units
<1>6. UnitsIn(s, status)' = SumFunctionOnSet(Units(s), H \ {o})
  BY DEF UnitsIn, Units
<1>7. lines[o][s] \in Nat
  BY <1>1, <1>2
<1> HIDE DEF H
<1>8. UnitsIn(s, status)' = UnitsIn(s, status) - lines[o][s]
  BY <1>3, <1>4, <1>5, <1>6, <1>7
<1> QED BY <1>4, <1>8 DEF H

(* A new Order reserves what it holds.                                     *)
LEMMA CreateOrderCounts ==
  ASSUME IInv, IInv', StockCounted, NEW o \in Orders, NEW q \in Quantities, CreateOrder(o, q),
         NEW s \in Skus
  PROVE  Counted(s)'
<1>1. TypeOK /\ TypeOK' /\ Counted(s)
  BY DEF IInv, StockCounted
<1>2. /\ orderStatus[o] = "absent" /\ reserved[s] + q[s] <= onHand[s]
      /\ lines' = [lines EXCEPT ![o] = q] /\ onHand' = onHand
      /\ reserved' = [x \in Skus |-> reserved[x] + q[x]]
      /\ reservation' = [reservation EXCEPT ![o] =
                           [x \in Skus |-> IF q[x] > 0 THEN "active" ELSE "none"]]
  BY DEF CreateOrder
<1>3. reservation[o][s] = "none"
  BY <1>2 DEF IInv, TablesAgree, ReservationsFollowOrder, ReservationOf
<1>4. /\ reservation'[o][s] = IF q[s] > 0 THEN "active" ELSE "none"
      /\ \A p \in Orders : p # o => reservation'[p][s] = reservation[p][s] /\ lines'[p][s] = lines[p][s]
      /\ lines'[o][s] = q[s] /\ reserved'[s] = reserved[s] + q[s]
  BY <1>1, <1>2 DEF TypeOK
<1>5. reserved[s] \in Nat /\ onHand[s] \in Nat /\ q[s] \in Nat
  BY <1>1, MaxQuantityAssumption DEF TypeOK, Quantities
<1>6. \A status \in {"active", "consumed"} : \A p \in Holders(s, status) : p \in Orders /\ p # o
  BY <1>3 DEF Holders
<1>7. UnitsIn(s, "consumed")' = UnitsIn(s, "consumed") /\ IsFiniteSet(Holders(s, "consumed")')
  <2>1. Holders(s, "consumed")' = Holders(s, "consumed")
    BY <1>3, <1>4 DEF Holders
  <2> QED BY <1>1, <1>4, <1>6, <2>1, HoldersKept DEF Counted
<1>8. UnitsIn(s, "active")' = UnitsIn(s, "active") + q[s] /\ IsFiniteSet(Holders(s, "active")')
  <2>1. CASE q[s] > 0
    <3>1. Holders(s, "active")' = Holders(s, "active") \cup {o} /\ o \notin Holders(s, "active")
      BY <1>3, <1>4, <2>1 DEF Holders
    <3> QED BY <1>1, <1>4, <3>1, HolderAdded DEF Counted
  <2>2. CASE q[s] = 0
    <3>1. Holders(s, "active")' = Holders(s, "active")
      BY <1>3, <1>4, <2>2 DEF Holders
    <3>2. UnitsIn(s, "active")' = UnitsIn(s, "active") /\ IsFiniteSet(Holders(s, "active")')
      BY <1>1, <1>4, <1>6, <3>1, HoldersKept DEF Counted
    <3>3. UnitsIn(s, "active") \in Nat
      BY <1>1, <1>5 DEF Counted
    <3> QED BY <2>2, <3>2, <3>3
  <2> QED BY <1>5, <2>1, <2>2
<1> QED BY <1>1, <1>2, <1>4, <1>5, <1>7, <1>8 DEF Counted

(* Reservations are released, or consumed with what is on hand.            *)
LEMMA SettlingCounts ==
  ASSUME IInv, IInv', StockCounted, NEW o \in Orders, NEW status \in {"released", "consumed"},
         ReservationsActive(o), MarkReservations(o, status), lines' = lines,
         reserved' = [x \in Skus |-> reserved[x] - lines[o][x]],
         NEW s \in Skus,
         onHand' = IF status = "consumed" THEN [x \in Skus |-> onHand[x] - lines[o][x]] ELSE onHand
  PROVE  Counted(s)'
<1>1. TypeOK /\ TypeOK' /\ Counted(s)
  BY DEF IInv, StockCounted
<1>2. reserved[s] \in Nat /\ onHand[s] \in Nat /\ lines[o][s] \in Nat /\ Stock[s] \in Nat
  BY <1>1, CountersAreNaturals, StockAssumption DEF TypeOK
<1>3. reserved'[s] = reserved[s] - lines[o][s]
  OBVIOUS
<1>4. \A p \in Orders : p # o => reservation'[p][s] = reservation[p][s]
  BY <1>1 DEF TypeOK, MarkReservations
<1>5. reservation'[o][s] = IF s \in Items(o) THEN status ELSE reservation[o][s]
  BY <1>1 DEF TypeOK, MarkReservations
<1>6. CASE s \notin Items(o)
  <2>1. lines[o][s] = 0
    BY <1>2, <1>6 DEF Items
  <2>2. \A st : Holders(s, st)' = Holders(s, st)
    BY <1>4, <1>5, <1>6 DEF Holders
  <2>3. /\ UnitsIn(s, "active")' = UnitsIn(s, "active") /\ IsFiniteSet(Holders(s, "active")')
        /\ UnitsIn(s, "consumed")' = UnitsIn(s, "consumed") /\ IsFiniteSet(Holders(s, "consumed")')
    BY <1>1, <2>2, HoldersKept DEF Counted
  <2>4. reserved'[s] = reserved[s] /\ onHand'[s] = onHand[s]
    BY <1>2, <1>3, <2>1
  <2> QED BY <1>1, <2>3, <2>4 DEF Counted
<1>7. CASE s \in Items(o)
  <2>1. reservation[o][s] = "active" /\ reservation'[o][s] = status
    BY <1>5, <1>7 DEF ReservationsActive
  <2>2. Holders(s, "active")' = Holders(s, "active") \ {o} /\ o \in Holders(s, "active")
    BY <1>4, <2>1 DEF Holders
  <2>3. /\ UnitsIn(s, "active")' = UnitsIn(s, "active") - lines[o][s]
        /\ IsFiniteSet(Holders(s, "active")')
    BY <1>1, <2>2, HolderGone DEF Counted
  <2>4. CASE status = "released"
    <3>1. Holders(s, "consumed")' = Holders(s, "consumed")
      BY <1>4, <2>1, <2>4 DEF Holders
    <3>2. UnitsIn(s, "consumed")' = UnitsIn(s, "consumed") /\ IsFiniteSet(Holders(s, "consumed")')
      BY <1>1, <3>1, HoldersKept DEF Counted
    <3>3. onHand'[s] = onHand[s]
      BY <2>4
    <3> QED BY <1>1, <1>2, <1>3, <2>3, <3>2, <3>3 DEF Counted
  <2>5. CASE status = "consumed"
    <3>1. Holders(s, "consumed")' = Holders(s, "consumed") \cup {o} /\ o \notin Holders(s, "consumed")
      BY <1>4, <2>1, <2>5 DEF Holders
    <3>2. /\ UnitsIn(s, "consumed")' = UnitsIn(s, "consumed") + lines[o][s]
          /\ IsFiniteSet(Holders(s, "consumed")')
      <4>1. lines'[o][s] = lines[o][s] /\ \A p \in Orders : p # o => lines'[p][s] = lines[p][s]
        OBVIOUS
      <4> QED BY <1>1, <3>1, <4>1, HolderAdded DEF Counted
    <3>3. onHand'[s] = onHand[s] - lines[o][s]
      BY <2>5
    <3>4. UnitsIn(s, "consumed") \in Nat
      BY <1>1, UnitsNatural DEF Counted
    <3> QED BY <1>1, <1>2, <1>3, <2>3, <3>2, <3>3, <3>4 DEF Counted
  <2> QED BY <2>4, <2>5
<1> QED BY <1>6, <1>7

LEMMA StockCountedPreserved ==
  ASSUME IInv, IInv', StockCounted, [Next]_vars
  PROVE  StockCounted'
<1>1. ASSUME UNCHANGED <<lines, reservation, onHand, reserved>>
      PROVE  StockCounted'
  BY <1>1 DEF StockCounted, Counted, UnitsIn, Holders
<1>2. ASSUME NEW o \in Orders, NEW q \in Quantities, CreateOrder(o, q)
      PROVE  StockCounted'
  BY <1>2, CreateOrderCounts DEF StockCounted
<1>3. ASSUME NEW o \in Orders, CancelOrder(o) \/ ExpireOrder(o)
      PROVE  StockCounted'
  <2>1. /\ ReservationsActive(o) /\ MarkReservations(o, "released") /\ lines' = lines
        /\ reserved' = [x \in Skus |-> reserved[x] - lines[o][x]] /\ onHand' = onHand
    BY <1>3 DEF CancelOrder, ExpireOrder, CloseOrder, ReleaseActiveReservations
  <2> QED BY <2>1, SettlingCounts DEF StockCounted
<1>4. ASSUME NEW r \in Requests, FinalizePayment(r)
      PROVE  StockCounted'
  <2> DEFINE o == request[r].order
  <2>1. o \in Orders
    BY <1>4, HandledRequest DEF IInv, FinalizePayment, Stages
  <2>2. /\ ReservationsActive(o) /\ MarkReservations(o, "consumed") /\ lines' = lines
        /\ reserved' = [x \in Skus |-> reserved[x] - lines[o][x]]
        /\ onHand' = [x \in Skus |-> onHand[x] - lines[o][x]]
    BY <1>4 DEF FinalizePayment, MayFinalize
  <2> HIDE DEF o
  <2> QED BY <2>1, <2>2, SettlingCounts DEF StockCounted
<1>5. \/ UNCHANGED <<lines, reservation, onHand, reserved>>
      \/ \E o \in Orders, q \in Quantities : CreateOrder(o, q)
      \/ \E o \in Orders : CancelOrder(o) \/ ExpireOrder(o)
      \/ \E r \in Requests : FinalizePayment(r)
  BY DEF Next, vars, orderVars, stockVars, PassDeadline, BeginPayment, LookupAttempt,
     ClaimAttempt, ResolveOutcome, PersistOutcome, AbandonFinalization, CrashRequest
<1> QED BY <1>1, <1>2, <1>3, <1>4, <1>5

(* The counters of the inventory are the sums of the reservations behind   *)
(* them, whatever Orders, payments, cancellations and expirations do at    *)
(* the same time: no unit is reserved twice, lost or released twice.       *)
THEOREM StockIsConserved == Spec => []StockConserved
<1>1. Init => StockCounted
  <2> SUFFICES ASSUME Init, NEW s \in Skus PROVE Counted(s)
    BY DEF StockCounted
  <2>1. Holders(s, "active") = {} /\ Holders(s, "consumed") = {}
    BY DEF Init, Holders
  <2>2. IsFiniteSet({}) /\ UnitsIn(s, "active") = 0 /\ UnitsIn(s, "consumed") = 0
    BY <2>1, FS_EmptySet, SumOfNone DEF UnitsIn
  <2>3. reserved[s] = 0 /\ onHand[s] = Stock[s] /\ Stock[s] \in Nat
    BY StockAssumption DEF Init
  <2> QED BY <2>1, <2>2, <2>3 DEF Counted
<1>2. StockCounted => StockConserved
  BY DEF StockCounted, Counted, StockConserved
<1> QED BY <1>1, <1>2, Invariance, StockCountedPreserved, PTL DEF Spec

-----------------------------------------------------------------------------
(* OrderLifecycle implements OrderLedger: every transaction, provider call *)
(* and crash is a step of the ledger or leaves it unchanged.               *)

(* Free and sold units are the same when the counters are.                 *)
LEMMA LedgerUnchanged ==
  ASSUME UNCHANGED <<orderStatus, lines, onHand, reserved, charge, claimedOn>>
  PROVE  UNCHANGED Ledger!ledger
BY DEF Ledger!ledger, Charged, ClaimedOnPayable

(* An attempt claimed for a payable Order whose charge succeeded is active *)
(* or settled as succeeded.                                                *)
LEMMA ChargedAttempt ==
  ASSUME IInv, NEW o \in Orders, NEW k \in Keys, ClaimedOnPayable(o, k),
         charge[o][k] = "succeeded"
  PROVE  attempt[o][k] \in ActiveStatuses \cup {"succeeded"}
<1>1. attempt[o][k] \in AttemptStatuses \cup {"absent"}
  BY DEF IInv, TypeOK
<1>2. attempt[o][k] # "failed" /\ attempt[o][k] # "absent"
  BY DEF IInv, TablesAgree, AttemptMatchesProvider
<1> QED BY <1>1, <1>2

LEMMA InitRefines == Init => Ledger!Init
<1> SUFFICES ASSUME Init PROVE Ledger!Init
  OBVIOUS
<1>1. Charged = {}
  BY DEF Init, Charged
<1>2. [s \in Skus |-> onHand[s] - reserved[s]] = Stock
  BY StockAssumption DEF Init
<1>3. [s \in Skus |-> Stock[s] - onHand[s]] = [s \in Skus |-> 0]
  BY StockAssumption DEF Init
<1> QED BY <1>1, <1>2, <1>3 DEF Init, Ledger!Init

LEMMA CreateOrderRefines ==
  ASSUME IInv, NEW o \in Orders, NEW q \in Quantities, CreateOrder(o, q)
  PROVE  Ledger!Place(o, q)
<1>1. \A s \in Skus : /\ q[s] \in Int /\ onHand[s] \in Int /\ reserved[s] \in Int
                      /\ reserved[s] + q[s] <= onHand[s]
  BY CountersAreNaturals DEF CreateOrder, IInv, Quantities
<1>2. \A s \in Skus : q[s] <= [t \in Skus |-> onHand[t] - reserved[t]][s]
  BY <1>1
<1>3. [s \in Skus |-> onHand[s] - reserved[s]]' =
        [s \in Skus |-> [t \in Skus |-> onHand[t] - reserved[t]][s] - q[s]]
  BY <1>1 DEF CreateOrder
<1>4. UNCHANGED <<Charged, [s \in Skus |-> Stock[s] - onHand[s]]>>
  BY DEF CreateOrder, Charged, ClaimedOnPayable
<1> QED BY <1>2, <1>3, <1>4 DEF CreateOrder, Ledger!Place

LEMMA CloseOrderRefines ==
  ASSUME IInv, NEW o \in Orders, NEW status \in ClosedStatuses, CloseOrder(o, status)
  PROVE  Ledger!Close(o)
<1>1. o \notin Charged
  BY ChargedAttempt DEF Charged, CloseOrder, PaymentHistoryAllows
<1>2. \A s \in Skus : lines[o][s] \in Int /\ onHand[s] \in Int /\ reserved[s] \in Int
  BY CountersAreNaturals DEF IInv
<1>3. [s \in Skus |-> onHand[s] - reserved[s]]' =
        [s \in Skus |-> [t \in Skus |-> onHand[t] - reserved[t]][s] + lines[o][s]]
  BY <1>2 DEF CloseOrder, ReleaseActiveReservations
<1>4. UNCHANGED <<Charged, [s \in Skus |-> Stock[s] - onHand[s]]>>
  BY DEF CloseOrder, Charged, ClaimedOnPayable
<1> QED BY <1>1, <1>3, <1>4 DEF CloseOrder, Ledger!Close

(* An insert records the Order's status for an attempt that is not charged *)
(* yet.                                                                    *)
LEMMA ClaimAttemptRefines ==
  ASSUME IInv, NEW r \in Requests, ClaimAttempt(r)
  PROVE  UNCHANGED Ledger!ledger
<1> DEFINE o == request[r].order
           k == request[r].key
<1>1. o \in Orders /\ k \in Keys
  BY HandledRequest DEF IInv, ClaimAttempt, Stages
<1>2. UNCHANGED <<orderStatus, lines, onHand, reserved, charge>>
  BY DEF ClaimAttempt, orderVars, stockVars
<1>3. CASE UNCHANGED claimedOn
  BY <1>2, <1>3, LedgerUnchanged
<1>4. CASE /\ attempt[o][k] = "absent"
           /\ claimedOn' = [claimedOn EXCEPT ![o][k] = orderStatus[o]]
  <2>1. charge[o][k] = "none"
    BY <1>1, <1>4 DEF IInv, TablesAgree, AttemptMatchesProvider
  <2>2. \A p \in Orders, j \in Keys : <<p, j>> # <<o, k>> => claimedOn'[p][j] = claimedOn[p][j]
    BY <1>1, <1>4 DEF IInv, TypeOK
  <2>3. Charged' = Charged
    BY <1>1, <1>2, <2>1, <2>2 DEF Charged, ClaimedOnPayable
  <2> QED BY <1>2, <2>3 DEF Ledger!ledger
<1> QED BY <1>3, <1>4 DEF ClaimAttempt

(* The provider charges for the one active attempt of an open Order.       *)
LEMMA ResolveOutcomeRefines ==
  ASSUME IInv, NEW r \in Requests, ResolveOutcome(r)
  PROVE  \/ UNCHANGED Ledger!ledger
         \/ \E o \in Orders : Ledger!Charge(o)
<1>1. PICK o \in Orders, k \in Keys : o = request[r].order /\ k = request[r].key
  BY HandledRequest DEF IInv, ResolveOutcome, Stages
<1>2. UNCHANGED <<orderStatus, lines, onHand, reserved, attempt, claimedOn>>
  BY DEF ResolveOutcome, orderVars, stockVars
<1>3. PICK result \in ChargeOutcomes(charge[o][k]) \cup {charge[o][k]} :
        charge' = [charge EXCEPT ![o][k] = result]
  BY <1>1 DEF ResolveOutcome
<1>4. /\ charge'[o][k] = result
      /\ \A p \in Orders, j \in Keys : <<p, j>> # <<o, k>> => charge'[p][j] = charge[p][j]
  BY <1>1, <1>3 DEF IInv, TypeOK
<1>5. CASE ~ClaimedOnPayable(o, k) \/ (result = "succeeded" <=> charge[o][k] = "succeeded")
  <2>1. Charged' = Charged
    BY <1>1, <1>2, <1>4, <1>5 DEF Charged, ClaimedOnPayable
  <2> QED BY <1>2, <2>1 DEF Ledger!ledger
<1>6. CASE ClaimedOnPayable(o, k) /\ result = "succeeded" /\ charge[o][k] # "succeeded"
  <2>1. attempt[o][k] \in ActiveStatuses
    <3>1. attempt[o][k] \in AttemptStatuses
      BY <1>1 DEF ResolveOutcome, IInv, TypeOK, RequestsGrounded
    <3>2. attempt[o][k] # "succeeded"
      BY <1>1, <1>6 DEF IInv, TablesAgree, AttemptMatchesProvider
    <3>3. charge[o][k] # "declined"
      BY <1>3, <1>6 DEF ChargeOutcomes
    <3>4. attempt[o][k] # "failed"
      BY <1>1, <3>3 DEF IInv, TablesAgree, AttemptMatchesProvider
    <3> QED BY <3>1, <3>2, <3>4
  <2>2. orderStatus[o] = "pending_payment"
    BY <1>1, <1>6, <2>1 DEF IInv, TablesAgree, ActiveAttemptProtectsOrder
  <2>3. o \notin Charged
    <3> SUFFICES ASSUME NEW j \in Keys, ClaimedOnPayable(o, j), charge[o][j] = "succeeded"
                 PROVE  FALSE
      BY DEF Charged
    <3>1. attempt[o][j] \in ActiveStatuses \cup {"succeeded"}
      BY <1>1, ChargedAttempt
    <3>2. attempt[o][j] # "succeeded"
      BY <1>1, <2>2 DEF IInv, TablesAgree, PaidExactlyOnce
    <3>3. j = k
      BY <1>1, <2>1, <3>1, <3>2 DEF IInv, TablesAgree, OneActiveAttempt
    <3> QED BY <1>6, <3>3
  <2>4. Charged' = Charged \cup {o}
    BY <1>1, <1>2, <1>4, <1>6 DEF Charged, ClaimedOnPayable
  <2>5. Ledger!Charge(o)
    BY <1>2, <2>2, <2>3, <2>4 DEF Ledger!Charge
  <2> QED BY <1>1, <2>5
<1>7. charge[o][k] = "succeeded" => result = "succeeded"
  BY <1>3 DEF ChargeOutcomes
<1> QED BY <1>5, <1>6, <1>7

LEMMA FinalizePaymentRefines ==
  ASSUME IInv, NEW r \in Requests, FinalizePayment(r)
  PROVE  \E o \in Orders : Ledger!Pay(o)
<1>1. PICK o \in Orders, k \in Keys : o = request[r].order /\ k = request[r].key
  BY HandledRequest DEF IInv, FinalizePayment, Stages
<1>2. MayFinalize(o, k)
  BY <1>1 DEF FinalizePayment
<1>3. o \in Charged
  <2>1. attempt[o][k] = "provider_succeeded" /\ orderStatus[o] = "pending_payment"
    BY <1>2 DEF MayFinalize
  <2>2. ClaimedOnPayable(o, k)
    BY <1>1, <2>1 DEF IInv, TablesAgree, ClaimsRecorded, ClaimedOnPayable
  <2>3. charge[o][k] = "succeeded"
    BY <1>1, <2>1 DEF IInv, TablesAgree, AttemptMatchesProvider
  <2> QED BY <1>1, <2>2, <2>3 DEF Charged
<1>4. \A s \in Skus : /\ lines[o][s] \in Int /\ onHand[s] \in Int
                      /\ reserved[s] \in Int /\ Stock[s] \in Int
  BY <1>1, CountersAreNaturals, StockAssumption DEF IInv
<1>5. [s \in Skus |-> onHand[s] - reserved[s]]' = [s \in Skus |-> onHand[s] - reserved[s]]
  BY <1>1, <1>4 DEF FinalizePayment
<1>6. [s \in Skus |-> Stock[s] - onHand[s]]' =
        [s \in Skus |-> [t \in Skus |-> Stock[t] - onHand[t]][s] + lines[o][s]]
  BY <1>1, <1>4 DEF FinalizePayment
<1>7. Charged' = Charged
  BY DEF FinalizePayment, Charged, ClaimedOnPayable
<1>8. Ledger!Pay(o)
  BY <1>1, <1>2, <1>3, <1>5, <1>6, <1>7 DEF FinalizePayment, MayFinalize, Ledger!Pay
<1> QED BY <1>1, <1>8

(* Every step is a step of the ledger or a stutter.                        *)
LEMMA NextRefines == IInv /\ [Next]_vars => [Ledger!Next]_(Ledger!ledger)
<1> SUFFICES ASSUME IInv, [Next]_vars PROVE [Ledger!Next]_(Ledger!ledger)
  OBVIOUS
<1>1. ASSUME NEW o \in Orders, NEW q \in Quantities, CreateOrder(o, q) PROVE Ledger!Next
  BY <1>1, CreateOrderRefines DEF Ledger!Next, Quantities
<1>2. ASSUME NEW o \in Orders, CancelOrder(o) \/ ExpireOrder(o) PROVE Ledger!Next
  BY <1>2, CloseOrderRefines DEF CancelOrder, ExpireOrder, Ledger!Next
<1>3. ASSUME NEW r \in Requests, ClaimAttempt(r) PROVE UNCHANGED Ledger!ledger
  BY <1>3, ClaimAttemptRefines
<1>4. ASSUME NEW r \in Requests, ResolveOutcome(r) PROVE [Ledger!Next]_(Ledger!ledger)
  BY <1>4, ResolveOutcomeRefines DEF Ledger!Next
<1>5. ASSUME NEW r \in Requests, FinalizePayment(r) PROVE Ledger!Next
  BY <1>5, FinalizePaymentRefines DEF Ledger!Next
<1>6. ASSUME NEW o \in Orders, PassDeadline(o) PROVE UNCHANGED Ledger!ledger
  BY <1>6, LedgerUnchanged DEF PassDeadline, orderVars, stockVars
<1>7. ASSUME NEW r \in Requests, NEW o \in Orders, NEW k \in Keys, BeginPayment(r, o, k)
      PROVE  UNCHANGED Ledger!ledger
  BY <1>7, LedgerUnchanged DEF BeginPayment, orderVars, stockVars
<1>8. ASSUME NEW r \in Requests,
             LookupAttempt(r) \/ PersistOutcome(r) \/ AbandonFinalization(r) \/ CrashRequest(r)
      PROVE  UNCHANGED Ledger!ledger
  BY <1>8, LedgerUnchanged
     DEF LookupAttempt, PersistOutcome, AbandonFinalization, CrashRequest, orderVars, stockVars
<1>9. CASE UNCHANGED vars
  BY <1>9, LedgerUnchanged DEF vars
<1> QED BY <1>1, <1>2, <1>3, <1>4, <1>5, <1>6, <1>7, <1>8, <1>9 DEF Next

(* The Orders, payments and inventory counters of the database implement   *)
(* the ledger: an Order is charged at most once and only while open, a     *)
(* charged Order can only be paid, and units are free or sold accordingly. *)
THEOREM LedgerImplemented == Spec => ImplementsLedger
<1>1. Init => Ledger!Init
  BY InitRefines
<1>2. IInv /\ [Next]_vars => [Ledger!Next]_(Ledger!ledger)
  BY NextRefines
<1> QED BY <1>1, <1>2, Invariance, PTL DEF Spec, ImplementsLedger, Ledger!Spec

-----------------------------------------------------------------------------
(* A step that leaves the Orders and the events alone keeps them matched.  *)
LEMMA EventsUnchanged ==
  ASSUME EventPerVersion, UNCHANGED <<orderStatus, events>>
  PROVE  EventPerVersion'
BY DEF EventPerVersion, Event

(* A transition adds the event of the new version of its Order only.       *)
LEMMA EventAdded ==
  ASSUME IInv, EventPerVersion, NEW o \in Orders, orderStatus[o] = "pending_payment",
         NEW status \in OrderStatuses \ {"pending_payment"},
         orderStatus' = [orderStatus EXCEPT ![o] = status],
         events' = events \cup {Event(o, orderVersion[o] + 1, status)}
  PROVE  EventPerVersion'
<1>1. orderVersion[o] + 1 = 2
  BY DEF IInv, TablesAgree, VersionsFollowOrder, VersionOf
<1>2. {e \in events : e.order = o} = {Event(o, 1, "created")}
  BY DEF EventPerVersion
<1>3. {e \in events' : e.order = o} = {Event(o, 1, "created"), Event(o, 2, status)}
  BY <1>1, <1>2 DEF Event
<1>4. \A p \in Orders : p # o => {e \in events' : e.order = p} = {e \in events : e.order = p}
  BY DEF Event
<1>5. orderStatus'[o] = status /\ \A p \in Orders : p # o => orderStatus'[p] = orderStatus[p]
  BY DEF IInv, TypeOK
<1> QED BY <1>3, <1>4, <1>5 DEF EventPerVersion, Event

LEMMA EventsPreserved == IInv /\ EventPerVersion /\ [Next]_vars => EventPerVersion'
<1> SUFFICES ASSUME IInv, EventPerVersion, [Next]_vars PROVE EventPerVersion'
  OBVIOUS
<1>1. ASSUME NEW o \in Orders, NEW q \in Quantities, CreateOrder(o, q) PROVE EventPerVersion'
  <2>1. {e \in events : e.order = o} = {}
    BY <1>1 DEF CreateOrder, EventPerVersion
  <2>2. {e \in events' : e.order = o} = {Event(o, 1, "created")}
    BY <1>1, <2>1 DEF CreateOrder, Event
  <2>3. \A p \in Orders : p # o => {e \in events' : e.order = p} = {e \in events : e.order = p}
    BY <1>1 DEF CreateOrder, Event
  <2>4. orderStatus'[o] = "pending_payment" /\ \A p \in Orders : p # o => orderStatus'[p] = orderStatus[p]
    BY <1>1 DEF CreateOrder, IInv, TypeOK
  <2> QED BY <2>2, <2>3, <2>4 DEF EventPerVersion, Event
<1>2. ASSUME NEW o \in Orders, CancelOrder(o) \/ ExpireOrder(o) PROVE EventPerVersion'
  BY <1>2, EventAdded DEF CancelOrder, ExpireOrder, CloseOrder
<1>3. ASSUME NEW r \in Requests, FinalizePayment(r) PROVE EventPerVersion'
  <2>1. request[r].order \in Orders
    BY <1>3, HandledRequest DEF IInv, FinalizePayment, Stages
  <2> QED BY <1>3, <2>1, EventAdded DEF FinalizePayment, MayFinalize
<1>4. ASSUME NEW o \in Orders, PassDeadline(o) PROVE EventPerVersion'
  BY <1>4, EventsUnchanged DEF PassDeadline, orderVars
<1>5. ASSUME NEW r \in Requests, NEW o \in Orders, NEW k \in Keys, BeginPayment(r, o, k)
      PROVE  EventPerVersion'
  BY <1>5, EventsUnchanged DEF BeginPayment, orderVars
<1>6. ASSUME NEW r \in Requests,
             \/ LookupAttempt(r) \/ ClaimAttempt(r) \/ ResolveOutcome(r)
             \/ PersistOutcome(r) \/ AbandonFinalization(r) \/ CrashRequest(r)
      PROVE  EventPerVersion'
  BY <1>6, EventsUnchanged DEF LookupAttempt, ClaimAttempt, ResolveOutcome, PersistOutcome,
     AbandonFinalization, CrashRequest, orderVars
<1>7. CASE UNCHANGED vars
  BY <1>7, EventsUnchanged DEF vars
<1> QED BY <1>1, <1>2, <1>3, <1>4, <1>5, <1>6, <1>7 DEF Next

(* Every version of an Order has exactly its event, in sequence.           *)
THEOREM EventsComplete == Spec => []EventPerVersion
<1>1. Init => EventPerVersion
  BY DEF Init, EventPerVersion
<1> QED BY <1>1, EventsPreserved, Invariance, PTL DEF Spec

-----------------------------------------------------------------------------
(* No step downgrades a known success or changes a settled attempt.        *)
LEMMA AttemptsKept ==
  ASSUME IInv, [Next]_vars, NEW o \in Orders, NEW k \in Keys
  PROVE  /\ attempt[o][k] = "provider_succeeded" =>
              attempt'[o][k] \in {"provider_succeeded", "succeeded"}
         /\ attempt[o][k] \in {"failed", "succeeded"} => attempt'[o][k] = attempt[o][k]
<1>1. ASSUME NEW r \in Requests, ClaimAttempt(r) \/ PersistOutcome(r) \/ FinalizePayment(r)
      PROVE  request[r].order \in Orders /\ request[r].key \in Keys
  BY <1>1, HandledRequest DEF IInv, ClaimAttempt, PersistOutcome, FinalizePayment, Stages
<1>2. ASSUME NEW r \in Requests, ClaimAttempt(r)
      PROVE  attempt[o][k] # "absent" => attempt'[o][k] = attempt[o][k]
  <2> DEFINE p == request[r].order
             l == request[r].key
  <2>1. p \in Orders /\ l \in Keys
    BY <1>1, <1>2
  <2>2. \/ attempt' = attempt
        \/ attempt[p][l] = "absent" /\ attempt' = [attempt EXCEPT ![p][l] = "processing"]
    BY <1>2 DEF ClaimAttempt
  <2>3. attempt \in [Orders -> [Keys -> AttemptStatuses \cup {"absent"}]]
    BY DEF IInv, TypeOK
  <2> HIDE DEF p, l
  <2> QED BY <2>1, <2>2, <2>3
<1>3. ASSUME NEW r \in Requests, PersistOutcome(r)
      PROVE  attempt[o][k] \in {"failed", "succeeded", "provider_succeeded"} =>
               attempt'[o][k] = attempt[o][k]
  BY <1>1, <1>3 DEF PersistOutcome, AfterOutcome, IInv, TypeOK
<1>4. ASSUME NEW r \in Requests, FinalizePayment(r)
      PROVE  attempt'[o][k] = attempt[o][k] \/ (/\ attempt[o][k] = "provider_succeeded"
                                                /\ attempt'[o][k] = "succeeded")
  BY <1>1, <1>4 DEF FinalizePayment, MayFinalize, IInv, TypeOK
<1>5. \/ UNCHANGED attempt
      \/ \E r \in Requests : ClaimAttempt(r) \/ PersistOutcome(r) \/ FinalizePayment(r)
  BY DEF Next, vars, CreateOrder, PassDeadline, CancelOrder, ExpireOrder, CloseOrder,
     BeginPayment, LookupAttempt, ResolveOutcome, AbandonFinalization, CrashRequest
<1> QED BY <1>2, <1>3, <1>4, <1>5

(* A known success of the provider is kept until it is finalized, and a    *)
(* settled attempt keeps its status whatever answers arrive late.          *)
THEOREM SuccessKept == Spec => SettledAttemptsKept
<1>1. IInv /\ [Next]_vars =>
        [\A o \in Orders, k \in Keys :
           /\ attempt[o][k] = "provider_succeeded" =>
                attempt'[o][k] \in {"provider_succeeded", "succeeded"}
           /\ attempt[o][k] \in {"failed", "succeeded"} =>
                attempt'[o][k] = attempt[o][k]]_vars
  BY AttemptsKept
<1> QED BY <1>1, Invariance, PTL DEF Spec, SettledAttemptsKept

-----------------------------------------------------------------------------
(* The sweep that expires Orders.  ReleasedOnce is not inductive: a        *)
(* sweeper keeps an Order open only by the lock it holds, and so does a    *)
(* user; HeldOpen adds the holders.                                        *)
\* Whoever holds an Order finds it open.
HeldOpen ==
  /\ \A w \in Sweepers : sweeper[w].stage = "decide" =>
       sweeper[w].cursor \in open /\ holder[sweeper[w].cursor] = w
  /\ \A i \in OrderNumbers : holder[i] = User => i \in open

SweepInv == SweepTypeOK /\ HeldOpen /\ ReleasedOnce

LEMMA LocksApart == Nobody \notin Sweepers /\ User \notin Sweepers /\ Nobody # User
BY SweepAssumption DEF Nobody, User

LEMMA RestingIsNoSweep ==
  /\ Resting.stage = "resting"
  /\ \A s \in Sweeping : s # Resting /\ s.stage \in {"seek", "decide"}
BY DEF Sweeping, Resting

LEMMA SweepInitInvariant == ASSUME SweepInit PROVE SweepInv
BY SweepAssumption, LocksApart, RestingIsNoSweep DEF SweepInit, SweepInv, HeldOpen, SweepTypeOK,
   ReleasedOnce, OrderNumbers, Verdicts

LEMMA TickKeeps == ASSUME SweepInv, Tick PROVE SweepInv'
BY SweepAssumption DEF Tick, SweepInv, HeldOpen, SweepTypeOK, ReleasedOnce, OrderNumbers

LEMMA StartSweepKeeps ==
  ASSUME SweepInv, NEW w \in Sweepers, StartSweep(w)
  PROVE  SweepInv'
<1> DEFINE new == [stage |-> "seek", horizon |-> clock, cursor |-> 0, attempted |-> 0,
                   tried |-> {}]
<1>1. new \in Sweeping /\ new.stage = "seek"
  BY SweepAssumption DEF SweepInv, SweepTypeOK, Sweeping
<1>2. /\ sweeper' = [sweeper EXCEPT ![w] = new]
      /\ UNCHANGED <<clock, open, verdict, holder, userLocks, crashes, released>>
  BY DEF StartSweep
<1> HIDE DEF new
<1>3. SweepTypeOK'
  BY <1>1, <1>2 DEF SweepInv, SweepTypeOK
<1> QED BY <1>1, <1>2, <1>3 DEF SweepInv, SweepTypeOK, HeldOpen, ReleasedOnce

LEMMA EndSweepKeeps ==
  ASSUME SweepInv, NEW w \in Sweepers, EndSweep(w)
  PROVE  SweepInv'
<1>1. /\ sweeper' = [sweeper EXCEPT ![w] = Resting]
      /\ UNCHANGED <<clock, open, verdict, holder, userLocks, crashes, released>>
  BY DEF EndSweep
<1> QED BY <1>1, RestingIsNoSweep DEF SweepInv, SweepTypeOK, HeldOpen, ReleasedOnce

(* A crash gives up the locks of its sweeper only.                         *)
LEMMA CrashSweeperKeeps ==
  ASSUME SweepInv, NEW w \in Sweepers, CrashSweeper(w)
  PROVE  SweepInv'
<1>1. /\ sweeper' = [sweeper EXCEPT ![w] = Resting]
      /\ UNCHANGED <<clock, open, verdict, userLocks, released>>
      /\ holder' = [i \in OrderNumbers |-> IF holder[i] = w THEN Nobody ELSE holder[i]]
      /\ crashes < MaxCrashes /\ crashes' = crashes + 1
  BY DEF CrashSweeper
<1>2. SweepTypeOK'
  BY <1>1, SweepAssumption DEF SweepInv, SweepTypeOK
<1>3. HeldOpen'
  <2>1. ASSUME NEW v \in Sweepers, sweeper'[v].stage = "decide"
        PROVE  sweeper'[v].cursor \in open' /\ holder'[sweeper'[v].cursor] = v
    <3>1. v # w /\ sweeper'[v] = sweeper[v]
      BY <1>1, <2>1, RestingIsNoSweep DEF SweepInv, SweepTypeOK
    <3>2. sweeper[v].cursor \in open /\ holder[sweeper[v].cursor] = v
      BY <2>1, <3>1 DEF SweepInv, HeldOpen
    <3> QED BY <1>1, <3>1, <3>2 DEF SweepInv, SweepTypeOK
  <2>2. ASSUME NEW i \in OrderNumbers, holder'[i] = User PROVE i \in open'
    BY <1>1, <2>2, LocksApart DEF SweepInv, HeldOpen
  <2> QED BY <2>1, <2>2 DEF HeldOpen
<1>4. ReleasedOnce'
  BY <1>1, <1>3 DEF SweepInv, ReleasedOnce, HeldOpen
<1> QED BY <1>2, <1>3, <1>4 DEF SweepInv

(* The candidate a sweep locks is open and nobody else holds it.           *)
LEMMA Selected ==
  ASSUME SweepInv, NEW w \in Sweepers, NEW i \in OrderNumbers, SelectCandidate(w, i)
  PROVE  i \in Candidates(w) /\ sweeper[w] \in Sweeping /\ sweeper[w].stage = "seek"
         /\ sweeper[w].attempted < BatchSize
<1>1. Candidates(w) \subseteq Nat /\ Candidates(w) # {}
  <2>1. \A j \in OrderNumbers : j \in Nat
    BY DEF OrderNumbers
  <2> QED BY <2>1 DEF SelectCandidate, Candidates, SweepInv, SweepTypeOK
<1>2. PICK m \in Candidates(w) : \A y \in Candidates(w) : m <= y
  BY <1>1, HasMin
<1>3. Min(Candidates(w)) \in Candidates(w)
  BY <1>2 DEF Min
<1>4. sweeper[w] \in Sweeping /\ sweeper[w].stage = "seek" /\ sweeper[w].attempted < BatchSize
  BY RestingIsNoSweep DEF SelectCandidate, MaySeek, SweepInv, SweepTypeOK
<1> QED BY <1>3, <1>4 DEF SelectCandidate

LEMMA SelectCandidateKeeps ==
  ASSUME SweepInv, NEW w \in Sweepers, NEW i \in OrderNumbers, SelectCandidate(w, i)
  PROVE  SweepInv'
<1>1. sweeper[w] \in Sweeping /\ sweeper[w].stage = "seek" /\ sweeper[w].attempted < BatchSize
  BY Selected
<1>2. i \in open /\ holder[i] = Nobody
  BY Selected DEF Candidates
<1> DEFINE new == [stage |-> "decide", horizon |-> sweeper[w].horizon, cursor |-> i,
                   attempted |-> sweeper[w].attempted + 1, tried |-> sweeper[w].tried \cup {i}]
<1>3. new \in Sweeping /\ new.stage = "decide" /\ new.cursor = i
  <2>1. /\ sweeper[w].horizon \in 0 .. LastOrder /\ sweeper[w].attempted \in 0 .. BatchSize
        /\ sweeper[w].tried \subseteq OrderNumbers
    BY <1>1 DEF Sweeping
  <2>2. sweeper[w].attempted + 1 \in 0 .. BatchSize /\ i \in 0 .. LastOrder
    BY <1>1, <2>1, SweepAssumption DEF OrderNumbers
  <2>3. sweeper[w].tried \cup {i} \in SUBSET OrderNumbers
    BY <2>1
  <2> QED BY <2>1, <2>2, <2>3 DEF Sweeping
<1>4. sweeper' = [sweeper EXCEPT ![w] = new]
  BY DEF SelectCandidate
<1>5. /\ holder' = [holder EXCEPT ![i] = w]
      /\ UNCHANGED <<clock, open, verdict, userLocks, crashes, released>>
  BY DEF SelectCandidate
<1> HIDE DEF new
<1>6. SweepTypeOK'
  BY <1>3, <1>4, <1>5 DEF SweepInv, SweepTypeOK
<1>7. HeldOpen'
  <2>1. ASSUME NEW v \in Sweepers, sweeper'[v].stage = "decide"
        PROVE  sweeper'[v].cursor \in open' /\ holder'[sweeper'[v].cursor] = v
    <3>1. CASE v = w
      BY <1>2, <1>3, <1>4, <1>5, <3>1 DEF SweepInv, SweepTypeOK
    <3>2. CASE v # w
      <4>1. sweeper'[v] = sweeper[v]
        BY <1>4, <3>2 DEF SweepInv, SweepTypeOK
      <4>2. sweeper[v].cursor \in open /\ holder[sweeper[v].cursor] = v
        BY <2>1, <4>1 DEF SweepInv, HeldOpen
      <4>3. sweeper[v].cursor # i
        BY <1>2, <4>2, LocksApart
      <4> QED BY <1>5, <4>1, <4>2, <4>3 DEF SweepInv, SweepTypeOK
    <3> QED BY <3>1, <3>2
  <2>2. ASSUME NEW j \in OrderNumbers, holder'[j] = User PROVE j \in open'
    BY <1>2, <1>5, <2>2, LocksApart DEF SweepInv, HeldOpen, SweepTypeOK
  <2> QED BY <2>1, <2>2 DEF HeldOpen
<1>8. ReleasedOnce'
  BY <1>5, <1>7 DEF SweepInv, ReleasedOnce, HeldOpen
<1> QED BY <1>6, <1>7, <1>8 DEF SweepInv

(* An Order is closed by who holds it.                                     *)
LEMMA DecideCandidateKeeps ==
  ASSUME SweepInv, NEW w \in Sweepers, NEW i \in OrderNumbers, DecideCandidate(w, i)
  PROVE  SweepInv'
<1>1. sweeper[w] \in Sweeping /\ sweeper[w].stage = "decide" /\ sweeper[w].cursor = i
  BY RestingIsNoSweep DEF DecideCandidate, SweepInv, SweepTypeOK
<1>2. i \in open /\ holder[i] = w
  BY <1>1 DEF SweepInv, HeldOpen
<1>3. /\ sweeper' = [sweeper EXCEPT ![w].stage = "seek"]
      /\ holder' = [holder EXCEPT ![i] = Nobody]
      /\ UNCHANGED <<clock, verdict, userLocks, crashes>>
      /\ \/ open' = open \ {i} /\ released' = [released EXCEPT ![i] = @ + 1]
         \/ UNCHANGED <<open, released>>
  BY DEF DecideCandidate
<1>4. [sweeper[w] EXCEPT !.stage = "seek"] \in Sweeping
  BY <1>1 DEF Sweeping
<1>5. SweepTypeOK'
  BY <1>3, <1>4 DEF SweepInv, SweepTypeOK
<1>6. HeldOpen'
  <2>1. ASSUME NEW v \in Sweepers, sweeper'[v].stage = "decide"
        PROVE  sweeper'[v].cursor \in open' /\ holder'[sweeper'[v].cursor] = v
    <3>1. v # w /\ sweeper'[v] = sweeper[v]
      BY <1>1, <1>3, <2>1 DEF SweepInv, SweepTypeOK
    <3>2. sweeper[v].cursor \in open /\ holder[sweeper[v].cursor] = v
      BY <2>1, <3>1 DEF SweepInv, HeldOpen
    <3>3. sweeper[v].cursor # i
      BY <1>2, <3>1, <3>2
    <3> QED BY <1>3, <3>1, <3>2, <3>3 DEF SweepInv, SweepTypeOK
  <2>2. ASSUME NEW j \in OrderNumbers, holder'[j] = User PROVE j \in open'
    BY <1>2, <1>3, <2>2, LocksApart DEF SweepInv, HeldOpen, SweepTypeOK
  <2> QED BY <2>1, <2>2 DEF HeldOpen
<1>7. ReleasedOnce'
  <2>1. \A j \in OrderNumbers : released'[j] <= (IF j \in open' THEN 0 ELSE 1)
    BY <1>2, <1>3 DEF SweepInv, SweepTypeOK, ReleasedOnce
  <2> QED BY <1>6, <2>1 DEF ReleasedOnce, HeldOpen
<1> QED BY <1>5, <1>6, <1>7 DEF SweepInv

(* The transactions of users.                                              *)
LEMMA UserLocksKeeps ==
  ASSUME SweepInv, NEW i \in OrderNumbers, UserLocks(i)
  PROVE  SweepInv'
<1>1. /\ i \in open /\ holder[i] = Nobody
      /\ userLocks < MaxUserLocks /\ userLocks' = userLocks + 1
      /\ holder' = [holder EXCEPT ![i] = User]
      /\ UNCHANGED <<clock, open, verdict, sweeper, crashes, released>>
  BY DEF UserLocks
<1>2. SweepTypeOK'
  BY <1>1, SweepAssumption DEF SweepInv, SweepTypeOK
<1>3. HeldOpen'
  BY <1>1, LocksApart DEF SweepInv, HeldOpen, SweepTypeOK
<1> QED BY <1>1, <1>2, <1>3 DEF SweepInv, ReleasedOnce

LEMMA UserCommitsKeeps ==
  ASSUME SweepInv, NEW i \in OrderNumbers, UserCommits(i)
  PROVE  SweepInv'
<1>1. /\ holder[i] = User /\ i \in open
      /\ holder' = [holder EXCEPT ![i] = Nobody]
      /\ UNCHANGED <<clock, sweeper, userLocks, crashes>>
      /\ \/ /\ open' = open \ {i}
            /\ released' = [released EXCEPT ![i] = @ + 1] \/ UNCHANGED released
         \/ UNCHANGED <<open, released>>
      /\ \/ UNCHANGED verdict
         \/ verdict' = [verdict EXCEPT ![i] = "allow"]
         \/ verdict' = [verdict EXCEPT ![i] = "defer"]
  BY DEF UserCommits, SweepInv, HeldOpen
<1>2. SweepTypeOK'
  BY <1>1 DEF SweepInv, SweepTypeOK, Verdicts
<1>3. HeldOpen'
  <2>1. ASSUME NEW v \in Sweepers, sweeper'[v].stage = "decide"
        PROVE  sweeper'[v].cursor \in open' /\ holder'[sweeper'[v].cursor] = v
    <3>1. sweeper[v].cursor \in open /\ holder[sweeper[v].cursor] = v
      BY <1>1, <2>1 DEF SweepInv, HeldOpen
    <3>2. sweeper[v].cursor # i
      BY <1>1, <3>1, LocksApart
    <3> QED BY <1>1, <3>1, <3>2 DEF SweepInv, SweepTypeOK
  <2>2. ASSUME NEW j \in OrderNumbers, holder'[j] = User PROVE j \in open'
    BY <1>1, <2>2, LocksApart DEF SweepInv, HeldOpen, SweepTypeOK
  <2> QED BY <2>1, <2>2 DEF HeldOpen
<1>4. \A j \in OrderNumbers : released'[j] <= (IF j \in open' THEN 0 ELSE 1)
  BY <1>1 DEF SweepInv, SweepTypeOK, ReleasedOnce
<1> QED BY <1>2, <1>3, <1>4 DEF SweepInv, ReleasedOnce, HeldOpen

LEMMA SweepNextKeeps ==
  ASSUME SweepInv, [SweepNext]_sweepVars
  PROVE  SweepInv'
<1>1. CASE UNCHANGED sweepVars
  BY <1>1 DEF sweepVars, SweepInv, SweepTypeOK, HeldOpen, ReleasedOnce
<1>2. CASE SweepNext
  BY <1>2, TickKeeps, StartSweepKeeps, EndSweepKeeps, SelectCandidateKeeps, DecideCandidateKeeps,
     CrashSweeperKeeps, UserLocksKeeps, UserCommitsKeeps DEF SweepNext
<1> QED BY <1>1, <1>2

LEMMA SweepInvariance == SweepSpec => []SweepInv
BY SweepInitInvariant, SweepNextKeeps, PTL DEF SweepSpec

(* Whatever sweepers and users do at the same time, and whenever sweepers  *)
(* crash: the reservations of an Order are released at most once, only     *)
(* when it is closed, and a sweeper about to decide on an Order finds it   *)
(* still open.                                                             *)
THEOREM ReservationsReleasedOnce == SweepSpec => []ReleasedOnce
<1>1. SweepInv => ReleasedOnce
  BY DEF SweepInv
<1> QED BY <1>1, SweepInvariance, PTL

\* The cursor of a sweep has passed all its candidates.
TriedCounted ==
  \A w \in Sweepers : sweeper[w] # Resting =>
    /\ sweeper[w].tried \subseteq 1 .. sweeper[w].cursor
    /\ sweeper[w].attempted = Cardinality(sweeper[w].tried)

LEMMA CandidateCounted ==
  ASSUME SweepInv, TriedCounted, NEW w \in Sweepers, NEW i \in OrderNumbers,
         SelectCandidate(w, i)
  PROVE  TriedCounted'
<1>1. /\ sweeper[w] \in Sweeping /\ sweeper[w] # Resting
      /\ i \in Candidates(w)
  BY Selected, RestingIsNoSweep
<1> DEFINE tried == sweeper[w].tried
<1>2. /\ tried \subseteq OrderNumbers /\ tried \subseteq 1 .. sweeper[w].cursor
      /\ sweeper[w].attempted = Cardinality(tried)
      /\ i \in Nat /\ i > sweeper[w].cursor /\ sweeper[w].cursor \in Nat
  BY <1>1 DEF TriedCounted, Sweeping, Candidates, OrderNumbers
<1>3. IsFiniteSet(tried)
  <2>1. IsFiniteSet(OrderNumbers)
    BY SweepAssumption, FS_Interval DEF OrderNumbers
  <2> QED BY <1>2, <2>1, FS_Subset
<1>4. i \notin tried /\ tried \cup {i} \subseteq 1 .. i
  BY <1>2
<1>5. Cardinality(tried \cup {i}) = Cardinality(tried) + 1
  <2> HIDE DEF tried
  <2> QED BY <1>3, <1>4, FS_AddElement
<1>6. sweeper' = [sweeper EXCEPT ![w] =
        [stage |-> "decide", horizon |-> sweeper[w].horizon, cursor |-> i,
         attempted |-> sweeper[w].attempted + 1, tried |-> tried \cup {i}]]
  BY DEF SelectCandidate
<1> HIDE DEF tried
<1>7. ASSUME NEW v \in Sweepers, sweeper'[v] # Resting
      PROVE  /\ sweeper'[v].tried \subseteq 1 .. sweeper'[v].cursor
             /\ sweeper'[v].attempted = Cardinality(sweeper'[v].tried)
  <2>1. CASE v = w
    BY <1>2, <1>4, <1>5, <1>6, <2>1 DEF SweepInv, SweepTypeOK
  <2>2. CASE v # w
    BY <1>6, <1>7, <2>2 DEF SweepInv, SweepTypeOK, TriedCounted
  <2> QED BY <2>1, <2>2
<1> QED BY <1>7 DEF TriedCounted

LEMMA TriedKept ==
  ASSUME SweepInv, TriedCounted, [SweepNext]_sweepVars
  PROVE  TriedCounted'
<1>1. ASSUME NEW w \in Sweepers, StartSweep(w)
      PROVE  TriedCounted'
  <2>1. Cardinality({}) = 0
    BY FS_EmptySet
  <2> QED BY <1>1, <2>1 DEF StartSweep, TriedCounted, SweepInv, SweepTypeOK
<1>2. ASSUME NEW w \in Sweepers, EndSweep(w) \/ CrashSweeper(w)
      PROVE  TriedCounted'
  BY <1>2 DEF EndSweep, CrashSweeper, TriedCounted, SweepInv, SweepTypeOK
<1>3. ASSUME NEW w \in Sweepers, NEW i \in OrderNumbers, DecideCandidate(w, i)
      PROVE  TriedCounted'
  <2>1. sweeper[w] \in Sweeping /\ sweeper[w] # Resting
    BY <1>3, RestingIsNoSweep DEF DecideCandidate, SweepInv, SweepTypeOK
  <2>2. sweeper' = [sweeper EXCEPT ![w].stage = "seek"]
    BY <1>3 DEF DecideCandidate
  <2>3. /\ sweeper'[w].tried = sweeper[w].tried /\ sweeper'[w].cursor = sweeper[w].cursor
        /\ sweeper'[w].attempted = sweeper[w].attempted
    BY <2>1, <2>2 DEF SweepInv, SweepTypeOK, Sweeping
  <2>4. \A v \in Sweepers : v # w => sweeper'[v] = sweeper[v]
    BY <2>2 DEF SweepInv, SweepTypeOK
  <2> QED BY <2>1, <2>3, <2>4 DEF TriedCounted
<1>4. ASSUME UNCHANGED sweeper
      PROVE  TriedCounted'
  BY <1>4 DEF TriedCounted
<1> QED BY <1>1, <1>2, <1>3, <1>4, CandidateCounted DEF SweepNext, sweepVars, Tick, UserLocks,
           UserCommits

(* A sweep attempts each Order at most once: it counts as many attempts as *)
(* there are Orders it has tried, so that deferred and broken ones cannot  *)
(* use up its batch again and again.                                       *)
THEOREM SweepAdvances == SweepSpec => []AttemptedOncePerSweep
<1>1. SweepInit => TriedCounted
  BY DEF SweepInit, TriedCounted
<1>2. TriedCounted => AttemptedOncePerSweep
  BY DEF TriedCounted, AttemptedOncePerSweep
<1> QED BY <1>1, <1>2, TriedKept, SweepInvariance, PTL DEF SweepSpec
=============================================================================
