--------------------------- MODULE PendingAction ---------------------------
(***************************************************************************)
(* The actions an agent proposes and a human decides on: to put units of a *)
(* SKU into the cart, or to save a preference.  Each operation locks the   *)
(* row of its action with its first statement and commits before it        *)
(* answers, so an operation is one step; what interleaves are the          *)
(* confirmations, cancellations and views of several clients, the deadline *)
(* of the action, changes of the catalog, and retries of a request whose   *)
(* answer was lost.                                                        *)
(*                                                                         *)
(* The value of an action is the quantity, or the preference, a user       *)
(* confirms.  Requests are equal when their hashes are: same transition,   *)
(* same edits; the expected version is no part of the hash.  All additions *)
(* are for one SKU, whose cart item other requests do not touch (Checkout  *)
(* models those).                                                          *)
(***************************************************************************)
EXTENDS Integers, FiniteSets, Functions

CONSTANTS
  Actions,      \* pending actions
  Values,       \* quantities and preferences a user may ask for, 1 .. n
  Offers,       \* bound of the model: units of the SKU that may be available
  MaxQuantity   \* MAX_CART_ITEM_QUANTITY

ASSUME QuantitiesAssumption ==
  Values \subseteq Nat \ {0} /\ Offers \subseteq Nat /\ MaxQuantity \in Nat

VARIABLES
  action,    \* the rows of pending_actions
  overdue,   \* actions whose expires_at has passed
  offer,     \* units of the SKU available, or Withdrawn
  inCart,    \* quantity of the SKU in the cart
  saved,     \* preferences saved: by which action, with which value
  replies    \* history: the recorded results and conflicts requests were told

vars == <<action, overdue, offer, inCart, saved, replies>>

-----------------------------------------------------------------------------
Withdrawn == -1
Kinds == {"add_to_cart", "save_preference"}
Terminal == {"confirmed", "cancelled", "expired", "failed"}

\* A request names its transition and the edit it makes, 0 for none.
Requests == [transition : {"confirm"}, edit : {0} \cup Values]
              \cup [transition : {"cancel"}, edit : {0}]
NoRequest == [transition |-> "none", edit |-> 0]

Results == [status : Terminal, value : Values]
NoResult == [status |-> "none", value |-> 0]
Conflict == [status |-> "conflict", value |-> 0]

Rows == [status : {"pending"} \cup Terminal, kind : Kinds, version : 1 .. 2,
         value : Values, result : Results \cup {NoResult},
         hash : Requests \cup {NoRequest}]
Absent == [status |-> "absent", kind |-> "none", version |-> 0, value |-> 0,
           result |-> NoResult, hash |-> NoRequest]

Reply(a, request, result) ==
  replies' = replies \cup {[action |-> a, request |-> request, result |-> result]}

Init ==
  /\ action = [a \in Actions |-> Absent]
  /\ overdue = {}
  /\ offer \in Offers
  /\ inCart = 0
  /\ saved = {}
  /\ replies = {}

-----------------------------------------------------------------------------
(* Proposals.                                                              *)

\* An agent, a browse page or a legacy intent proposes what is on sale.
PrepareAddToCart(a, value) ==
  /\ action[a] = Absent
  /\ value <= offer
  /\ action' = [action EXCEPT ![a] =
       [status |-> "pending", kind |-> "add_to_cart", version |-> 1, value |-> value,
        result |-> NoResult, hash |-> NoRequest]]
  /\ UNCHANGED <<overdue, offer, inCart, saved, replies>>

PrepareSavePreference(a, value) ==
  /\ action[a] = Absent
  /\ action' = [action EXCEPT ![a] =
       [status |-> "pending", kind |-> "save_preference", version |-> 1,
        value |-> value, result |-> NoResult, hash |-> NoRequest]]
  /\ UNCHANGED <<overdue, offer, inCart, saved, replies>>

-----------------------------------------------------------------------------
(* The end of an action: its status, its record and the request it answers *)
(* are written once, with the next version.                                *)

MarkTerminal(a, status, value, request) ==
  action' = [action EXCEPT ![a].status = status,
                           ![a].version = @ + 1,
                           ![a].result = [status |-> status, value |-> value],
                           ![a].hash = request]

\* Faulty: a request that repeats the transition is not recognised.
SameEditOnly(a, request) == action[a].hash = request /\ request.edit # 0

\* The stored hash is that of the request.
Resolved(a, request) == action[a].hash = request

\* An action that is resolved answers the request that resolved it from its
\* record, and every other one with a conflict.
ReplayOrConflict(a, request) ==
  /\ action[a].status \in Terminal
  /\ Reply(a, request, IF Resolved(a, request) THEN action[a].result ELSE Conflict)
  /\ UNCHANGED <<action, overdue, offer, inCart, saved>>

\* An error that ends the action, committed like a success.
TerminalError(a, request, status) ==
  /\ MarkTerminal(a, status, action[a].value, request)
  /\ Reply(a, request, action'[a].result)
  /\ UNCHANGED <<overdue, offer, inCart, saved>>

\* Faulty: an action that was resolved may be resolved again.
NotCancelled(a) == action[a].status \in {"pending", "confirmed"}

IsPending(a) == action[a].status = "pending"

\* The version the client holds is current and the deadline has not passed.
MayResolve(a, version) == IsPending(a) /\ action[a].version = version /\ a \notin overdue

ExpireOnRequest(a, request, version) ==
  /\ IsPending(a) /\ action[a].version = version /\ a \in overdue
  /\ TerminalError(a, request, "expired")

-----------------------------------------------------------------------------
(* Confirmation and cancellation.                                          *)

\* The quantity or preference a confirmation is about.
ConfirmedValue(a, request) ==
  IF request.edit = 0 THEN action[a].value ELSE request.edit

\* The endpoint for additions ends an action of another kind.
ConfirmWrongKind(a, request) ==
  /\ IsPending(a) /\ action[a].kind # "add_to_cart"
  /\ TerminalError(a, request, "failed")

ConfirmWithdrawn(a, request, version) ==
  /\ MayResolve(a, version) /\ action[a].kind = "add_to_cart"
  /\ offer = Withdrawn
  /\ TerminalError(a, request, "failed")

FitsCart(value) == inCart + value <= MaxQuantity /\ inCart + value <= offer

\* The units are merged into the cart item.  The edited quantity is put into
\* the dictionary the session already holds, and the same dictionary is
\* assigned to the column: nothing has changed for the session, and the value
\* stored with the row stays what it was.
ConfirmAddToCart(a, request, version) ==
  LET value == ConfirmedValue(a, request) IN
  /\ MayResolve(a, version) /\ action[a].kind = "add_to_cart"
  /\ FitsCart(value)
  /\ inCart' = inCart + value
  /\ MarkTerminal(a, "confirmed", value, request)
  /\ Reply(a, request, action'[a].result)
  /\ UNCHANGED <<overdue, offer, saved>>

\* A new payload replaces the stored one.
ConfirmSavePreference(a, request, version) ==
  LET value == ConfirmedValue(a, request) IN
  /\ MayResolve(a, version) /\ action[a].kind = "save_preference"
  /\ saved' = saved \cup {[by |-> a, value |-> value, times |->
                             Cardinality({s \in saved : s.by = a}) + 1]}
  /\ action' = [action EXCEPT ![a].status = "confirmed",
                              ![a].version = @ + 1,
                              ![a].value = value,
                              ![a].result = [status |-> "confirmed", value |-> value],
                              ![a].hash = request]
  /\ Reply(a, request, action'[a].result)
  /\ UNCHANGED <<overdue, offer, inCart>>

CancelPendingAction(a, request, version) ==
  /\ MayResolve(a, version)
  /\ MarkTerminal(a, "cancelled", action[a].value, request)
  /\ Reply(a, request, action'[a].result)
  /\ UNCHANGED <<overdue, offer, inCart, saved>>

\* The three transitions; a request that is rejected otherwise (a stale
\* version, limits exceeded) rolls back and changes nothing.
AddToCartEndpoint(a, request, version) ==
  /\ request.transition = "confirm"
  /\ \/ ReplayOrConflict(a, request)
     \/ ConfirmWrongKind(a, request)
     \/ action[a].kind = "add_to_cart" /\ ExpireOnRequest(a, request, version)
     \/ ConfirmWithdrawn(a, request, version)
     \/ ConfirmAddToCart(a, request, version)

SavePreferenceTool(a, request, version) ==
  /\ request.transition = "confirm"
  /\ \/ ReplayOrConflict(a, request)
     \/ IsPending(a) /\ action[a].kind # "save_preference"
          /\ TerminalError(a, request, "failed")
     \/ action[a].kind = "save_preference" /\ ExpireOnRequest(a, request, version)
     \/ ConfirmSavePreference(a, request, version)

CancelEndpoint(a, request, version) ==
  /\ request.transition = "cancel"
  /\ \/ ReplayOrConflict(a, request)
     \/ ExpireOnRequest(a, request, version)
     \/ CancelPendingAction(a, request, version)

\* Reading an action expires it when its deadline has passed; no request is
\* answered by that resolution.
GetPendingAction(a) ==
  /\ IsPending(a) /\ a \in overdue
  /\ MarkTerminal(a, "expired", action[a].value, NoRequest)
  /\ UNCHANGED <<overdue, offer, inCart, saved, replies>>

-----------------------------------------------------------------------------
(* The outside world.                                                      *)

PassDeadline(a) ==
  /\ action[a] # Absent /\ a \notin overdue
  /\ overdue' = overdue \cup {a}
  /\ UNCHANGED <<action, offer, inCart, saved, replies>>

ChangeOffer(units) ==
  /\ offer' = units
  /\ UNCHANGED <<action, overdue, inCart, saved, replies>>

Next ==
  \/ \E a \in Actions :
       \/ \E v \in Values : PrepareAddToCart(a, v) \/ PrepareSavePreference(a, v)
       \/ \E request \in Requests, version \in 1 .. 2 :
            \/ AddToCartEndpoint(a, request, version)
            \/ SavePreferenceTool(a, request, version)
            \/ CancelEndpoint(a, request, version)
       \/ GetPendingAction(a)
       \/ PassDeadline(a)
  \/ \E units \in {Withdrawn} \cup Offers : ChangeOffer(units)

Spec == Init /\ [][Next]_vars

-----------------------------------------------------------------------------
(* Correctness.                                                            *)

TypeOK ==
  /\ action \in [Actions -> Rows \cup {Absent}]
  /\ overdue \subseteq Actions
  /\ offer \in {Withdrawn} \cup Offers
  /\ inCart \in 0 .. MaxQuantity
  /\ \A s \in saved : s.by \in Actions /\ s.value \in Values
  /\ \A r \in replies : /\ r.action \in Actions
                        /\ r.request \in Requests
                        /\ r.result \in Results \cup {Conflict}

Confirmed(kind) ==
  {a \in Actions : action[a].kind = kind /\ action[a].status = "confirmed"}

\* The cart and the preferences hold what the records of the confirmed actions
\* say, each once: however often a confirmation is retried, edited or raced by
\* another one (confirm_add_to_cart, confirm_save_preference).
EffectsMatchRecords ==
  /\ inCart = SumFunctionOnSet([a \in Actions |-> action[a].result.value],
                               Confirmed("add_to_cart"))
  /\ saved = {[by |-> a, value |-> action[a].result.value, times |-> 1] :
                a \in Confirmed("save_preference")}

\* Whoever was told a result of an action was told the recorded one, and a
\* request that was told a result is never told of a conflict, nor the other
\* way round (_replay_or_conflict).
AnswersAgree ==
  \A x, y \in replies :
    x.action = y.action =>
      /\ x.result # Conflict => x.result = action[x.action].result
      /\ x.request = y.request => x.result = y.result

\* A resolved action is never written again, by its own retries, by the other
\* transitions or by its expiry (docs/phase2a_backend_implementation_report.md:9).
ResolvedOnce ==
  [][\A a \in Actions : action[a].status \in Terminal => action'[a] = action[a]]_vars

\* A confirmed action shows the quantity or preference that was confirmed: the
\* value "denotes the current request"
\* (docs/phase2a_backend_implementation_report.md:12).
ConfirmedValueShown ==
  \A a \in Actions :
    action[a].status = "confirmed" => action[a].value = action[a].result.value
=============================================================================
