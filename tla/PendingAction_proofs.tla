------------------------ MODULE PendingAction_proofs ------------------------
(***************************************************************************)
(* What PendingAction guarantees for every set of actions, values and      *)
(* offers: whoever asks again hears the recorded answer.                   *)
(***************************************************************************)
EXTENDS PendingAction, Totals, TLAPS

\* Every reply is explained by the row of its action as it is now: the record
\* for the request it answers, a conflict for the others.
RepliesExplained ==
  \A x \in replies :
    /\ action[x.action].status \in Terminal
    /\ x.result = IF action[x.action].hash = x.request THEN action[x.action].result
                  ELSE Conflict

\* A pending action has its first version, a resolved one a result.
RowsGrounded ==
  \A a \in Actions :
    /\ action[a].status = "pending" => action[a].version = 1
    /\ action[a].status \in Terminal => action[a].result \in Results

IInv == TypeOK /\ RowsGrounded /\ RepliesExplained

USE DEF Terminal, Kinds, Withdrawn

-----------------------------------------------------------------------------
(* Initially nothing is proposed.                                          *)
LEMMA InitInvariant == Init => IInv
BY QuantitiesAssumption DEF Init, IInv, TypeOK, RowsGrounded, RepliesExplained, Absent

(* A row that is there has the columns of the table.                       *)
LEMMA RowType ==
  ASSUME TypeOK, NEW a \in Actions, action[a].status # "absent"
  PROVE  action[a] \in Rows
BY DEF TypeOK, Absent

(* A request has a transition, so that it is not NoRequest.                *)
LEMMA RequestsAreNamed == NoRequest \notin Requests
BY DEF NoRequest, Requests

(* A proposal creates a row nobody has been told of.                       *)
LEMMA PrepareInvariant ==
  ASSUME IInv, NEW a \in Actions, action[a] = Absent,
         NEW row \in Rows, row.status = "pending", row.version = 1,
         action' = [action EXCEPT ![a] = row],
         UNCHANGED <<overdue, offer, inCart, saved, replies>>
  PROVE  IInv'
<1>1. TypeOK'
  BY DEF IInv, TypeOK
<1>2. RowsGrounded'
  BY DEF IInv, TypeOK, RowsGrounded
<1>3. RepliesExplained'
  <2>1. \A x \in replies : x.action # a
    BY DEF IInv, RepliesExplained, Absent
  <2> QED BY <2>1 DEF IInv, TypeOK, RepliesExplained
<1> QED BY <1>1, <1>2, <1>3 DEF IInv

(* A resolution replaces a pending row by a terminal one and tells its     *)
(* result to the request whose hash it stores, if there is one.            *)
LEMMA ResolveInvariant ==
  ASSUME IInv, NEW a \in Actions, action[a].status = "pending",
         NEW row \in Rows, row.status \in Terminal, row.result \in Results,
         action' = [action EXCEPT ![a] = row],
         \/ replies' = replies
         \/ /\ row.hash \in Requests
            /\ replies' = replies \cup {[action |-> a, request |-> row.hash, result |-> row.result]},
         UNCHANGED <<overdue, offer>>, inCart' \in 0 .. MaxQuantity,
         \A s \in saved' : s.by \in Actions /\ s.value \in Values
  PROVE  IInv'
<1>1. TypeOK'
  BY DEF IInv, TypeOK
<1>2. RowsGrounded'
  BY DEF IInv, TypeOK, RowsGrounded
<1>3. RepliesExplained'
  <2>1. \A x \in replies : x.action # a /\ x.action \in Actions
    BY DEF IInv, TypeOK, RepliesExplained
  <2>2. action'[a] = row /\ \A x \in replies : action'[x.action] = action[x.action]
    BY <2>1 DEF IInv, TypeOK
  <2> QED BY <2>2 DEF IInv, RepliesExplained
<1> QED BY <1>1, <1>2, <1>3 DEF IInv

(* The columns of the table.                                               *)
Hashes == Requests \cup {NoRequest}
ResultColumn == Results \cup {NoResult}

LEMMA Columns ==
  Rows = [status : {"pending"} \cup Terminal, kind : Kinds, version : {1, 2}, value : Values,
          result : ResultColumn, hash : Hashes]
<1>1. 1 .. 2 = {1, 2}
  OBVIOUS
<1> QED BY <1>1 DEF Rows, Hashes, ResultColumn

(* A first row with its status, result and hash replaced is such a row,    *)
(* also with another value.                                                *)
Kept(q, status, result, hash) ==
  [q EXCEPT !.status = status, !.version = 2, !.result = result, !.hash = hash]
Edited(q, status, value, result, hash) ==
  [q EXCEPT !.status = status, !.version = 2, !.value = value, !.result = result, !.hash = hash]

LEMMA ResolvedRow ==
  ASSUME NEW q \in Rows, NEW status \in Terminal, NEW value \in Values,
         NEW result \in Results, NEW hash \in Hashes
  PROVE  LET kept == Kept(q, status, result, hash)
             edited == Edited(q, status, value, result, hash)
         IN  /\ kept \in Rows /\ kept.status = status /\ kept.result = result /\ kept.hash = hash
             /\ edited \in Rows /\ edited.status = status /\ edited.result = result
             /\ edited.hash = hash
<1>1. result \in ResultColumn
  BY DEF ResultColumn
<1> QED BY <1>1, Columns DEF Kept, Edited

(* What MarkTerminal writes is such a row.                                 *)
LEMMA MarkTerminalRow ==
  ASSUME IInv, NEW a \in Actions, IsPending(a),
         NEW status \in Terminal, NEW value \in Values,
         NEW request \in Hashes, MarkTerminal(a, status, value, request)
  PROVE  \E row \in Rows : /\ row.status \in Terminal /\ row.result \in Results
                           /\ row.hash = request
                           /\ action' = [action EXCEPT ![a] = row]
                           /\ action'[a].result = row.result
<1> DEFINE result == [status |-> status, value |-> value]
           row == Kept(action[a], status, result, request)
<1>1. action[a] \in Rows /\ action[a].version = 1
  BY RowType DEF IInv, IsPending, RowsGrounded
<1>2. result \in Results
  BY DEF Results
<1>3. row \in Rows /\ row.status \in Terminal /\ row.result \in Results /\ row.hash = request
  BY <1>1, <1>2, ResolvedRow
<1>4. action' = [action EXCEPT ![a] = row]
  <2>1. action' = [action EXCEPT ![a] = [action[a] EXCEPT !.status = status,
                                           !.version = action[a].version + 1,
                                           !.result = result, !.hash = request]]
    BY DEF MarkTerminal
  <2>2. action[a].version + 1 = 2
    BY <1>1
  <2> QED BY <2>1, <2>2 DEF Kept
<1>5. action'[a].result = row.result
  BY <1>4 DEF IInv, TypeOK
<1> QED BY <1>3, <1>4, <1>5

(* A transition that ends the action without an effect.                    *)
LEMMA TerminalErrorInvariant ==
  ASSUME IInv, NEW a \in Actions, IsPending(a), NEW request \in Requests,
         NEW status \in Terminal, TerminalError(a, request, status)
  PROVE  IInv'
<1>1. action[a].value \in Values
  BY RowType DEF IInv, IsPending, Rows
<1>2. PICK row \in Rows : /\ row.status \in Terminal /\ row.result \in Results
                          /\ row.hash = request
                          /\ action' = [action EXCEPT ![a] = row]
                          /\ action'[a].result = row.result
  BY <1>1, MarkTerminalRow DEF TerminalError, Hashes
<1>3. inCart' \in 0 .. MaxQuantity /\ \A s \in saved' : s.by \in Actions /\ s.value \in Values
  BY DEF TerminalError, IInv, TypeOK
<1> QED BY <1>2, <1>3, ResolveInvariant DEF TerminalError, Reply, IsPending

(* A repeated or a competing request is told what the row says.            *)
LEMMA ReplayInvariant ==
  ASSUME IInv, NEW a \in Actions, NEW request \in Requests, ReplayOrConflict(a, request)
  PROVE  IInv'
<1>1. action[a].result \in Results
  BY DEF IInv, RowsGrounded, ReplayOrConflict
<1> QED BY <1>1 DEF ReplayOrConflict, Reply, Resolved, IInv, TypeOK, RowsGrounded,
                    RepliesExplained

(* A confirmed addition or preference, or a cancellation.                  *)
LEMMA DecideInvariant ==
  ASSUME IInv, NEW a \in Actions, NEW request \in Requests, NEW version \in 1 .. 2,
         \/ ConfirmAddToCart(a, request, version)
         \/ ConfirmSavePreference(a, request, version)
         \/ CancelPendingAction(a, request, version)
  PROVE  IInv'
<1>1. IsPending(a) /\ action[a] \in Rows /\ action[a].version = 1
  BY RowType DEF ConfirmAddToCart, ConfirmSavePreference, CancelPendingAction, MayResolve,
                 IsPending, IInv, RowsGrounded
<1>2. action[a].value \in Values /\ ConfirmedValue(a, request) \in Values
  BY <1>1 DEF Rows, ConfirmedValue, Requests
<1>3. CASE ConfirmAddToCart(a, request, version)
  <2> DEFINE value == ConfirmedValue(a, request)
  <2>1. PICK row \in Rows : /\ row.status \in Terminal /\ row.result \in Results
                            /\ row.hash = request
                            /\ action' = [action EXCEPT ![a] = row]
                            /\ action'[a].result = row.result
    BY <1>1, <1>2, <1>3, MarkTerminalRow DEF ConfirmAddToCart, Hashes
  <2>2. inCart' \in 0 .. MaxQuantity
    <3>1. value \in Nat /\ inCart \in Nat
      <4>1. inCart \in 0 .. MaxQuantity
        BY DEF IInv, TypeOK
      <4>2. inCart \in Nat
        BY <4>1, QuantitiesAssumption
      <4>3. value \in Nat
        BY <1>2, QuantitiesAssumption
      <4> QED BY <4>2, <4>3
    <3>2. inCart' = inCart + value /\ inCart + value <= MaxQuantity
      BY <1>3 DEF ConfirmAddToCart, FitsCart
    <3> HIDE DEF value
    <3> QED BY <3>1, <3>2, QuantitiesAssumption
  <2>3. \A s \in saved' : s.by \in Actions /\ s.value \in Values
    BY <1>3 DEF ConfirmAddToCart, IInv, TypeOK
  <2> QED BY <1>1, <1>3, <2>1, <2>2, <2>3, ResolveInvariant DEF ConfirmAddToCart, Reply, IsPending
<1>4. CASE ConfirmSavePreference(a, request, version)
  <2> DEFINE value == ConfirmedValue(a, request)
             result == [status |-> "confirmed", value |-> value]
             row == Edited(action[a], "confirmed", value, result, request)
  <2>1. row \in Rows /\ row.status = "confirmed" /\ row.result \in Results /\ row.hash = request
    <3>1. result \in Results
      BY <1>2 DEF Results
    <3>2. request \in Hashes
      BY DEF Hashes
    <3> HIDE DEF result
    <3> QED BY <1>1, <1>2, <3>1, <3>2, ResolvedRow
  <2>2. action' = [action EXCEPT ![a] = row]
    <3>1. action' = [action EXCEPT ![a] = [action[a] EXCEPT !.status = "confirmed",
                                             !.version = action[a].version + 1, !.value = value,
                                             !.result = result, !.hash = request]]
      BY <1>4 DEF ConfirmSavePreference
    <3>2. action[a].version + 1 = 2
      BY <1>1
    <3> QED BY <3>1, <3>2 DEF Edited
  <2>3. action'[a].result = row.result
    BY <2>2 DEF IInv, TypeOK
  <2>4. inCart' \in 0 .. MaxQuantity /\ \A s \in saved' : s.by \in Actions /\ s.value \in Values
    BY <1>2, <1>4 DEF ConfirmSavePreference, IInv, TypeOK
  <2> HIDE DEF row
  <2> QED BY <1>1, <1>4, <2>1, <2>2, <2>3, <2>4, ResolveInvariant
          DEF ConfirmSavePreference, Reply, IsPending
<1>5. CASE CancelPendingAction(a, request, version)
  <2>1. PICK row \in Rows : /\ row.status \in Terminal /\ row.result \in Results
                            /\ row.hash = request
                            /\ action' = [action EXCEPT ![a] = row]
                            /\ action'[a].result = row.result
    BY <1>1, <1>2, <1>5, MarkTerminalRow DEF CancelPendingAction, Hashes
  <2>2. inCart' \in 0 .. MaxQuantity /\ \A s \in saved' : s.by \in Actions /\ s.value \in Values
    BY <1>5 DEF CancelPendingAction, IInv, TypeOK
  <2> QED BY <1>1, <1>5, <2>1, <2>2, ResolveInvariant DEF CancelPendingAction, Reply, IsPending
<1> QED BY <1>3, <1>4, <1>5

(* Every request keeps the invariant.                                      *)
LEMMA RequestInvariant ==
  ASSUME IInv, NEW a \in Actions, NEW request \in Requests, NEW version \in 1 .. 2,
         \/ AddToCartEndpoint(a, request, version)
         \/ SavePreferenceTool(a, request, version)
         \/ CancelEndpoint(a, request, version)
  PROVE  IInv'
<1>1. CASE ReplayOrConflict(a, request)
  BY <1>1, ReplayInvariant
<1>2. ASSUME NEW status \in Terminal, IsPending(a), TerminalError(a, request, status) PROVE IInv'
  BY <1>2, TerminalErrorInvariant
<1>3. CASE ConfirmWrongKind(a, request) \/ ExpireOnRequest(a, request, version)
             \/ ConfirmWithdrawn(a, request, version)
  BY <1>2, <1>3 DEF ConfirmWrongKind, ExpireOnRequest, ConfirmWithdrawn, MayResolve
<1> QED BY <1>1, <1>2, <1>3, DecideInvariant
        DEF AddToCartEndpoint, SavePreferenceTool, CancelEndpoint

(* A view that finds the deadline passed ends the action.                  *)
LEMMA ViewInvariant ==
  ASSUME IInv, NEW a \in Actions, GetPendingAction(a)
  PROVE  IInv'
<1>1. IsPending(a) /\ action[a].value \in Values
  BY RowType DEF GetPendingAction, IInv, IsPending, Rows
<1>2. PICK row \in Rows : /\ row.status \in Terminal /\ row.result \in Results
                          /\ row.hash = NoRequest
                          /\ action' = [action EXCEPT ![a] = row]
                          /\ action'[a].result = row.result
  BY <1>1, MarkTerminalRow DEF GetPendingAction, Hashes
<1>3. inCart' \in 0 .. MaxQuantity /\ \A s \in saved' : s.by \in Actions /\ s.value \in Values
  BY DEF GetPendingAction, IInv, TypeOK
<1> QED BY <1>1, <1>2, <1>3, ResolveInvariant DEF GetPendingAction, IsPending

(* Every step keeps the invariant.                                         *)
LEMMA NextInvariant == IInv /\ [Next]_vars => IInv'
<1> SUFFICES ASSUME IInv, [Next]_vars PROVE IInv'
  OBVIOUS
<1>1. ASSUME NEW a \in Actions, NEW v \in Values, PrepareAddToCart(a, v) PROVE IInv'
  <2>1. [status |-> "pending", kind |-> "add_to_cart", version |-> 1, value |-> v,
         result |-> NoResult, hash |-> NoRequest] \in Rows
    BY DEF Rows
  <2> QED BY <1>1, <2>1, PrepareInvariant DEF PrepareAddToCart
<1>2. ASSUME NEW a \in Actions, NEW v \in Values, PrepareSavePreference(a, v) PROVE IInv'
  <2>1. [status |-> "pending", kind |-> "save_preference", version |-> 1, value |-> v,
         result |-> NoResult, hash |-> NoRequest] \in Rows
    BY DEF Rows
  <2> QED BY <1>2, <2>1, PrepareInvariant DEF PrepareSavePreference
<1>3. ASSUME NEW a \in Actions, PassDeadline(a) PROVE IInv'
  BY <1>3 DEF PassDeadline, IInv, TypeOK, RowsGrounded, RepliesExplained
<1>4. ASSUME NEW units \in {Withdrawn} \cup Offers, ChangeOffer(units) PROVE IInv'
  BY <1>4 DEF ChangeOffer, IInv, TypeOK, RowsGrounded, RepliesExplained
<1>5. CASE UNCHANGED vars
  BY <1>5 DEF vars, IInv, TypeOK, RowsGrounded, RepliesExplained
<1> QED BY <1>1, <1>2, <1>3, <1>4, <1>5, RequestInvariant, ViewInvariant DEF Next

(* The invariant holds in every state of every behaviour.                  *)
LEMMA Invariance == Spec => []IInv
BY InitInvariant, NextInvariant, PTL DEF Spec

-----------------------------------------------------------------------------
(* The theorems.                                                           *)

(* Every variable keeps its type; the cart item never exceeds its limit.   *)
THEOREM TypeCorrect == Spec => []TypeOK
<1>1. IInv => TypeOK
  BY DEF IInv
<1> QED BY <1>1, Invariance, PTL

(* Whoever was told a result was told the recorded one, and equal requests *)
(* are told the same.                                                      *)
THEOREM AnswersAgreed == Spec => []AnswersAgree
<1>1. IInv => AnswersAgree
  BY DEF IInv, AnswersAgree, RepliesExplained
<1> QED BY <1>1, Invariance, PTL

-----------------------------------------------------------------------------
(* Effects and records.                                                    *)

Records == [a \in Actions |-> action[a].result.value]

Effects == IsFiniteSet(Confirmed("add_to_cart")) /\ EffectsMatchRecords

(* What MarkTerminal writes, by column.                                    *)
LEMMA MarkedColumns ==
  ASSUME IInv, NEW a \in Actions, IsPending(a), NEW status, NEW value, NEW request,
         MarkTerminal(a, status, value, request)
  PROVE  /\ action'[a].status = status /\ action'[a].kind = action[a].kind
         /\ action'[a].result.value = value
         /\ \A b \in Actions : b # a => action'[b] = action[b]
<1>1. action[a] \in Rows /\ action \in [Actions -> Rows \cup {Absent}]
  BY RowType DEF IInv, IsPending, TypeOK
<1>2. action' = [action EXCEPT ![a] =
                   [action[a] EXCEPT !.status = status, !.version = action[a].version + 1,
                      !.result = [status |-> status, value |-> value], !.hash = request]]
  BY DEF MarkTerminal
<1>3. action'[a] = [action[a] EXCEPT !.status = status, !.version = action[a].version + 1,
                      !.result = [status |-> status, value |-> value], !.hash = request]
  BY <1>1, <1>2
<1>4. action'[a].status = status /\ action'[a].kind = action[a].kind
      /\ action'[a].result = [status |-> status, value |-> value]
  BY <1>1, <1>3 DEF Rows
<1>5. \A b \in Actions : b # a => action'[b] = action[b]
  BY <1>1, <1>2
<1> QED BY <1>4, <1>5

(* Actions that are not confirmed have no effect.                          *)
LEMMA EffectsKept ==
  ASSUME Effects, UNCHANGED <<inCart, saved>>,
         \A a \in Actions :
           \/ action'[a] = action[a]
           \/ action[a].status # "confirmed" /\ action'[a].status # "confirmed"
  PROVE  Effects'
<1>1. \A kind : Confirmed(kind)' = Confirmed(kind)
  BY DEF Confirmed
<1>2. \A kind : \A a \in Confirmed(kind) : a \in Actions /\ action'[a] = action[a]
  BY DEF Confirmed
<1>3. SumFunctionOnSet(Records', Confirmed("add_to_cart")) =
      SumFunctionOnSet(Records, Confirmed("add_to_cart"))
  <2>1. \A a \in Confirmed("add_to_cart") : Records'[a] = Records[a]
    BY <1>2 DEF Records
  <2> QED BY <2>1, SumDependsOnValues DEF Effects
<1>4. inCart' = SumFunctionOnSet(Records', Confirmed("add_to_cart")')
  BY <1>1, <1>3 DEF Effects, EffectsMatchRecords, Records
<1>5. saved' = {[by |-> a, value |-> action'[a].result.value, times |-> 1] :
                  a \in Confirmed("save_preference")'}
  BY <1>1, <1>2 DEF Effects, EffectsMatchRecords
<1>6. IsFiniteSet(Confirmed("add_to_cart")')
  BY <1>1 DEF Effects
<1> QED BY <1>4, <1>5, <1>6 DEF Effects, EffectsMatchRecords, Records

(* A confirmed addition puts its record into the cart.                     *)
LEMMA AdditionMatches ==
  ASSUME IInv, Effects, NEW a \in Actions, NEW request \in Requests, NEW version \in 1 .. 2,
         ConfirmAddToCart(a, request, version)
  PROVE  Effects'
<1> DEFINE value == ConfirmedValue(a, request)
           added == Confirmed("add_to_cart")
<1>1. IsPending(a) /\ action[a].kind = "add_to_cart" /\ inCart' = inCart + value
      /\ saved' = saved /\ MarkTerminal(a, "confirmed", value, request)
  BY DEF ConfirmAddToCart, MayResolve
<1>2. /\ action'[a].status = "confirmed" /\ action'[a].kind = "add_to_cart"
      /\ action'[a].result.value = value
      /\ \A b \in Actions : b # a => action'[b] = action[b]
  <2> HIDE DEF value
  <2> QED BY <1>1, MarkedColumns
<1>3. value \in Nat
  <2>1. action[a].value \in Values
    BY <1>1, RowType DEF IInv, IsPending, Rows
  <2> QED BY <2>1, QuantitiesAssumption DEF ConfirmedValue, Requests
<1>4. a \notin added /\ added \subseteq Actions /\ IsFiniteSet(added)
  BY <1>1 DEF Confirmed, IsPending, Effects
<1>5. Confirmed("add_to_cart")' = added \cup {a}
  BY <1>1, <1>2 DEF Confirmed
<1>6. Confirmed("save_preference")' = Confirmed("save_preference")
      /\ \A b \in Confirmed("save_preference") : action'[b] = action[b]
  BY <1>1, <1>2 DEF Confirmed, IsPending
<1>7. \A b \in added : Records'[b] = Records[b] /\ Records[b] \in Nat
  <2>1. ASSUME NEW b \in added
        PROVE  action'[b] = action[b] /\ action[b].result.value \in Nat
    <3>1. action[b].result \in Results
      BY <2>1 DEF Confirmed, IInv, RowsGrounded
    <3> QED BY <1>2, <1>4, <2>1, <3>1, QuantitiesAssumption DEF Results
  <2> QED BY <1>4, <2>1 DEF Records
<1>8. Records'[a] = value
  BY <1>2 DEF Records
<1>9. IsFiniteSet(added \cup {a})
      /\ SumFunctionOnSet(Records', added \cup {a}) = value + SumFunctionOnSet(Records', added)
  <2> HIDE DEF added, value
  <2> QED BY <1>3, <1>4, <1>7, <1>8, SumWith
<1>10. SumFunctionOnSet(Records', added) = SumFunctionOnSet(Records, added)
  <2> HIDE DEF added
  <2> QED BY <1>4, <1>7, SumDependsOnValues
<1>11. inCart = SumFunctionOnSet(Records, added) /\ inCart \in Nat
  <2>1. inCart \in Nat
    BY QuantitiesAssumption DEF IInv, TypeOK
  <2> QED BY <2>1 DEF Effects, EffectsMatchRecords, Records
<1>12. inCart' = SumFunctionOnSet(Records', Confirmed("add_to_cart")')
  <2>1. inCart + value = value + inCart
    BY <1>3, <1>11
  <2> HIDE DEF added, value
  <2> QED BY <1>1, <1>5, <1>9, <1>10, <1>11, <2>1, Zenon
<1>13. saved' = {[by |-> b, value |-> action'[b].result.value, times |-> 1] :
                   b \in Confirmed("save_preference")'}
  BY <1>1, <1>6 DEF Effects, EffectsMatchRecords
<1> QED BY <1>5, <1>9, <1>12, <1>13 DEF Effects, EffectsMatchRecords, Records

(* A confirmed preference is saved as its record says, for the first time. *)
LEMMA PreferenceMatches ==
  ASSUME IInv, Effects, NEW a \in Actions, NEW request \in Requests, NEW version \in 1 .. 2,
         ConfirmSavePreference(a, request, version)
  PROVE  Effects'
<1> DEFINE value == ConfirmedValue(a, request)
           result == [status |-> "confirmed", value |-> value]
           row == Edited(action[a], "confirmed", value, result, request)
           added == Confirmed("add_to_cart")
           kept == Confirmed("save_preference")
<1>1. action[a] \in Rows /\ action[a].version = 1 /\ action[a].status = "pending"
      /\ action[a].kind = "save_preference"
  BY RowType DEF ConfirmSavePreference, MayResolve, IsPending, IInv, RowsGrounded
<1>2. action' = [action EXCEPT ![a] = [action[a] EXCEPT !.status = "confirmed",
                                         !.version = action[a].version + 1, !.value = value,
                                         !.result = result, !.hash = request]]
  BY DEF ConfirmSavePreference
<1>3. /\ action'[a].status = "confirmed" /\ action'[a].kind = "save_preference"
      /\ action'[a].result = result
      /\ \A b \in Actions : b # a => action'[b] = action[b]
  <2>1. action \in [Actions -> Rows \cup {Absent}]
    BY DEF IInv, TypeOK
  <2>2. action'[a] = [action[a] EXCEPT !.status = "confirmed",
                        !.version = action[a].version + 1, !.value = value,
                        !.result = result, !.hash = request]
    BY <1>2, <2>1
  <2>3. /\ action'[a].status = "confirmed" /\ action'[a].kind = "save_preference"
        /\ action'[a].result = result
    <3> HIDE DEF result, value
    <3> QED BY <1>1, <2>2 DEF Rows
  <2> QED BY <1>2, <2>1, <2>3
<1>4. added' = added /\ \A b \in added : b \in Actions /\ action'[b] = action[b]
  BY <1>1, <1>3 DEF Confirmed
<1>5. kept' = kept \cup {a} /\ a \notin kept /\ \A b \in kept : action'[b] = action[b]
  BY <1>1, <1>3 DEF Confirmed
<1>6. saved' = saved \cup {[by |-> a, value |-> value, times |-> 1]}
  <2>1. \A s \in saved : s.by # a
    BY <1>5 DEF Effects, EffectsMatchRecords
  <2>2. {s \in saved : s.by = a} = {}
    BY <2>1
  <2>3. Cardinality({}) + 1 = 1
    BY FS_EmptySet
  <2> QED BY <2>2, <2>3 DEF ConfirmSavePreference
<1>7. saved' = {[by |-> b, value |-> action'[b].result.value, times |-> 1] : b \in kept'}
  <2>1. saved = {[by |-> b, value |-> action[b].result.value, times |-> 1] : b \in kept}
    BY DEF Effects, EffectsMatchRecords
  <2>2. saved = {[by |-> b, value |-> action'[b].result.value, times |-> 1] : b \in kept}
    BY <1>5, <2>1
  <2>3. action'[a].result.value = value
    BY <1>3
  <2> QED BY <1>5, <1>6, <2>2, <2>3
<1>8. SumFunctionOnSet(Records', added) = SumFunctionOnSet(Records, added)
  <2>1. \A b \in added : Records'[b] = Records[b]
    BY <1>4 DEF Records
  <2>2. IsFiniteSet(added)
    BY DEF Effects
  <2> HIDE DEF added
  <2> QED BY <2>1, <2>2, SumDependsOnValues
<1>9. inCart' = SumFunctionOnSet(Records', added')
  BY <1>4, <1>8 DEF ConfirmSavePreference, Effects, EffectsMatchRecords, Records
<1>10. IsFiniteSet(added')
  BY <1>4 DEF Effects
<1> QED BY <1>7, <1>9, <1>10 DEF Effects, EffectsMatchRecords, Records

(* Every other transition ends an action without an effect.                *)
LEMMA RequestMatches ==
  ASSUME IInv, Effects, NEW a \in Actions, NEW request \in Requests, NEW version \in 1 .. 2,
         \/ AddToCartEndpoint(a, request, version)
         \/ SavePreferenceTool(a, request, version)
         \/ CancelEndpoint(a, request, version)
  PROVE  Effects'
<1>1. ASSUME NEW status, NEW value, NEW hash, status # "confirmed", IsPending(a),
             MarkTerminal(a, status, value, hash), UNCHANGED <<inCart, saved>>
      PROVE  Effects'
  <2>1. /\ action'[a].status # "confirmed" /\ action[a].status # "confirmed"
        /\ \A b \in Actions : b # a => action'[b] = action[b]
    BY <1>1, MarkedColumns DEF IsPending
  <2> QED BY <1>1, <2>1, EffectsKept
<1>2. CASE ReplayOrConflict(a, request)
  BY <1>2, EffectsKept DEF ReplayOrConflict
<1>3. ASSUME NEW status, status # "confirmed", IsPending(a), TerminalError(a, request, status)
      PROVE  Effects'
  BY <1>1, <1>3 DEF TerminalError
<1>4. CASE ConfirmWrongKind(a, request) \/ ExpireOnRequest(a, request, version)
             \/ ConfirmWithdrawn(a, request, version)
  BY <1>3, <1>4 DEF ConfirmWrongKind, ExpireOnRequest, ConfirmWithdrawn, MayResolve
<1>5. CASE CancelPendingAction(a, request, version)
  BY <1>1, <1>5 DEF CancelPendingAction, MayResolve
<1> QED BY <1>2, <1>3, <1>4, <1>5, AdditionMatches, PreferenceMatches
        DEF AddToCartEndpoint, SavePreferenceTool, CancelEndpoint

(* The cart holds the sum of the confirmed additions and the preferences   *)
(* are the confirmed ones, each saved once, for any number of actions and  *)
(* however confirmations, cancellations, expiry and retries interleave.    *)
THEOREM EffectsAreRecorded == Spec => []EffectsMatchRecords
<1>1. Init => Effects
  <2>1. ASSUME Init
        PROVE  Confirmed("add_to_cart") = {} /\ Confirmed("save_preference") = {}
    BY <2>1 DEF Init, Confirmed, Absent
  <2> QED BY <2>1, FS_EmptySet, SumOfNone DEF Init, Effects, EffectsMatchRecords
<1>2. ASSUME IInv, Effects, [Next]_vars
      PROVE  Effects'
  <2>1. ASSUME NEW a \in Actions, NEW v \in Values,
               PrepareAddToCart(a, v) \/ PrepareSavePreference(a, v)
        PROVE  Effects'
    <3>1. /\ UNCHANGED <<inCart, saved>> /\ action[a].status # "confirmed"
          /\ action'[a].status = "pending" /\ \A b \in Actions : b # a => action'[b] = action[b]
      BY <1>2, <2>1 DEF PrepareAddToCart, PrepareSavePreference, Absent, IInv, TypeOK
    <3> QED BY <1>2, <3>1, EffectsKept
  <2>2. ASSUME NEW a \in Actions, GetPendingAction(a)
        PROVE  Effects'
    <3>1. /\ action'[a].status = "expired" /\ action[a].status # "confirmed"
          /\ \A b \in Actions : b # a => action'[b] = action[b]
      BY <1>2, <2>2, MarkedColumns DEF GetPendingAction, IsPending
    <3> QED BY <1>2, <2>2, <3>1, EffectsKept DEF GetPendingAction
  <2>3. ASSUME UNCHANGED <<action, inCart, saved>>
        PROVE  Effects'
    BY <1>2, <2>3, EffectsKept
  <2> QED BY <1>2, <2>1, <2>2, <2>3, RequestMatches DEF Next, PassDeadline, ChangeOffer, vars
<1>3. Effects => EffectsMatchRecords
  BY DEF Effects
<1> QED BY <1>1, <1>2, <1>3, Invariance, PTL DEF Spec

(* A resolved action is never written again.                               *)
THEOREM ResolutionFinal == Spec => ResolvedOnce
<1>1. ASSUME IInv, Next, NEW a \in Actions, action[a].status \in Terminal
      PROVE  action'[a] = action[a]
  <2>1. action \in [Actions -> Rows \cup {Absent}] /\ ~ IsPending(a) /\ action[a] # Absent
    BY <1>1 DEF IInv, TypeOK, IsPending, Absent
  <2>2. ASSUME NEW b \in Actions, NEW v \in Values, PrepareAddToCart(b, v) \/ PrepareSavePreference(b, v)
        PROVE  action'[a] = action[a]
    BY <2>1, <2>2 DEF PrepareAddToCart, PrepareSavePreference
  <2>3. ASSUME NEW b \in Actions, NEW status, NEW value, NEW request, IsPending(b),
               MarkTerminal(b, status, value, request)
        PROVE  action'[a] = action[a]
    BY <2>1, <2>3 DEF MarkTerminal
  <2>4. ASSUME NEW b \in Actions, GetPendingAction(b)
        PROVE  action'[a] = action[a]
    BY <2>3, <2>4 DEF GetPendingAction
  <2>5. ASSUME NEW b \in Actions, NEW request \in Requests, NEW version \in 1 .. 2,
               \/ AddToCartEndpoint(b, request, version)
               \/ SavePreferenceTool(b, request, version)
               \/ CancelEndpoint(b, request, version)
        PROVE  action'[a] = action[a]
    <3>1. CASE ReplayOrConflict(b, request)
      BY <3>1 DEF ReplayOrConflict
    <3>2. ASSUME NEW status, IsPending(b), TerminalError(b, request, status)
          PROVE  action'[a] = action[a]
      BY <2>3, <3>2 DEF TerminalError
    <3>3. CASE ConfirmAddToCart(b, request, version) \/ CancelPendingAction(b, request, version)
      BY <2>3, <3>3 DEF ConfirmAddToCart, CancelPendingAction, MayResolve
    <3>4. CASE ConfirmSavePreference(b, request, version)
      BY <2>1, <3>4 DEF ConfirmSavePreference, MayResolve
    <3> QED BY <2>5, <3>1, <3>2, <3>3, <3>4
            DEF AddToCartEndpoint, SavePreferenceTool, CancelEndpoint, ConfirmWrongKind,
                ExpireOnRequest, ConfirmWithdrawn, MayResolve
  <2> QED BY <1>1, <2>2, <2>4, <2>5 DEF Next, PassDeadline, ChangeOffer
<1>2. IInv /\ [Next]_vars =>
        [\A a \in Actions : action[a].status \in Terminal => action'[a] = action[a]]_vars
  BY <1>1
<1> QED BY <1>2, Invariance, PTL DEF Spec, ResolvedOnce
=============================================================================
