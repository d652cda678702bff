------------------------------ MODULE Checkout ------------------------------
(***************************************************************************)
(* The cart of a user, the Checkout Preview and the creation of an Order   *)
(* from it, down to the rows the transactions lock.                        *)
(*                                                                         *)
(* Three transactions take their locks one at a time: the creation of an   *)
(* Order (its Idempotency-Key, the SKUs, the rows of the cart), a          *)
(* confirmed addition to the cart (the SKU, then the row) and the clearing *)
(* of the cart (its rows, in the order of a scan).  Edits and removals     *)
(* lock one row and are single steps.  A SELECT FOR UPDATE finds its rows  *)
(* in a snapshot, waits for each of them and skips those that are gone.    *)
(* What a transaction tests on the way it tests here at its end: the locks *)
(* it holds by then keep what the tests read from changing.                *)
(*                                                                         *)
(* A token is the snapshot it signs.  The expiry of a token and a request  *)
(* whose body is rejected change nothing and are left out; what a client   *)
(* pays for a SKU and its sale status are one value, the offer, and there  *)
(* is one currency.  The rows of products and of the inventory are locked  *)
(* together with their SKU.                                                *)
(***************************************************************************)
EXTENDS Integers, FiniteSets, FiniteSetsExt

CONSTANTS
  Skus,         \* SKUs, numbers in the order of their ids
  Keys,         \* Idempotency-Keys of Orders
  Processes,    \* transactions that may be in progress at the same time
  Offers,       \* what each SKU is offered for, "inactive" if it may be withdrawn
  Stock,        \* units of each SKU on hand
  MaxQuantity,  \* MAX_CART_ITEM_QUANTITY
  MaxItems,     \* bound of the model: cart items ever created
  MaxVersion,   \* bound of the model: version of a cart item
  MaxTokens     \* bound of the model: Checkout tokens issued

Nobody == "nobody"

ASSUME CheckoutAssumption ==
  /\ Skus \subseteq Nat /\ IsFiniteSet(Skus)
  /\ Nobody \notin Processes
  /\ Stock \in [Skus -> Nat]
  /\ {MaxItems, MaxTokens} \subseteq Nat
  /\ {MaxQuantity, MaxVersion} \subseteq Nat \ {0}
  /\ DOMAIN Offers = Skus /\ \A s \in Skus : "none" \notin Offers[s]

VARIABLES
  cart,     \* the cart item of each SKU
  lastId,   \* number of cart items created so far
  removed,  \* history: ids of items a user removed
  offer,    \* current offer of each SKU
  free,     \* units of a SKU on hand and not reserved
  tokens,   \* Checkout tokens issued
  order,    \* the Order created with each key
  lock,     \* holder of the key, SKU and cart row locks
  tx        \* the transactions in progress

vars == <<cart, lastId, removed, offer, free, tokens, order, lock, tx>>

-----------------------------------------------------------------------------
Idle == [kind |-> "none"]
NoItem == [id |-> 0, quantity |-> 0, version |-> 0]
NoOrder == [placed |-> FALSE]

Items == [id : 1 .. MaxItems, quantity : 1 .. MaxQuantity, version : 1 .. MaxVersion]
Lines == [Skus -> Items \cup {NoItem}]
AnyOffer == UNION {Offers[s] : s \in Skus}
Tokens == [lines : Lines, offers : [Skus -> AnyOffer \cup {"none"}]]

InCart == {s \in Skus : cart[s] # NoItem}
CartRows == {<<s, cart[s].id>> : s \in InCart}
SkusOf(t) == {s \in Skus : t.lines[s] # NoItem}

Locks == ({"key"} \X Keys) \cup ({"sku", "row"} \X Skus)
IsFree(l) == lock[l] = Nobody
Acquire(p, l) == lock' = [lock EXCEPT ![l] = p]

\* A transaction ends and gives up its locks.
End(p) ==
  /\ tx' = [tx EXCEPT ![p] = Idle]
  /\ lock' = [l \in Locks |-> IF lock[l] = p THEN Nobody ELSE lock[l]]

Begin(p, t) == tx[p] = Idle /\ tx' = [tx EXCEPT ![p] = t]

Active == AnyOffer \ {"inactive"}

Init ==
  /\ cart = [s \in Skus |-> NoItem]
  /\ lastId = 0
  /\ removed = {}
  /\ offer \in [Skus -> Active] /\ \A s \in Skus : offer[s] \in Offers[s]
  /\ free = Stock
  /\ tokens = {}
  /\ order = [k \in Keys |-> NoOrder]
  /\ lock = [l \in Locks |-> Nobody]
  /\ tx = [p \in Processes |-> Idle]

-----------------------------------------------------------------------------
(* Statements that lock one row after the other.                           *)

\* Faulty: the rows come in any order.
AnySku(p) == tx[p].skus

\* ORDER BY id ... FOR UPDATE
NextSkus(p) == {s \in tx[p].skus : \A other \in tx[p].skus : s <= other}

LockSku(p, s) ==
  /\ tx[p].kind \in {"order", "add"} /\ tx[p].stage = "skus"
  /\ s \in NextSkus(p)
  /\ IsFree(<<"sku", s>>)
  /\ Acquire(p, <<"sku", s>>)
  /\ tx' = [tx EXCEPT ![p].skus = @ \ {s}]
  /\ UNCHANGED <<cart, lastId, removed, offer, free, tokens, order>>

\* The snapshot of the statement that locks rows of the cart.
SelectRows(p) ==
  /\ tx[p].kind \in {"order", "add"} /\ tx[p].stage = "skus" /\ tx[p].skus = {}
  /\ tx' = [tx EXCEPT ![p].stage = "rows",
                      ![p].rows = IF tx[p].kind = "order" THEN CartRows
                                  ELSE {r \in CartRows : r[1] = tx[p].sku}]
  /\ UNCHANGED <<cart, lastId, removed, offer, free, tokens, order, lock>>

\* Creation locks the rows in the order of their ids, clearing in any order.
NextRows(p) ==
  IF tx[p].kind = "clear" THEN tx[p].rows
  ELSE {r \in tx[p].rows : \A other \in tx[p].rows : r[2] <= other[2]}

LockRow(p, r) ==
  /\ tx[p] # Idle /\ tx[p].stage = "rows"
  /\ r \in NextRows(p)
  /\ IF r \in CartRows
     THEN IsFree(<<"row", r[1]>>) /\ Acquire(p, <<"row", r[1]>>)
     ELSE UNCHANGED lock
  /\ tx' = [tx EXCEPT ![p].rows = @ \ {r}]
  /\ UNCHANGED <<cart, lastId, removed, offer, free, tokens, order>>

LockedRows(p) == {s \in Skus : lock[<<"row", s>>] = p}

HasAllLocks(p, kind) == tx[p].kind = kind /\ tx[p].stage = "rows" /\ tx[p].rows = {}

-----------------------------------------------------------------------------
(* Checkout.                                                               *)

\* The Preview signs the cart and the offers it shows, if all can be had.
PreviewCheckout ==
  /\ InCart # {}
  /\ \A s \in InCart : offer[s] \in Active /\ cart[s].quantity <= free[s]
  /\ Cardinality(tokens) < MaxTokens
  /\ tokens' = tokens \cup
       {[lines |-> cart,
         offers |-> [s \in Skus |-> IF s \in InCart THEN offer[s] ELSE "none"]]}
  /\ UNCHANGED <<cart, lastId, removed, offer, free, order, lock, tx>>

\* A request with a key that has no Order yet.
BeginOrder(p, k, t) ==
  /\ order[k] = NoOrder
  /\ Begin(p, [kind |-> "order", stage |-> "key", key |-> k, token |-> t,
               skus |-> SkusOf(t), rows |-> {}])
  /\ UNCHANGED <<cart, lastId, removed, offer, free, tokens, order, lock>>

\* Faulty: no unique constraint makes the second insert wait.
KeyNotUnique(k) == k \in Keys

\* The insert waits while another transaction has inserted the same key.
KeyIsFree(k) == IsFree(<<"key", k>>)

\* The unique key decides: the loser returns the winner's Order.
InsertOrder(p) ==
  /\ tx[p].kind = "order" /\ tx[p].stage = "key"
  /\ KeyIsFree(tx[p].key)
  /\ IF order[tx[p].key] # NoOrder
     THEN End(p)
     ELSE /\ Acquire(p, <<"key", tx[p].key>>)
          /\ tx' = [tx EXCEPT ![p].stage = "skus"]
  /\ UNCHANGED <<cart, lastId, removed, offer, free, tokens, order>>

\* What the transaction found in the cart.
LinesFound(p) == [s \in Skus |-> IF s \in LockedRows(p) THEN cart[s] ELSE NoItem]

\* Faulty: only the SKUs of the cart are compared.
SameSkus(t, lines) == SkusOf(t) = {s \in Skus : lines[s] # NoItem}

FingerprintMatches(t, lines) == t.lines = lines

MayPlace(t, lines) ==
  /\ FingerprintMatches(t, lines)
  /\ \A s \in SkusOf(t) : offer[s] = t.offers[s] /\ lines[s].quantity <= free[s]

\* Faulty: all rows of the user are deleted.
DeleteAll(p) == [s \in Skus |-> NoItem]

\* The rows deleted are the ones that were locked.
CartWithout(p) == [s \in Skus |-> IF s \in LockedRows(p) THEN NoItem ELSE cart[s]]

PlaceOrder(p) ==
  /\ HasAllLocks(p, "order")
  /\ MayPlace(tx[p].token, LinesFound(p))
  /\ order' = [order EXCEPT ![tx[p].key] =
       [placed |-> TRUE, lines |-> LinesFound(p), token |-> tx[p].token,
        offers |-> [s \in Skus |-> IF s \in LockedRows(p) THEN offer[s] ELSE "none"]]]
  /\ free' = [s \in Skus |-> free[s] - LinesFound(p)[s].quantity]
  /\ cart' = CartWithout(p)
  /\ End(p)
  /\ UNCHANGED <<lastId, removed, offer, tokens>>

RejectOrder(p) ==
  /\ HasAllLocks(p, "order")
  /\ ~MayPlace(tx[p].token, LinesFound(p))
  /\ End(p)
  /\ UNCHANGED <<cart, lastId, removed, offer, free, tokens, order>>

-----------------------------------------------------------------------------
(* The cart.                                                               *)

BeginAdd(p, s, q) ==
  /\ Begin(p, [kind |-> "add", stage |-> "skus", sku |-> s, quantity |-> q,
               skus |-> {s}, rows |-> {}])
  /\ UNCHANGED <<cart, lastId, removed, offer, free, tokens, order, lock>>

\* Faulty: an item keeps its version when its quantity changes.
SameVersion(item, q) == [item EXCEPT !.quantity = q]

Requantified(item, q) == [id |-> item.id, quantity |-> q, version |-> item.version + 1]

MayAdd(s, q) ==
  /\ offer[s] \in Active
  /\ cart[s].quantity + q <= MaxQuantity
  /\ cart[s].quantity + q <= free[s]

CommitAdd(p) ==
  /\ HasAllLocks(p, "add")
  /\ LET s == tx[p].sku
         q == tx[p].quantity
     IN  /\ MayAdd(s, q)
         /\ IF s \in InCart
            THEN /\ cart[s].version < MaxVersion
                 /\ cart' = [cart EXCEPT ![s] = Requantified(@, @.quantity + q)]
                 /\ UNCHANGED lastId
            ELSE /\ lastId < MaxItems
                 /\ cart' = [cart EXCEPT ![s] = [id |-> lastId + 1, quantity |-> q, version |-> 1]]
                 /\ lastId' = lastId + 1
  /\ End(p)
  /\ UNCHANGED <<removed, offer, free, tokens, order>>

RejectAdd(p) ==
  /\ HasAllLocks(p, "add")
  /\ ~MayAdd(tx[p].sku, tx[p].quantity)
  /\ End(p)
  /\ UNCHANGED <<cart, lastId, removed, offer, free, tokens, order>>

\* An edit of a client that holds the current version of the item.
UpdateItem(s, q) ==
  /\ s \in InCart /\ IsFree(<<"row", s>>)
  /\ offer[s] \in Active /\ q <= free[s]
  /\ cart[s].version < MaxVersion
  /\ cart' = [cart EXCEPT ![s] = Requantified(@, q)]
  /\ UNCHANGED <<lastId, removed, offer, free, tokens, order, lock, tx>>

DeleteItem(s) ==
  /\ s \in InCart /\ IsFree(<<"row", s>>)
  /\ cart' = [cart EXCEPT ![s] = NoItem]
  /\ removed' = removed \cup {cart[s].id}
  /\ UNCHANGED <<lastId, offer, free, tokens, order, lock, tx>>

BeginClear(p) ==
  /\ InCart # {}
  /\ Begin(p, [kind |-> "clear", stage |-> "rows", skus |-> {}, rows |-> CartRows])
  /\ UNCHANGED <<cart, lastId, removed, offer, free, tokens, order, lock>>

CommitClear(p) ==
  /\ HasAllLocks(p, "clear")
  /\ cart' = [s \in Skus |-> IF s \in LockedRows(p) THEN NoItem ELSE cart[s]]
  /\ removed' = removed \cup {cart[s].id : s \in LockedRows(p)}
  /\ End(p)
  /\ UNCHANGED <<lastId, offer, free, tokens, order>>

-----------------------------------------------------------------------------
\* A transaction of the catalog's maintenance changes what a SKU is offered
\* for.
ChangeOffer(s) ==
  /\ IsFree(<<"sku", s>>)
  /\ \E o \in Offers[s] \ {offer[s]} : offer' = [offer EXCEPT ![s] = o]
  /\ UNCHANGED <<cart, lastId, removed, free, tokens, order, lock, tx>>

\* The Orders of other users reserve units and give them back.
ReserveElsewhere(s) ==
  /\ IsFree(<<"sku", s>>)
  /\ \E n \in 0 .. Stock[s] \ {free[s]} : free' = [free EXCEPT ![s] = n]
  /\ UNCHANGED <<cart, lastId, removed, offer, tokens, order, lock, tx>>

\* The process dies or the database breaks a deadlock: everything is undone.
RollBack(p) ==
  /\ tx[p] # Idle
  /\ End(p)
  /\ UNCHANGED <<cart, lastId, removed, offer, free, tokens, order>>

Next ==
  \/ \E p \in Processes, k \in Keys, t \in tokens : BeginOrder(p, k, t)
  \/ \E p \in Processes : InsertOrder(p)
  \/ \E p \in Processes, s \in Skus, q \in 1 .. MaxQuantity : BeginAdd(p, s, q)
  \/ \E p \in Processes : BeginClear(p)
  \/ \E p \in Processes, s \in Skus : LockSku(p, s)
  \/ \E p \in Processes : SelectRows(p)
  \/ \E p \in Processes : \E r \in Skus \X (1 .. MaxItems) : LockRow(p, r)
  \/ \E p \in Processes : PlaceOrder(p)
  \/ \E p \in Processes : RejectOrder(p)
  \/ \E p \in Processes : CommitAdd(p)
  \/ \E p \in Processes : RejectAdd(p)
  \/ \E p \in Processes : CommitClear(p)
  \/ \E p \in Processes : RollBack(p)
  \/ \E s \in Skus, q \in 1 .. MaxQuantity : UpdateItem(s, q)
  \/ \E s \in Skus : DeleteItem(s)
  \/ \E s \in Skus : ChangeOffer(s)
  \/ \E s \in Skus : ReserveElsewhere(s)
  \/ PreviewCheckout

Spec == Init /\ [][Next]_vars

-----------------------------------------------------------------------------
Transactions ==
  {Idle}
    \cup [kind : {"order"}, stage : {"key", "skus", "rows"}, key : Keys, token : Tokens,
          skus : SUBSET Skus, rows : SUBSET (Skus \X (1 .. MaxItems))]
    \cup [kind : {"add"}, stage : {"skus", "rows"}, sku : Skus, quantity : 1 .. MaxQuantity,
          skus : SUBSET Skus, rows : SUBSET (Skus \X (1 .. MaxItems))]
    \cup [kind : {"clear"}, stage : {"rows"}, skus : {{}},
          rows : SUBSET (Skus \X (1 .. MaxItems))]

TypeOK ==
  /\ cart \in Lines
  /\ lastId \in 0 .. MaxItems
  /\ removed \subseteq 1 .. MaxItems
  /\ offer \in [Skus -> AnyOffer] /\ free \in [Skus -> Nat]
  /\ \A s \in Skus : offer[s] \in Offers[s] /\ free[s] \in 0 .. Stock[s]
  /\ tokens \subseteq Tokens
  /\ order \in [Keys -> {NoOrder} \cup
                         [placed : {TRUE}, lines : Lines, token : Tokens,
                          offers : [Skus -> AnyOffer \cup {"none"}]]]
  /\ lock \in [Locks -> Processes \cup {Nobody}]
  /\ tx \in [Processes -> Transactions]

Placed == {k \in Keys : order[k] # NoOrder}

\* The Orders that contain a cart item.
OrdersOf(id) == {k \in Placed : \E s \in Skus : order[k].lines[s].id = id}

\* Every item ever put into the cart is in exactly one place: in the cart, in
\* one Order, or removed by the user.  A token used twice, by two keys at the
\* same time, does not order an item twice, and an item added while an Order
\* is created is not lost.
ItemsAccounted ==
  \A id \in 1 .. lastId :
    LET inCart == \E s \in Skus : cart[s].id = id
    IN  /\ Cardinality(OrdersOf(id)) <= 1
        /\ inCart => OrdersOf(id) = {} /\ id \notin removed
        /\ id \in removed => OrdersOf(id) = {}
        /\ inCart \/ id \in removed \/ OrdersOf(id) # {}

\* An Order holds the items and the offers the user saw in the Preview, and
\* nothing the catalog withdrew meanwhile.
OrderIsPreviewed ==
  \A k \in Placed :
    order[k].lines = order[k].token.lines /\ order[k].offers = order[k].token.offers

\* A client edits an item by its id and the version it saw.  These two fix the
\* quantity it saw: no history of edits, additions and removals shows the same
\* version of an item with another quantity.
VersionFixesQuantity ==
  \A t \in tokens, s \in Skus :
    cart[s].id = t.lines[s].id /\ cart[s].version = t.lines[s].version =>
      cart[s].quantity = t.lines[s].quantity

\* A client that repeats a creation is never told that it failed when an
\* earlier request with the key made the Order: it would find its cart empty.
ReplayNotRejected ==
  [][\A p \in Processes : RejectOrder(p) => order[tx[p].key] = NoOrder]_vars

\* The locks a transaction may take next.
Wanted(p) ==
  IF tx[p] = Idle THEN {}
  ELSE CASE tx[p].stage = "key" -> {<<"key", tx[p].key>>}
         [] tx[p].stage = "skus" -> {<<"sku", s>> : s \in NextSkus(p)}
         [] tx[p].stage = "rows" -> {<<"row", r[1]>> : r \in NextRows(p) \cap CartRows}

WaitsFor(p) ==
  IF \E l \in Wanted(p) : IsFree(l) THEN {} ELSE {lock[l] : l \in Wanted(p)}

Deadlocked(group) ==
  group # {} /\ \A p \in group : WaitsFor(p) # {} /\ WaitsFor(p) \subseteq group

\* Order creations and additions never wait for each other in a circle: only
\* the clearing of a cart, which has no order of its own, can close one.
DeadlockNeedsClear ==
  \A group \in SUBSET Processes :
    Deadlocked(group) => \E p \in group : tx[p].kind = "clear"
=============================================================================
