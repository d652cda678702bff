--------------------------- MODULE Checkout_proofs ---------------------------
(***************************************************************************)
(* What Checkout guarantees for every catalog, every set of keys and       *)
(* transactions and every bound: items are in one place, an Order is what  *)
(* was previewed, a replay is not told of a failure, and the order of the  *)
(* locks leaves no deadlock without the clearing of a cart.                *)
(***************************************************************************)
EXTENDS Checkout, Totals, TLAPS

\* Items are numbered in the order of their creation, each in one SKU.
IdsUnique ==
  /\ \A s \in InCart : cart[s].id <= lastId
  /\ \A s, other \in InCart : cart[s].id = cart[other].id => s = other
  /\ \A id \in removed : id <= lastId
  /\ \A k \in Placed, s \in Skus : order[k].lines[s].id <= lastId

\* What a token shows of an item was true of the item when it was issued.
TokensHistoric ==
  \A t \in tokens, s \in Skus :
    /\ t.lines[s] = NoItem => t.offers[s] = "none"
    /\ t.lines[s].id <= lastId
    /\ cart[s].id = t.lines[s].id => t.lines[s].version <= cart[s].version

\* The creation of an Order that has its key keeps it from everybody else.
KeyHeld(p) ==
  /\ \A k \in Keys : lock[<<"key", k>>] = p =>
       tx[p].kind = "order" /\ tx[p].stage \in {"skus", "rows"} /\ tx[p].key = k
  /\ tx[p].kind = "order" =>
       /\ tx[p].token \in tokens
       /\ tx[p].stage # "key" =>
            lock[<<"key", tx[p].key>>] = p /\ order[tx[p].key] = NoOrder

\* A transaction wants only SKUs after those it has.
SkusInOrder(p) ==
  \A s \in Skus : lock[<<"sku", s>>] = p =>
    /\ tx[p].kind \in {"order", "add"} /\ tx[p].stage \in {"skus", "rows"}
    /\ \A x \in tx[p].skus : s < x

\* A locked row is in the cart; its transaction wants only rows after it,
\* unless it clears the cart.
RowsInOrder(p) ==
  /\ \A s \in Skus : lock[<<"row", s>>] = p =>
       /\ s \in InCart
       /\ tx[p].kind \in {"order", "add", "clear"} /\ tx[p].stage = "rows"
       /\ tx[p].kind # "clear" => \A r \in tx[p].rows : cart[s].id < r[2]
  /\ tx[p].kind \in {"order", "add"} =>
       \A r, other \in tx[p].rows : r[2] = other[2] => r = other

\* An addition locks one SKU and at most one row.
AddIsSmall(p) ==
  tx[p].kind = "add" =>
    /\ tx[p].skus \subseteq {tx[p].sku}
    /\ \A r \in tx[p].rows : r[1] = tx[p].sku
    /\ \A r, other \in tx[p].rows : r = other

Disciplined(p) == KeyHeld(p) /\ SkusInOrder(p) /\ RowsInOrder(p) /\ AddIsSmall(p)

\* ItemsAccounted, without counting.
IsInCart(id) == \E s \in Skus : cart[s].id = id

ItemInOnePlace(id) ==
  /\ \A k, l \in OrdersOf(id) : k = l
  /\ IsInCart(id) => OrdersOf(id) = {} /\ id \notin removed
  /\ id \in removed => OrdersOf(id) = {}
  /\ IsInCart(id) \/ id \in removed \/ OrdersOf(id) # {}

ItemsInOnePlace == \A id \in 1 .. lastId : ItemInOnePlace(id)

CartInv ==
  /\ IdsUnique
  /\ TokensHistoric /\ VersionFixesQuantity
  /\ ItemsInOnePlace
  /\ OrderIsPreviewed

IInv == TypeOK /\ CartInv /\ \A p \in Processes : Disciplined(p)

-----------------------------------------------------------------------------
(* Types.                                                                  *)
LEMMA LineFacts ==
  ASSUME NEW x \in Items \cup {NoItem}
  PROVE  /\ x.id \in 0 .. MaxItems /\ x.id \in Nat /\ x.version \in Nat /\ x.quantity \in Nat
         /\ x = NoItem <=> x.id = 0
         /\ x # NoItem => x \in Items
<1>1. {MaxItems, MaxVersion, MaxQuantity} \subseteq Nat
  BY CheckoutAssumption
<1> QED BY <1>1 DEF Items, NoItem

LEMMA CartFacts ==
  ASSUME TypeOK, NEW s \in Skus
  PROVE  /\ cart[s] \in Items \cup {NoItem}
         /\ s \in InCart <=> cart[s].id # 0
         /\ s \in InCart <=> cart[s] # NoItem
         /\ cart[s].id \in Nat /\ cart[s].version \in Nat /\ cart[s].quantity \in Nat
<1>1. cart[s] \in Items \cup {NoItem}
  BY DEF TypeOK, Lines
<1> QED BY <1>1, LineFacts DEF InCart

Rows == Skus \X (1 .. MaxItems)
OrderTx == [kind : {"order"}, stage : {"key", "skus", "rows"}, key : Keys, token : Tokens,
            skus : SUBSET Skus, rows : SUBSET Rows]
AddTx == [kind : {"add"}, stage : {"skus", "rows"}, sku : Skus, quantity : 1 .. MaxQuantity,
          skus : SUBSET Skus, rows : SUBSET Rows]
ClearTx == [kind : {"clear"}, stage : {"rows"}, skus : {{}}, rows : SUBSET Rows]

LEMMA TxFacts ==
  ASSUME TypeOK, NEW p \in Processes
  PROVE  /\ tx[p] \in {Idle} \cup OrderTx \cup AddTx \cup ClearTx
         /\ tx[p].kind = "order" <=> tx[p] \in OrderTx
         /\ tx[p].kind = "add" <=> tx[p] \in AddTx
         /\ tx[p].kind = "clear" <=> tx[p] \in ClearTx
         /\ tx[p].kind = "none" <=> tx[p] = Idle
<1>1. tx[p] \in {Idle} \cup OrderTx \cup AddTx \cup ClearTx
  BY DEF TypeOK, Transactions, OrderTx, AddTx, ClearTx, Rows
<1> QED BY <1>1 DEF OrderTx, AddTx, ClearTx, Idle

(* The rows of the cart, and that an id names one of them.                 *)
LEMMA CartRowFacts ==
  ASSUME TypeOK, IdsUnique
  PROVE  /\ CartRows \subseteq Rows
         /\ \A r \in CartRows : r[1] \in InCart /\ r[1] \in Skus /\ cart[r[1]].id = r[2]
         /\ \A r, other \in CartRows : r[2] = other[2] => r = other
<1>1. InCart \subseteq Skus /\ \A s \in InCart : cart[s].id \in 1 .. MaxItems
  BY CartFacts, LineFacts DEF InCart
<1> QED BY <1>1 DEF CartRows, Rows, IdsUnique

(* The locks of a process, by their place.                                 *)
LEMMA LockNames ==
  /\ \A k \in Keys : <<"key", k>> \in Locks
  /\ \A s \in Skus : <<"sku", s>> \in Locks /\ <<"row", s>> \in Locks
BY DEF Locks

-----------------------------------------------------------------------------
(* A step that leaves the shop alone.                                      *)
shop == <<cart, lastId, removed, offer, free, tokens, order>>

LEMMA ShopKept ==
  ASSUME IInv, UNCHANGED shop,
         lock' \in [Locks -> Processes \cup {Nobody}], tx' \in [Processes -> Transactions]
  PROVE  TypeOK' /\ CartInv'
<1>1. UNCHANGED <<cart, lastId, removed, offer, free, tokens, order>>
  BY DEF shop
<1>2. TypeOK'
  BY <1>1 DEF IInv, TypeOK
<1>3. InCart' = InCart /\ Placed' = Placed /\ \A id : OrdersOf(id)' = OrdersOf(id)
  BY <1>1 DEF InCart, Placed, OrdersOf
<1>4. IdsUnique'
  BY <1>1, <1>3 DEF IInv, CartInv, IdsUnique
<1>5. TokensHistoric' /\ VersionFixesQuantity'
  BY <1>1 DEF IInv, CartInv, TokensHistoric, VersionFixesQuantity
<1>6. ItemsInOnePlace'
  BY <1>1, <1>3 DEF IInv, CartInv, ItemsInOnePlace, ItemInOnePlace, IsInCart
<1>7. OrderIsPreviewed'
  BY <1>1, <1>3 DEF IInv, CartInv, OrderIsPreviewed
<1> QED BY <1>2, <1>4, <1>5, <1>6, <1>7 DEF CartInv

(* A transaction keeps its discipline when others take a step, if nobody   *)
(* takes its locks and what they protect stays.                            *)
LEMMA OtherKept ==
  ASSUME TypeOK, NEW q \in Processes, Disciplined(q),
         tx'[q] = tx[q], \A l \in Locks : lock'[l] = q <=> lock[l] = q,
         \A s \in Skus : lock[<<"row", s>>] = q => s \in InCart' /\ cart'[s].id = cart[s].id,
         \A k \in Keys : lock[<<"key", k>>] = q => order'[k] = order[k],
         tokens \subseteq tokens'
  PROVE  Disciplined(q)'
<1>1. KeyHeld(q)'
  <2>1. ASSUME tx[q].kind = "order", tx[q].stage # "key"
        PROVE  tx[q].key \in Keys /\ lock'[<<"key", tx[q].key>>] = q
               /\ order'[tx[q].key] = NoOrder
    <3>1. tx[q].key \in Keys
      BY <2>1, TxFacts DEF OrderTx
    <3>2. lock[<<"key", tx[q].key>>] = q /\ order[tx[q].key] = NoOrder
      BY <2>1 DEF Disciplined, KeyHeld
    <3> QED BY <3>1, <3>2, LockNames
  <2>2. \A k \in Keys : lock'[<<"key", k>>] = q <=> lock[<<"key", k>>] = q
    BY LockNames
  <2> QED BY <2>1, <2>2 DEF Disciplined, KeyHeld
<1>2. SkusInOrder(q)'
  BY LockNames DEF Disciplined, SkusInOrder
<1>3. RowsInOrder(q)'
  <2>1. \A s \in Skus : lock'[<<"row", s>>] = q <=> lock[<<"row", s>>] = q
    BY LockNames
  <2>2. ASSUME NEW s \in Skus, lock'[<<"row", s>>] = q
        PROVE  /\ s \in InCart'
               /\ tx'[q].kind \in {"order", "add", "clear"} /\ tx'[q].stage = "rows"
               /\ tx'[q].kind # "clear" => \A r \in tx'[q].rows : cart'[s].id < r[2]
    <3>1. lock[<<"row", s>>] = q
      BY <2>1, <2>2
    <3>2. s \in InCart' /\ cart'[s].id = cart[s].id
      BY <3>1
    <3> QED BY <3>1, <3>2 DEF Disciplined, RowsInOrder
  <2>3. tx'[q].kind \in {"order", "add"} =>
          \A r, other \in tx'[q].rows : r[2] = other[2] => r = other
    BY DEF Disciplined, RowsInOrder
  <2> QED BY <2>2, <2>3 DEF RowsInOrder
<1>4. AddIsSmall(q)'
  BY DEF Disciplined, AddIsSmall
<1> QED BY <1>1, <1>2, <1>3, <1>4 DEF Disciplined

(* A transaction without locks has little to observe.                      *)
LEMMA FreshDiscipline ==
  ASSUME NEW p \in Processes, \A l \in Locks : lock'[l] # p,
         tx'[p].kind = "order" => tx'[p].stage = "key" /\ tx'[p].token \in tokens',
         tx'[p].kind \in {"order", "add"} => tx'[p].rows = {},
         tx'[p].kind = "add" => tx'[p].skus \subseteq {tx'[p].sku}
  PROVE  Disciplined(p)'
<1>1. /\ \A k \in Keys : lock'[<<"key", k>>] # p
      /\ \A s \in Skus : lock'[<<"sku", s>>] # p /\ lock'[<<"row", s>>] # p
  BY LockNames
<1>2. KeyHeld(p)' /\ SkusInOrder(p)'
  BY <1>1 DEF KeyHeld, SkusInOrder
<1>3. RowsInOrder(p)' /\ AddIsSmall(p)'
  BY <1>1 DEF RowsInOrder, AddIsSmall
<1> QED BY <1>2, <1>3 DEF Disciplined

(* A transaction that has ended has no locks, and the others keep theirs.  *)
LEMMA EndFacts ==
  ASSUME TypeOK, NEW p \in Processes, End(p)
  PROVE  /\ lock' \in [Locks -> Processes \cup {Nobody}]
         /\ tx' \in [Processes -> Transactions]
         /\ \A q \in Processes : q # p =>
              tx'[q] = tx[q] /\ \A l \in Locks : lock'[l] = q <=> lock[l] = q
         /\ Disciplined(p)'
<1>1. tx' = [tx EXCEPT ![p] = Idle] /\ tx'[p] = Idle
  BY DEF TypeOK, End
<1>2. lock' = [l \in Locks |-> IF lock[l] = p THEN Nobody ELSE lock[l]]
  BY DEF End
<1>3. lock' \in [Locks -> Processes \cup {Nobody}] /\ tx' \in [Processes -> Transactions]
  BY <1>1, <1>2 DEF TypeOK, Transactions
<1>4. \A q \in Processes : q # p =>
        tx'[q] = tx[q] /\ \A l \in Locks : lock'[l] = q <=> lock[l] = q
  BY <1>1, <1>2, CheckoutAssumption DEF TypeOK
<1>5. \A l \in Locks : lock'[l] # p
  BY <1>2, CheckoutAssumption
<1>6. Disciplined(p)'
  BY <1>1, <1>5, FreshDiscipline DEF Idle
<1> QED BY <1>3, <1>4, <1>6

(* So a transaction that gives up leaves the invariant.                    *)
LEMMA EndInvariant ==
  ASSUME IInv, NEW p \in Processes, End(p), UNCHANGED shop
  PROVE  IInv'
<1>1. TypeOK /\ \A q \in Processes : Disciplined(q)
  BY DEF IInv
<1>2. TypeOK' /\ CartInv'
  BY <1>1, EndFacts, ShopKept
<1>3. ASSUME NEW q \in Processes
      PROVE  Disciplined(q)'
  <2>1. CASE q = p
    BY <2>1, <1>1, EndFacts
  <2>2. CASE q # p
    <3>1. tx'[q] = tx[q] /\ \A l \in Locks : lock'[l] = q <=> lock[l] = q
      BY <1>1, <2>2, EndFacts
    <3>2. \A s \in Skus : lock[<<"row", s>>] = q => s \in InCart' /\ cart'[s].id = cart[s].id
      BY <1>1 DEF Disciplined, RowsInOrder, shop, InCart
    <3>3. order' = order /\ tokens' = tokens
      BY DEF shop
    <3> QED BY <1>1, <3>1, <3>2, <3>3, OtherKept
  <2> QED BY <2>1, <2>2
<1> QED BY <1>2, <1>3 DEF IInv

(* A step of a transaction in progress, or one that begins: nobody else    *)
(* sees it but by the locks it takes.                                      *)
LEMMA TxStepInvariant ==
  ASSUME IInv, NEW p \in Processes, UNCHANGED shop,
         NEW t \in Transactions, tx' = [tx EXCEPT ![p] = t],
         \/ lock' = lock
         \/ \E l \in Locks : IsFree(l) /\ Acquire(p, l),
         Disciplined(p)'
  PROVE  IInv'
<1>1. TypeOK /\ \A q \in Processes : Disciplined(q)
  BY DEF IInv
<1>2. tx' \in [Processes -> Transactions] /\ \A q \in Processes : q # p => tx'[q] = tx[q]
  BY <1>1 DEF TypeOK
<1>3. /\ lock' \in [Locks -> Processes \cup {Nobody}]
      /\ \A q \in Processes : q # p => \A l \in Locks : lock'[l] = q <=> lock[l] = q
  BY <1>1, CheckoutAssumption DEF TypeOK, IsFree, Acquire
<1>4. TypeOK' /\ CartInv'
  BY <1>2, <1>3, ShopKept
<1>5. ASSUME NEW q \in Processes, q # p
      PROVE  Disciplined(q)'
  <2>1. \A s \in Skus : lock[<<"row", s>>] = q => s \in InCart' /\ cart'[s].id = cart[s].id
    BY <1>1 DEF Disciplined, RowsInOrder, shop, InCart
  <2>2. order' = order /\ tokens' = tokens
    BY DEF shop
  <2> QED BY <1>1, <1>2, <1>3, <1>5, <2>1, <2>2, OtherKept
<1> QED BY <1>4, <1>5 DEF IInv

-----------------------------------------------------------------------------
(* The transactions in progress.                                           *)
LEMMA BeginOrderInvariant ==
  ASSUME IInv, NEW p \in Processes, NEW k \in Keys, NEW t \in tokens, BeginOrder(p, k, t)
  PROVE  IInv'
<1> DEFINE x == [kind |-> "order", stage |-> "key", key |-> k, token |-> t,
                 skus |-> SkusOf(t), rows |-> {}]
<1>1. TypeOK /\ Disciplined(p)
  BY DEF IInv
<1>2. tx[p] = Idle /\ tx' = [tx EXCEPT ![p] = x] /\ lock' = lock /\ UNCHANGED shop
  BY <1>1 DEF BeginOrder, Begin, shop
<1>3. x \in Transactions
  BY <1>1 DEF Transactions, SkusOf, TypeOK
<1>4. tx'[p] = x
  BY <1>1, <1>2 DEF TypeOK
<1>5. \A l \in Locks : lock[l] # p
  BY <1>1, <1>2 DEF Disciplined, KeyHeld, SkusInOrder, RowsInOrder, Locks, Idle
<1>6. Disciplined(p)'
  BY <1>2, <1>4, <1>5, FreshDiscipline DEF shop
<1> QED BY <1>2, <1>3, <1>6, TxStepInvariant

LEMMA BeginAddInvariant ==
  ASSUME IInv, NEW p \in Processes, NEW s \in Skus, NEW q \in 1 .. MaxQuantity, BeginAdd(p, s, q)
  PROVE  IInv'
<1> DEFINE x == [kind |-> "add", stage |-> "skus", sku |-> s, quantity |-> q,
                 skus |-> {s}, rows |-> {}]
<1>1. TypeOK /\ Disciplined(p)
  BY DEF IInv
<1>2. tx[p] = Idle /\ tx' = [tx EXCEPT ![p] = x] /\ lock' = lock /\ UNCHANGED shop
  BY <1>1 DEF BeginAdd, Begin, shop
<1>3. x \in Transactions
  BY DEF Transactions
<1>4. tx'[p] = x
  BY <1>1, <1>2 DEF TypeOK
<1>5. \A l \in Locks : lock[l] # p
  BY <1>1, <1>2 DEF Disciplined, KeyHeld, SkusInOrder, RowsInOrder, Locks, Idle
<1>6. Disciplined(p)'
  BY <1>2, <1>4, <1>5, FreshDiscipline
<1> QED BY <1>2, <1>3, <1>6, TxStepInvariant

LEMMA BeginClearInvariant ==
  ASSUME IInv, NEW p \in Processes, BeginClear(p)
  PROVE  IInv'
<1> DEFINE x == [kind |-> "clear", stage |-> "rows", skus |-> {}, rows |-> CartRows]
<1>1. TypeOK /\ IdsUnique /\ Disciplined(p)
  BY DEF IInv, CartInv
<1>2. tx[p] = Idle /\ tx' = [tx EXCEPT ![p] = x] /\ lock' = lock /\ UNCHANGED shop
  BY <1>1 DEF BeginClear, Begin, shop
<1>3. x \in Transactions
  BY <1>1, CartRowFacts DEF Transactions, Rows
<1>4. tx'[p] = x
  BY <1>1, <1>2 DEF TypeOK
<1>5. \A l \in Locks : lock[l] # p
  BY <1>1, <1>2 DEF Disciplined, KeyHeld, SkusInOrder, RowsInOrder, Locks, Idle
<1>6. Disciplined(p)'
  BY <1>2, <1>4, <1>5, FreshDiscipline
<1> QED BY <1>2, <1>3, <1>6, TxStepInvariant

(* The insert of the key: it waits, finds an Order, or gets the key.       *)
LEMMA InsertOrderInvariant ==
  ASSUME IInv, NEW p \in Processes, InsertOrder(p)
  PROVE  IInv'
<1>1. TypeOK /\ Disciplined(p) /\ UNCHANGED shop
  BY DEF IInv, InsertOrder, shop
<1>2. tx[p].kind = "order" /\ tx[p].stage = "key" /\ tx[p] \in OrderTx /\ tx[p].key \in Keys
  BY <1>1, TxFacts DEF InsertOrder, OrderTx
<1>3. CASE order[tx[p].key] # NoOrder
  <2>1. End(p)
    BY <1>3 DEF InsertOrder
  <2> QED BY <1>1, <2>1, EndInvariant
<1>4. CASE order[tx[p].key] = NoOrder
  <2> DEFINE k == tx[p].key
             x == [tx[p] EXCEPT !.stage = "skus"]
  <2>1. IsFree(<<"key", k>>) /\ Acquire(p, <<"key", k>>) /\ tx' = [tx EXCEPT ![p] = x]
    BY <1>4 DEF InsertOrder, KeyIsFree
  <2>2. x \in OrderTx /\ x.kind = "order" /\ x.stage = "skus" /\ x.key = k
        /\ x.token = tx[p].token /\ x.skus = tx[p].skus /\ x.rows = tx[p].rows
    BY <1>2 DEF OrderTx
  <2>3. x \in Transactions
    BY <2>2 DEF Transactions, OrderTx, Rows
  <2>4. tx'[p] = x
    BY <1>1, <2>1 DEF TypeOK
  <2>5. \A l \in Locks : lock[l] # p
    BY <1>1, <1>2 DEF Disciplined, KeyHeld, SkusInOrder, RowsInOrder, Locks
  <2>6. /\ lock'[<<"key", k>>] = p
        /\ \A l \in Locks : l # <<"key", k>> => lock'[l] # p
    BY <1>1, <1>2, <2>1, <2>5, LockNames DEF Acquire, TypeOK
  <2>7. \A s \in Skus : lock'[<<"sku", s>>] # p /\ lock'[<<"row", s>>] # p
    BY <2>6, LockNames
  <2>8. \A j \in Keys : lock'[<<"key", j>>] = p => j = k
    BY <2>6, LockNames
  <2>9. KeyHeld(p)'
    BY <1>1, <1>2, <1>4, <2>2, <2>4, <2>6, <2>8 DEF Disciplined, KeyHeld, shop
  <2>10. SkusInOrder(p)' /\ AddIsSmall(p)'
    BY <2>2, <2>4, <2>7 DEF SkusInOrder, AddIsSmall
  <2>11. RowsInOrder(p)'
    BY <1>1, <1>2, <2>2, <2>4, <2>7 DEF Disciplined, RowsInOrder
  <2>12. Disciplined(p)'
    BY <2>9, <2>10, <2>11 DEF Disciplined
  <2>13. \E l \in Locks : IsFree(l) /\ Acquire(p, l)
    BY <1>2, <2>1, LockNames
  <2> QED BY <1>1, <2>1, <2>3, <2>12, <2>13, TxStepInvariant
<1> QED BY <1>3, <1>4

(* A SKU is locked: it comes before the ones that are left.                *)
LEMMA LockSkuInvariant ==
  ASSUME IInv, NEW p \in Processes, NEW s \in Skus, LockSku(p, s)
  PROVE  IInv'
<1> DEFINE x == [tx[p] EXCEPT !.skus = tx[p].skus \ {s}]
           l == <<"sku", s>>
<1>1. TypeOK /\ Disciplined(p) /\ UNCHANGED shop
  BY DEF IInv, LockSku, shop
<1>2. /\ tx[p].kind \in {"order", "add"} /\ tx[p].stage = "skus"
      /\ s \in tx[p].skus /\ \A other \in tx[p].skus : s <= other
      /\ IsFree(l) /\ Acquire(p, l) /\ tx' = [tx EXCEPT ![p] = x]
  BY DEF LockSku, NextSkus
<1>3. tx[p] \in OrderTx \cup AddTx /\ tx[p].skus \subseteq Skus
  BY <1>1, <1>2, TxFacts DEF OrderTx, AddTx
<1>4. /\ x \in OrderTx \cup AddTx /\ x.kind = tx[p].kind /\ x.stage = "skus"
      /\ x.skus = tx[p].skus \ {s} /\ x.rows = tx[p].rows
      /\ x.kind = "order" => x.token = tx[p].token /\ x.key = tx[p].key
      /\ x.kind = "add" => x.sku = tx[p].sku
  BY <1>2, <1>3 DEF OrderTx, AddTx
<1>5. x \in Transactions
  BY <1>4 DEF Transactions, OrderTx, AddTx, Rows
<1>6. tx'[p] = x
  BY <1>1, <1>2 DEF TypeOK
<1>7. \A m \in Locks : m # l => lock'[m] = lock[m]
  BY <1>1, <1>2 DEF Acquire, TypeOK
<1>8. /\ \A k \in Keys : lock'[<<"key", k>>] = lock[<<"key", k>>]
      /\ \A y \in Skus : lock'[<<"row", y>>] = lock[<<"row", y>>]
      /\ \A y \in Skus : y # s => lock'[<<"sku", y>>] = lock[<<"sku", y>>]
  BY <1>7, LockNames
<1>9. KeyHeld(p)'
  <2>1. x.kind = "order" => tx[p].key \in Keys
    BY <1>4, TxFacts, <1>1 DEF OrderTx
  <2> QED BY <1>1, <1>2, <1>4, <1>6, <1>8, <2>1 DEF Disciplined, KeyHeld, shop
<1>10. SkusInOrder(p)'
  <2>1. \A y \in x.skus : s < y
    BY <1>2, <1>3, <1>4, CheckoutAssumption
  <2>2. ASSUME NEW y \in Skus, y # s, lock'[<<"sku", y>>] = p
        PROVE  \A z \in x.skus : y < z
    BY <1>1, <1>4, <1>8, <2>2 DEF Disciplined, SkusInOrder
  <2> QED BY <1>2, <1>4, <1>6, <2>1, <2>2 DEF SkusInOrder
<1>11. RowsInOrder(p)'
  <2>1. \A y \in Skus : lock[<<"row", y>>] # p
    BY <1>1, <1>2 DEF Disciplined, RowsInOrder
  <2> QED BY <1>1, <1>2, <1>4, <1>6, <1>8, <2>1 DEF Disciplined, RowsInOrder
<1>12. AddIsSmall(p)'
  BY <1>1, <1>4, <1>6 DEF Disciplined, AddIsSmall
<1>13. Disciplined(p)'
  BY <1>9, <1>10, <1>11, <1>12 DEF Disciplined
<1>14. \E m \in Locks : IsFree(m) /\ Acquire(p, m)
  BY <1>2, LockNames
<1> QED BY <1>1, <1>2, <1>5, <1>13, <1>14, TxStepInvariant

(* The rows of the cart are selected in a snapshot.                        *)
LEMMA SelectRowsInvariant ==
  ASSUME IInv, NEW p \in Processes, SelectRows(p)
  PROVE  IInv'
<1>1. TypeOK /\ IdsUnique /\ Disciplined(p) /\ UNCHANGED shop
  BY DEF IInv, CartInv, SelectRows, shop
<1>2. PICK found \in SUBSET CartRows :
        /\ tx[p].kind = "add" => found = {r \in CartRows : r[1] = tx[p].sku}
        /\ tx' = [tx EXCEPT ![p] = [tx[p] EXCEPT !.stage = "rows", !.rows = found]]
  <2>1. CASE tx[p].kind = "order"
    BY <2>1 DEF SelectRows
  <2>2. CASE tx[p].kind = "add"
    <3> DEFINE rows == {r \in CartRows : r[1] = tx[p].sku}
    <3>1. tx' = [tx EXCEPT ![p].stage = "rows", ![p].rows = rows]
      BY <2>2 DEF SelectRows
    <3>2. tx' = [tx EXCEPT ![p] = [tx[p] EXCEPT !.stage = "rows", !.rows = rows]]
      BY <1>1, <3>1 DEF TypeOK
    <3>3. rows \in SUBSET CartRows
      OBVIOUS
    <3> QED BY <2>2, <3>2, <3>3
  <2> QED BY <2>1, <2>2 DEF SelectRows
<1> DEFINE x == [tx[p] EXCEPT !.stage = "rows", !.rows = found]
<1>3. /\ tx[p].kind \in {"order", "add"} /\ tx[p].stage = "skus" /\ tx[p].skus = {}
      /\ lock' = lock
  BY DEF SelectRows
<1>4. tx[p] \in OrderTx \cup AddTx
  BY <1>1, <1>3, TxFacts
<1>5. /\ found \subseteq Rows /\ \A r \in found : r \in CartRows
      /\ \A r, other \in found : r[2] = other[2] => r = other
  BY <1>1, CartRowFacts
<1>6. /\ x \in OrderTx \cup AddTx /\ x.kind = tx[p].kind /\ x.stage = "rows"
      /\ x.skus = {} /\ x.rows = found
      /\ x.kind = "order" => x.token = tx[p].token /\ x.key = tx[p].key
      /\ x.kind = "add" => x.sku = tx[p].sku
  BY <1>3, <1>4, <1>5 DEF OrderTx, AddTx
<1>7. x \in Transactions
  BY <1>6 DEF Transactions, OrderTx, AddTx, Rows
<1>8. tx'[p] = x
  BY <1>1, <1>2 DEF TypeOK
<1>9. KeyHeld(p)'
  BY <1>1, <1>3, <1>6, <1>8 DEF Disciplined, KeyHeld, shop
<1>10. SkusInOrder(p)'
  BY <1>1, <1>3, <1>6, <1>8 DEF Disciplined, SkusInOrder
<1>11. RowsInOrder(p)'
  <2>1. \A y \in Skus : lock[<<"row", y>>] # p
    BY <1>1, <1>3 DEF Disciplined, RowsInOrder
  <2> QED BY <1>3, <1>5, <1>6, <1>8, <2>1 DEF RowsInOrder
<1>12. AddIsSmall(p)'
  <2>1. x.kind = "add" => \A r \in found : r[1] = tx[p].sku /\ r \in CartRows
    BY <1>2, <1>6
  <2>2. x.kind = "add" => \A r, other \in found : r = other
    BY <2>1 DEF CartRows
  <2> QED BY <1>6, <1>8, <2>1, <2>2 DEF AddIsSmall
<1>13. Disciplined(p)'
  BY <1>9, <1>10, <1>11, <1>12 DEF Disciplined
<1> QED BY <1>1, <1>2, <1>3, <1>7, <1>13, TxStepInvariant

(* A row is locked, or skipped because it is gone.                         *)
LEMMA LockRowInvariant ==
  ASSUME IInv, NEW p \in Processes, NEW r \in Rows, LockRow(p, r)
  PROVE  IInv'
<1> DEFINE x == [tx[p] EXCEPT !.rows = tx[p].rows \ {r}]
           l == <<"row", r[1]>>
<1>1. TypeOK /\ IdsUnique /\ Disciplined(p) /\ UNCHANGED shop
  BY DEF IInv, CartInv, LockRow, shop
<1>2. /\ tx[p] # Idle /\ tx[p].stage = "rows" /\ r \in NextRows(p)
      /\ \/ r \in CartRows /\ IsFree(l) /\ Acquire(p, l)
         \/ lock' = lock
      /\ tx' = [tx EXCEPT ![p] = x]
  BY DEF LockRow
<1>3. /\ r \in tx[p].rows
      /\ tx[p].kind # "clear" => \A other \in tx[p].rows : r[2] <= other[2]
  BY <1>2 DEF NextRows
<1>4. tx[p] \in OrderTx \cup AddTx \cup ClearTx /\ tx[p].rows \subseteq Rows
  BY <1>1, <1>2, TxFacts DEF OrderTx, AddTx, ClearTx
<1>5. /\ x \in OrderTx \cup AddTx \cup ClearTx /\ x.kind = tx[p].kind /\ x.stage = "rows"
      /\ x.kind \in {"order", "add", "clear"}
      /\ x.skus = tx[p].skus /\ x.rows = tx[p].rows \ {r}
      /\ x.kind = "order" => x.token = tx[p].token /\ x.key = tx[p].key
      /\ x.kind = "add" => x.sku = tx[p].sku
  BY <1>2, <1>4 DEF OrderTx, AddTx, ClearTx
<1>6. x \in Transactions
  BY <1>5 DEF Transactions, OrderTx, AddTx, ClearTx, Rows
<1>7. tx'[p] = x
  BY <1>1, <1>2 DEF TypeOK
<1>8. \A m \in Locks : m # l => lock'[m] = lock[m]
  BY <1>1, <1>2 DEF Acquire, TypeOK
<1>9. /\ \A k \in Keys : lock'[<<"key", k>>] = lock[<<"key", k>>]
      /\ \A y \in Skus : lock'[<<"sku", y>>] = lock[<<"sku", y>>]
      /\ \A y \in Skus : y # r[1] => lock'[<<"row", y>>] = lock[<<"row", y>>]
  BY <1>8, LockNames
<1>10. KeyHeld(p)'
  <2>1. x.kind = "order" => tx[p].key \in Keys
    BY <1>5, TxFacts, <1>1 DEF OrderTx
  <2> QED BY <1>1, <1>2, <1>5, <1>7, <1>9, <2>1 DEF Disciplined, KeyHeld, shop
<1>11. SkusInOrder(p)'
  BY <1>1, <1>2, <1>5, <1>7, <1>9 DEF Disciplined, SkusInOrder
<1>12. RowsInOrder(p)'
  <2>1. x.kind \in {"order", "add"} =>
          \A a, b \in x.rows : a[2] = b[2] => a = b
    BY <1>1, <1>5 DEF Disciplined, RowsInOrder
  <2>2. ASSUME NEW y \in Skus, lock'[<<"row", y>>] = p
        PROVE  y \in InCart /\ (x.kind # "clear" => \A a \in x.rows : cart[y].id < a[2])
    <3>1. CASE lock[<<"row", y>>] = p
      BY <1>1, <1>5, <3>1 DEF Disciplined, RowsInOrder
    <3>2. CASE lock[<<"row", y>>] # p
      <4>1. y = r[1] /\ r \in CartRows
        BY <1>2, <1>9, <2>2, <3>2, LockNames
      <4>2. y \in InCart /\ cart[y].id = r[2]
        BY <1>1, <4>1, CartRowFacts
      <4>3. ASSUME x.kind # "clear", NEW a \in x.rows
            PROVE  r[2] < a[2]
        <5>1. r[2] <= a[2] /\ a # r /\ a \in tx[p].rows
          BY <1>3, <1>5, <4>3
        <5>2. r[2] # a[2]
          BY <1>1, <1>3, <1>5, <4>3, <5>1 DEF Disciplined, RowsInOrder
        <5>3. r[2] \in Int /\ a[2] \in Int
          BY <1>4, <5>1 DEF Rows
        <5> QED BY <5>1, <5>2, <5>3
      <4> QED BY <4>2, <4>3
    <3> QED BY <3>1, <3>2
  <2>3. cart' = cart /\ InCart' = InCart
    BY <1>1 DEF shop, InCart
  <2> QED BY <1>5, <1>7, <2>1, <2>2, <2>3 DEF RowsInOrder
<1>13. AddIsSmall(p)'
  BY <1>1, <1>5, <1>7 DEF Disciplined, AddIsSmall
<1>14. Disciplined(p)'
  BY <1>10, <1>11, <1>12, <1>13 DEF Disciplined
<1>15. lock' = lock \/ \E m \in Locks : IsFree(m) /\ Acquire(p, m)
  BY <1>2, LockNames DEF Rows
<1> QED BY <1>1, <1>2, <1>6, <1>14, <1>15, TxStepInvariant

-----------------------------------------------------------------------------
(* Steps that change the shop.                                             *)

(* Rows nobody holds change, an offer, or the units of a SKU.              *)
LEMMA ShopStepInvariant ==
  ASSUME IInv, TypeOK', CartInv', UNCHANGED <<lock, tx, order>>, tokens \subseteq tokens',
         \A s \in InCart : IsFree(<<"row", s>>) \/ (s \in InCart' /\ cart'[s].id = cart[s].id)
  PROVE  IInv'
<1>1. ASSUME NEW q \in Processes
      PROVE  Disciplined(q)'
  <2>1. TypeOK /\ Disciplined(q)
    BY DEF IInv
  <2>2. ASSUME NEW s \in Skus, lock[<<"row", s>>] = q
        PROVE  s \in InCart' /\ cart'[s].id = cart[s].id
    <3>1. s \in InCart
      BY <2>1, <2>2 DEF Disciplined, RowsInOrder
    <3>2. ~IsFree(<<"row", s>>)
      BY <2>2, CheckoutAssumption DEF IsFree
    <3> QED BY <3>1, <3>2
  <2> QED BY <2>1, <2>2, OtherKept
<1> QED BY <1>1 DEF IInv

(* A transaction commits: what it changes, the others have not locked.     *)
LEMMA CommitInvariant ==
  ASSUME IInv, NEW p \in Processes, End(p), TypeOK', CartInv', tokens' = tokens,
         \A s \in InCart : lock[<<"row", s>>] = p \/ (s \in InCart' /\ cart'[s].id = cart[s].id),
         \A k \in Keys : lock[<<"key", k>>] = p \/ order'[k] = order[k]
  PROVE  IInv'
<1>1. TypeOK
  BY DEF IInv
<1>2. ASSUME NEW q \in Processes, q # p
      PROVE  Disciplined(q)'
  <2>1. Disciplined(q)
    BY DEF IInv
  <2>2. tx'[q] = tx[q] /\ \A l \in Locks : lock'[l] = q <=> lock[l] = q
    BY <1>1, <1>2, EndFacts
  <2>3. ASSUME NEW s \in Skus, lock[<<"row", s>>] = q
        PROVE  s \in InCart' /\ cart'[s].id = cart[s].id
    BY <1>2, <2>1, <2>3 DEF Disciplined, RowsInOrder
  <2> QED BY <1>1, <1>2, <2>1, <2>2, <2>3, OtherKept
<1>3. Disciplined(p)'
  BY <1>1, EndFacts
<1> QED BY <1>2, <1>3 DEF IInv

LEMMA RequantifiedFacts ==
  ASSUME NEW x \in Items, x.version < MaxVersion, NEW n \in 1 .. MaxQuantity
  PROVE  /\ Requantified(x, n) \in Items
         /\ Requantified(x, n).id = x.id
         /\ Requantified(x, n).version = x.version + 1
<1>1. MaxVersion \in Nat /\ x.version + 1 \in 1 .. MaxVersion
  BY CheckoutAssumption DEF Items
<1> QED BY <1>1 DEF Items, Requantified

(* The quantity of an item changes, and its version with it.               *)
LEMMA EditKept ==
  ASSUME IInv, NEW s \in InCart, NEW n \in 1 .. MaxQuantity, cart[s].version < MaxVersion,
         cart' = [cart EXCEPT ![s] = Requantified(cart[s], n)],
         UNCHANGED <<lastId, removed, tokens, order>>
  PROVE  /\ cart' \in Lines /\ CartInv'
         /\ InCart' = InCart /\ \A x \in Skus : cart'[x].id = cart[x].id
<1>1. TypeOK /\ CartInv
  BY DEF IInv
<1>2. s \in Skus /\ cart[s] \in Items
  BY <1>1, CartFacts, LineFacts DEF InCart
<1>3. /\ Requantified(cart[s], n) \in Items
      /\ Requantified(cart[s], n).id = cart[s].id
      /\ Requantified(cart[s], n).version = cart[s].version + 1
  BY <1>2, RequantifiedFacts
<1>4. /\ cart'[s].id = cart[s].id /\ cart'[s].version = cart[s].version + 1
      /\ \A x \in Skus : x # s => cart'[x] = cart[x]
  BY <1>1, <1>2, <1>3 DEF TypeOK, Lines
<1>5. cart' \in Lines
  BY <1>1, <1>2, <1>3 DEF TypeOK, Lines
<1>6. \A x \in Skus : cart'[x].id = cart[x].id
  BY <1>4
<1>7. \A x \in Skus : cart'[x] \in Items \cup {NoItem}
  BY <1>5 DEF Lines
<1>8. InCart' = InCart
  BY <1>1, <1>6, <1>7, CartFacts, LineFacts DEF InCart
<1>9. Placed' = Placed /\ \A id : OrdersOf(id)' = OrdersOf(id)
  BY DEF Placed, OrdersOf
<1>10. IdsUnique'
  BY <1>1, <1>6, <1>8, <1>9 DEF CartInv, IdsUnique, InCart
<1>11. \A t \in tokens, x \in Skus : t.lines[x].version \in Nat
  BY <1>1, LineFacts DEF TypeOK, Tokens, Lines
<1>12. TokensHistoric' /\ VersionFixesQuantity'
  <2>1. ASSUME NEW t \in tokens, NEW x \in Skus, cart'[x].id = t.lines[x].id
        PROVE  /\ t.lines[x].version <= cart'[x].version
               /\ cart'[x].version = t.lines[x].version => cart'[x].quantity = t.lines[x].quantity
    <3>1. cart[x].id = t.lines[x].id /\ t.lines[x].version <= cart[x].version
      BY <1>1, <1>6, <2>1 DEF CartInv, TokensHistoric
    <3>2. cart[x].version \in Nat /\ t.lines[x].version \in Nat
      BY <1>1, <1>11, CartFacts
    <3>3. CASE x = s
      BY <1>4, <3>1, <3>2, <3>3
    <3>4. CASE x # s
      BY <1>1, <1>4, <3>1, <3>4 DEF CartInv, VersionFixesQuantity
    <3> QED BY <3>3, <3>4
  <2> QED BY <1>1, <2>1 DEF CartInv, TokensHistoric, VersionFixesQuantity
<1>13. ItemsInOnePlace'
  <2>1. \A id : IsInCart(id)' <=> IsInCart(id)
    BY <1>6 DEF IsInCart
  <2> QED BY <1>1, <1>9, <2>1 DEF CartInv, ItemsInOnePlace, ItemInOnePlace
<1>14. OrderIsPreviewed'
  BY <1>1, <1>9 DEF CartInv, OrderIsPreviewed
<1> QED BY <1>5, <1>6, <1>8, <1>10, <1>12, <1>13, <1>14 DEF CartInv

(* Rows leave the cart; the ids that are left are where they were.         *)
LEMMA Removal ==
  ASSUME TypeOK, CartInv, NEW gone \in SUBSET InCart,
         cart' = [s \in Skus |-> IF s \in gone THEN NoItem ELSE cart[s]],
         UNCHANGED <<lastId, tokens>>
  PROVE  /\ cart' \in Lines /\ InCart' = InCart \ gone
         /\ \A s \in InCart : s \in gone \/ cart'[s] = cart[s]
         /\ \A s, other \in InCart' : cart'[s].id = cart'[other].id => s = other
         /\ \A s \in InCart' : cart'[s].id <= lastId
         /\ TokensHistoric' /\ VersionFixesQuantity'
         /\ \A id \in 1 .. lastId :
              IsInCart(id)' <=> IsInCart(id) /\ ~\E s \in gone : cart[s].id = id
<1>1. \A s \in Skus : /\ s \in gone => cart'[s] = NoItem
                      /\ s \notin gone => cart'[s] = cart[s]
  OBVIOUS
<1>2. gone \subseteq Skus
  BY DEF InCart
<1>3. cart' \in Lines
  BY <1>1 DEF TypeOK, Lines
<1>4. InCart' = InCart \ gone
  BY <1>1 DEF InCart
<1>5. \A s \in InCart' : s \in InCart /\ cart'[s] = cart[s]
  BY <1>1, <1>4 DEF InCart
<1>6. /\ \A s, other \in InCart' : cart'[s].id = cart'[other].id => s = other
      /\ \A s \in InCart' : cart'[s].id <= lastId
  BY <1>5 DEF CartInv, IdsUnique
<1>7. TokensHistoric' /\ VersionFixesQuantity'
  <2>1. ASSUME NEW t \in tokens, NEW x \in Skus, cart'[x].id = t.lines[x].id
        PROVE  /\ t.lines[x].version <= cart'[x].version
               /\ cart'[x].version = t.lines[x].version => cart'[x].quantity = t.lines[x].quantity
    <3>1. CASE x \in gone
      <4>1. t.lines[x] \in Items \cup {NoItem}
        BY DEF TypeOK, Tokens, Lines
      <4>2. cart'[x] = NoItem /\ t.lines[x] = NoItem
        BY <1>1, <2>1, <3>1, <4>1, LineFacts DEF NoItem
      <4> QED BY <4>2 DEF NoItem
    <3>2. CASE x \notin gone
      BY <1>1, <2>1, <3>2 DEF CartInv, TokensHistoric, VersionFixesQuantity
    <3> QED BY <3>1, <3>2
  <2> QED BY <2>1 DEF CartInv, TokensHistoric, VersionFixesQuantity
<1>8. ASSUME NEW id \in 1 .. lastId
      PROVE  IsInCart(id)' <=> IsInCart(id) /\ ~\E s \in gone : cart[s].id = id
  <2>1. id # 0
    BY DEF TypeOK
  <2>2. ASSUME NEW s \in Skus, cart'[s].id = id
        PROVE  cart[s].id = id /\ ~\E x \in gone : cart[x].id = id
    <3>1. s \notin gone /\ cart[s].id = id
      BY <1>1, <2>1, <2>2 DEF NoItem
    <3>2. s \in InCart
      BY <2>1, <3>1, CartFacts
    <3> QED BY <3>1, <3>2 DEF CartInv, IdsUnique
  <2>3. ASSUME NEW s \in Skus, cart[s].id = id, ~\E x \in gone : cart[x].id = id
        PROVE  cart'[s].id = id
    BY <1>1, <2>3
  <2> QED BY <2>2, <2>3 DEF IsInCart
<1> QED BY <1>1, <1>3, <1>4, <1>5, <1>6, <1>7, <1>8

(* The user removes rows.                                                  *)
LEMMA RemovedByUser ==
  ASSUME TypeOK, CartInv, NEW gone \in SUBSET InCart,
         cart' = [s \in Skus |-> IF s \in gone THEN NoItem ELSE cart[s]],
         removed' = removed \cup {cart[s].id : s \in gone},
         UNCHANGED <<lastId, tokens, order>>
  PROVE  CartInv' /\ removed' \subseteq 1 .. MaxItems
<1>1. gone \subseteq Skus /\ \A s \in gone : cart[s].id \in 1 .. MaxItems /\ cart[s].id <= lastId
  BY CartFacts, LineFacts DEF InCart, CartInv, IdsUnique
<1>2. removed' \subseteq 1 .. MaxItems /\ \A id \in removed' : id <= lastId
  BY <1>1 DEF TypeOK, CartInv, IdsUnique
<1>3. Placed' = Placed /\ \A id : OrdersOf(id)' = OrdersOf(id)
  BY DEF Placed, OrdersOf
<1>4. IdsUnique'
  BY <1>2, <1>3, Removal DEF CartInv, IdsUnique
<1>5. ItemsInOnePlace'
  <2>1. ASSUME NEW id \in 1 .. lastId
        PROVE  ItemInOnePlace(id)'
    <3>1. ItemInOnePlace(id)
      BY DEF CartInv, ItemsInOnePlace
    <3>2. IsInCart(id)' <=> IsInCart(id) /\ ~\E s \in gone : cart[s].id = id
      BY Removal
    <3>3. id \in removed' <=> id \in removed \/ \E s \in gone : cart[s].id = id
      OBVIOUS
    <3>4. (\E s \in gone : cart[s].id = id) => IsInCart(id)
      BY <1>1 DEF IsInCart
    <3> QED BY <1>3, <3>1, <3>2, <3>3, <3>4 DEF ItemInOnePlace
  <2> QED BY <2>1 DEF ItemsInOnePlace
<1>6. OrderIsPreviewed'
  BY <1>3 DEF CartInv, OrderIsPreviewed
<1> QED BY <1>2, <1>4, <1>5, <1>6, Removal DEF CartInv

-----------------------------------------------------------------------------
(* The actions that change the shop.                                       *)
LEMMA InitInvariant ==
  ASSUME Init
  PROVE  IInv
<1>1. /\ cart = [s \in Skus |-> NoItem] /\ InCart = {}
      /\ order = [k \in Keys |-> NoOrder] /\ Placed = {}
      /\ lastId = 0 /\ removed = {} /\ tokens = {}
  BY DEF Init, InCart, Placed
<1>2. TypeOK
  <2>1. cart \in Lines /\ order \in [Keys -> {NoOrder}]
    BY <1>1 DEF Lines
  <2>2. offer \in [Skus -> AnyOffer] /\ \A s \in Skus : offer[s] \in Offers[s]
    BY DEF Init, Active
  <2>3. free \in [Skus -> Nat] /\ \A s \in Skus : free[s] \in 0 .. Stock[s]
    BY CheckoutAssumption DEF Init
  <2>4. lock \in [Locks -> Processes \cup {Nobody}] /\ tx \in [Processes -> Transactions]
    BY DEF Init, Transactions
  <2>5. lastId \in 0 .. MaxItems
    BY <1>1, CheckoutAssumption
  <2> QED BY <1>1, <2>1, <2>2, <2>3, <2>4, <2>5 DEF TypeOK
<1>3. CartInv
  BY <1>1 DEF CartInv, IdsUnique, TokensHistoric, VersionFixesQuantity, ItemsInOnePlace,
              OrderIsPreviewed
<1>4. ASSUME NEW p \in Processes
      PROVE  Disciplined(p)
  <2>1. /\ tx[p] = Idle
        /\ \A k \in Keys : lock[<<"key", k>>] # p
        /\ \A s \in Skus : lock[<<"sku", s>>] # p /\ lock[<<"row", s>>] # p
    BY CheckoutAssumption, LockNames DEF Init
  <2>2. tx[p].kind = "none"
    BY <2>1 DEF Idle
  <2> QED BY <2>1, <2>2 DEF Disciplined, KeyHeld, SkusInOrder, RowsInOrder, AddIsSmall
<1> QED BY <1>2, <1>3, <1>4 DEF IInv

LEMMA PreviewInvariant ==
  ASSUME IInv, PreviewCheckout
  PROVE  IInv'
<1> DEFINE offers == [s \in Skus |-> IF s \in InCart THEN offer[s] ELSE "none"]
           t == [lines |-> cart, offers |-> offers]
<1>1. TypeOK /\ CartInv
  BY DEF IInv
<1>2. /\ tokens' = tokens \cup {t}
      /\ UNCHANGED <<cart, lastId, removed, offer, free, order, lock, tx>>
  BY DEF PreviewCheckout
<1>3. t \in Tokens
  BY <1>1 DEF TypeOK, Tokens
<1>4. TypeOK'
  BY <1>1, <1>2, <1>3 DEF TypeOK
<1>5. InCart' = InCart /\ Placed' = Placed /\ \A id : OrdersOf(id)' = OrdersOf(id)
  BY <1>2 DEF InCart, Placed, OrdersOf
<1>6. IdsUnique' /\ OrderIsPreviewed'
  BY <1>1, <1>2, <1>5 DEF CartInv, IdsUnique, OrderIsPreviewed
<1>7. ItemsInOnePlace'
  BY <1>1, <1>2, <1>5 DEF CartInv, ItemsInOnePlace, ItemInOnePlace, IsInCart
<1>8. TokensHistoric' /\ VersionFixesQuantity'
  <2>1. ASSUME NEW u \in tokens', NEW s \in Skus
        PROVE  /\ u.lines[s] = NoItem => u.offers[s] = "none"
               /\ u.lines[s].id <= lastId
               /\ cart[s].id = u.lines[s].id =>
                    /\ u.lines[s].version <= cart[s].version
                    /\ cart[s].version = u.lines[s].version =>
                         cart[s].quantity = u.lines[s].quantity
    <3>1. CASE u \in tokens
      BY <1>1, <3>1 DEF CartInv, TokensHistoric, VersionFixesQuantity
    <3>2. CASE u = t
      <4>1. u.lines = cart /\ u.offers[s] = IF s \in InCart THEN offer[s] ELSE "none"
        BY <3>2
      <4>2. cart[s].id <= lastId /\ cart[s].version <= cart[s].version
        <5>1. CASE s \in InCart
          BY <1>1, <5>1, CartFacts DEF CartInv, IdsUnique
        <5>2. CASE s \notin InCart
          <6>1. cart[s].id = 0 /\ cart[s].version \in Nat
            BY <1>1, <5>2, CartFacts
          <6>2. lastId \in Nat
            BY <1>1, CheckoutAssumption DEF TypeOK
          <6> QED BY <6>1, <6>2
        <5> QED BY <5>1, <5>2
      <4> QED BY <1>1, <4>1, <4>2, CartFacts
    <3> QED BY <1>2, <3>1, <3>2
  <2> QED BY <1>2, <2>1 DEF TokensHistoric, VersionFixesQuantity
<1> QED BY <1>1, <1>2, <1>4, <1>5, <1>6, <1>7, <1>8, ShopStepInvariant DEF CartInv

LEMMA UpdateItemInvariant ==
  ASSUME IInv, NEW s \in Skus, NEW q \in 1 .. MaxQuantity, UpdateItem(s, q)
  PROVE  IInv'
<1>1. TypeOK
  BY DEF IInv
<1>2. /\ s \in InCart /\ cart[s].version < MaxVersion
      /\ cart' = [cart EXCEPT ![s] = Requantified(cart[s], q)]
      /\ UNCHANGED <<lastId, removed, offer, free, tokens, order, lock, tx>>
  BY DEF UpdateItem
<1>3. /\ cart' \in Lines /\ CartInv'
      /\ InCart' = InCart /\ \A x \in Skus : cart'[x].id = cart[x].id
  BY <1>2, EditKept
<1>4. TypeOK'
  BY <1>1, <1>2, <1>3 DEF TypeOK
<1> QED BY <1>2, <1>3, <1>4, ShopStepInvariant DEF InCart

LEMMA DeleteItemInvariant ==
  ASSUME IInv, NEW s \in Skus, DeleteItem(s)
  PROVE  IInv'
<1> DEFINE gone == {s}
<1>1. TypeOK /\ CartInv
  BY DEF IInv
<1>2. /\ s \in InCart /\ IsFree(<<"row", s>>)
      /\ cart' = [cart EXCEPT ![s] = NoItem]
      /\ removed' = removed \cup {cart[s].id}
      /\ UNCHANGED <<lastId, offer, free, tokens, order, lock, tx>>
  BY DEF DeleteItem
<1>3. /\ cart' = [x \in Skus |-> IF x \in gone THEN NoItem ELSE cart[x]]
      /\ removed' = removed \cup {cart[x].id : x \in gone}
      /\ gone \in SUBSET InCart
  <2>1. cart' = [x \in Skus |-> IF x \in gone THEN NoItem ELSE cart[x]]
    BY <1>1, <1>2 DEF TypeOK, Lines
  <2>2. {cart[s].id} = {cart[x].id : x \in gone}
    OBVIOUS
  <2> QED BY <1>2, <2>1, <2>2
<1>4. /\ CartInv' /\ removed' \subseteq 1 .. MaxItems
      /\ cart' \in Lines /\ InCart' = InCart \ gone
      /\ \A x \in InCart : x \in gone \/ cart'[x] = cart[x]
  <2> HIDE DEF gone
  <2> QED BY <1>1, <1>2, <1>3, RemovedByUser, Removal
<1>5. TypeOK'
  BY <1>1, <1>2, <1>4 DEF TypeOK
<1>6. \A x \in InCart : IsFree(<<"row", x>>) \/ (x \in InCart' /\ cart'[x].id = cart[x].id)
  BY <1>2, <1>4
<1> QED BY <1>2, <1>4, <1>5, <1>6, ShopStepInvariant

(* Offers and free units are nobody's history.                             *)
LEMMA MarketInvariant ==
  ASSUME IInv, TypeOK', UNCHANGED <<cart, lastId, removed, tokens, order, lock, tx>>
  PROVE  IInv'
<1>1. InCart' = InCart /\ Placed' = Placed /\ \A id : OrdersOf(id)' = OrdersOf(id)
  BY DEF InCart, Placed, OrdersOf
<1>2. IdsUnique' /\ OrderIsPreviewed'
  BY <1>1 DEF IInv, CartInv, IdsUnique, OrderIsPreviewed
<1>3. ItemsInOnePlace'
  BY <1>1 DEF IInv, CartInv, ItemsInOnePlace, ItemInOnePlace, IsInCart
<1>4. TokensHistoric' /\ VersionFixesQuantity'
  BY DEF IInv, CartInv, TokensHistoric, VersionFixesQuantity
<1> QED BY <1>1, <1>2, <1>3, <1>4, ShopStepInvariant DEF CartInv

LEMMA ChangeOfferInvariant ==
  ASSUME IInv, NEW s \in Skus, ChangeOffer(s)
  PROVE  IInv'
<1>1. TypeOK
  BY DEF IInv
<1>2. PICK o \in Offers[s] : offer' = [offer EXCEPT ![s] = o]
  BY DEF ChangeOffer
<1>3. o \in AnyOffer
  BY DEF AnyOffer
<1>4. offer' \in [Skus -> AnyOffer] /\ \A x \in Skus : offer'[x] \in Offers[x]
  BY <1>1, <1>2, <1>3 DEF TypeOK
<1>5. UNCHANGED <<cart, lastId, removed, free, tokens, order, lock, tx>>
  BY DEF ChangeOffer
<1>6. TypeOK'
  BY <1>1, <1>4, <1>5 DEF TypeOK
<1> QED BY <1>5, <1>6, MarketInvariant

LEMMA ReserveElsewhereInvariant ==
  ASSUME IInv, NEW s \in Skus, ReserveElsewhere(s)
  PROVE  IInv'
<1>1. TypeOK
  BY DEF IInv
<1>2. PICK n \in 0 .. Stock[s] : free' = [free EXCEPT ![s] = n]
  BY DEF ReserveElsewhere
<1>3. free' \in [Skus -> Nat] /\ \A x \in Skus : free'[x] \in 0 .. Stock[x]
  BY <1>1, <1>2 DEF TypeOK
<1>4. UNCHANGED <<cart, lastId, removed, offer, tokens, order, lock, tx>>
  BY DEF ReserveElsewhere
<1>5. TypeOK'
  BY <1>1, <1>3, <1>4 DEF TypeOK
<1> QED BY <1>4, <1>5, MarketInvariant

LEMMA GiveUpInvariant ==
  ASSUME IInv, NEW p \in Processes, RejectOrder(p) \/ RejectAdd(p) \/ RollBack(p)
  PROVE  IInv'
<1>1. End(p) /\ UNCHANGED shop
  BY DEF RejectOrder, RejectAdd, RollBack, shop
<1> QED BY <1>1, EndInvariant

LEMMA CommitClearInvariant ==
  ASSUME IInv, NEW p \in Processes, CommitClear(p)
  PROVE  IInv'
<1> DEFINE gone == LockedRows(p)
<1>1. TypeOK /\ CartInv /\ Disciplined(p)
  BY DEF IInv
<1>2. /\ cart' = [s \in Skus |-> IF s \in gone THEN NoItem ELSE cart[s]]
      /\ removed' = removed \cup {cart[s].id : s \in gone}
      /\ UNCHANGED <<lastId, offer, free, tokens, order>> /\ End(p)
  BY DEF CommitClear
<1>3. gone \in SUBSET InCart
  BY <1>1 DEF Disciplined, RowsInOrder, LockedRows
<1>4. /\ CartInv' /\ removed' \subseteq 1 .. MaxItems
      /\ cart' \in Lines /\ InCart' = InCart \ gone
      /\ \A x \in InCart : x \in gone \/ cart'[x] = cart[x]
  <2> HIDE DEF gone
  <2> QED BY <1>1, <1>2, <1>3, RemovedByUser, Removal
<1>5. TypeOK'
  BY <1>1, <1>2, <1>4, EndFacts DEF TypeOK
<1>6. \A x \in InCart : lock[<<"row", x>>] = p \/ (x \in InCart' /\ cart'[x].id = cart[x].id)
  BY <1>4 DEF LockedRows
<1> QED BY <1>2, <1>4, <1>5, <1>6, CommitInvariant

(* An item is put into the cart under a number that no item had.           *)
LEMMA NewItem ==
  ASSUME TypeOK, CartInv, NEW s \in Skus, s \notin InCart, lastId < MaxItems,
         NEW q \in 1 .. MaxQuantity,
         cart' = [cart EXCEPT ![s] = [id |-> lastId + 1, quantity |-> q, version |-> 1]],
         lastId' = lastId + 1, UNCHANGED <<removed, tokens, order>>
  PROVE  /\ cart' \in Lines /\ lastId' \in 0 .. MaxItems /\ CartInv'
         /\ \A x \in InCart : x \in InCart' /\ cart'[x] = cart[x]
<1> DEFINE item == [id |-> lastId + 1, quantity |-> q, version |-> 1]
<1>1. lastId \in Nat /\ lastId' \in 0 .. MaxItems /\ lastId + 1 \in 1 .. MaxItems
  BY CheckoutAssumption DEF TypeOK
<1>2. item \in Items /\ item # NoItem
  BY <1>1, CheckoutAssumption DEF Items, NoItem
<1>3. cart' \in Lines
  BY <1>2 DEF TypeOK, Lines
<1>4. /\ cart'[s] = item /\ cart'[s].id = lastId + 1
      /\ \A x \in Skus : x # s => cart'[x] = cart[x]
  BY DEF TypeOK, Lines
<1>5. InCart' = InCart \cup {s} /\ InCart \subseteq Skus /\ cart[s].id = 0
  <2>1. cart[s].id = 0
    BY CartFacts
  <2> QED BY <1>2, <1>4, <2>1 DEF InCart
<1>6. \A x \in InCart : x \in InCart' /\ cart'[x] = cart[x]
  BY <1>4, <1>5
<1>7. \A x \in InCart : cart[x].id \in Nat /\ cart[x].id <= lastId
  BY <1>5, CartFacts DEF CartInv, IdsUnique
<1>8. Placed' = Placed /\ \A id : OrdersOf(id)' = OrdersOf(id)
  BY DEF Placed, OrdersOf
<1>9. /\ \A id \in removed : id \in Nat /\ id <= lastId
      /\ \A k \in Placed, x \in Skus : order[k].lines[x].id \in Nat /\ order[k].lines[x].id <= lastId
  <2>1. ASSUME NEW k \in Placed, NEW x \in Skus
        PROVE  order[k].lines[x] \in Items \cup {NoItem}
    <3>1. order[k].lines \in Lines
      BY DEF TypeOK, Placed
    <3> QED BY <3>1 DEF Lines
  <2>2. \A k \in Placed, x \in Skus : order[k].lines[x].id \in Nat
    BY <2>1, LineFacts
  <2>3. removed \subseteq Nat
    BY CheckoutAssumption DEF TypeOK
  <2> QED BY <2>2, <2>3 DEF CartInv, IdsUnique
<1>10. IdsUnique'
  <2>1. \A x \in InCart' : cart'[x].id <= lastId'
    BY <1>1, <1>4, <1>5, <1>6, <1>7
  <2>2. ASSUME NEW x \in InCart', NEW y \in InCart', cart'[x].id = cart'[y].id
        PROVE  x = y
    <3>1. CASE x = s \/ y = s
      BY <1>1, <1>4, <1>5, <1>6, <1>7, <2>2, <3>1
    <3>2. CASE x # s /\ y # s
      BY <1>5, <1>6, <2>2, <3>2 DEF CartInv, IdsUnique
    <3> QED BY <3>1, <3>2
  <2>3. /\ \A id \in removed' : id <= lastId'
        /\ \A k \in Placed', x \in Skus : order'[k].lines[x].id <= lastId'
    BY <1>1, <1>8, <1>9
  <2> QED BY <2>1, <2>2, <2>3 DEF IdsUnique
<1>11. TokensHistoric' /\ VersionFixesQuantity'
  <2>1. ASSUME NEW t \in tokens, NEW x \in Skus
        PROVE  /\ t.lines[x].id <= lastId'
               /\ cart'[x].id = t.lines[x].id => x # s
    <3>1. t.lines[x] \in Items \cup {NoItem}
      BY DEF TypeOK, Tokens, Lines
    <3>2. t.lines[x].id \in Nat /\ t.lines[x].id <= lastId
      BY <3>1, LineFacts DEF CartInv, TokensHistoric
    <3> QED BY <1>1, <1>4, <3>2
  <2> QED BY <1>4, <2>1 DEF CartInv, TokensHistoric, VersionFixesQuantity
<1>12. ItemsInOnePlace'
  <2>1. ASSUME NEW id \in 1 .. lastId'
        PROVE  ItemInOnePlace(id)'
    <3>1. CASE id = lastId + 1
      <4>1. IsInCart(id)' /\ id \notin removed
        BY <1>1, <1>4, <1>9, <3>1 DEF IsInCart
      <4>2. OrdersOf(id) = {}
        BY <1>1, <1>9, <3>1 DEF OrdersOf
      <4> QED BY <1>8, <4>1, <4>2 DEF ItemInOnePlace
    <3>2. CASE id # lastId + 1
      <4>1. id \in 1 .. lastId
        BY <1>1, <3>2
      <4>2. ItemInOnePlace(id)
        BY <4>1 DEF CartInv, ItemsInOnePlace
      <4>3. IsInCart(id)' <=> IsInCart(id)
        BY <1>1, <1>4, <1>5, <3>2, <4>1 DEF IsInCart
      <4> QED BY <1>8, <4>2, <4>3 DEF ItemInOnePlace
    <3> QED BY <3>1, <3>2
  <2> QED BY <2>1 DEF ItemsInOnePlace
<1>13. OrderIsPreviewed'
  BY <1>8 DEF CartInv, OrderIsPreviewed
<1> QED BY <1>1, <1>3, <1>6, <1>10, <1>11, <1>12, <1>13 DEF CartInv

LEMMA CommitAddInvariant ==
  ASSUME IInv, NEW p \in Processes, CommitAdd(p)
  PROVE  IInv'
<1> DEFINE s == tx[p].sku
           q == tx[p].quantity
<1>1. TypeOK /\ CartInv
  BY DEF IInv
<1>2. s \in Skus /\ q \in 1 .. MaxQuantity
  <2>1. tx[p] \in AddTx
    BY <1>1, TxFacts DEF CommitAdd, HasAllLocks
  <2> QED BY <2>1 DEF AddTx
<1>3. End(p) /\ UNCHANGED <<removed, offer, free, tokens, order>>
  BY DEF CommitAdd
<1>4. /\ cart' \in Lines /\ lastId' \in 0 .. MaxItems /\ CartInv'
      /\ \A x \in InCart : x \in InCart' /\ cart'[x].id = cart[x].id
  <2>1. CASE s \in InCart
    <3>1. /\ cart[s].version < MaxVersion /\ lastId' = lastId
          /\ cart' = [cart EXCEPT ![s] = Requantified(cart[s], cart[s].quantity + q)]
          /\ cart[s].quantity + q <= MaxQuantity
      BY <2>1 DEF CommitAdd, MayAdd
    <3>2. cart[s].quantity + q \in 1 .. MaxQuantity
      BY <1>1, <1>2, <3>1, CartFacts, CheckoutAssumption
    <3>3. /\ cart' \in Lines /\ CartInv'
          /\ InCart' = InCart /\ \A x \in Skus : cart'[x].id = cart[x].id
      BY <1>3, <2>1, <3>1, <3>2, EditKept
    <3> QED BY <1>1, <3>1, <3>3 DEF TypeOK, InCart
  <2>2. CASE s \notin InCart
    <3>1. /\ lastId < MaxItems /\ lastId' = lastId + 1
          /\ cart' = [cart EXCEPT ![s] = [id |-> lastId + 1, quantity |-> q, version |-> 1]]
      BY <2>2 DEF CommitAdd
    <3> HIDE DEF s, q
    <3> QED BY <1>1, <1>2, <1>3, <2>2, <3>1, NewItem
  <2> QED BY <2>1, <2>2
<1>5. TypeOK'
  BY <1>1, <1>3, <1>4, EndFacts DEF TypeOK
<1> QED BY <1>3, <1>4, <1>5, CommitInvariant

(* The Order takes over the rows that were locked.                         *)
LEMMA PlaceOrderInvariant ==
  ASSUME IInv, NEW p \in Processes, PlaceOrder(p)
  PROVE  IInv'
<1> DEFINE gone == LockedRows(p)
           k == tx[p].key
           t == tx[p].token
           lines == LinesFound(p)
           offers == [s \in Skus |-> IF s \in gone THEN offer[s] ELSE "none"]
           new == [placed |-> TRUE, lines |-> lines, token |-> t, offers |-> offers]
<1>1. TypeOK /\ CartInv /\ Disciplined(p)
  BY DEF IInv
<1>2. /\ tx[p].kind = "order" /\ tx[p].stage = "rows"
      /\ End(p) /\ UNCHANGED <<lastId, removed, offer, tokens>>
      /\ order' = [order EXCEPT ![k] = new]
      /\ free' = [s \in Skus |-> free[s] - lines[s].quantity]
      /\ cart' = [s \in Skus |-> IF s \in gone THEN NoItem ELSE cart[s]]
  BY DEF PlaceOrder, HasAllLocks, CartWithout
<1>3. /\ lines = t.lines
      /\ \A s \in SkusOf(t) : offer[s] = t.offers[s] /\ lines[s].quantity <= free[s]
  BY DEF PlaceOrder, MayPlace, FingerprintMatches
<1>4. k \in Keys /\ t \in tokens /\ lock[<<"key", k>>] = p /\ order[k] = NoOrder
  <2>1. tx[p] \in OrderTx
    BY <1>1, <1>2, TxFacts
  <2> QED BY <1>1, <1>2, <2>1 DEF OrderTx, Disciplined, KeyHeld
<1>5. gone \in SUBSET InCart /\ gone \subseteq Skus
  BY <1>1 DEF Disciplined, RowsInOrder, LockedRows
<1>6. \A s \in Skus : /\ s \in gone => lines[s] = cart[s]
                      /\ s \notin gone => lines[s] = NoItem
  BY DEF LinesFound
<1>7. lines \in Lines /\ t \in Tokens
  BY <1>1, <1>4 DEF TypeOK, Lines, LinesFound
<1>8. /\ cart' \in Lines /\ InCart' = InCart \ gone
      /\ \A s \in InCart : s \in gone \/ cart'[s] = cart[s]
      /\ \A s, other \in InCart' : cart'[s].id = cart'[other].id => s = other
      /\ \A s \in InCart' : cart'[s].id <= lastId
      /\ TokensHistoric' /\ VersionFixesQuantity'
      /\ \A id \in 1 .. lastId :
           IsInCart(id)' <=> IsInCart(id) /\ ~\E s \in gone : cart[s].id = id
  <2> HIDE DEF gone
  <2> QED BY <1>1, <1>2, <1>5, Removal
<1>9. offers = t.offers
  <2>1. t.offers \in [Skus -> AnyOffer \cup {"none"}]
    BY <1>7 DEF Tokens
  <2>2. ASSUME NEW s \in Skus
        PROVE  offers[s] = t.offers[s]
    <3>1. CASE s \in gone
      <4>1. t.lines[s] # NoItem
        BY <1>3, <1>5, <1>6, <3>1 DEF InCart
      <4> QED BY <1>3, <3>1, <4>1 DEF SkusOf
    <3>2. CASE s \notin gone
      BY <1>1, <1>3, <1>4, <1>6, <3>2 DEF CartInv, TokensHistoric
    <3> QED BY <3>1, <3>2
  <2> QED BY <2>1, <2>2
<1>10. \A s \in Skus : free'[s] = free[s] - lines[s].quantity /\ free'[s] \in 0 .. Stock[s]
  <2>1. ASSUME NEW s \in Skus
        PROVE  lines[s].quantity \in Nat /\ lines[s].quantity <= free[s]
    <3>1. lines[s] \in Items \cup {NoItem}
      BY <1>7 DEF Lines
    <3>2. CASE lines[s] = NoItem
      BY <1>1, <3>2 DEF NoItem, TypeOK
    <3>3. CASE lines[s] # NoItem
      BY <1>3, <3>1, <3>3, LineFacts DEF SkusOf
    <3> QED BY <3>2, <3>3
  <2> QED BY <1>1, <1>2, <2>1, CheckoutAssumption DEF TypeOK
<1>11. free' \in [Skus -> Nat]
  BY <1>2, <1>10, CheckoutAssumption
<1>12. /\ order'[k] = new
       /\ \A j \in Keys : j # k => order'[j] = order[j]
       /\ order' \in [Keys -> {NoOrder} \cup
                         [placed : {TRUE}, lines : Lines, token : Tokens,
                          offers : [Skus -> AnyOffer \cup {"none"}]]]
  <2>1. offers \in [Skus -> AnyOffer \cup {"none"}]
    BY <1>1 DEF TypeOK
  <2>2. new \in [placed : {TRUE}, lines : Lines, token : Tokens,
                 offers : [Skus -> AnyOffer \cup {"none"}]]
    BY <1>7, <2>1
  <2> HIDE DEF new
  <2> QED BY <1>1, <1>2, <1>4, <2>2 DEF TypeOK
<1>13. TypeOK'
  BY <1>1, <1>2, <1>8, <1>10, <1>11, <1>12, EndFacts DEF TypeOK
<1>14. Placed' = Placed \cup {k} /\ k \notin Placed /\ Placed \subseteq Keys
  <2>1. order'[k].placed = TRUE
    BY <1>12
  <2>2. order'[k] # NoOrder
    BY <2>1 DEF NoOrder
  <2> QED BY <1>4, <1>12, <2>2 DEF Placed
<1>15. \A s \in Skus : order'[k].lines[s] = lines[s]
  BY <1>12
<1>16. IdsUnique'
  <2>1. ASSUME NEW s \in Skus
        PROVE  lines[s].id <= lastId
    BY <1>1, <1>3, <1>4 DEF CartInv, TokensHistoric
  <2>2. \A j \in Placed', s \in Skus : order'[j].lines[s].id <= lastId
    BY <1>1, <1>12, <1>14, <1>15, <2>1 DEF CartInv, IdsUnique
  <2> QED BY <1>1, <1>2, <1>8, <2>2 DEF CartInv, IdsUnique
<1>17. ASSUME NEW id \in 1 .. lastId
       PROVE  ItemInOnePlace(id)'
  <2>1. id # 0 /\ ItemInOnePlace(id)
    BY <1>1 DEF CartInv, ItemsInOnePlace, TypeOK
  <2>2. (\E s \in Skus : lines[s].id = id) <=> (\E s \in gone : cart[s].id = id)
    BY <1>5, <1>6, <2>1 DEF NoItem
  <2>3. \A j \in Keys : j # k => (j \in OrdersOf(id)' <=> j \in OrdersOf(id))
    BY <1>12, <1>14 DEF OrdersOf
  <2>4. /\ k \in OrdersOf(id)' <=> \E s \in gone : cart[s].id = id
        /\ k \notin OrdersOf(id)
    BY <1>14, <1>15, <2>2 DEF OrdersOf
  <2>5. OrdersOf(id) \subseteq Keys /\ OrdersOf(id)' \subseteq Keys
    BY <1>4, <1>14 DEF OrdersOf
  <2>6. IsInCart(id)' <=> IsInCart(id) /\ ~\E s \in gone : cart[s].id = id
    BY <1>8
  <2>7. CASE \E s \in gone : cart[s].id = id
    <3>1. OrdersOf(id) = {} /\ id \notin removed /\ ~IsInCart(id)'
      BY <1>5, <2>1, <2>6, <2>7 DEF ItemInOnePlace, IsInCart
    <3>2. OrdersOf(id)' = {k}
      BY <2>3, <2>4, <2>5, <2>7, <3>1
    <3> QED BY <1>2, <3>1, <3>2 DEF ItemInOnePlace
  <2>8. CASE ~\E s \in gone : cart[s].id = id
    <3>1. OrdersOf(id)' = OrdersOf(id)
      BY <2>3, <2>4, <2>5, <2>8
    <3> QED BY <1>2, <2>1, <2>6, <2>8, <3>1 DEF ItemInOnePlace
  <2> QED BY <2>7, <2>8
<1>18. OrderIsPreviewed'
  <2>1. order'[k].lines = order'[k].token.lines /\ order'[k].offers = order'[k].token.offers
    BY <1>3, <1>9, <1>12
  <2> QED BY <1>1, <1>12, <1>14, <2>1 DEF CartInv, OrderIsPreviewed
<1>19. CartInv'
  BY <1>2, <1>8, <1>16, <1>17, <1>18 DEF CartInv, ItemsInOnePlace
<1>20. /\ \A s \in InCart : lock[<<"row", s>>] = p \/ (s \in InCart' /\ cart'[s].id = cart[s].id)
       /\ \A j \in Keys : lock[<<"key", j>>] = p \/ order'[j] = order[j]
  BY <1>4, <1>8, <1>12 DEF LockedRows
<1> QED BY <1>2, <1>13, <1>19, <1>20, CommitInvariant

LEMMA NextInvariant ==
  ASSUME IInv, [Next]_vars
  PROVE  IInv'
<1>1. CASE UNCHANGED vars
  <2>1. UNCHANGED <<lock, tx, order>> /\ tokens' = tokens /\ cart' = cart /\ InCart' = InCart
    BY <1>1 DEF vars, InCart
  <2>2. TypeOK' /\ CartInv'
    BY <1>1, ShopKept DEF vars, shop, IInv, TypeOK
  <2> QED BY <2>1, <2>2, ShopStepInvariant
<1>2. ASSUME NEW p \in Processes, NEW k \in Keys, NEW t \in tokens, BeginOrder(p, k, t)
      PROVE  IInv'
  BY <1>2, BeginOrderInvariant
<1>3. ASSUME NEW p \in Processes, NEW s \in Skus, NEW q \in 1 .. MaxQuantity, BeginAdd(p, s, q)
      PROVE  IInv'
  BY <1>3, BeginAddInvariant
<1>4. ASSUME NEW p \in Processes, NEW s \in Skus, LockSku(p, s)
      PROVE  IInv'
  BY <1>4, LockSkuInvariant
<1>5. ASSUME NEW p \in Processes, NEW r \in Rows, LockRow(p, r)
      PROVE  IInv'
  BY <1>5, LockRowInvariant
<1>6. ASSUME NEW p \in Processes,
             \/ InsertOrder(p) \/ BeginClear(p) \/ SelectRows(p) \/ PlaceOrder(p)
             \/ RejectOrder(p) \/ CommitAdd(p) \/ RejectAdd(p) \/ CommitClear(p) \/ RollBack(p)
      PROVE  IInv'
  BY <1>6, InsertOrderInvariant, BeginClearInvariant, SelectRowsInvariant, PlaceOrderInvariant,
     GiveUpInvariant, CommitAddInvariant, CommitClearInvariant
<1>7. ASSUME NEW s \in Skus, NEW q \in 1 .. MaxQuantity, UpdateItem(s, q)
      PROVE  IInv'
  BY <1>7, UpdateItemInvariant
<1>8. ASSUME NEW s \in Skus, DeleteItem(s) \/ ChangeOffer(s) \/ ReserveElsewhere(s)
      PROVE  IInv'
  BY <1>8, DeleteItemInvariant, ChangeOfferInvariant, ReserveElsewhereInvariant
<1> QED BY <1>1, <1>2, <1>3, <1>4, <1>5, <1>6, <1>7, <1>8, PreviewInvariant DEF Next, Rows

LEMMA Invariance == Spec => []IInv
<1>1. IInv /\ [Next]_vars => IInv'
  BY NextInvariant
<1> QED BY <1>1, InitInvariant, PTL DEF Spec

-----------------------------------------------------------------------------
(* Deadlocks.                                                              *)

(* What a transaction of a deadlocked group wants is held in the group.    *)
LEMMA DeadlockedFacts ==
  ASSUME TypeOK, NEW group \in SUBSET Processes, Deadlocked(group),
         \A p \in group : tx[p].kind # "clear", NEW p \in group
  PROVE  /\ tx[p] \in OrderTx \cup AddTx /\ tx[p] # Idle
         /\ Wanted(p) # {} /\ \A l \in Wanted(p) : lock[l] \in group
<1>1. WaitsFor(p) # {} /\ WaitsFor(p) \subseteq group
  BY DEF Deadlocked
<1>2. WaitsFor(p) = {lock[l] : l \in Wanted(p)}
  BY <1>1 DEF WaitsFor
<1>3. Wanted(p) # {} /\ \A l \in Wanted(p) : lock[l] \in group
  BY <1>1, <1>2
<1>4. tx[p] # Idle
  BY <1>3 DEF Wanted
<1> QED BY <1>3, <1>4, TxFacts

(* Of the rows waited for take the last: who holds it waits for a later.   *)
LEMMA NobodyWaitsForRow ==
  ASSUME IInv, NEW group \in SUBSET Processes, Deadlocked(group),
         \A p \in group : tx[p].kind # "clear"
  PROVE  \A p \in group : tx[p].stage # "rows"
<1> DEFINE WaitedFor(r) == r \in CartRows /\ \E p \in group : tx[p].stage = "rows"
                             /\ r \in tx[p].rows /\ lock[<<"row", r[1]>>] \in group
           Ids == {r[2] : r \in {x \in CartRows : WaitedFor(x)}}
<1>1. TypeOK /\ IdsUnique /\ \A p \in Processes : Disciplined(p)
  BY DEF IInv, CartInv
<1>2. ASSUME NEW p \in group, tx[p].stage = "rows"
      PROVE  \E r \in tx[p].rows : WaitedFor(r)
  <2>1. /\ tx[p] # Idle /\ Wanted(p) # {}
        /\ \A l \in Wanted(p) : lock[l] \in group
    BY <1>1, DeadlockedFacts
  <2>2. Wanted(p) = {<<"row", r[1]>> : r \in NextRows(p) \cap CartRows}
    BY <1>2, <2>1 DEF Wanted
  <2>3. PICK r \in NextRows(p) \cap CartRows : lock[<<"row", r[1]>>] \in group
    BY <2>1, <2>2
  <2>4. r \in tx[p].rows
    BY <2>3 DEF NextRows
  <2> QED BY <1>2, <2>3, <2>4
<1>3. SUFFICES ASSUME \E p \in group : tx[p].stage = "rows"
               PROVE  FALSE
  OBVIOUS
<1>4. Ids \subseteq 1 .. MaxItems /\ Ids \subseteq Nat /\ Ids # {}
  <2>1. \A r \in CartRows : r[2] \in 1 .. MaxItems
    BY <1>1, CartRowFacts DEF Rows
  <2>2. PICK r \in CartRows : WaitedFor(r)
    BY <1>2, <1>3
  <2>3. r[2] \in Ids
    BY <2>2
  <2>4. \A i \in Ids : i \in 1 .. MaxItems
    BY <2>1
  <2>5. 1 .. MaxItems \subseteq Nat
    OBVIOUS
  <2> HIDE DEF Ids
  <2> QED BY <2>3, <2>4, <2>5
<1>5. IsFiniteSet(Ids)
  <2>1. IsFiniteSet(1 .. MaxItems)
    BY FS_Interval, CheckoutAssumption
  <2> HIDE DEF Ids
  <2> QED BY <1>4, <2>1, FS_Subset
<1>6. PICK m \in Ids : \A x \in Ids : x <= m
  <2> HIDE DEF Ids
  <2> QED BY <1>4, <1>5, FiniteHasMax
<1>7. PICK r \in CartRows : r[2] = m /\ WaitedFor(r)
  BY <1>6
<1> DEFINE q == lock[<<"row", r[1]>>]
<1>8. q \in group /\ q \in Processes /\ r[1] \in Skus /\ cart[r[1]].id = m
  BY <1>1, <1>7, CartRowFacts
<1>9. tx[q].stage = "rows" /\ \A x \in tx[q].rows : m < x[2]
  BY <1>1, <1>8 DEF Disciplined, RowsInOrder
<1>10. PICK x \in tx[q].rows : WaitedFor(x)
  BY <1>2, <1>8, <1>9
<1>11. x[2] \in Ids
  BY <1>10
<1>12. x[2] <= m /\ m < x[2] /\ x[2] \in Nat /\ m \in Nat
  <2> HIDE DEF Ids
  <2> QED BY <1>4, <1>6, <1>9, <1>10, <1>11
<1> QED BY <1>12

(* The same of the SKUs.                                                   *)
LEMMA NobodyWaitsForSku ==
  ASSUME IInv, NEW group \in SUBSET Processes, Deadlocked(group),
         \A p \in group : tx[p].kind # "clear"
  PROVE  \A p \in group : tx[p].stage # "skus"
<1> DEFINE WaitedFor(s) == s \in Skus /\ \E p \in group : tx[p].stage = "skus"
                             /\ s \in tx[p].skus /\ lock[<<"sku", s>>] \in group
           Last == {s \in Skus : WaitedFor(s)}
<1>1. TypeOK /\ \A p \in Processes : Disciplined(p)
  BY DEF IInv
<1>2. ASSUME NEW p \in group, tx[p].stage = "skus"
      PROVE  \E s \in tx[p].skus : WaitedFor(s)
  <2>1. /\ tx[p] # Idle /\ Wanted(p) # {} /\ tx[p] \in OrderTx \cup AddTx
        /\ \A l \in Wanted(p) : lock[l] \in group
    BY <1>1, DeadlockedFacts
  <2>2. Wanted(p) = {<<"sku", s>> : s \in NextSkus(p)}
    BY <1>2, <2>1 DEF Wanted
  <2>3. PICK s \in NextSkus(p) : lock[<<"sku", s>>] \in group
    BY <2>1, <2>2
  <2>4. s \in tx[p].skus /\ s \in Skus
    BY <2>1, <2>3 DEF NextSkus, OrderTx, AddTx
  <2> QED BY <1>2, <2>3, <2>4
<1>3. SUFFICES ASSUME \E p \in group : tx[p].stage = "skus"
               PROVE  FALSE
  OBVIOUS
<1>4. Last \subseteq Skus /\ Last \subseteq Nat /\ Last # {}
  BY <1>2, <1>3, CheckoutAssumption
<1>5. IsFiniteSet(Last)
  <2> HIDE DEF Last
  <2> QED BY <1>4, FS_Subset, CheckoutAssumption
<1>6. PICK m \in Last : \A x \in Last : x <= m
  <2> HIDE DEF Last
  <2> QED BY <1>4, <1>5, FiniteHasMax
<1> DEFINE q == lock[<<"sku", m>>]
<1>7. q \in group /\ q \in Processes /\ m \in Skus
  BY <1>6
<1>8. tx[q].stage = "skus" /\ \A x \in tx[q].skus : m < x
  <2>1. tx[q].stage \in {"skus", "rows"} /\ \A x \in tx[q].skus : m < x
    BY <1>1, <1>7 DEF Disciplined, SkusInOrder
  <2> QED BY <1>7, <2>1, NobodyWaitsForRow
<1>9. PICK x \in tx[q].skus : WaitedFor(x)
  BY <1>2, <1>7, <1>8
<1>10. x \in Last /\ x <= m /\ m < x
  BY <1>6, <1>8, <1>9
<1> QED BY <1>4, <1>6, <1>10

(* And who waits for a key waits for a transaction that waits no more.     *)
LEMMA NoDeadlockWithoutClear ==
  ASSUME IInv
  PROVE  DeadlockNeedsClear
<1> SUFFICES ASSUME NEW group \in SUBSET Processes, Deadlocked(group),
                    \A p \in group : tx[p].kind # "clear"
             PROVE  FALSE
  BY DEF DeadlockNeedsClear
<1>1. TypeOK /\ \A p \in Processes : Disciplined(p)
  BY DEF IInv
<1>2. PICK p \in group : TRUE
  BY DEF Deadlocked
<1>3. /\ tx[p] \in OrderTx \cup AddTx /\ tx[p] # Idle
      /\ Wanted(p) # {} /\ \A l \in Wanted(p) : lock[l] \in group
  BY <1>1, DeadlockedFacts
<1>4. tx[p].stage = "key" /\ tx[p].key \in Keys
  BY <1>3, NobodyWaitsForRow, NobodyWaitsForSku DEF OrderTx, AddTx
<1> DEFINE q == lock[<<"key", tx[p].key>>]
<1>5. q \in group /\ q \in Processes
  BY <1>3, <1>4 DEF Wanted
<1>6. tx[q].stage \in {"skus", "rows"}
  BY <1>1, <1>4, <1>5 DEF Disciplined, KeyHeld
<1> QED BY <1>5, <1>6, NobodyWaitsForRow, NobodyWaitsForSku

-----------------------------------------------------------------------------
(* The variables keep their types: free units stay between none and the    *)
(* stock, a locked row or SKU names a transaction.                         *)
THEOREM TypeCorrect == Spec => []TypeOK
BY Invariance, PTL DEF IInv

(* Every item that was ever put into the cart is in the cart, in one Order *)
(* or removed by the user: creations with two keys and the same token,     *)
(* additions and removals that overlap neither order an item twice nor     *)
(* lose one.                                                               *)
THEOREM ItemsAreAccounted == Spec => []ItemsAccounted
<1>1. ASSUME IInv
      PROVE  ItemsAccounted
  <2>1. ASSUME NEW id \in 1 .. lastId
        PROVE  Cardinality(OrdersOf(id)) <= 1
    <3>1. \A k, l \in OrdersOf(id) : k = l
      BY <1>1 DEF IInv, CartInv, ItemsInOnePlace, ItemInOnePlace
    <3>2. CASE OrdersOf(id) = {}
      BY <3>2, FS_EmptySet
    <3>3. CASE OrdersOf(id) # {}
      <4>1. PICK k \in OrdersOf(id) : OrdersOf(id) = {k}
        BY <3>1, <3>3
      <4>2. Cardinality({k}) = 1
        BY FS_Singleton
      <4> QED BY <4>1, <4>2
    <3> QED BY <3>2, <3>3
  <2>2. ASSUME NEW id \in 1 .. lastId
        PROVE  ItemInOnePlace(id)
    BY <1>1 DEF IInv, CartInv, ItemsInOnePlace
  <2> QED BY <2>1, <2>2 DEF ItemsAccounted, ItemInOnePlace, IsInCart
<1> QED BY <1>1, Invariance, PTL

(* An id and a version name one quantity for ever: a client that edits     *)
(* what a Preview showed edits what it saw.                                *)
THEOREM VersionFixes == Spec => []VersionFixesQuantity
<1>1. IInv => VersionFixesQuantity
  BY DEF IInv, CartInv
<1> QED BY <1>1, Invariance, PTL

(* An Order holds the lines and the offers of the token that was signed    *)
(* for its Preview.                                                        *)
THEOREM OrdersArePreviewed == Spec => []OrderIsPreviewed
<1>1. IInv => OrderIsPreviewed
  BY DEF IInv, CartInv
<1> QED BY <1>1, Invariance, PTL

(* Creations and additions take their locks in one order (the key, the     *)
(* SKUs by id, the rows by id), so they never wait for each other in a     *)
(* circle, however many there are; only clearing a cart can close one.     *)
THEOREM OnlyClearDeadlocks == Spec => []DeadlockNeedsClear
<1>1. IInv => DeadlockNeedsClear
  BY NoDeadlockWithoutClear
<1> QED BY <1>1, Invariance, PTL

(* A transaction that rejects a creation holds its key, and there is no    *)
(* Order with the key: a replay of a creation that succeeded returns it.   *)
THEOREM ReplaysAreAnswered == Spec => ReplayNotRejected
<1>1. ASSUME IInv, NEW p \in Processes, RejectOrder(p)
      PROVE  order[tx[p].key] = NoOrder
  BY <1>1 DEF IInv, Disciplined, KeyHeld, RejectOrder, HasAllLocks
<1>2. IInv /\ [Next]_vars =>
        [\A p \in Processes : RejectOrder(p) => order[tx[p].key] = NoOrder]_vars
  BY <1>1
<1> QED BY <1>2, Invariance, PTL DEF Spec, ReplayNotRejected
=============================================================================
