------------------------------ MODULE Commerce ------------------------------
(***************************************************************************)
(* The order life cycle of the shop up to the hand-over to shipping:       *)
(* checkout, payment attempts, cancellation, the start of preparation, and *)
(* the stock, discount and fulfilment rows they change.                    *)
(*                                                                         *)
(* An action is one database transaction of a request handler.  Handlers   *)
(* lock every row they decide on (order first, then payment, then stock)   *)
(* and read it again under the lock, so on these tables committed          *)
(* transactions behave as if they ran one after the other; what a handler  *)
(* does outside its transaction, or on rows it does not lock, is the       *)
(* subject of Inventory (the unlocked edit of a Stock row) and CheckoutRace   *)
(* (checkout statement by statement).  The edit of an order's status in the *)
(* Django admin, a staff override, and the postings to the settlement       *)
(* ledger are not modelled.                                                *)
(***************************************************************************)
EXTENDS StockRow, FiniteSets, Functions

CONSTANTS
    Users, Products, Warehouses, Sellers,
    SellerOf,       \* the seller of each product
    Orders,         \* ids of order rows
    Payments,       \* ids of payment rows
    Providers,      \* payment providers the create endpoint accepts
    Totals,         \* amounts an order may come to, 0 when a discount covers it
    MaxItemQty,     \* bound: units of one product in a cart
    UsageLimit,     \* usage_limit_total of the discount
    PerUserLimit,   \* usage_limit_per_user of the discount
    None            \* a null foreign key

ASSUME CommerceAssumption ==
    /\ SellerOf \in [Products -> Sellers]
    /\ Totals \subseteq Nat
    /\ MaxItemQty \in Nat
    /\ UsageLimit \in Nat /\ PerUserLimit \in Nat
    /\ None \notin Warehouses /\ None \notin Orders
    /\ None \notin Users /\ None \notin Providers
    /\ None \notin Payments
    /\ IsFiniteSet(Orders)

VARIABLES
    stock,        \* Stock: product -> warehouse -> row
    ledger,       \* StockMovement: product -> warehouse -> sums of the movements
    warehouse,    \* Warehouse: is it active, inactive or deleted
    order,        \* Order and its OrderItem and DiscountUsage rows
    fulfillment,  \* SellerOrderFulfillment: order -> seller -> status
    payment,      \* Payment
    usedCount     \* Discount.used_count

vars == <<stock, ledger, warehouse, order, fulfillment, payment, usedCount>>

----------------------------------------------------------------------------
(* Row types. *)

OrderStatus == {"none", "pending_payment", "paid", "processing", "cancelled"}
PaymentStatus == {"none", "pending", "success", "failed", "cancelled"}
FulfillmentStatus == {"none", "pending_payment", "paid", "processing"}
WarehouseStatus == {"active", "inactive", "deleted"}

OrderRow ==
    [user : Users \cup {None},
     status : OrderStatus,
     payment_status : {"unpaid", "paid"},
     quantity : [Products -> 0..MaxItemQty],
     place : [Products -> Warehouses \cup {None}],
     total : Nat,
     usage : BOOLEAN]

PaymentRow ==
    [order : Orders \cup {None}, provider : Providers \cup {None},
     status : PaymentStatus, amount : Nat]

\* An id no row carries yet.
NoOrder ==
    [user |-> None, status |-> "none", payment_status |-> "unpaid",
     quantity |-> [p \in Products |-> 0], place |-> [p \in Products |-> None],
     total |-> 0, usage |-> FALSE]

NoPayment == [order |-> None, provider |-> None, status |-> "none", amount |-> 0]

Carts ==
    {cart \in [Products -> 0..MaxItemQty] : \E p \in Products : cart[p] > 0}

----------------------------------------------------------------------------
(* What the handlers read. *)

\* Units order o has from product p in warehouse w.
Claim(o, p, w) == IF order[o].place[p] = w THEN order[o].quantity[p] ELSE 0

AwaitingPayment(o) ==
    order[o].status = "pending_payment" /\ order[o].payment_status = "unpaid"

SellersIn(quantity) == {SellerOf[p] : p \in {x \in Products : quantity[x] > 0}}

UsagesOf(u) == {o \in Orders : order[o].usage /\ order[o].user = u}

\* Mutant: one use too many.
MutDiscountLeft(u) == usedCount <= UsageLimit

\* The limits Discount.validate_for_cart checks under the discount's lock.
DiscountLeft(u) ==
    /\ usedCount < UsageLimit
    /\ Cardinality(UsagesOf(u)) < PerUserLimit

\* The payments with one status replaced, for every payment that satisfies S.
WithStatus(S, status) ==
    [m \in Payments |->
        IF m \in S THEN [payment[m] EXCEPT !.status = status] ELSE payment[m]]

PendingOf(o) ==
    {m \in Payments : payment[m].order = o /\ payment[m].status = "pending"}

----------------------------------------------------------------------------
Init ==
    /\ stock = [p \in Products |-> [w \in Warehouses |-> EmptyRow]]
    /\ ledger = [p \in Products |-> [w \in Warehouses |-> [other |-> 0, sale |-> 0]]]
    /\ warehouse = [w \in Warehouses |-> "active"]
    /\ order = [o \in Orders |-> NoOrder]
    /\ fulfillment = [o \in Orders |-> [s \in Sellers |-> "none"]]
    /\ payment = [m \in Payments |-> NoPayment]
    /\ usedCount = 0

----------------------------------------------------------------------------
(* Inventory. *)

\* POST /movements/ and both ends of a stock transfer: d units in or out of a
\* warehouse, for any reason but a sale.
RecordMovement(p, w, d) ==
    /\ warehouse[w] # "deleted"
    /\ CanMove(stock[p][w], d)
    /\ stock' = [stock EXCEPT ![p][w] = Move(@, d)]
    /\ ledger' = [ledger EXCEPT ![p][w].other = @ + d]
    /\ UNCHANGED <<warehouse, order, fulfillment, payment, usedCount>>

\* PATCH /warehouses/<w>/ of is_active.
SetWarehouseActive(w, status) ==
    /\ warehouse[w] \notin {status, "deleted"}
    /\ warehouse' = [warehouse EXCEPT ![w] = status]
    /\ UNCHANGED <<stock, ledger, order, fulfillment, payment, usedCount>>

\* DELETE /warehouses/<w>/: its stock and movement rows go with it, and order
\* items that point to it keep no warehouse.
DeleteWarehouse(w) ==
    /\ warehouse[w] # "deleted"
    /\ warehouse' = [warehouse EXCEPT ![w] = "deleted"]
    /\ stock' = [p \in Products |-> [stock[p] EXCEPT ![w] = EmptyRow]]
    /\ ledger' = [p \in Products |-> [ledger[p] EXCEPT ![w] = [other |-> 0, sale |-> 0]]]
    /\ order' = [o \in Orders |->
            [order[o] EXCEPT !.place = [p \in Products |-> IF @[p] = w THEN None ELSE @[p]]]]
    /\ UNCHANGED <<fulfillment, payment, usedCount>>

----------------------------------------------------------------------------
(* Orders. *)

\* Every item of the cart is reserved whole in one active warehouse.  The code
\* scans the warehouses by id without locking them and reserves in the first
\* that showed enough, so the one it takes need not be the first any more.
PlacesFor(cart, place) ==
    \A p \in Products :
        IF cart[p] > 0
        THEN /\ place[p] \in Warehouses
             /\ warehouse[place[p]] = "active"
             /\ CanReserve(stock[p][place[p]], cart[p])
        ELSE place[p] = None

Checkout(o, u, cart, place, total, code) ==
    /\ order[o].status = "none"
    /\ PlacesFor(cart, place)
    /\ code => DiscountLeft(u)
    /\ stock' = [p \in Products |-> [w \in Warehouses |->
            IF cart[p] > 0 /\ place[p] = w
            THEN Reserve(stock[p][w], cart[p]) ELSE stock[p][w]]]
    /\ order' = [order EXCEPT ![o] =
            [user |-> u, status |-> "pending_payment", payment_status |-> "unpaid",
             quantity |-> cart, place |-> place, total |-> total, usage |-> code]]
    /\ fulfillment' = [fulfillment EXCEPT ![o] =
            [s \in Sellers |-> IF s \in SellersIn(cart) THEN "pending_payment" ELSE @[s]]]
    /\ usedCount' = IF code THEN usedCount + 1 ELSE usedCount
    /\ UNCHANGED <<ledger, warehouse, payment>>

CancelOrder(o) ==
    /\ AwaitingPayment(o)
    /\ \A p \in Products, w \in Warehouses :
            Claim(o, p, w) > 0 => CanRelease(stock[p][w], Claim(o, p, w))
    /\ stock' = [p \in Products |-> [w \in Warehouses |->
            IF Claim(o, p, w) > 0
            THEN Release(stock[p][w], Claim(o, p, w)) ELSE stock[p][w]]]
    /\ usedCount' = IF order[o].usage /\ usedCount > 0 THEN usedCount - 1 ELSE usedCount
    /\ payment' = WithStatus(PendingOf(o), "cancelled")
    /\ order' = [order EXCEPT ![o].status = "cancelled", ![o].usage = FALSE]
    /\ UNCHANGED <<ledger, warehouse, fulfillment>>

\* Mutant: the seller's own fulfillment row is not looked at.
MutSellerStart(o, s) ==
    /\ order[o].payment_status = "paid" /\ order[o].status # "cancelled"
    /\ fulfillment' = [fulfillment EXCEPT ![o][s] = "processing"]
    /\ order' = [order EXCEPT ![o].status = IF @ = "paid" THEN "processing" ELSE @]
    /\ UNCHANGED <<stock, ledger, warehouse, payment, usedCount>>

\* POST /orders/<o>/seller-status/: the seller starts preparing the items.
SellerStart(o, s) ==
    /\ order[o].payment_status = "paid" /\ order[o].status # "cancelled"
    /\ fulfillment[o][s] = "paid"
    /\ fulfillment' = [fulfillment EXCEPT ![o][s] = "processing"]
    /\ order' = [order EXCEPT ![o].status = IF @ = "paid" THEN "processing" ELSE @]
    /\ UNCHANGED <<stock, ledger, warehouse, payment, usedCount>>

\* POST /orders/<o>/update-status/: an administrator starts the order.
AdminStart(o) ==
    /\ order[o].status = "paid" /\ order[o].payment_status = "paid"
    /\ order' = [order EXCEPT ![o].status = "processing"]
    /\ UNCHANGED <<stock, ledger, warehouse, fulfillment, payment, usedCount>>

----------------------------------------------------------------------------
(* Payments. *)

\* POST /payments/.  An open attempt with the same provider is returned as it
\* is, so a row is created only when there is none.
CreatePayment(m, o, provider) ==
    /\ payment[m].status = "none"
    /\ AwaitingPayment(o)
    /\ order[o].total > 0
    /\ \A n \in PendingOf(o) : payment[n].provider # provider
    /\ payment' = [payment EXCEPT ![m] =
            [order |-> o, provider |-> provider, status |-> "pending",
             amount |-> order[o].total]]
    /\ UNCHANGED <<stock, ledger, warehouse, order, fulfillment, usedCount>>

\* Payment.mark_success: the reserved units are sold, the order is paid, its
\* sellers may start, and the other open attempts are closed.
MarkSuccess(m) ==
    LET o == payment[m].order
    IN /\ payment[m].status = "pending"
       /\ AwaitingPayment(o)
       /\ \A n \in Payments \ {m} : payment[n].order = o => payment[n].status # "success"
       /\ payment[m].amount = order[o].total
       /\ \A p \in Products : order[o].quantity[p] > 0 => order[o].place[p] # None
       /\ \A p \in Products, w \in Warehouses :
            Claim(o, p, w) > 0 => CanSell(stock[p][w], Claim(o, p, w))
       /\ stock' = [p \in Products |-> [w \in Warehouses |->
            IF Claim(o, p, w) > 0
            THEN Sell(stock[p][w], Claim(o, p, w)) ELSE stock[p][w]]]
       /\ ledger' = [p \in Products |-> [w \in Warehouses |->
            [ledger[p][w] EXCEPT !.sale = @ - Claim(o, p, w)]]]
       /\ payment' = [WithStatus(PendingOf(o), "cancelled") EXCEPT ![m] =
            [payment[m] EXCEPT !.status = "success"]]
       /\ order' = [order EXCEPT ![o].status = "paid", ![o].payment_status = "paid"]
       /\ fulfillment' = [fulfillment EXCEPT ![o] =
            [s \in Sellers |->
                IF s \in SellersIn(order[o].quantity) /\ @[s] \in {"none", "pending_payment"}
                THEN "paid" ELSE @[s]]]
       /\ UNCHANGED <<warehouse, usedCount>>

\* Mutant: a late failure report overwrites whatever the attempt has become.
MutMarkFailed(m) ==
    /\ payment[m].status # "none"
    /\ payment' = WithStatus({m}, "failed")
    /\ UNCHANGED <<stock, ledger, warehouse, order, fulfillment, usedCount>>

\* Payment.mark_failed: the order and its reservation stay.
MarkFailed(m) ==
    /\ payment[m].status = "pending"
    /\ payment' = WithStatus({m}, "failed")
    /\ UNCHANGED <<stock, ledger, warehouse, order, fulfillment, usedCount>>

\* Payment.cancel.
CancelPayment(m) ==
    /\ payment[m].status \in {"pending", "failed"}
    /\ payment' = WithStatus({m}, "cancelled")
    /\ UNCHANGED <<stock, ledger, warehouse, order, fulfillment, usedCount>>

----------------------------------------------------------------------------
CheckoutNext ==
    \E o \in Orders, u \in Users, cart \in Carts, total \in Totals, code \in BOOLEAN :
        \E place \in [Products -> Warehouses \cup {None}] :
            Checkout(o, u, cart, place, total, code)

InventoryNext ==
    \/ \E p \in Products, w \in Warehouses, d \in (-MaxStock)..MaxStock : RecordMovement(p, w, d)
    \/ \E w \in Warehouses, status \in {"active", "inactive"} : SetWarehouseActive(w, status)
    \/ \E w \in Warehouses : DeleteWarehouse(w)

OrderNext ==
    \/ \E o \in Orders : CancelOrder(o) \/ AdminStart(o)
    \/ \E o \in Orders, s \in Sellers : SellerStart(o, s)

PaymentNext ==
    \/ \E m \in Payments, o \in Orders, provider \in Providers : CreatePayment(m, o, provider)
    \/ \E m \in Payments : MarkSuccess(m) \/ MarkFailed(m) \/ CancelPayment(m)

Next == InventoryNext \/ CheckoutNext \/ OrderNext \/ PaymentNext

Spec == Init /\ [][Next]_vars

----------------------------------------------------------------------------
(* Properties. *)

\* Every table holds rows of its type.
TypeOK ==
    /\ stock \in [Products -> [Warehouses -> Row]]
    /\ ledger \in [Products -> [Warehouses -> [other : Int, sale : Int]]]
    /\ warehouse \in [Warehouses -> WarehouseStatus]
    /\ order \in [Orders -> OrderRow]
    /\ fulfillment \in [Orders -> [Sellers -> FulfillmentStatus]]
    /\ payment \in [Payments -> PaymentRow]
    /\ usedCount \in Nat

\* Units of p in w that a set of orders accounts for.
Claims(p, w) == [o \in Orders |-> Claim(o, p, w)]
Claimed(S, p, w) == SumFunctionOnSet(Claims(p, w), S)

OpenOrders == {o \in Orders : order[o].status = "pending_payment"}
PaidOrders == {o \in Orders : order[o].payment_status = "paid"}

\* The reserved counter of a row is what the open orders hold there: no
\* checkout, payment, cancellation or movement, in any order, leaks a
\* reservation, releases one twice or eats into one.
ReservationsMatchOrders ==
    \A p \in Products, w \in Warehouses :
        /\ stock[p][w].reserved = Claimed(OpenOrders, p, w)
        /\ RowConsistent(stock[p][w])

\* "Every inventory change must be recorded" as a StockMovement: the movements
\* of a row add up to its quantity, and its sale movements are the items of
\* the paid orders, each sold once.
MovementsExplainStock ==
    \A p \in Products, w \in Warehouses :
        /\ stock[p][w].quantity = ledger[p][w].other + ledger[p][w].sale
        /\ ledger[p][w].sale = - Claimed(PaidOrders, p, w)

SuccessOf(o) == {m \in Payments : payment[m].order = o /\ payment[m].status = "success"}

\* An order is paid by exactly one successful attempt, and an order with a
\* successful attempt is paid: a payment that completes while the order is
\* cancelled or paid through another attempt takes no effect.
PaidExactlyOnce ==
    \A o \in Orders :
        /\ \A m, n \in SuccessOf(o) : m = n
        /\ order[o].payment_status = "paid" <=> SuccessOf(o) # {}
        /\ order[o].payment_status = "paid" <=> order[o].status \in {"paid", "processing"}

\* "Other unfinished attempts must not remain payable": a pending attempt
\* belongs to an order that still waits for its payment, for its whole amount.
OpenAttemptsArePayable ==
    \A m \in Payments : payment[m].status = "pending" =>
        /\ payment[m].order \in Orders
        /\ AwaitingPayment(payment[m].order)
        /\ payment[m].amount = order[payment[m].order].total
        /\ payment[m].amount > 0

\* used_count is the number of DiscountUsage rows, through any mix of
\* checkouts and cancellations, and neither limit is ever exceeded.
DiscountWithinLimits ==
    /\ usedCount = Cardinality({o \in Orders : order[o].usage})
    /\ usedCount <= UsageLimit
    /\ \A u \in Users : Cardinality(UsagesOf(u)) <= PerUserLimit

\* The sellers of an order have a fulfillment row each, no other seller has
\* one, none may prepare before the order is paid, and every one may once it
\* is; an order some seller prepares is in preparation.
FulfillmentFollowsPayment ==
    \A o \in Orders, s \in Sellers :
        /\ fulfillment[o][s] # "none" <=> s \in SellersIn(order[o].quantity)
        /\ fulfillment[o][s] \in {"paid", "processing"} => order[o].payment_status = "paid"
        /\ fulfillment[o][s] = "pending_payment" => order[o].payment_status = "unpaid"
        /\ fulfillment[o][s] = "processing" => order[o].status = "processing"

----------------------------------------------------------------------------
(* What the shop promises. *)

PhaseOf(status) ==
    CASE status = "none" -> "none"
      [] status = "pending_payment" -> "open"
      [] status \in {"paid", "processing"} -> "paid"
      [] status = "cancelled" -> "released"

Contract == INSTANCE StoreContract WITH
    onHand <- [p \in Products |-> [w \in Warehouses |-> stock[p][w].quantity]],
    phase <- [o \in Orders |-> PhaseOf(order[o].status)],
    basket <- [o \in Orders |-> order[o].quantity],
    place <- [o \in Orders |-> order[o].place],
    paidBy <- [o \in Orders |->
        IF SuccessOf(o) = {} THEN None ELSE CHOOSE m \in SuccessOf(o) : TRUE]

\* The order life cycle keeps the promises of StoreContract: the counters and
\* the attempts sell no unit twice, take no second payment for an order and
\* give back exactly what a cancelled order held.
KeepsContract == Contract!Spec
=============================================================================
