--------------------------- MODULE CommerceProofs ---------------------------
(***************************************************************************)
(* Theorems about Commerce and Inventory for shops of every size.          *)
(***************************************************************************)
EXTENDS Inventory, SumTheorems

----------------------------------------------------------------------------
(* Rows of the Stock table. *)

\* A reservation keeps a row in its type.
LEMMA ReserveType ==
    ASSUME NEW row \in Row, NEW q \in Nat, CanReserve(row, q)
    PROVE  Reserve(row, q) \in Row
BY MaxStockAssumption DEF Row, CanReserve, Reserve, Available

\* A release keeps a row in its type.
LEMMA ReleaseType ==
    ASSUME NEW row \in Row, NEW q \in Nat, CanRelease(row, q)
    PROVE  Release(row, q) \in Row
BY MaxStockAssumption DEF Row, CanRelease, Release

\* A movement keeps a row in its type.
LEMMA MoveType ==
    ASSUME NEW row \in Row, NEW d \in Int, CanMove(row, d)
    PROVE  Move(row, d) \in Row
BY MaxStockAssumption DEF Row, CanMove, Move

\* A sale keeps a row in its type.
LEMMA SellType ==
    ASSUME NEW row \in Row, NEW q \in Nat, CanSell(row, q)
    PROVE  Sell(row, q) \in Row
<1>1. Release(row, q) \in Row
  BY ReleaseType DEF CanSell
<1>2. CanMove(Release(row, q), -q)
  BY DEF CanSell
<1> QED
  BY <1>1, <1>2, MoveType DEF Sell

\* No operation on a row promises more units than it has.
LEMMA RowStaysConsistent ==
    ASSUME NEW row \in Row, RowConsistent(row)
    PROVE  /\ \A q \in Nat : CanReserve(row, q) => RowConsistent(Reserve(row, q))
           /\ \A q \in Nat : CanRelease(row, q) => RowConsistent(Release(row, q))
           /\ \A q \in Nat : CanSell(row, q) => RowConsistent(Sell(row, q))
           /\ \A d \in Int : CanMove(row, d) => RowConsistent(Move(row, d))
<1>1. \A d \in Int : CanMove(row, d) => RowConsistent(Move(row, d))
  BY DEF Row, CanMove, Move, RowConsistent
<1>2. \A q \in Nat : CanReserve(row, q) => RowConsistent(Reserve(row, q))
  BY DEF Row, CanReserve, Reserve, RowConsistent, Available
<1>3. \A q \in Nat : CanRelease(row, q) => RowConsistent(Release(row, q))
  BY DEF Row, CanRelease, Release, RowConsistent
<1>4. \A q \in Nat : CanSell(row, q) => RowConsistent(Sell(row, q))
  BY DEF Row, CanSell, CanRelease, Release, CanMove, Move, Sell, RowConsistent
<1> QED
  BY <1>1, <1>2, <1>3, <1>4

\* What an order claims of a row is a number of units.
LEMMA ClaimType ==
    ASSUME TypeOK, NEW o \in Orders, NEW p \in Products, NEW w \in Warehouses
    PROVE  Claim(o, p, w) \in Nat
BY CommerceAssumption DEF TypeOK, OrderRow, Claim

\* Replacing the status of payments does not take them out of their type.
LEMMA WithStatusType ==
    ASSUME TypeOK, NEW S, NEW status \in PaymentStatus
    PROVE  WithStatus(S, status) \in [Payments -> PaymentRow]
BY DEF TypeOK, WithStatus, PaymentRow

\* Nor do the changes that actions make to an order row, ...
LEMMA OrderRowWith ==
    ASSUME NEW row \in OrderRow, NEW status \in OrderStatus
    PROVE  /\ [row EXCEPT !.status = status] \in OrderRow
           /\ [row EXCEPT !.status = status, !.usage = FALSE] \in OrderRow
           /\ [row EXCEPT !.status = status, !.payment_status = "paid"] \in OrderRow
           /\ \A place \in [Products -> Warehouses \cup {None}] :
                [row EXCEPT !.place = place] \in OrderRow
BY DEF OrderRow

\* ... and to the sums of the movements of a row, leave their type.
LEMMA LedgerRowWith ==
    ASSUME NEW row \in [other : Int, sale : Int], NEW d \in Int
    PROVE  /\ [row EXCEPT !.other = row.other + d] \in [other : Int, sale : Int]
           /\ [row EXCEPT !.sale = row.sale - d] \in [other : Int, sale : Int]
OBVIOUS

----------------------------------------------------------------------------
(* Type correctness, one lemma per group of actions. *)

\* The empty shop has rows of the right types.
LEMMA TypeInit ==
    ASSUME Init
    PROVE  TypeOK
BY MaxStockAssumption, CommerceAssumption
   DEF Init, TypeOK, Row, EmptyRow, OrderRow, NoOrder, PaymentRow, NoPayment,
       OrderStatus, PaymentStatus, FulfillmentStatus, WarehouseStatus

\* A stock movement (POST /movements/) keeps every table in its type.
LEMMA TypeRecordMovement ==
    ASSUME TypeOK, NEW p \in Products, NEW w \in Warehouses, NEW d \in Int,
           RecordMovement(p, w, d)
    PROVE  TypeOK'
<1>1. Move(stock[p][w], d) \in Row
  BY MoveType DEF RecordMovement, TypeOK
<1>2. stock' \in [Products -> [Warehouses -> Row]]
  BY <1>1 DEF RecordMovement, TypeOK
<1>3. ledger' \in [Products -> [Warehouses -> [other : Int, sale : Int]]]
  <2>1. ledger[p][w] \in [other : Int, sale : Int]
    BY DEF TypeOK
  <2>2. [ledger[p][w] EXCEPT !.other = ledger[p][w].other + d] \in [other : Int, sale : Int]
    BY <2>1, LedgerRowWith
  <2> QED
    BY <2>2 DEF RecordMovement, TypeOK
<1> QED
  BY <1>2, <1>3 DEF RecordMovement, TypeOK

\* Deactivating, activating or deleting a warehouse keeps every table in its type.
LEMMA TypeWarehouses ==
    ASSUME TypeOK, NEW w \in Warehouses,
           \/ \E status \in {"active", "inactive"} : SetWarehouseActive(w, status)
           \/ DeleteWarehouse(w)
    PROVE  TypeOK'
<1>1. CASE \E status \in {"active", "inactive"} : SetWarehouseActive(w, status)
  BY <1>1 DEF SetWarehouseActive, TypeOK, WarehouseStatus
<1>2. CASE DeleteWarehouse(w)
  <2>1. stock' \in [Products -> [Warehouses -> Row]]
    BY <1>2, MaxStockAssumption DEF DeleteWarehouse, TypeOK, Row, EmptyRow
  <2>2. ledger' \in [Products -> [Warehouses -> [other : Int, sale : Int]]]
    BY <1>2 DEF DeleteWarehouse, TypeOK
  <2>3. order' \in [Orders -> OrderRow]
    <3> SUFFICES ASSUME NEW o \in Orders
                 PROVE  order'[o] \in OrderRow
      BY <1>2 DEF DeleteWarehouse
    <3>1. order[o] \in OrderRow
      BY DEF TypeOK
    <3>2. [p \in Products |-> IF order[o].place[p] = w THEN None ELSE order[o].place[p]]
            \in [Products -> Warehouses \cup {None}]
      BY <3>1 DEF OrderRow
    <3> QED
      BY <1>2, <3>1, <3>2, OrderRowWith DEF DeleteWarehouse, OrderRow
  <2>4. warehouse' \in [Warehouses -> WarehouseStatus]
    BY <1>2 DEF DeleteWarehouse, TypeOK, WarehouseStatus
  <2> QED
    BY <1>2, <2>1, <2>2, <2>3, <2>4 DEF DeleteWarehouse, TypeOK
<1> QED
  BY <1>1, <1>2

\* CheckoutSerializer.create keeps every table in its type.
LEMMA TypeCheckout ==
    ASSUME TypeOK, NEW o \in Orders, NEW u \in Users, NEW cart \in Carts,
           NEW place \in [Products -> Warehouses \cup {None}],
           NEW total \in Totals, NEW code \in BOOLEAN,
           Checkout(o, u, cart, place, total, code)
    PROVE  TypeOK'
<1>1. cart \in [Products -> 0..MaxItemQty] /\ total \in Nat
  BY CommerceAssumption DEF Carts
<1>2. stock' \in [Products -> [Warehouses -> Row]]
  <2> SUFFICES ASSUME NEW p \in Products, NEW w \in Warehouses, cart[p] > 0, place[p] = w
               PROVE  Reserve(stock[p][w], cart[p]) \in Row
    BY DEF Checkout, TypeOK
  <2>1. cart[p] \in Nat /\ stock[p][w] \in Row
    BY <1>1, CommerceAssumption DEF TypeOK
  <2>2. CanReserve(stock[p][w], cart[p])
    BY DEF Checkout, PlacesFor
  <2> QED
    BY <2>1, <2>2, ReserveType
<1>3. order' \in [Orders -> OrderRow]
  BY <1>1 DEF Checkout, TypeOK, OrderRow, OrderStatus
<1>4. fulfillment' \in [Orders -> [Sellers -> FulfillmentStatus]]
  BY DEF Checkout, TypeOK, FulfillmentStatus
<1>5. usedCount' \in Nat
  BY DEF Checkout, TypeOK
<1> QED
  BY <1>2, <1>3, <1>4, <1>5 DEF Checkout, TypeOK

\* Order.cancel keeps every table in its type.
LEMMA TypeCancelOrder ==
    ASSUME TypeOK, NEW o \in Orders, CancelOrder(o)
    PROVE  TypeOK'
<1>1. stock' \in [Products -> [Warehouses -> Row]]
  <2> SUFFICES ASSUME NEW p \in Products, NEW w \in Warehouses, Claim(o, p, w) > 0
               PROVE  Release(stock[p][w], Claim(o, p, w)) \in Row
    BY DEF CancelOrder, TypeOK
  <2> QED
    BY ClaimType, ReleaseType DEF CancelOrder, TypeOK
<1>2. order' \in [Orders -> OrderRow]
  <2>1. [order[o] EXCEPT !.status = "cancelled", !.usage = FALSE] \in OrderRow
    BY OrderRowWith DEF TypeOK, OrderStatus
  <2> QED
    BY <2>1 DEF CancelOrder, TypeOK
<1>3. payment' \in [Payments -> PaymentRow]
  BY WithStatusType DEF CancelOrder, PaymentStatus
<1>4. usedCount' \in Nat
  BY DEF CancelOrder, TypeOK
<1> QED
  BY <1>1, <1>2, <1>3, <1>4 DEF CancelOrder, TypeOK

\* Starting to prepare an order, by its sellers or an administrator, keeps every
\* table in its type.
LEMMA TypeStart ==
    ASSUME TypeOK, NEW o \in Orders,
           AdminStart(o) \/ \E s \in Sellers : SellerStart(o, s)
    PROVE  TypeOK'
<1>a. /\ order[o] \in OrderRow
      /\ [order[o] EXCEPT !.status = "processing"] \in OrderRow
      /\ [order[o] EXCEPT !.status = order[o].status] \in OrderRow
  <2>1. order[o] \in OrderRow /\ order[o].status \in OrderStatus /\ "processing" \in OrderStatus
    BY DEF TypeOK, OrderRow, OrderStatus
  <2> QED
    BY <2>1, OrderRowWith
<1>1. CASE AdminStart(o)
  BY <1>1, <1>a DEF AdminStart, TypeOK
<1>2. ASSUME NEW s \in Sellers, SellerStart(o, s)
      PROVE  TypeOK'
  <2>1. order' \in [Orders -> OrderRow]
    <3>1. order' = IF order[o].status = "paid"
                   THEN [order EXCEPT ![o] = [order[o] EXCEPT !.status = "processing"]]
                   ELSE [order EXCEPT ![o] = [order[o] EXCEPT !.status = order[o].status]]
      BY <1>2 DEF SellerStart
    <3> QED
      BY <3>1, <1>a DEF TypeOK
  <2>2. fulfillment' \in [Orders -> [Sellers -> FulfillmentStatus]]
    BY <1>2 DEF SellerStart, TypeOK, FulfillmentStatus
  <2> QED
    BY <1>2, <2>1, <2>2 DEF SellerStart, TypeOK
<1> QED
  BY <1>1, <1>2

\* Creating an attempt, and mark_failed and cancel of one, keep every table in
\* its type.
LEMMA TypePaymentAttempts ==
    ASSUME TypeOK, NEW m \in Payments,
           \/ \E o \in Orders, provider \in Providers : CreatePayment(m, o, provider)
           \/ MarkFailed(m)
           \/ CancelPayment(m)
    PROVE  TypeOK'
<1>1. ASSUME NEW o \in Orders, NEW provider \in Providers, CreatePayment(m, o, provider)
      PROVE  TypeOK'
  <2>1. order[o].total \in Nat
    BY DEF TypeOK, OrderRow
  <2>2. payment' \in [Payments -> PaymentRow]
    BY <1>1, <2>1 DEF CreatePayment, TypeOK, PaymentRow, PaymentStatus
  <2> QED
    BY <1>1, <2>2 DEF CreatePayment, TypeOK
<1>2. CASE MarkFailed(m)
  <2>1. payment' \in [Payments -> PaymentRow]
    BY <1>2, WithStatusType DEF MarkFailed, PaymentStatus
  <2> QED
    BY <1>2, <2>1 DEF MarkFailed, TypeOK
<1>3. CASE CancelPayment(m)
  <2>1. payment' \in [Payments -> PaymentRow]
    BY <1>3, WithStatusType DEF CancelPayment, PaymentStatus
  <2> QED
    BY <1>3, <2>1 DEF CancelPayment, TypeOK
<1> QED
  BY <1>1, <1>2, <1>3

\* Payment.mark_success keeps every table in its type, of an attempt that has an
\* order.
LEMMA TypeMarkSuccess ==
    ASSUME TypeOK, NEW m \in Payments, MarkSuccess(m), payment[m].order \in Orders
    PROVE  TypeOK'
<1> DEFINE o == payment[m].order
<1>1. stock' \in [Products -> [Warehouses -> Row]]
  <2> SUFFICES ASSUME NEW p \in Products, NEW w \in Warehouses, Claim(o, p, w) > 0
               PROVE  Sell(stock[p][w], Claim(o, p, w)) \in Row
    BY DEF MarkSuccess, TypeOK
  <2> QED
    BY ClaimType, SellType DEF MarkSuccess, TypeOK
<1>2. ledger' \in [Products -> [Warehouses -> [other : Int, sale : Int]]]
  <2> SUFFICES ASSUME NEW p \in Products, NEW w \in Warehouses
               PROVE  [ledger[p][w] EXCEPT !.sale = ledger[p][w].sale - Claim(o, p, w)]
                        \in [other : Int, sale : Int]
    BY DEF MarkSuccess
  <2>1. ledger[p][w] \in [other : Int, sale : Int] /\ Claim(o, p, w) \in Int
    BY ClaimType DEF TypeOK
  <2> QED
    BY <2>1, LedgerRowWith
<1>3. order' \in [Orders -> OrderRow]
  <2>1. [order[o] EXCEPT !.status = "paid", !.payment_status = "paid"] \in OrderRow
    BY OrderRowWith DEF TypeOK, OrderStatus
  <2> QED
    BY <2>1 DEF MarkSuccess, TypeOK
<1>4. payment' \in [Payments -> PaymentRow]
  <2>1. WithStatus(PendingOf(o), "cancelled") \in [Payments -> PaymentRow]
    BY WithStatusType DEF PaymentStatus
  <2>2. [payment[m] EXCEPT !.status = "success"] \in PaymentRow
    BY DEF TypeOK, PaymentRow, PaymentStatus
  <2> QED
    BY <2>1, <2>2 DEF MarkSuccess
<1>5. fulfillment' \in [Orders -> [Sellers -> FulfillmentStatus]]
  BY DEF MarkSuccess, TypeOK, FulfillmentStatus
<1> QED
  BY <1>1, <1>2, <1>3, <1>4, <1>5 DEF MarkSuccess, TypeOK

----------------------------------------------------------------------------
(* Payments and orders agree. *)

PaymentsAgree == PaidExactlyOnce /\ OpenAttemptsArePayable

\* Orders keep their successful attempts as long as none appears, goes or moves.
LEMMA SameSuccess ==
    ASSUME \A n \in Payments :
               /\ payment'[n].status = "success" <=> payment[n].status = "success"
               /\ payment[n].status = "success" => payment'[n].order = payment[n].order
    PROVE  \A o \in Orders : SuccessOf(o)' = SuccessOf(o)
BY DEF SuccessOf

\* What replacing the status of payments leaves alone.
LEMMA WithStatusEffect ==
    ASSUME TypeOK, NEW S, NEW status, NEW m \in Payments
    PROVE  /\ WithStatus(S, status)[m].order = payment[m].order
           /\ WithStatus(S, status)[m].amount = payment[m].amount
           /\ WithStatus(S, status)[m].status = IF m \in S THEN status ELSE payment[m].status
BY DEF TypeOK, PaymentRow, WithStatus

\* Steps that change neither payments nor what payments depend on.
LEMMA AgreeFrame ==
    ASSUME TypeOK, PaymentsAgree, payment' = payment,
           \A o \in Orders :
               /\ order'[o].payment_status = order[o].payment_status
               /\ order'[o].total = order[o].total
               /\ \/ order'[o].status = order[o].status
                  \/ {order[o].status, order'[o].status} \subseteq {"paid", "processing"}
    PROVE  PaymentsAgree'
<1>1. \A o \in Orders : SuccessOf(o)' = SuccessOf(o)
  BY SameSuccess
<1>2. PaidExactlyOnce'
  BY <1>1 DEF PaymentsAgree, PaidExactlyOnce
<1>3. OpenAttemptsArePayable'
  BY DEF PaymentsAgree, OpenAttemptsArePayable, AwaitingPayment
<1> QED
  BY <1>2, <1>3 DEF PaymentsAgree

\* Movements and changes of warehouses touch no payment and no payment status.
LEMMA AgreeInventory ==
    ASSUME TypeOK, PaymentsAgree, InventoryNext
    PROVE  PaymentsAgree'
<1>1. payment' = payment
  BY DEF InventoryNext, RecordMovement, SetWarehouseActive, DeleteWarehouse
<1>2. ASSUME NEW o \in Orders
      PROVE  /\ order'[o].payment_status = order[o].payment_status
             /\ order'[o].total = order[o].total
             /\ order'[o].status = order[o].status
  <2>1. order[o] \in OrderRow
    BY DEF TypeOK
  <2>2. ASSUME NEW w \in Warehouses, DeleteWarehouse(w)
        PROVE  order'[o] = [order[o] EXCEPT !.place =
                   [p \in Products |-> IF order[o].place[p] = w THEN None ELSE order[o].place[p]]]
    BY <2>2 DEF DeleteWarehouse
  <2> QED
    BY <2>1, <2>2 DEF InventoryNext, RecordMovement, SetWarehouseActive, OrderRow
<1> QED
  BY <1>1, <1>2, AgreeFrame

\* No payment refers to an order before checkout creates it.
LEMMA AgreeCheckout ==
    ASSUME TypeOK, PaymentsAgree, CheckoutNext
    PROVE  PaymentsAgree'
<1>1. PICK o \in Orders, u \in Users, cart \in Carts, total \in Totals, code \in BOOLEAN,
          place \in [Products -> Warehouses \cup {None}] :
            Checkout(o, u, cart, place, total, code)
  BY DEF CheckoutNext
<1>2. \A x \in Orders : SuccessOf(x)' = SuccessOf(x)
  BY <1>1, SameSuccess DEF Checkout
<1>3. /\ order'[o].status = "pending_payment" /\ order'[o].payment_status = "unpaid"
      /\ \A x \in Orders \ {o} : order'[x] = order[x]
      /\ order[o].status = "none"
  BY <1>1 DEF Checkout, TypeOK
<1>4. PaidExactlyOnce'
  BY <1>2, <1>3 DEF PaymentsAgree, PaidExactlyOnce
<1>5. OpenAttemptsArePayable'
  <2>1. payment' = payment
    BY <1>1 DEF Checkout
  <2>2. \A m \in Payments : payment[m].status = "pending" => payment[m].order # o
    BY <1>3 DEF PaymentsAgree, OpenAttemptsArePayable, AwaitingPayment
  <2> QED
    BY <1>3, <2>1, <2>2 DEF PaymentsAgree, OpenAttemptsArePayable, AwaitingPayment
<1> QED
  BY <1>4, <1>5 DEF PaymentsAgree

\* Order.cancel closes every attempt that is still pending.
LEMMA AgreeCancelOrder ==
    ASSUME TypeOK, PaymentsAgree, NEW o \in Orders, CancelOrder(o)
    PROVE  PaymentsAgree'
<1>1. payment' = WithStatus(PendingOf(o), "cancelled")
  BY DEF CancelOrder
<1>2. \A x \in Orders : SuccessOf(x)' = SuccessOf(x)
  BY <1>1, WithStatusEffect, SameSuccess DEF PendingOf
<1>3. /\ order'[o].status = "cancelled"
      /\ order'[o].payment_status = order[o].payment_status
      /\ \A x \in Orders \ {o} : order'[x] = order[x]
  <2>1. order[o] \in OrderRow
    BY DEF TypeOK
  <2> QED
    BY <2>1 DEF CancelOrder, TypeOK, OrderRow
<1>4. PaidExactlyOnce'
  <2>1. order[o].payment_status = "unpaid"
    BY DEF CancelOrder, AwaitingPayment
  <2> QED
    BY <1>2, <1>3, <2>1 DEF PaymentsAgree, PaidExactlyOnce
<1>5. OpenAttemptsArePayable'
  BY <1>1, <1>3, WithStatusEffect DEF PaymentsAgree, OpenAttemptsArePayable, AwaitingPayment, PendingOf
<1> QED
  BY <1>4, <1>5 DEF PaymentsAgree

\* Starting to prepare moves an order among the paid statuses only.
LEMMA AgreeStart ==
    ASSUME TypeOK, PaymentsAgree, NEW o \in Orders,
           AdminStart(o) \/ \E s \in Sellers : SellerStart(o, s)
    PROVE  PaymentsAgree'
<1>1. order[o] \in OrderRow /\ order \in [Orders -> OrderRow]
  BY DEF TypeOK
<1>2. payment' = payment
  BY DEF AdminStart, SellerStart
<1>3. \A x \in Orders :
          /\ order'[x].payment_status = order[x].payment_status
          /\ order'[x].total = order[x].total
          /\ \/ order'[x].status = order[x].status
             \/ {order[x].status, order'[x].status} \subseteq {"paid", "processing"}
  BY <1>1 DEF AdminStart, SellerStart, OrderRow
<1> QED
  BY <1>2, <1>3, AgreeFrame

\* An attempt is created for the whole amount of an order that awaits payment.
LEMMA AgreeCreatePayment ==
    ASSUME TypeOK, PaymentsAgree, NEW m \in Payments, NEW o \in Orders,
           NEW provider \in Providers, CreatePayment(m, o, provider)
    PROVE  PaymentsAgree'
<1>1. /\ payment'[m] = [order |-> o, provider |-> provider, status |-> "pending",
                        amount |-> order[o].total]
      /\ \A n \in Payments \ {m} : payment'[n] = payment[n]
      /\ payment[m].status = "none"
      /\ order' = order
  BY DEF CreatePayment, TypeOK
<1>2. \A x \in Orders : SuccessOf(x)' = SuccessOf(x)
  BY <1>1, SameSuccess
<1>3. PaidExactlyOnce'
  BY <1>1, <1>2 DEF PaymentsAgree, PaidExactlyOnce
<1>4. OpenAttemptsArePayable'
  BY <1>1 DEF PaymentsAgree, OpenAttemptsArePayable, CreatePayment, AwaitingPayment
<1> QED
  BY <1>3, <1>4 DEF PaymentsAgree

\* mark_success makes its attempt the only successful one of its order and
\* leaves no other attempt of the order pending.
LEMMA AgreeMarkSuccess ==
    ASSUME TypeOK, PaymentsAgree, NEW m \in Payments, MarkSuccess(m)
    PROVE  PaymentsAgree'
<1>a. PICK o \in Orders : o = payment[m].order
  BY DEF MarkSuccess, PaymentsAgree, OpenAttemptsArePayable
<1>1. /\ payment[m].order = o /\ payment[m].status = "pending"
      /\ order[o].payment_status = "unpaid" /\ SuccessOf(o) = {}
  BY <1>a DEF MarkSuccess, PaymentsAgree, PaidExactlyOnce, AwaitingPayment
<1>2. /\ order'[o].status = "paid" /\ order'[o].payment_status = "paid"
      /\ \A x \in Orders \ {o} : order'[x] = order[x]
  <2>1. order[o] \in OrderRow
    BY <1>1 DEF TypeOK
  <2> QED
    BY <1>1, <2>1 DEF MarkSuccess, TypeOK, OrderRow
<1>3. \A n \in Payments :
          /\ payment'[n].order = payment[n].order
          /\ payment'[n].amount = payment[n].amount
          /\ payment'[n].status = IF n = m THEN "success"
                                  ELSE IF n \in PendingOf(o) THEN "cancelled" ELSE payment[n].status
  <2>1. payment[m] \in PaymentRow
    BY DEF TypeOK
  <2>2. payment' = [WithStatus(PendingOf(o), "cancelled") EXCEPT ![m] =
                      [payment[m] EXCEPT !.status = "success"]]
    BY <1>1 DEF MarkSuccess
  <2>3. WithStatus(PendingOf(o), "cancelled") \in [Payments -> PaymentRow]
    BY WithStatusType DEF PaymentStatus
  <2>4. \A n \in Payments \ {m} : payment'[n] = WithStatus(PendingOf(o), "cancelled")[n]
    BY <2>2, <2>3
  <2>5. payment'[m] = [payment[m] EXCEPT !.status = "success"]
    BY <2>2, <2>3
  <2> QED
    BY <2>1, <2>4, <2>5, WithStatusEffect DEF PaymentRow
<1>4. SuccessOf(o)' = {m} /\ \A x \in Orders \ {o} : SuccessOf(x)' = SuccessOf(x)
  <2>1. ASSUME NEW n \in Payments
        PROVE  payment'[n].status = "success" <=> n = m \/ payment[n].status = "success"
    BY <1>1, <1>3 DEF PendingOf
  <2>2. \A n \in Payments : payment[n].order = o => payment[n].status # "success"
    BY <1>1 DEF SuccessOf
  <2>3. SuccessOf(o)' = {m}
    <3>1. SuccessOf(o)' = {n \in Payments : payment'[n].order = o /\ payment'[n].status = "success"}
      BY DEF SuccessOf
    <3>2. \A n \in Payments :
            (payment'[n].order = o /\ payment'[n].status = "success") <=> n = m
      BY <1>1, <1>3, <2>1, <2>2
    <3> QED
      BY <3>1, <3>2
  <2>4. ASSUME NEW x \in Orders \ {o}
        PROVE  SuccessOf(x)' = SuccessOf(x)
    <3>1. \A n \in Payments :
            (payment'[n].order = x /\ payment'[n].status = "success")
              <=> (payment[n].order = x /\ payment[n].status = "success")
      BY <1>1, <1>3, <2>1
    <3> QED
      BY <3>1 DEF SuccessOf
  <2> QED
    BY <2>3, <2>4
<1>5. PaidExactlyOnce'
  <2> SUFFICES ASSUME NEW x \in Orders
               PROVE  /\ \A n, k \in SuccessOf(x)' : n = k
                      /\ order'[x].payment_status = "paid" <=> SuccessOf(x)' # {}
                      /\ order'[x].payment_status = "paid"
                           <=> order'[x].status \in {"paid", "processing"}
    BY DEF PaidExactlyOnce
  <2>1. CASE x = o
    BY <1>2, <1>4, <2>1
  <2>2. CASE x # o
    <3>1. SuccessOf(x)' = SuccessOf(x) /\ order'[x] = order[x]
      BY <1>2, <1>4, <2>2
    <3> QED
      BY <3>1 DEF PaymentsAgree, PaidExactlyOnce
  <2> QED
    BY <2>1, <2>2
<1>6. OpenAttemptsArePayable'
  BY <1>1, <1>2, <1>3 DEF PaymentsAgree, OpenAttemptsArePayable, AwaitingPayment, PendingOf
<1> QED
  BY <1>5, <1>6 DEF PaymentsAgree

\* mark_failed and cancel never touch a successful attempt.
LEMMA AgreeClosePayment ==
    ASSUME TypeOK, PaymentsAgree, NEW m \in Payments, MarkFailed(m) \/ CancelPayment(m)
    PROVE  PaymentsAgree'
<1>1. PICK status \in {"failed", "cancelled"} : payment' = WithStatus({m}, status)
  BY DEF MarkFailed, CancelPayment
<1>2. order' = order /\ payment[m].status \in {"pending", "failed"}
  BY DEF MarkFailed, CancelPayment
<1>3. \A x \in Orders : SuccessOf(x)' = SuccessOf(x)
  BY <1>1, <1>2, WithStatusEffect, SameSuccess
<1>4. PaidExactlyOnce'
  BY <1>2, <1>3 DEF PaymentsAgree, PaidExactlyOnce
<1>5. OpenAttemptsArePayable'
  BY <1>1, <1>2, WithStatusEffect DEF PaymentsAgree, OpenAttemptsArePayable, AwaitingPayment
<1> QED
  BY <1>4, <1>5 DEF PaymentsAgree

\* There is nothing to pay in the empty shop.
LEMMA AgreeInit ==
    ASSUME Init
    PROVE  PaymentsAgree
<1>1. \A o \in Orders : SuccessOf(o) = {}
  BY DEF Init, NoPayment, SuccessOf
<1> QED
  BY <1>1 DEF Init, NoOrder, NoPayment, PaymentsAgree, PaidExactlyOnce, OpenAttemptsArePayable

----------------------------------------------------------------------------
(* Sellers start when the order is paid. *)

\* The row of an order that was never placed has no items.
UnplacedOrdersAreBlank ==
    \A o \in Orders : order[o].status = "none" => order[o].quantity = [p \in Products |-> 0]

SellersAgree == FulfillmentFollowsPayment /\ UnplacedOrdersAreBlank

\* No seller has work in the empty shop.
LEMMA SellersInit ==
    ASSUME Init
    PROVE  SellersAgree
BY DEF Init, NoOrder, SellersIn, SellersAgree, FulfillmentFollowsPayment, UnplacedOrdersAreBlank

\* Steps that change nothing the fulfillment rows depend on.
LEMMA SellersFrame ==
    ASSUME TypeOK, SellersAgree, fulfillment' = fulfillment,
           \A o \in Orders :
               /\ order'[o].quantity = order[o].quantity
               /\ order'[o].payment_status = order[o].payment_status
               /\ order[o].status = "processing" => order'[o].status = "processing"
               /\ order'[o].status = "none" => order[o].status = "none"
    PROVE  SellersAgree'
BY DEF SellersAgree, FulfillmentFollowsPayment, UnplacedOrdersAreBlank, SellersIn

\* Movements and changes of warehouses leave the sellers' work alone.
LEMMA SellersInventory ==
    ASSUME TypeOK, SellersAgree, InventoryNext
    PROVE  SellersAgree'
<1>1. fulfillment' = fulfillment
  BY DEF InventoryNext, RecordMovement, SetWarehouseActive, DeleteWarehouse
<1>2. ASSUME NEW o \in Orders
      PROVE  /\ order'[o].quantity = order[o].quantity
             /\ order'[o].payment_status = order[o].payment_status
             /\ order'[o].status = order[o].status
  <2>1. order[o] \in OrderRow
    BY DEF TypeOK
  <2>2. ASSUME NEW w \in Warehouses, DeleteWarehouse(w)
        PROVE  order'[o] = [order[o] EXCEPT !.place =
                   [p \in Products |-> IF order[o].place[p] = w THEN None ELSE order[o].place[p]]]
    BY <2>2 DEF DeleteWarehouse
  <2> QED
    BY <2>1, <2>2 DEF InventoryNext, RecordMovement, SetWarehouseActive, OrderRow
<1> QED
  BY <1>1, <1>2, SellersFrame

\* Checkout gives exactly the sellers of the cart a fulfillment row that waits
\* for the payment.
LEMMA SellersCheckout ==
    ASSUME TypeOK, SellersAgree, CheckoutNext
    PROVE  SellersAgree'
<1>1. PICK o \in Orders, u \in Users, cart \in Carts, total \in Totals, code \in BOOLEAN,
          place \in [Products -> Warehouses \cup {None}] :
            Checkout(o, u, cart, place, total, code)
  BY DEF CheckoutNext
<1>2. /\ order'[o].status = "pending_payment" /\ order'[o].payment_status = "unpaid"
      /\ order'[o].quantity = cart
      /\ \A x \in Orders \ {o} : order'[x] = order[x] /\ fulfillment'[x] = fulfillment[x]
      /\ order[o].status = "none"
  BY <1>1 DEF Checkout, TypeOK
<1>3. \A s \in Sellers : fulfillment[o][s] = "none"
  <2>1. SellersIn(order[o].quantity) = {}
    BY <1>2 DEF SellersAgree, UnplacedOrdersAreBlank, SellersIn
  <2> QED
    BY <2>1 DEF SellersAgree, FulfillmentFollowsPayment
<1>4. \A s \in Sellers :
          fulfillment'[o][s] = IF s \in SellersIn(cart) THEN "pending_payment" ELSE "none"
  BY <1>1, <1>3 DEF Checkout, TypeOK
<1> QED
  BY <1>2, <1>4 DEF SellersAgree, FulfillmentFollowsPayment, UnplacedOrdersAreBlank

\* Only an unpaid order is cancelled, so no seller has started on it.
LEMMA SellersCancelOrder ==
    ASSUME TypeOK, SellersAgree, NEW o \in Orders, CancelOrder(o)
    PROVE  SellersAgree'
<1>1. order[o] \in OrderRow
  BY DEF TypeOK
<1>2. /\ fulfillment' = fulfillment
      /\ order'[o].quantity = order[o].quantity
      /\ order'[o].payment_status = order[o].payment_status
      /\ order'[o].status = "cancelled"
      /\ \A x \in Orders \ {o} : order'[x] = order[x]
      /\ order[o].status = "pending_payment"
  BY <1>1 DEF CancelOrder, AwaitingPayment, TypeOK, OrderRow
<1> QED
  BY <1>2, SellersFrame

\* A seller or an administrator starts on paid orders only.
LEMMA SellersStart ==
    ASSUME TypeOK, PaymentsAgree, SellersAgree, NEW o \in Orders,
           AdminStart(o) \/ \E s \in Sellers : SellerStart(o, s)
    PROVE  SellersAgree'
<1>1. order[o] \in OrderRow /\ order \in [Orders -> OrderRow]
  BY DEF TypeOK
<1>2. CASE AdminStart(o)
  BY <1>1, <1>2, SellersFrame DEF AdminStart, OrderRow
<1>3. ASSUME NEW s \in Sellers, SellerStart(o, s)
      PROVE  SellersAgree'
  <2>1. /\ order'[o].status = "processing"
        /\ order'[o].payment_status = "paid" /\ order[o].payment_status = "paid"
        /\ order'[o].quantity = order[o].quantity
        /\ \A x \in Orders \ {o} : order'[x] = order[x]
    BY <1>1, <1>3 DEF SellerStart, OrderRow, PaymentsAgree, PaidExactlyOnce
  <2>2. /\ fulfillment[o][s] = "paid"
        /\ \A x \in Orders, z \in Sellers :
              fulfillment'[x][z] = IF x = o /\ z = s THEN "processing" ELSE fulfillment[x][z]
    BY <1>3 DEF SellerStart, TypeOK
  <2> QED
    BY <2>1, <2>2 DEF SellersAgree, FulfillmentFollowsPayment, UnplacedOrdersAreBlank
<1> QED
  BY <1>2, <1>3

\* mark_success is the only payment step that touches fulfillment rows, and it
\* moves all those of its order at once.
LEMMA SellersPayment ==
    ASSUME TypeOK, PaymentsAgree, SellersAgree, PaymentNext
    PROVE  SellersAgree'
<1>1. CASE fulfillment' = fulfillment /\ order' = order
  BY <1>1, SellersFrame
<1>2. ASSUME NEW m \in Payments, MarkSuccess(m)
      PROVE  SellersAgree'
  <2>1. PICK o \in Orders : o = payment[m].order
    BY <1>2 DEF MarkSuccess, PaymentsAgree, OpenAttemptsArePayable
  <2>2. order[o] \in OrderRow
    BY DEF TypeOK
  <2>3. /\ order'[o].quantity = order[o].quantity
        /\ order'[o].status = "paid" /\ order'[o].payment_status = "paid"
        /\ order[o].payment_status = "unpaid"
        /\ \A x \in Orders \ {o} : order'[x] = order[x] /\ fulfillment'[x] = fulfillment[x]
    BY <1>2, <2>1, <2>2 DEF MarkSuccess, AwaitingPayment, TypeOK, OrderRow
  <2>4. \A s \in Sellers :
            fulfillment'[o][s] =
                IF s \in SellersIn(order[o].quantity)
                   /\ fulfillment[o][s] \in {"none", "pending_payment"}
                THEN "paid" ELSE fulfillment[o][s]
    BY <1>2, <2>1 DEF MarkSuccess, TypeOK
  <2>5. \A s \in Sellers : fulfillment[o][s] \in {"none", "pending_payment"}
    BY <2>3 DEF SellersAgree, FulfillmentFollowsPayment, TypeOK, FulfillmentStatus
  <2>6. \A s \in Sellers :
            fulfillment'[o][s] = IF s \in SellersIn(order[o].quantity) THEN "paid" ELSE "none"
    BY <2>4, <2>5 DEF SellersAgree, FulfillmentFollowsPayment
  <2> QED
    BY <2>3, <2>6 DEF SellersAgree, FulfillmentFollowsPayment, UnplacedOrdersAreBlank
<1> QED
  BY <1>1, <1>2 DEF PaymentNext, CreatePayment, MarkFailed, CancelPayment

----------------------------------------------------------------------------
(* The theorems. *)

\* What the steps of the shop preserve together: types alone are not inductive,
\* because mark_success needs the order of a pending attempt to exist.
IInv == TypeOK /\ PaymentsAgree /\ SellersAgree

\* Every step of the shop preserves the types of its tables.
LEMMA TypeNext ==
    ASSUME TypeOK, PaymentsAgree, Next
    PROVE  TypeOK'
<1>1. CASE InventoryNext
  <2>1. \A d \in (-MaxStock)..MaxStock : d \in Int
    BY MaxStockAssumption
  <2> QED
    BY <1>1, <2>1, TypeRecordMovement, TypeWarehouses DEF InventoryNext
<1>2. CASE CheckoutNext
  BY <1>2, TypeCheckout DEF CheckoutNext
<1>3. CASE OrderNext
  BY <1>3, TypeCancelOrder, TypeStart DEF OrderNext
<1>4. CASE PaymentNext
  <2>1. ASSUME NEW m \in Payments, MarkSuccess(m)
        PROVE  payment[m].order \in Orders
    BY <2>1 DEF MarkSuccess, PaymentsAgree, OpenAttemptsArePayable
  <2> QED
    BY <1>4, <2>1, TypePaymentAttempts, TypeMarkSuccess DEF PaymentNext
<1> QED
  BY <1>1, <1>2, <1>3, <1>4 DEF Next

\* Every step of the shop preserves the agreement of payments and orders.
LEMMA AgreeNext ==
    ASSUME TypeOK, PaymentsAgree, Next
    PROVE  PaymentsAgree'
<1>1. CASE PaymentNext
  BY <1>1, AgreeCreatePayment, AgreeMarkSuccess, AgreeClosePayment DEF PaymentNext
<1>2. CASE OrderNext
  BY <1>2, AgreeCancelOrder, AgreeStart DEF OrderNext
<1> QED
  BY <1>1, <1>2, AgreeInventory, AgreeCheckout DEF Next

\* Every step of the shop preserves the agreement of sellers and orders.
LEMMA SellersNext ==
    ASSUME TypeOK, PaymentsAgree, SellersAgree, Next
    PROVE  SellersAgree'
<1>1. CASE OrderNext
  BY <1>1, SellersCancelOrder, SellersStart DEF OrderNext
<1> QED
  BY <1>1, SellersInventory, SellersCheckout, SellersPayment DEF Next

\* IInv is an inductive invariant of the shop.
LEMMA Inductive == Spec => []IInv
<1>1. Init => IInv
  BY TypeInit, AgreeInit, SellersInit DEF IInv
<1>2. IInv /\ [Next]_vars => IInv'
  <2> SUFFICES ASSUME IInv, [Next]_vars
               PROVE  IInv'
    OBVIOUS
  <2>1. CASE Next
    BY <2>1, TypeNext, AgreeNext, SellersNext DEF IInv
  <2>2. CASE UNCHANGED vars
    BY <2>2 DEF vars, IInv, TypeOK, PaymentsAgree, PaidExactlyOnce, OpenAttemptsArePayable,
        SuccessOf, AwaitingPayment, SellersAgree, FulfillmentFollowsPayment,
        UnplacedOrdersAreBlank, SellersIn
  <2> QED
    BY <2>1, <2>2
<1> QED
  BY <1>1, <1>2, PTL DEF Spec

\* In a shop of any size every table holds rows of its type; in particular no
\* counter of a Stock row goes below zero or over the column's maximum.
THEOREM TypesAreCorrect == Spec => []TypeOK
<1>1. IInv => TypeOK
  BY DEF IInv
<1> QED
  BY <1>1, Inductive, PTL

\* However payments, cancellations and attempts with several providers follow
\* each other, an order is paid exactly when one attempt for it succeeded.
THEOREM OrdersArePaidOnce == Spec => []PaidExactlyOnce
<1>1. IInv => PaidExactlyOnce
  BY DEF IInv, PaymentsAgree
<1> QED
  BY <1>1, Inductive, PTL

\* No attempt stays payable for an order that was cancelled, or paid by another.
THEOREM NoStaleAttempt == Spec => []OpenAttemptsArePayable
<1>1. IInv => OpenAttemptsArePayable
  BY DEF IInv, PaymentsAgree
<1> QED
  BY <1>1, Inductive, PTL

\* For any number of sellers in an order, all of them and only they may start,
\* and only when the order is paid.
THEOREM SellersWaitForPayment == Spec => []FulfillmentFollowsPayment
<1>1. IInv => FulfillmentFollowsPayment
  BY DEF IInv, SellersAgree
<1> QED
  BY <1>1, Inductive, PTL

----------------------------------------------------------------------------
(* No unit is promised twice. *)

\* The check constraint of the Stock table, in every row.
RowsConsistent == \A p \in Products, w \in Warehouses : RowConsistent(stock[p][w])

\* Every write of a Stock row goes through one of the operations of StockRow.
LEMMA StockWrites ==
    ASSUME TypeOK, PaymentsAgree, Next, NEW p \in Products, NEW w \in Warehouses
    PROVE  \/ stock'[p][w] = stock[p][w]
           \/ stock'[p][w] = EmptyRow
           \/ \E q \in Nat : CanReserve(stock[p][w], q) /\ stock'[p][w] = Reserve(stock[p][w], q)
           \/ \E q \in Nat : CanRelease(stock[p][w], q) /\ stock'[p][w] = Release(stock[p][w], q)
           \/ \E q \in Nat : CanSell(stock[p][w], q) /\ stock'[p][w] = Sell(stock[p][w], q)
           \/ \E d \in Int : CanMove(stock[p][w], d) /\ stock'[p][w] = Move(stock[p][w], d)
<1>1. CASE InventoryNext
  <2>1. ASSUME NEW pp \in Products, NEW ww \in Warehouses,
               NEW d \in (-MaxStock)..MaxStock, RecordMovement(pp, ww, d)
        PROVE  \/ stock'[p][w] = stock[p][w]
               \/ d \in Int /\ CanMove(stock[p][w], d) /\ stock'[p][w] = Move(stock[p][w], d)
    BY <2>1, MaxStockAssumption DEF RecordMovement, TypeOK
  <2>2. ASSUME NEW ww \in Warehouses, DeleteWarehouse(ww)
        PROVE  stock'[p][w] = stock[p][w] \/ stock'[p][w] = EmptyRow
    BY <2>2 DEF DeleteWarehouse, TypeOK
  <2> QED
    BY <1>1, <2>1, <2>2 DEF InventoryNext, SetWarehouseActive
<1>2. CASE CheckoutNext
  <2>1. PICK o \in Orders, u \in Users, cart \in Carts, total \in Totals, code \in BOOLEAN,
            place \in [Products -> Warehouses \cup {None}] :
              Checkout(o, u, cart, place, total, code)
    BY <1>2 DEF CheckoutNext
  <2>2. cart[p] \in Nat
    BY CommerceAssumption DEF Carts
  <2>3. cart[p] > 0 /\ place[p] = w => CanReserve(stock[p][w], cart[p])
    BY <2>1 DEF Checkout, PlacesFor
  <2> QED
    BY <2>1, <2>2, <2>3 DEF Checkout
<1>3. CASE OrderNext
  <2>1. ASSUME NEW o \in Orders, CancelOrder(o)
        PROVE  \/ stock'[p][w] = stock[p][w]
               \/ \E q \in Nat : CanRelease(stock[p][w], q)
                                 /\ stock'[p][w] = Release(stock[p][w], q)
    BY <2>1, ClaimType DEF CancelOrder
  <2> QED
    BY <1>3, <2>1 DEF OrderNext, AdminStart, SellerStart
<1>4. CASE PaymentNext
  <2>1. ASSUME NEW m \in Payments, MarkSuccess(m)
        PROVE  \/ stock'[p][w] = stock[p][w]
               \/ \E q \in Nat : CanSell(stock[p][w], q) /\ stock'[p][w] = Sell(stock[p][w], q)
    <3>1. PICK o \in Orders : o = payment[m].order
      BY <2>1 DEF MarkSuccess, PaymentsAgree, OpenAttemptsArePayable
    <3>2. Claim(o, p, w) \in Nat
      BY ClaimType
    <3> QED
      BY <2>1, <3>1, <3>2 DEF MarkSuccess
  <2> QED
    BY <1>4, <2>1 DEF PaymentNext, CreatePayment, MarkFailed, CancelPayment
<1> QED
  BY <1>1, <1>2, <1>3, <1>4 DEF Next

\* Whatever the shop does, no row promises more units than it holds, so the
\* check constraint stock_reserved_lte_quantity never fails.
THEOREM NoUnitPromisedTwice == Spec => []RowsConsistent
<1>1. Init => RowsConsistent
  BY MaxStockAssumption DEF Init, RowsConsistent, RowConsistent, EmptyRow
<1>2. IInv /\ RowsConsistent /\ [Next]_vars => RowsConsistent'
  <2> SUFFICES ASSUME IInv, RowsConsistent, [Next]_vars,
                      NEW p \in Products, NEW w \in Warehouses
               PROVE  RowConsistent(stock'[p][w])
    BY DEF RowsConsistent
  <2>1. stock[p][w] \in Row /\ RowConsistent(stock[p][w])
    BY DEF IInv, TypeOK, RowsConsistent
  <2>2. RowConsistent(EmptyRow)
    BY DEF RowConsistent, EmptyRow
  <2>3. CASE Next
    BY <2>1, <2>2, <2>3, StockWrites, RowStaysConsistent DEF IInv
  <2>4. CASE UNCHANGED vars
    BY <2>1, <2>4 DEF vars
  <2> QED
    BY <2>3, <2>4
<1> QED
  BY <1>1, <1>2, Inductive, PTL DEF Spec

----------------------------------------------------------------------------
(* The discount stays within its limits. *)

\* Orders with a DiscountUsage row.
UsageRows == {o \in Orders : order[o].usage}

\* The row of an order that was never placed has no usage.
UnplacedOrdersUseNothing == \A o \in Orders : order[o].status = "none" => ~ order[o].usage

DiscountAgree == DiscountWithinLimits /\ UnplacedOrdersUseNothing

\* There are finitely many usages, of all users and of one.
LEMMA UsagesFinite ==
    ASSUME NEW u
    PROVE  IsFiniteSet(UsageRows) /\ IsFiniteSet(UsagesOf(u))
BY CommerceAssumption, FS_Subset DEF UsageRows, UsagesOf

\* No discount is used in the empty shop.
LEMMA DiscountInit ==
    ASSUME Init
    PROVE  DiscountAgree
<1>1. UsageRows = {} /\ \A u \in Users : UsagesOf(u) = {}
  BY DEF Init, NoOrder, UsageRows, UsagesOf
<1>2. usedCount = 0 /\ \A o \in Orders : ~ order[o].usage
  BY DEF Init, NoOrder
<1>3. Cardinality({}) = 0
  BY FS_EmptySet
<1>4. usedCount = Cardinality(UsageRows) /\ usedCount <= UsageLimit
  BY <1>1, <1>2, <1>3, CommerceAssumption
<1>5. \A u \in Users : Cardinality(UsagesOf(u)) <= PerUserLimit
  BY <1>1, <1>3, CommerceAssumption
<1> QED
  BY <1>2, <1>4, <1>5 DEF DiscountAgree, DiscountWithinLimits, UnplacedOrdersUseNothing, UsageRows

\* Steps that neither write usages nor used_count.
LEMMA DiscountFrame ==
    ASSUME TypeOK, DiscountAgree, usedCount' = usedCount,
           \A o \in Orders :
               /\ order'[o].usage = order[o].usage
               /\ order'[o].user = order[o].user
               /\ order'[o].status = "none" => order[o].status = "none"
    PROVE  DiscountAgree'
<1>1. UsageRows' = UsageRows
  BY DEF UsageRows
<1>2. \A u \in Users : UsagesOf(u)' = UsagesOf(u)
  BY DEF UsagesOf
<1>3. DiscountWithinLimits'
  BY <1>1, <1>2 DEF DiscountAgree, DiscountWithinLimits, UsageRows
<1> QED
  BY <1>3 DEF DiscountAgree, UnplacedOrdersUseNothing

\* Checkout counts the use it records, and records it only below both limits.
LEMMA DiscountCheckout ==
    ASSUME TypeOK, DiscountAgree, CheckoutNext
    PROVE  DiscountAgree'
<1>1. PICK o \in Orders, u \in Users, cart \in Carts, total \in Totals, code \in BOOLEAN,
          place \in [Products -> Warehouses \cup {None}] :
            Checkout(o, u, cart, place, total, code)
  BY DEF CheckoutNext
<1>2. /\ order[o].status = "none" /\ ~ order[o].usage
      /\ order'[o].status = "pending_payment"
      /\ order'[o].usage = code /\ order'[o].user = u
      /\ \A x \in Orders \ {o} : order'[x] = order[x]
  BY <1>1 DEF Checkout, TypeOK, DiscountAgree, UnplacedOrdersUseNothing
<1>3. UnplacedOrdersUseNothing'
  BY <1>2 DEF DiscountAgree, UnplacedOrdersUseNothing
<1>4. CASE ~ code
  <2>1. usedCount' = usedCount
    BY <1>1, <1>4 DEF Checkout
  <2>2. UsageRows' = UsageRows
    BY <1>2, <1>4 DEF UsageRows
  <2>3. \A v \in Users : UsagesOf(v)' = UsagesOf(v)
    BY <1>2, <1>4 DEF UsagesOf
  <2> QED
    BY <1>3, <2>1, <2>2, <2>3 DEF DiscountAgree, DiscountWithinLimits, UsageRows
<1>5. CASE code
  <2>1. usedCount' = usedCount + 1 /\ usedCount < UsageLimit
        /\ Cardinality(UsagesOf(u)) < PerUserLimit
    BY <1>1, <1>5 DEF Checkout, DiscountLeft
  <2>2. UsageRows' = UsageRows \cup {o} /\ o \notin UsageRows
    BY <1>2, <1>5 DEF UsageRows
  <2>3. UsagesOf(u)' = UsagesOf(u) \cup {o} /\ o \notin UsagesOf(u)
    BY <1>2, <1>5 DEF UsagesOf
  <2>4. \A v \in Users \ {u} : UsagesOf(v)' = UsagesOf(v)
    BY <1>2 DEF UsagesOf
  <2>5. Cardinality(UsageRows') = Cardinality(UsageRows) + 1
    BY <2>2, UsagesFinite, FS_AddElement
  <2>6. Cardinality(UsagesOf(u)') = Cardinality(UsagesOf(u)) + 1
    BY <2>3, UsagesFinite, FS_AddElement
  <2>7. Cardinality(UsagesOf(u)) \in Nat
    BY UsagesFinite, FS_CardinalityType
  <2>8. usedCount' = Cardinality(UsageRows') /\ usedCount' <= UsageLimit
    BY <2>1, <2>5, CommerceAssumption
       DEF DiscountAgree, DiscountWithinLimits, UsageRows, TypeOK
  <2>9. \A v \in Users : Cardinality(UsagesOf(v)') <= PerUserLimit
    BY <2>1, <2>4, <2>6, <2>7, CommerceAssumption DEF DiscountAgree, DiscountWithinLimits
  <2> QED
    BY <1>3, <2>8, <2>9 DEF DiscountAgree, DiscountWithinLimits, UsageRows
<1> QED
  BY <1>4, <1>5

\* Order.cancel takes back the use it deletes, so its guard against a negative
\* used_count never bites.
LEMMA DiscountCancel ==
    ASSUME TypeOK, DiscountAgree, NEW o \in Orders, CancelOrder(o)
    PROVE  DiscountAgree'
<1>1. order[o] \in OrderRow
  BY DEF TypeOK
<1>2. /\ order'[o].status = "cancelled" /\ ~ order'[o].usage
      /\ \A x \in Orders \ {o} : order'[x] = order[x]
  BY <1>1 DEF CancelOrder, TypeOK, OrderRow
<1>3. UnplacedOrdersUseNothing'
  BY <1>2 DEF DiscountAgree, UnplacedOrdersUseNothing
<1>4. UsageRows' = UsageRows \ {o}
  BY <1>2 DEF UsageRows
<1>5. ASSUME NEW v \in Users
      PROVE  Cardinality(UsagesOf(v)') <= PerUserLimit
  <2>1. UsagesOf(v)' \subseteq UsagesOf(v)
    BY <1>2 DEF UsagesOf
  <2>2. /\ Cardinality(UsagesOf(v)) \in Nat /\ Cardinality(UsagesOf(v)') \in Nat
        /\ Cardinality(UsagesOf(v)') <= Cardinality(UsagesOf(v))
    BY <2>1, UsagesFinite, FS_Subset, FS_CardinalityType
  <2> QED
    BY <2>2, CommerceAssumption DEF DiscountAgree, DiscountWithinLimits
<1>6. usedCount = Cardinality(UsageRows) /\ usedCount \in Nat /\ usedCount <= UsageLimit
  BY DEF DiscountAgree, DiscountWithinLimits, UsageRows, TypeOK
<1>7. usedCount' = Cardinality(UsageRows') /\ usedCount' <= UsageLimit
  <2>1. CASE order[o].usage
    <3>1. o \in UsageRows
      BY <2>1 DEF UsageRows
    <3>2. Cardinality(UsageRows') = Cardinality(UsageRows) - 1
      BY <3>1, <1>4, UsagesFinite, FS_RemoveElement
    <3>3. Cardinality(UsageRows') \in Nat
      <4>1. IsFiniteSet(UsageRows')
        BY <1>4, UsagesFinite, FS_RemoveElement
      <4> QED
        BY <4>1, FS_CardinalityType
    <3>4. usedCount' = usedCount - 1
      BY <2>1, <3>2, <3>3, <1>6 DEF CancelOrder
    <3> QED
      BY <3>2, <3>4, <1>6, CommerceAssumption
  <2>2. CASE ~ order[o].usage
    <3>1. UsageRows' = UsageRows
      BY <1>4, <2>2 DEF UsageRows
    <3>2. usedCount' = usedCount
      BY <2>2 DEF CancelOrder
    <3> QED
      BY <3>1, <3>2, <1>6
  <2> QED
    BY <2>1, <2>2
<1> QED
  BY <1>3, <1>5, <1>7 DEF DiscountAgree, DiscountWithinLimits, UsageRows

\* Every step of the shop preserves the agreement of used_count and usages.
LEMMA DiscountNext ==
    ASSUME TypeOK, PaymentsAgree, DiscountAgree, Next
    PROVE  DiscountAgree'
<1>1. \A o \in Orders : order[o] \in OrderRow
  BY DEF TypeOK
<1>2. CASE InventoryNext
  <2>1. usedCount' = usedCount
    BY <1>2 DEF InventoryNext, RecordMovement, SetWarehouseActive, DeleteWarehouse
  <2>2. ASSUME NEW o \in Orders
        PROVE  /\ order'[o].usage = order[o].usage
               /\ order'[o].user = order[o].user
               /\ order'[o].status = order[o].status
    <3>1. ASSUME NEW w \in Warehouses, DeleteWarehouse(w)
          PROVE  order'[o] = [order[o] EXCEPT !.place =
                   [p \in Products |-> IF order[o].place[p] = w THEN None ELSE order[o].place[p]]]
      BY <3>1 DEF DeleteWarehouse
    <3> QED
      BY <1>1, <1>2, <3>1 DEF InventoryNext, RecordMovement, SetWarehouseActive, OrderRow
  <2> QED
    BY <2>1, <2>2, DiscountFrame
<1>3. CASE OrderNext
  <2>1. ASSUME NEW o \in Orders, AdminStart(o) \/ \E s \in Sellers : SellerStart(o, s)
        PROVE  DiscountAgree'
    <3>1. usedCount' = usedCount
      BY <2>1 DEF AdminStart, SellerStart
    <3>2. \A x \in Orders :
              /\ order'[x].usage = order[x].usage
              /\ order'[x].user = order[x].user
              /\ order'[x].status = "none" => order[x].status = "none"
      <4>1. PICK status \in {"processing", order[o].status} :
              order' = [order EXCEPT ![o] = [order[o] EXCEPT !.status = status]]
        BY <2>1 DEF AdminStart, SellerStart
      <4>2. order[o].status # "none"
        BY <2>1 DEF AdminStart, SellerStart, PaymentsAgree, PaidExactlyOnce
      <4>3. /\ order'[o].usage = order[o].usage
            /\ order'[o].user = order[o].user
            /\ order'[o].status # "none"
        BY <1>1, <4>1, <4>2 DEF OrderRow, TypeOK
      <4>4. \A x \in Orders \ {o} : order'[x] = order[x]
        BY <4>1 DEF TypeOK
      <4> QED
        BY <4>3, <4>4
    <3> QED
      BY <3>1, <3>2, DiscountFrame
  <2> QED
    BY <1>3, <2>1, DiscountCancel DEF OrderNext
<1>4. CASE PaymentNext
  <2>1. usedCount' = usedCount
    BY <1>4 DEF PaymentNext, CreatePayment, MarkSuccess, MarkFailed, CancelPayment
  <2>2. \A x \in Orders :
            /\ order'[x].usage = order[x].usage
            /\ order'[x].user = order[x].user
            /\ order'[x].status = "none" => order[x].status = "none"
    <3>1. ASSUME NEW m \in Payments, MarkSuccess(m), NEW x \in Orders
          PROVE  /\ order'[x].usage = order[x].usage
                 /\ order'[x].user = order[x].user
                 /\ order'[x].status = "none" => order[x].status = "none"
      <4>1. PICK o \in Orders : o = payment[m].order
        BY <3>1 DEF MarkSuccess, PaymentsAgree, OpenAttemptsArePayable
      <4> QED
        BY <1>1, <3>1, <4>1 DEF MarkSuccess, OrderRow, TypeOK
    <3> QED
      BY <1>4, <3>1 DEF PaymentNext, CreatePayment, MarkFailed, CancelPayment
  <2> QED
    BY <2>1, <2>2, DiscountFrame
<1> QED
  BY <1>2, <1>3, <1>4, DiscountCheckout DEF Next

\* For every number of users and orders and all limits, used_count is the
\* number of recorded uses and neither limit is exceeded.
THEOREM DiscountIsLimited == Spec => []DiscountWithinLimits
<1>1. Init => DiscountAgree
  BY DiscountInit
<1>2. IInv /\ DiscountAgree /\ [Next]_vars => DiscountAgree'
  <2> SUFFICES ASSUME IInv, DiscountAgree, [Next]_vars
               PROVE  DiscountAgree'
    OBVIOUS
  <2>1. CASE Next
    BY <2>1, DiscountNext DEF IInv
  <2>2. CASE UNCHANGED vars
    <3>1. usedCount' = usedCount /\ order' = order
      BY <2>2 DEF vars
    <3> QED
      BY <3>1, DiscountFrame DEF IInv
  <2> QED
    BY <2>1, <2>2
<1>3. DiscountAgree => DiscountWithinLimits
  BY DEF DiscountAgree
<1> QED
  BY <1>1, <1>2, <1>3, Inductive, PTL DEF Spec

----------------------------------------------------------------------------
(* What the rows add up to, and the contract of the shop. *)

\* The claims of the orders on a row are numbers of units, and the sets of orders
\* that claim are finite.
LEMMA ClaimsType ==
    ASSUME TypeOK, NEW p \in Products, NEW w \in Warehouses
    PROVE  /\ \A o \in Orders : Claims(p, w)[o] = Claim(o, p, w) /\ Claims(p, w)[o] \in Nat
           /\ IsFiniteSet(OpenOrders) /\ IsFiniteSet(PaidOrders)
           /\ OpenOrders \subseteq Orders /\ PaidOrders \subseteq Orders
<1>1. \A o \in Orders : Claim(o, p, w) \in Nat
  BY ClaimType
<1>2. OpenOrders \subseteq Orders /\ PaidOrders \subseteq Orders
  BY DEF OpenOrders, PaidOrders
<1>3. IsFiniteSet(OpenOrders) /\ IsFiniteSet(PaidOrders)
  BY <1>2, CommerceAssumption, FS_Subset
<1> QED
  BY <1>1, <1>2, <1>3 DEF Claims

\* What open and paid orders account for is a number of units.
LEMMA ClaimedType ==
    ASSUME TypeOK, NEW p \in Products, NEW w \in Warehouses
    PROVE  Claimed(OpenOrders, p, w) \in Nat /\ Claimed(PaidOrders, p, w) \in Nat
<1>1. \A o \in OpenOrders \cup PaidOrders : Claims(p, w)[o] \in Nat
  BY ClaimsType
<1>2. IsFiniteSet(OpenOrders) /\ IsFiniteSet(PaidOrders)
  BY ClaimsType
<1> QED
  BY <1>1, <1>2, SumNat DEF Claimed

\* Steps that leave the items of all orders alone, and which orders are open and paid.
LEMMA ClaimedFrame ==
    ASSUME TypeOK, NEW p \in Products, NEW w \in Warehouses,
           \A o \in Orders :
               /\ order'[o].place = order[o].place /\ order'[o].quantity = order[o].quantity
               /\ order'[o].payment_status = order[o].payment_status
               /\ order'[o].status = "pending_payment" <=> order[o].status = "pending_payment"
    PROVE  /\ Claimed(OpenOrders, p, w)' = Claimed(OpenOrders, p, w)
           /\ Claimed(PaidOrders, p, w)' = Claimed(PaidOrders, p, w)
<1>1. Claims(p, w)' = Claims(p, w)
  BY DEF Claims, Claim
<1>2. OpenOrders' = OpenOrders /\ PaidOrders' = PaidOrders
  BY DEF OpenOrders, PaidOrders
<1> QED
  BY <1>1, <1>2 DEF Claimed

\* Starting to prepare an order and the attempts that do not pay one are such steps,
\* and so are all stock movements and the deactivation of a warehouse.
LEMMA ClaimedStay ==
    ASSUME TypeOK, PaymentsAgree, NEW p \in Products, NEW w \in Warehouses,
           \/ order' = order
           \/ \E o \in Orders : AdminStart(o) \/ \E s \in Sellers : SellerStart(o, s)
    PROVE  /\ Claimed(OpenOrders, p, w)' = Claimed(OpenOrders, p, w)
           /\ Claimed(PaidOrders, p, w)' = Claimed(PaidOrders, p, w)
<1>1. ASSUME NEW o \in Orders, AdminStart(o) \/ \E s \in Sellers : SellerStart(o, s)
      PROVE  \A x \in Orders :
               /\ order'[x].place = order[x].place /\ order'[x].quantity = order[x].quantity
               /\ order'[x].payment_status = order[x].payment_status
               /\ order'[x].status = "pending_payment" <=> order[x].status = "pending_payment"
  <2>1. order[o] \in OrderRow /\ order \in [Orders -> OrderRow]
    BY DEF TypeOK
  <2>2. order[o].payment_status = "paid" => order[o].status # "pending_payment"
    BY DEF PaymentsAgree, PaidExactlyOnce
  <2> QED
    BY <1>1, <2>1, <2>2 DEF AdminStart, SellerStart, OrderRow
<1> QED
  BY <1>1, ClaimedFrame

\* A checkout adds the claim of the new order to those of the open ones.
LEMMA ClaimedCheckout ==
    ASSUME TypeOK, PaymentsAgree, NEW p \in Products, NEW w \in Warehouses,
           NEW o \in Orders, NEW u \in Users, NEW cart \in Carts,
           NEW place \in [Products -> Warehouses \cup {None}],
           NEW total \in Totals, NEW code \in BOOLEAN,
           Checkout(o, u, cart, place, total, code)
    PROVE  /\ Claimed(OpenOrders, p, w)' = Claimed(OpenOrders, p, w)
                                             + (IF place[p] = w THEN cart[p] ELSE 0)
           /\ Claimed(PaidOrders, p, w)' = Claimed(PaidOrders, p, w)
<1>1. /\ order'[o].place = place /\ order'[o].quantity = cart
      /\ order'[o].status = "pending_payment" /\ order'[o].payment_status = "unpaid"
      /\ \A x \in Orders \ {o} : order'[x] = order[x]
  BY DEF Checkout, TypeOK
<1>2. o \notin OpenOrders /\ o \notin PaidOrders
  BY DEF Checkout, OpenOrders, PaidOrders, PaymentsAgree, PaidExactlyOnce
<1>3. OpenOrders' = OpenOrders \cup {o} /\ PaidOrders' = PaidOrders
  BY <1>1, <1>2 DEF OpenOrders, PaidOrders
<1>4. /\ \A x \in OpenOrders \cup PaidOrders :
            Claims(p, w)[x] \in Int /\ Claims(p, w)'[x] = Claims(p, w)[x]
      /\ Claims(p, w)'[o] = (IF place[p] = w THEN cart[p] ELSE 0)
      /\ Claims(p, w)'[o] \in Int
  <2>1. cart[p] \in Int
    BY CommerceAssumption DEF Carts
  <2>2. \A x \in OpenOrders \cup PaidOrders : x \in Orders \ {o} /\ Claims(p, w)[x] \in Int
    BY <1>2, ClaimsType
  <2> QED
    BY <1>1, <2>1, <2>2 DEF Claims, Claim
<1>5. IsFiniteSet(OpenOrders) /\ IsFiniteSet(PaidOrders)
  BY ClaimsType
<1>6. SumFunctionOnSet(Claims(p, w)', OpenOrders \cup {o})
        = SumFunctionOnSet(Claims(p, w), OpenOrders) + Claims(p, w)'[o]
  BY <1>2, <1>4, <1>5, SumEnter
<1>7. SumFunctionOnSet(Claims(p, w)', PaidOrders) = SumFunctionOnSet(Claims(p, w), PaidOrders)
  BY <1>4, <1>5, SumSame
<1> QED
  BY <1>3, <1>4, <1>6, <1>7 DEF Claimed

\* A cancellation takes the claim of its order out of those of the open ones.
LEMMA ClaimedCancel ==
    ASSUME TypeOK, NEW p \in Products, NEW w \in Warehouses, NEW o \in Orders, CancelOrder(o)
    PROVE  /\ Claimed(OpenOrders, p, w)' = Claimed(OpenOrders, p, w) - Claim(o, p, w)
           /\ Claimed(PaidOrders, p, w)' = Claimed(PaidOrders, p, w)
<1>1. /\ \A x \in Orders : order'[x].place = order[x].place
                           /\ order'[x].quantity = order[x].quantity
                           /\ order'[x].payment_status = order[x].payment_status
      /\ order'[o].status = "cancelled"
      /\ \A x \in Orders \ {o} : order'[x].status = order[x].status
  <2>1. order \in [Orders -> OrderRow]
    BY DEF TypeOK
  <2> QED
    BY <2>1 DEF CancelOrder, OrderRow
<1>2. o \in OpenOrders
  BY DEF CancelOrder, AwaitingPayment, OpenOrders
<1>3. /\ OpenOrders' = OpenOrders \ {o} /\ PaidOrders' = PaidOrders
      /\ Claims(p, w)' = Claims(p, w)
  BY <1>1 DEF OpenOrders, PaidOrders, Claims, Claim
<1>4. IsFiniteSet(OpenOrders) /\ \A x \in OpenOrders : Claims(p, w)[x] \in Int
  BY ClaimsType
<1>5. SumFunctionOnSet(Claims(p, w), OpenOrders \ {o})
        = SumFunctionOnSet(Claims(p, w), OpenOrders) - Claims(p, w)[o]
  BY <1>2, <1>4, SumRemove
<1> QED
  BY <1>3, <1>5, ClaimsType DEF Claimed

\* What a payment does to the row of its order, and to no other.
LEMMA OrderIsPaid ==
    ASSUME TypeOK, NEW o \in Orders,
           order' = [order EXCEPT ![o].status = "paid", ![o].payment_status = "paid"]
    PROVE  /\ \A x \in Orders : order'[x].place = order[x].place
                                /\ order'[x].quantity = order[x].quantity
           /\ order'[o].status = "paid" /\ order'[o].payment_status = "paid"
           /\ \A x \in Orders \ {o} : order'[x] = order[x]
<1>1. order \in [Orders -> OrderRow]
  BY DEF TypeOK
<1> QED
  BY <1>1 DEF OrderRow

\* A payment moves the claim of its order from the open orders to the paid ones.
LEMMA ClaimedMarkSuccess ==
    ASSUME TypeOK, NEW p \in Products, NEW w \in Warehouses, NEW m \in Payments, MarkSuccess(m),
           NEW o \in Orders, o = payment[m].order
    PROVE  /\ Claimed(OpenOrders, p, w)' = Claimed(OpenOrders, p, w) - Claim(o, p, w)
           /\ Claimed(PaidOrders, p, w)' = Claimed(PaidOrders, p, w) + Claim(o, p, w)
<1>1. /\ \A x \in Orders : order'[x].place = order[x].place
                           /\ order'[x].quantity = order[x].quantity
      /\ order'[o].status = "paid" /\ order'[o].payment_status = "paid"
      /\ \A x \in Orders \ {o} : order'[x] = order[x]
  BY OrderIsPaid DEF MarkSuccess
<1>2. o \in OpenOrders /\ o \notin PaidOrders
  BY DEF MarkSuccess, AwaitingPayment, OpenOrders, PaidOrders
<1>3. /\ OpenOrders' = OpenOrders \ {o} /\ PaidOrders' = PaidOrders \cup {o}
      /\ Claims(p, w)' = Claims(p, w)
  BY <1>1 DEF OpenOrders, PaidOrders, Claims, Claim
<1>4. /\ IsFiniteSet(OpenOrders) /\ \A x \in OpenOrders : Claims(p, w)[x] \in Int
      /\ IsFiniteSet(PaidOrders) /\ \A x \in PaidOrders \cup {o} : Claims(p, w)[x] \in Int
  BY ClaimsType
<1>5. SumFunctionOnSet(Claims(p, w), OpenOrders \ {o})
        = SumFunctionOnSet(Claims(p, w), OpenOrders) - Claims(p, w)[o]
  BY <1>2, <1>4, SumRemove
<1>6. SumFunctionOnSet(Claims(p, w), PaidOrders \cup {o})
        = SumFunctionOnSet(Claims(p, w), PaidOrders) + Claims(p, w)[o]
  BY <1>2, <1>4, SumAdd
<1> QED
  BY <1>3, <1>5, <1>6, ClaimsType DEF Claimed

\* Nobody claims anything from a warehouse that is deleted; the claims on the others stay.
LEMMA ClaimedDelete ==
    ASSUME TypeOK, NEW p \in Products, NEW w \in Warehouses, NEW gone \in Warehouses,
           DeleteWarehouse(gone)
    PROVE  /\ Claimed(OpenOrders, p, w)' = IF w = gone THEN 0 ELSE Claimed(OpenOrders, p, w)
           /\ Claimed(PaidOrders, p, w)' = IF w = gone THEN 0 ELSE Claimed(PaidOrders, p, w)
<1>1. \A x \in Orders :
          /\ order'[x].quantity = order[x].quantity
          /\ order'[x].status = order[x].status
          /\ order'[x].payment_status = order[x].payment_status
          /\ order'[x].place[p] = IF order[x].place[p] = gone THEN None ELSE order[x].place[p]
  <2>1. \A x \in Orders : order[x] \in OrderRow
    BY DEF TypeOK
  <2> QED
    BY <2>1 DEF DeleteWarehouse, OrderRow
<1>2. OpenOrders' = OpenOrders /\ PaidOrders' = PaidOrders
  BY <1>1 DEF OpenOrders, PaidOrders
<1>3. None # w /\ IsFiniteSet(OpenOrders) /\ IsFiniteSet(PaidOrders)
  BY ClaimsType, CommerceAssumption
<1>4. CASE w = gone
  <2>1. \A x \in Orders : Claims(p, w)'[x] = 0
    BY <1>1, <1>3, <1>4 DEF Claims, Claim
  <2>2. \A x \in OpenOrders \cup PaidOrders : Claims(p, w)'[x] = 0
    BY <2>1, ClaimsType
  <2> QED
    BY <1>2, <1>3, <1>4, <2>2, SumZero DEF Claimed
<1>5. CASE w # gone
  <2>1. Claims(p, w)' = Claims(p, w)
    BY <1>1, <1>3, <1>5 DEF Claims, Claim
  <2> QED
    BY <1>2, <1>5, <2>1 DEF Claimed
<1> QED
  BY <1>4, <1>5

----------------------------------------------------------------------------
(* Sale movements are the items of the paid orders. *)

SalesAreItems ==
    \A p \in Products, w \in Warehouses :
        ledger[p][w].sale = - Claimed(PaidOrders, p, w)

\* No movement but that of a payment is a sale, a payment writes one for every unit of
\* its order, and nothing takes an order out of the paid ones.
LEMMA SalesNext ==
    ASSUME TypeOK, PaymentsAgree, SalesAreItems, Next
    PROVE  SalesAreItems'
<1> SUFFICES ASSUME NEW p \in Products, NEW w \in Warehouses
             PROVE  ledger'[p][w].sale = - Claimed(PaidOrders, p, w)'
  BY DEF SalesAreItems
<1>0. /\ ledger[p][w].sale = - Claimed(PaidOrders, p, w)
      /\ ledger \in [Products -> [Warehouses -> [other : Int, sale : Int]]]
      /\ Claimed(PaidOrders, p, w) \in Nat
  BY ClaimedType DEF SalesAreItems, TypeOK
<1>1. CASE InventoryNext
  <2>1. ASSUME NEW pp \in Products, NEW ww \in Warehouses, NEW d, RecordMovement(pp, ww, d)
        PROVE  order' = order /\ ledger'[p][w].sale = ledger[p][w].sale
    BY <1>0, <2>1 DEF RecordMovement
  <2>2. ASSUME NEW ww \in Warehouses, DeleteWarehouse(ww)
        PROVE  ledger'[p][w].sale = - Claimed(PaidOrders, p, w)'
    <3>1. ledger'[p][w].sale = IF w = ww THEN 0 ELSE ledger[p][w].sale
      BY <1>0, <2>2 DEF DeleteWarehouse
    <3> QED
      BY <1>0, <2>2, <3>1, ClaimedDelete
  <2>3. ASSUME NEW ww, NEW status, SetWarehouseActive(ww, status)
        PROVE  order' = order /\ ledger' = ledger
    BY <2>3 DEF SetWarehouseActive
  <2> QED
    BY <1>0, <1>1, <2>1, <2>2, <2>3, ClaimedStay DEF InventoryNext
<1>2. CASE CheckoutNext
  <2>1. PICK o \in Orders, u \in Users, cart \in Carts, total \in Totals, code \in BOOLEAN,
            place \in [Products -> Warehouses \cup {None}] :
              Checkout(o, u, cart, place, total, code)
    BY <1>2 DEF CheckoutNext
  <2>2. ledger' = ledger
    BY <2>1 DEF Checkout
  <2>3. Claimed(PaidOrders, p, w)' = Claimed(PaidOrders, p, w)
    BY <2>1, ClaimedCheckout
  <2> QED
    BY <1>0, <2>2, <2>3
<1>3. CASE OrderNext
  <2>1. ledger' = ledger
    BY <1>3 DEF OrderNext, CancelOrder, AdminStart, SellerStart
  <2>2. Claimed(PaidOrders, p, w)' = Claimed(PaidOrders, p, w)
    BY <1>3, ClaimedCancel, ClaimedStay DEF OrderNext
  <2> QED
    BY <1>0, <2>1, <2>2
<1>4. CASE PaymentNext
  <2>1. ASSUME NEW m \in Payments, MarkSuccess(m)
        PROVE  ledger'[p][w].sale = - Claimed(PaidOrders, p, w)'
    <3>1. PICK o \in Orders : o = payment[m].order
      BY <2>1 DEF MarkSuccess, PaymentsAgree, OpenAttemptsArePayable
    <3>2. ledger'[p][w].sale = ledger[p][w].sale - Claim(o, p, w)
      BY <1>0, <2>1, <3>1 DEF MarkSuccess
    <3>3. Claimed(PaidOrders, p, w)' = Claimed(PaidOrders, p, w) + Claim(o, p, w)
      BY <2>1, <3>1, ClaimedMarkSuccess
    <3>4. Claim(o, p, w) \in Nat
      BY ClaimType
    <3> QED
      BY <1>0, <3>2, <3>3, <3>4
  <2>2. ASSUME NEW m \in Payments,
               \/ \E o \in Orders, provider \in Providers : CreatePayment(m, o, provider)
               \/ MarkFailed(m) \/ CancelPayment(m)
        PROVE  order' = order /\ ledger' = ledger
    BY <2>2 DEF CreatePayment, MarkFailed, CancelPayment
  <2> QED
    BY <1>0, <1>4, <2>1, <2>2, ClaimedStay DEF PaymentNext
<1> QED
  BY <1>1, <1>2, <1>3, <1>4 DEF Next

----------------------------------------------------------------------------
(* Movements add up to quantities. *)

QuantitiesAreMovements ==
    \A p \in Products, w \in Warehouses :
        stock[p][w].quantity = ledger[p][w].other + ledger[p][w].sale

\* Every operation that changes the quantity of a row records as much.
LEMMA QuantitiesNext ==
    ASSUME TypeOK, PaymentsAgree, QuantitiesAreMovements, Next
    PROVE  QuantitiesAreMovements'
<1> SUFFICES ASSUME NEW p \in Products, NEW w \in Warehouses
             PROVE  stock'[p][w].quantity = ledger'[p][w].other + ledger'[p][w].sale
  BY DEF QuantitiesAreMovements
<1>0. /\ stock[p][w].quantity = ledger[p][w].other + ledger[p][w].sale
      /\ stock[p][w] \in Row /\ ledger[p][w] \in [other : Int, sale : Int]
      /\ stock \in [Products -> [Warehouses -> Row]]
      /\ ledger \in [Products -> [Warehouses -> [other : Int, sale : Int]]]
  BY DEF QuantitiesAreMovements, TypeOK
<1>1. CASE InventoryNext
  <2>1. ASSUME NEW pp \in Products, NEW ww \in Warehouses,
               NEW d \in (-MaxStock)..MaxStock, RecordMovement(pp, ww, d)
        PROVE  stock'[p][w].quantity = ledger'[p][w].other + ledger'[p][w].sale
    <3>1. CASE pp = p /\ ww = w
      <4>1. stock'[p][w] = Move(stock[p][w], d)
        BY <1>0, <2>1, <3>1 DEF RecordMovement
      <4>2. ledger'[p][w] = [ledger[p][w] EXCEPT !.other = ledger[p][w].other + d]
        BY <1>0, <2>1, <3>1 DEF RecordMovement
      <4> QED
        BY <1>0, <4>1, <4>2, MaxStockAssumption DEF Move, Row
    <3>2. CASE ~ (pp = p /\ ww = w)
      BY <1>0, <2>1, <3>2 DEF RecordMovement
    <3> QED
      BY <3>1, <3>2
  <2>2. ASSUME NEW ww \in Warehouses, DeleteWarehouse(ww)
        PROVE  stock'[p][w].quantity = ledger'[p][w].other + ledger'[p][w].sale
    BY <1>0, <2>2 DEF DeleteWarehouse, EmptyRow
  <2>3. ASSUME NEW ww, NEW status, SetWarehouseActive(ww, status)
        PROVE  stock' = stock /\ ledger' = ledger
    BY <2>3 DEF SetWarehouseActive
  <2> QED
    BY <1>0, <1>1, <2>1, <2>2, <2>3 DEF InventoryNext
<1>2. CASE CheckoutNext
  <2>1. PICK o \in Orders, u \in Users, cart \in Carts, total \in Totals, code \in BOOLEAN,
            place \in [Products -> Warehouses \cup {None}] :
              Checkout(o, u, cart, place, total, code)
    BY <1>2 DEF CheckoutNext
  <2>2. /\ stock'[p][w] = IF cart[p] > 0 /\ place[p] = w
                          THEN Reserve(stock[p][w], cart[p]) ELSE stock[p][w]
        /\ ledger' = ledger
    BY <2>1 DEF Checkout
  <2> QED
    BY <1>0, <2>2 DEF Reserve, Row
<1>3. CASE OrderNext
  <2>1. ASSUME NEW o \in Orders, CancelOrder(o)
        PROVE  /\ stock'[p][w] = IF Claim(o, p, w) > 0
                                 THEN Release(stock[p][w], Claim(o, p, w)) ELSE stock[p][w]
               /\ ledger' = ledger
    BY <2>1 DEF CancelOrder
  <2>2. ASSUME NEW o \in Orders, AdminStart(o) \/ \E s \in Sellers : SellerStart(o, s)
        PROVE  stock' = stock /\ ledger' = ledger
    BY <2>2 DEF AdminStart, SellerStart
  <2>3. \A q : Release(stock[p][w], q).quantity = stock[p][w].quantity
    BY <1>0 DEF Release, Row
  <2> QED
    BY <1>0, <1>3, <2>1, <2>2, <2>3 DEF OrderNext
<1>4. CASE PaymentNext
  <2>1. ASSUME NEW m \in Payments, MarkSuccess(m)
        PROVE  stock'[p][w].quantity = ledger'[p][w].other + ledger'[p][w].sale
    <3>1. PICK o \in Orders : o = payment[m].order
      BY <2>1 DEF MarkSuccess, PaymentsAgree, OpenAttemptsArePayable
    <3>2. Claim(o, p, w) \in Nat
      BY ClaimType
    <3>3. stock'[p][w] = IF Claim(o, p, w) > 0
                         THEN Sell(stock[p][w], Claim(o, p, w)) ELSE stock[p][w]
      BY <2>1, <3>1 DEF MarkSuccess
    <3>4. ledger'[p][w] = [ledger[p][w] EXCEPT !.sale = ledger[p][w].sale - Claim(o, p, w)]
      BY <2>1, <3>1 DEF MarkSuccess
    <3>5. Sell(stock[p][w], Claim(o, p, w)).quantity = stock[p][w].quantity - Claim(o, p, w)
      BY <1>0, <3>2, MaxStockAssumption DEF Sell, Release, Move, Row
    <3>6. stock'[p][w].quantity = stock[p][w].quantity - Claim(o, p, w)
      <4>1. stock[p][w].quantity \in Int
        BY <1>0, MaxStockAssumption DEF Row
      <4> QED
        BY <3>2, <3>3, <3>5, <4>1
    <3>7. /\ ledger'[p][w].other = ledger[p][w].other
          /\ ledger'[p][w].sale = ledger[p][w].sale - Claim(o, p, w)
      BY <1>0, <3>4
    <3> QED
      BY <1>0, <3>2, <3>6, <3>7
  <2>2. ASSUME NEW m \in Payments,
               \/ \E o \in Orders, provider \in Providers : CreatePayment(m, o, provider)
               \/ MarkFailed(m) \/ CancelPayment(m)
        PROVE  stock' = stock /\ ledger' = ledger
    BY <2>2 DEF CreatePayment, MarkFailed, CancelPayment
  <2> QED
    BY <1>0, <1>4, <2>1, <2>2 DEF PaymentNext
<1> QED
  BY <1>1, <1>2, <1>3, <1>4 DEF Next

----------------------------------------------------------------------------
(* Reservations are the items of the open orders. *)

ReservedAreItems ==
    \A p \in Products, w \in Warehouses :
        stock[p][w].reserved = Claimed(OpenOrders, p, w)

\* Every operation reserves or releases what the open orders gain or lose.
LEMMA ReservedNext ==
    ASSUME TypeOK, PaymentsAgree, ReservedAreItems, Next
    PROVE  ReservedAreItems'
<1> SUFFICES ASSUME NEW p \in Products, NEW w \in Warehouses
             PROVE  stock'[p][w].reserved = Claimed(OpenOrders, p, w)'
  BY DEF ReservedAreItems
<1>0. /\ stock[p][w].reserved = Claimed(OpenOrders, p, w)
      /\ stock[p][w] \in Row /\ stock[p][w].reserved \in Int
      /\ stock \in [Products -> [Warehouses -> Row]]
  BY MaxStockAssumption DEF ReservedAreItems, TypeOK, Row
<1>a. ASSUME NEW q \in Int
      PROVE  /\ Reserve(stock[p][w], q).reserved = stock[p][w].reserved + q
             /\ Release(stock[p][w], q).reserved = stock[p][w].reserved - q
             /\ Sell(stock[p][w], q).reserved = stock[p][w].reserved - q
             /\ Move(stock[p][w], q).reserved = stock[p][w].reserved
  BY <1>0 DEF Reserve, Release, Sell, Move, Row
<1>1. CASE InventoryNext
  <2>1. ASSUME NEW pp \in Products, NEW ww \in Warehouses,
               NEW d \in (-MaxStock)..MaxStock, RecordMovement(pp, ww, d)
        PROVE  order' = order /\ stock'[p][w].reserved = stock[p][w].reserved
    <3>1. d \in Int
      BY MaxStockAssumption
    <3>2. stock'[p][w] = IF pp = p /\ ww = w THEN Move(stock[p][w], d) ELSE stock[p][w]
      BY <1>0, <2>1 DEF RecordMovement
    <3> QED
      BY <1>a, <2>1, <3>1, <3>2 DEF RecordMovement
  <2>2. ASSUME NEW ww \in Warehouses, DeleteWarehouse(ww)
        PROVE  stock'[p][w].reserved = Claimed(OpenOrders, p, w)'
    <3>1. stock'[p][w] = IF w = ww THEN EmptyRow ELSE stock[p][w]
      BY <1>0, <2>2 DEF DeleteWarehouse
    <3> QED
      BY <1>0, <2>2, <3>1, ClaimedDelete DEF EmptyRow
  <2>3. ASSUME NEW ww, NEW status, SetWarehouseActive(ww, status)
        PROVE  order' = order /\ stock' = stock
    BY <2>3 DEF SetWarehouseActive
  <2> QED
    BY <1>0, <1>1, <2>1, <2>2, <2>3, ClaimedStay DEF InventoryNext
<1>2. CASE CheckoutNext
  <2>1. PICK o \in Orders, u \in Users, cart \in Carts, total \in Totals, code \in BOOLEAN,
            place \in [Products -> Warehouses \cup {None}] :
              Checkout(o, u, cart, place, total, code)
    BY <1>2 DEF CheckoutNext
  <2>2. cart[p] \in Nat
    BY CommerceAssumption DEF Carts
  <2>3. stock'[p][w] = IF cart[p] > 0 /\ place[p] = w
                       THEN Reserve(stock[p][w], cart[p]) ELSE stock[p][w]
    BY <2>1 DEF Checkout
  <2>4. stock'[p][w].reserved = stock[p][w].reserved + (IF place[p] = w THEN cart[p] ELSE 0)
    BY <1>0, <1>a, <2>2, <2>3
  <2>5. Claimed(OpenOrders, p, w)' = Claimed(OpenOrders, p, w)
                                       + (IF place[p] = w THEN cart[p] ELSE 0)
    BY <2>1, ClaimedCheckout
  <2> QED
    BY <1>0, <2>4, <2>5
<1>3. CASE OrderNext
  <2>1. ASSUME NEW o \in Orders, CancelOrder(o)
        PROVE  stock'[p][w].reserved = Claimed(OpenOrders, p, w)'
    <3>1. Claim(o, p, w) \in Nat
      BY ClaimType
    <3>2. stock'[p][w] = IF Claim(o, p, w) > 0
                         THEN Release(stock[p][w], Claim(o, p, w)) ELSE stock[p][w]
      BY <2>1 DEF CancelOrder
    <3>3. stock'[p][w].reserved = stock[p][w].reserved - Claim(o, p, w)
      BY <1>0, <1>a, <3>1, <3>2
    <3>4. Claimed(OpenOrders, p, w)' = Claimed(OpenOrders, p, w) - Claim(o, p, w)
      BY <2>1, ClaimedCancel
    <3> QED
      BY <1>0, <3>3, <3>4
  <2>2. ASSUME NEW o \in Orders, AdminStart(o) \/ \E s \in Sellers : SellerStart(o, s)
        PROVE  stock' = stock
    BY <2>2 DEF AdminStart, SellerStart
  <2> QED
    BY <1>0, <1>3, <2>1, <2>2, ClaimedStay DEF OrderNext
<1>4. CASE PaymentNext
  <2>1. ASSUME NEW m \in Payments, MarkSuccess(m)
        PROVE  stock'[p][w].reserved = Claimed(OpenOrders, p, w)'
    <3>1. PICK o \in Orders : o = payment[m].order
      BY <2>1 DEF MarkSuccess, PaymentsAgree, OpenAttemptsArePayable
    <3>2. Claim(o, p, w) \in Nat
      BY ClaimType
    <3>3. stock'[p][w] = IF Claim(o, p, w) > 0
                         THEN Sell(stock[p][w], Claim(o, p, w)) ELSE stock[p][w]
      BY <2>1, <3>1 DEF MarkSuccess
    <3>4. stock'[p][w].reserved = stock[p][w].reserved - Claim(o, p, w)
      BY <1>0, <1>a, <3>2, <3>3
    <3>5. Claimed(OpenOrders, p, w)' = Claimed(OpenOrders, p, w) - Claim(o, p, w)
      BY <2>1, <3>1, ClaimedMarkSuccess
    <3> QED
      BY <1>0, <3>4, <3>5
  <2>2. ASSUME NEW m \in Payments,
               \/ \E o \in Orders, provider \in Providers : CreatePayment(m, o, provider)
               \/ MarkFailed(m) \/ CancelPayment(m)
        PROVE  order' = order /\ stock' = stock
    BY <2>2 DEF CreatePayment, MarkFailed, CancelPayment
  <2> QED
    BY <1>0, <1>4, <2>1, <2>2, ClaimedStay DEF PaymentNext
<1> QED
  BY <1>1, <1>2, <1>3, <1>4 DEF Next

----------------------------------------------------------------------------
(* Every counter of a Stock row is explained. *)

\* The inductive invariant of the counters: each is explained on its own, and the
\* payments agree with the orders, so that a payment moves its order from the open ones
\* to the paid ones, once.
StockInv == SalesAreItems /\ QuantitiesAreMovements /\ ReservedAreItems

\* In the empty shop all counters and all claims are zero.
LEMMA StockInit ==
    ASSUME Init
    PROVE  StockInv
<1> SUFFICES ASSUME NEW p \in Products, NEW w \in Warehouses
             PROVE  /\ ledger[p][w].sale = - Claimed(PaidOrders, p, w)
                    /\ stock[p][w].quantity = ledger[p][w].other + ledger[p][w].sale
                    /\ stock[p][w].reserved = Claimed(OpenOrders, p, w)
  BY DEF StockInv, SalesAreItems, QuantitiesAreMovements, ReservedAreItems
<1>1. OpenOrders = {} /\ PaidOrders = {}
  BY DEF Init, NoOrder, OpenOrders, PaidOrders
<1>2. Claimed(OpenOrders, p, w) = 0 /\ Claimed(PaidOrders, p, w) = 0
  BY <1>1, SumEmpty DEF Claimed
<1> QED
  BY <1>2 DEF Init, EmptyRow

\* StockInv is inductive beside IInv.
LEMMA StockInductive == Spec => []StockInv
<1>1. Init => StockInv
  BY StockInit
<1>2. IInv /\ StockInv /\ [Next]_vars => StockInv'
  <2> SUFFICES ASSUME IInv, StockInv, [Next]_vars
               PROVE  StockInv'
    OBVIOUS
  <2>1. CASE Next
    BY <2>1, SalesNext, QuantitiesNext, ReservedNext DEF IInv, StockInv
  <2>2. CASE UNCHANGED vars
    <3>1. stock' = stock /\ ledger' = ledger /\ order' = order
      BY <2>2 DEF vars
    <3>2. \A p \in Products, w \in Warehouses :
            /\ Claimed(OpenOrders, p, w)' = Claimed(OpenOrders, p, w)
            /\ Claimed(PaidOrders, p, w)' = Claimed(PaidOrders, p, w)
      BY <3>1, ClaimedFrame DEF IInv
    <3> QED
      BY <3>1, <3>2 DEF StockInv, SalesAreItems, QuantitiesAreMovements, ReservedAreItems
  <2> QED
    BY <2>1, <2>2
<1> QED
  BY <1>1, <1>2, Inductive, PTL DEF Spec

\* For every number of orders, products and warehouses, a row has exactly the units
\* reserved that its open orders hold: none is leaked, released twice or eaten into.
THEOREM ReservationsAreItems == Spec => []ReservationsMatchOrders
<1>1. StockInv /\ RowsConsistent => ReservationsMatchOrders
  BY DEF StockInv, ReservedAreItems, RowsConsistent, ReservationsMatchOrders
<1> QED
  BY <1>1, StockInductive, NoUnitPromisedTwice, PTL

\* The movements of a row always add up to its quantity, and its sale movements are the
\* items of the paid orders, each sold once.
THEOREM MovementsAreComplete == Spec => []MovementsExplainStock
<1>1. StockInv => MovementsExplainStock
  BY DEF StockInv, SalesAreItems, QuantitiesAreMovements, MovementsExplainStock
<1> QED
  BY <1>1, StockInductive, PTL

----------------------------------------------------------------------------
(* The shop implements StoreContract. *)

\* What the contract's operators say of the shop's tables.
OnHand == [p \in Products |-> [w \in Warehouses |-> stock[p][w].quantity]]
Phase == [o \in Orders |-> PhaseOf(order[o].status)]
Basket == [o \in Orders |-> order[o].quantity]
Place == [o \in Orders |-> order[o].place]
Payer(S) == IF S = {} THEN None ELSE CHOOSE m \in S : TRUE
PaidBy == [o \in Orders |-> Payer(SuccessOf(o))]

\* The payer is the successful attempt there is, if any.
LEMMA PayerIs ==
    /\ Payer({}) = None
    /\ \A m : Payer({m}) = m
    /\ \A S : S # {} => Payer(S) \in S
BY DEF Payer

\* The units the contract has promised are those the open orders claim.
LEMMA PromisedAreClaimed ==
    ASSUME TypeOK, NEW p \in Products, NEW w \in Warehouses
    PROVE  Contract!Promised(p, w) = Claimed(OpenOrders, p, w)
<1>1. \A o \in Orders : PhaseOf(order[o].status) = "open" <=> order[o].status = "pending_payment"
  BY DEF PhaseOf, TypeOK, OrderRow, OrderStatus
<1>2. [o \in Orders |-> Contract!Units(o, p, w)] = Claims(p, w)
  BY DEF Contract!Units, Claims, Claim
<1>3. {o \in Orders : Phase[o] = "open"} = OpenOrders
  BY <1>1 DEF OpenOrders, Phase
<1>4. Contract!Promised(p, w) =
        SumFunctionOnSet([o \in Orders |-> Contract!Units(o, p, w)], {o \in Orders : Phase[o] = "open"})
  <2>1. \A f, S : Contract!SumFunctionOnSet(f, S) = SumFunctionOnSet(f, S)
    BY DEF Contract!SumFunctionOnSet, Contract!FoldFunctionOnSet, Contract!MapThenFoldSet,
           SumFunctionOnSet, FoldFunctionOnSet, MapThenFoldSet
  <2> QED
    BY <2>1 DEF Contract!Promised, Phase
<1> QED
  BY <1>2, <1>3, <1>4 DEF Claimed

\* A movement restocks a row to a quantity that still covers what was promised.
LEMMA RestockStep ==
    ASSUME TypeOK, ReservedAreItems, NEW p \in Products, NEW w \in Warehouses, NEW d \in Int,
           RecordMovement(p, w, d)
    PROVE  \E n \in 0..MaxStock : Contract!Restock(p, w, n)
<1>0. PICK n \in Int : n = stock[p][w].quantity + d
  BY MaxStockAssumption DEF TypeOK, Row
<1>1. n \in 0..MaxStock /\ n >= Contract!Promised(p, w)
  BY <1>0, PromisedAreClaimed DEF RecordMovement, CanMove, ReservedAreItems
<1>2. OnHand' = [OnHand EXCEPT ![p][w] = n]
  <2>1. stock \in [Products -> [Warehouses -> Row]] /\ stock[p][w] \in Row
    BY DEF TypeOK
  <2>2. stock'[p][w].quantity = n
    BY <1>0, <2>1 DEF RecordMovement, Move, Row
  <2>3. \A pp \in Products, ww \in Warehouses :
            (pp # p \/ ww # w) => stock'[pp][ww] = stock[pp][ww]
    BY <2>1 DEF RecordMovement
  <2>4. /\ OnHand'[p] = [OnHand[p] EXCEPT ![w] = n]
        /\ \A pp \in Products \ {p} : OnHand'[pp] = OnHand[pp]
    BY <2>2, <2>3 DEF OnHand
  <2> QED
    BY <2>4 DEF OnHand
<1>3. Phase' = Phase /\ Basket' = Basket /\ Place' = Place /\ PaidBy' = PaidBy
  BY DEF RecordMovement, Phase, Basket, Place, PaidBy, SuccessOf
<1>4. Contract!Restock(p, w, n)
  BY <1>1, <1>2, <1>3 DEF Contract!Restock, OnHand, Phase, Basket, Place, PaidBy, Payer
<1> QED
  BY <1>1, <1>4

\* A checkout opens an order for units nobody else was promised.
LEMMA OpenStep ==
    ASSUME TypeOK, ReservedAreItems,
           NEW o \in Orders, NEW u \in Users, NEW cart \in Carts,
           NEW place \in [Products -> Warehouses \cup {None}],
           NEW total \in Totals, NEW code \in BOOLEAN,
           Checkout(o, u, cart, place, total, code)
    PROVE  Contract!Open(o, cart, place)
<1>1. order[o].status = "none" /\ \E p \in Products : cart[p] > 0
  BY DEF Checkout, Carts
<1>2. ASSUME NEW p \in Products, cart[p] > 0
      PROVE  /\ place[p] \in Warehouses
             /\ OnHand[p][place[p]] - Contract!Promised(p, place[p]) >= cart[p]
  <2>1. place[p] \in Warehouses /\ CanReserve(stock[p][place[p]], cart[p])
    BY <1>2 DEF Checkout, PlacesFor
  <2>2. OnHand[p][place[p]] = stock[p][place[p]].quantity
    BY <2>1 DEF OnHand
  <2>3. Contract!Promised(p, place[p]) = stock[p][place[p]].reserved
    BY <2>1, PromisedAreClaimed DEF ReservedAreItems
  <2> QED
    BY <2>1, <2>2, <2>3 DEF CanReserve, Available
<1>3. OnHand' = OnHand
  <2>1. ASSUME NEW p \in Products, NEW w \in Warehouses
        PROVE  stock'[p][w].quantity = stock[p][w].quantity
    BY DEF Checkout, TypeOK, Row, Reserve
  <2> QED
    BY <2>1 DEF OnHand
<1>4. /\ Phase' = [Phase EXCEPT ![o] = "open"]
      /\ Basket' = [Basket EXCEPT ![o] = cart]
      /\ Place' = [Place EXCEPT ![o] = place]
  <2>1. /\ order'[o].status = "pending_payment"
        /\ order'[o].quantity = cart /\ order'[o].place = place
        /\ \A x \in Orders \ {o} : order'[x] = order[x]
    BY DEF Checkout, TypeOK
  <2>2. PhaseOf("pending_payment") = "open"
    BY DEF PhaseOf
  <2> QED
    BY <2>1, <2>2 DEF Phase, Basket, Place
<1>5. PaidBy' = PaidBy
  BY DEF Checkout, PaidBy, SuccessOf
<1>6. Phase[o] = "none"
  BY <1>1 DEF Phase, PhaseOf
<1> QED
  BY <1>1, <1>2, <1>3, <1>4, <1>5, <1>6 DEF Contract!Open, OnHand, Phase, Basket, Place, PaidBy, Payer

\* A cancellation releases an open order.
LEMMA ReleaseStep ==
    ASSUME TypeOK, NEW o \in Orders, CancelOrder(o)
    PROVE  Contract!Release(o)
<1>1. order[o].status = "pending_payment"
  BY DEF CancelOrder, AwaitingPayment
<1>2. OnHand' = OnHand
  <2>1. ASSUME NEW p \in Products, NEW w \in Warehouses
        PROVE  stock'[p][w].quantity = stock[p][w].quantity
    BY DEF CancelOrder, TypeOK, Row, Release
  <2> QED
    BY <2>1 DEF OnHand
<1>3. /\ Phase' = [Phase EXCEPT ![o] = "released"]
      /\ Basket' = Basket /\ Place' = Place
  <2>1. /\ order'[o].status = "cancelled"
        /\ \A x \in Orders : order'[x].quantity = order[x].quantity
                             /\ order'[x].place = order[x].place
        /\ \A x \in Orders \ {o} : order'[x].status = order[x].status
    <3>1. order \in [Orders -> OrderRow]
      BY DEF TypeOK
    <3> QED
      BY <3>1 DEF CancelOrder, OrderRow
  <2>2. PhaseOf("cancelled") = "released"
    BY DEF PhaseOf
  <2> QED
    BY <2>1, <2>2 DEF Phase, Basket, Place
<1>4. PaidBy' = PaidBy
  <2>1. \A x \in Orders : SuccessOf(x)' = SuccessOf(x)
    BY WithStatusEffect, SameSuccess DEF CancelOrder, PendingOf
  <2> QED
    BY <2>1 DEF PaidBy
<1>5. Phase[o] = "open"
  BY <1>1 DEF Phase, PhaseOf
<1> QED
  BY <1>2, <1>3, <1>4, <1>5 DEF Contract!Release, OnHand, Phase, Basket, Place, PaidBy, Payer

\* A successful attempt pays an open order that no other attempt paid, and its units leave.
LEMMA PayStep ==
    ASSUME TypeOK, PaymentsAgree, NEW m \in Payments, MarkSuccess(m),
           NEW o \in Orders, o = payment[m].order
    PROVE  Contract!Pay(o, m)
<1>1. /\ order[o].status = "pending_payment" /\ payment[m].status = "pending"
      /\ SuccessOf(o) = {}
  BY DEF MarkSuccess, AwaitingPayment, PaymentsAgree, PaidExactlyOnce
<1>2. Phase[o] = "open"
  BY <1>1 DEF Phase, PhaseOf
<1>3. \A p \in Products : Basket[o][p] > 0 => Place[o][p] \in Warehouses
  <2>1. order[o] \in OrderRow
    BY DEF TypeOK
  <2> QED
    BY <2>1 DEF MarkSuccess, Basket, Place, OrderRow
<1>4. \A x \in Orders : PaidBy[x] # m
  <2>1. m \notin {n \in Payments : payment[n].status = "success"} /\ m # None
    BY <1>1, CommerceAssumption
  <2> QED
    BY <2>1, PayerIs DEF PaidBy, SuccessOf
<1>5. Phase' = [Phase EXCEPT ![o] = "paid"] /\ Basket' = Basket /\ Place' = Place
  <2>1. /\ order'[o].status = "paid"
        /\ \A x \in Orders : order'[x].quantity = order[x].quantity
                             /\ order'[x].place = order[x].place
        /\ \A x \in Orders \ {o} : order'[x].status = order[x].status
    BY OrderIsPaid DEF MarkSuccess
  <2>2. PhaseOf("paid") = "paid"
    BY DEF PhaseOf
  <2> QED
    BY <2>1, <2>2 DEF Phase, Basket, Place
<1>6. PaidBy' = [PaidBy EXCEPT ![o] = m]
  <2>1. \A n \in Payments :
            /\ payment'[n].order = payment[n].order
            /\ payment'[n].status = "success" <=> (n = m \/ payment[n].status = "success")
    <3>1. payment[m] \in PaymentRow /\ WithStatus(PendingOf(o), "cancelled") \in [Payments -> PaymentRow]
      BY WithStatusType DEF TypeOK, PaymentStatus
    <3>2. payment' = [WithStatus(PendingOf(o), "cancelled") EXCEPT ![m] =
                        [payment[m] EXCEPT !.status = "success"]]
      BY DEF MarkSuccess
    <3>3. payment'[m].order = payment[m].order /\ payment'[m].status = "success"
      BY <3>1, <3>2 DEF PaymentRow
    <3>4. \A n \in Payments \ {m} : payment'[n] = WithStatus(PendingOf(o), "cancelled")[n]
      BY <3>1, <3>2
    <3> QED
      <4>1. \A n \in Payments :
              /\ WithStatus(PendingOf(o), "cancelled")[n].order = payment[n].order
              /\ WithStatus(PendingOf(o), "cancelled")[n].status = "success"
                    <=> payment[n].status = "success"
        BY WithStatusEffect DEF PendingOf
      <4> QED
        BY <3>3, <3>4, <4>1
  <2>2. SuccessOf(o)' = {m} /\ \A x \in Orders \ {o} : SuccessOf(x)' = SuccessOf(x)
    BY <1>1, <2>1 DEF SuccessOf
  <2>3. PaidBy'[o] = m /\ \A x \in Orders \ {o} : PaidBy'[x] = PaidBy[x]
    BY <2>2, PayerIs DEF PaidBy
  <2> QED
    BY <2>3 DEF PaidBy
<1>7. OnHand' = [p \in Products |-> [w \in Warehouses |-> OnHand[p][w] - Contract!Units(o, p, w)]]
  <2>1. ASSUME NEW p \in Products, NEW w \in Warehouses
        PROVE  stock'[p][w].quantity = stock[p][w].quantity - Claim(o, p, w)
    <3>1. /\ Claim(o, p, w) \in Nat /\ stock[p][w] \in Row
          /\ stock'[p][w] = IF Claim(o, p, w) > 0
                            THEN Sell(stock[p][w], Claim(o, p, w)) ELSE stock[p][w]
      BY ClaimType DEF MarkSuccess, TypeOK
    <3>2. Sell(stock[p][w], Claim(o, p, w)).quantity = stock[p][w].quantity - Claim(o, p, w)
      BY <3>1, MaxStockAssumption DEF Sell, Release, Move, Row
    <3>3. stock[p][w].quantity \in Int
      BY <3>1, MaxStockAssumption DEF Row
    <3> QED
      BY <3>1, <3>2, <3>3
  <2>2. \A p \in Products, w \in Warehouses : Contract!Units(o, p, w) = Claim(o, p, w)
    BY DEF Contract!Units, Claim
  <2> QED
    BY <2>1, <2>2 DEF OnHand
<1> QED
  BY <1>2, <1>3, <1>4, <1>5, <1>6, <1>7
     DEF Contract!Pay, Contract!Units, OnHand, Phase, Basket, Place, PaidBy, Payer

\* Deleting a warehouse forgets its units.
LEMMA ForgetStep ==
    ASSUME TypeOK, NEW w \in Warehouses, DeleteWarehouse(w)
    PROVE  Contract!Forget(w)
<1>1. OnHand' = [p \in Products |-> [OnHand[p] EXCEPT ![w] = 0]]
  <2>1. ASSUME NEW p \in Products
        PROVE  OnHand'[p] = [OnHand[p] EXCEPT ![w] = 0]
    BY DEF DeleteWarehouse, TypeOK, EmptyRow, OnHand
  <2> QED
    BY <2>1 DEF OnHand
<1>2. /\ Phase' = Phase /\ Basket' = Basket
      /\ Place' = [o \in Orders |-> [p \in Products |->
                      IF Place[o][p] = w THEN None ELSE Place[o][p]]]
  <2>1. \A o \in Orders :
            /\ order'[o].status = order[o].status /\ order'[o].quantity = order[o].quantity
            /\ order'[o].place = [p \in Products |->
                   IF order[o].place[p] = w THEN None ELSE order[o].place[p]]
    <3>1. \A o \in Orders : order[o] \in OrderRow
      BY DEF TypeOK
    <3> QED
      BY <3>1 DEF DeleteWarehouse, OrderRow
  <2> QED
    <3>1. Phase' = Phase /\ Basket' = Basket
      BY <2>1 DEF Phase, Basket
    <3>2. \A o \in Orders : Place'[o] = [p \in Products |->
                                          IF Place[o][p] = w THEN None ELSE Place[o][p]]
      BY <2>1 DEF Place
    <3> QED
      BY <3>1, <3>2 DEF Place
<1>3. PaidBy' = PaidBy
  <2>1. \A o \in Orders : SuccessOf(o)' = SuccessOf(o)
    BY DEF DeleteWarehouse, SuccessOf
  <2> QED
    BY <2>1 DEF PaidBy
<1> QED
  BY <1>1, <1>2, <1>3 DEF Contract!Forget, OnHand, Phase, Basket, Place, PaidBy, Payer

\* All other steps change nothing the contract speaks of: warehouses are activated, orders
\* are prepared, and attempts are made, failed and cancelled.
LEMMA StutterStep ==
    ASSUME TypeOK,
           \/ \E w \in Warehouses, status \in {"active", "inactive"} : SetWarehouseActive(w, status)
           \/ \E o \in Orders : AdminStart(o) \/ \E s \in Sellers : SellerStart(o, s)
           \/ \E m \in Payments :
                \/ \E o \in Orders, provider \in Providers : CreatePayment(m, o, provider)
                \/ MarkFailed(m) \/ CancelPayment(m)
           \/ UNCHANGED vars
    PROVE  UNCHANGED Contract!vars
<1>1. stock' = stock
  BY DEF SetWarehouseActive, AdminStart, SellerStart, CreatePayment, MarkFailed,
         CancelPayment, vars
<1>2. \A x \in Orders :
          /\ order'[x].quantity = order[x].quantity /\ order'[x].place = order[x].place
          /\ PhaseOf(order'[x].status) = PhaseOf(order[x].status)
  <2>1. ASSUME NEW o \in Orders, AdminStart(o) \/ \E s \in Sellers : SellerStart(o, s)
        PROVE  \A x \in Orders :
                 /\ order'[x].quantity = order[x].quantity /\ order'[x].place = order[x].place
                 /\ PhaseOf(order'[x].status) = PhaseOf(order[x].status)
    <3>1. order \in [Orders -> OrderRow] /\ order[o] \in OrderRow
      BY DEF TypeOK
    <3>2. /\ \A x \in Orders : order'[x].quantity = order[x].quantity
                               /\ order'[x].place = order[x].place
          /\ \A x \in Orders :
                \/ order'[x].status = order[x].status
                \/ order[x].status = "paid" /\ order'[x].status = "processing"
      <4>1. CASE AdminStart(o)
        BY <3>1, <4>1 DEF AdminStart, OrderRow
      <4>2. ASSUME NEW s \in Sellers, SellerStart(o, s)
            PROVE  /\ order'[o] = [order[o] EXCEPT !.status =
                                     IF order[o].status = "paid" THEN "processing"
                                                                 ELSE order[o].status]
                   /\ \A x \in Orders \ {o} : order'[x] = order[x]
        BY <3>1, <4>2 DEF SellerStart
      <4> QED
        BY <2>1, <3>1, <4>1, <4>2 DEF OrderRow
    <3>3. PhaseOf("paid") = PhaseOf("processing")
      BY DEF PhaseOf
    <3> QED
      BY <3>2, <3>3
  <2> QED
    BY <2>1 DEF SetWarehouseActive, CreatePayment, MarkFailed, CancelPayment, vars
<1>3. \A x \in Orders : SuccessOf(x)' = SuccessOf(x)
  <2>1. ASSUME NEW m \in Payments, MarkFailed(m) \/ CancelPayment(m)
        PROVE  \A x \in Orders : SuccessOf(x)' = SuccessOf(x)
    BY <2>1, WithStatusEffect, SameSuccess DEF MarkFailed, CancelPayment
  <2>2. ASSUME NEW m \in Payments, NEW o \in Orders, NEW provider \in Providers,
               CreatePayment(m, o, provider)
        PROVE  \A x \in Orders : SuccessOf(x)' = SuccessOf(x)
    <3>1. /\ payment'[m].status = "pending" /\ payment[m].status = "none"
          /\ \A n \in Payments \ {m} : payment'[n] = payment[n]
      BY <2>2 DEF CreatePayment, TypeOK
    <3> QED
      BY <3>1, SameSuccess
  <2> QED
    BY <2>1, <2>2 DEF SetWarehouseActive, AdminStart, SellerStart, vars, SuccessOf
<1>4. OnHand' = OnHand /\ Phase' = Phase /\ Basket' = Basket /\ Place' = Place /\ PaidBy' = PaidBy
  BY <1>1, <1>2, <1>3 DEF OnHand, Phase, Basket, Place, PaidBy
<1> QED
  BY <1>4 DEF Contract!vars, OnHand, Phase, Basket, Place, PaidBy, Payer

\* The empty shop has made no promise.
LEMMA ContractInit ==
    ASSUME Init
    PROVE  Contract!Init
<1>1. /\ OnHand = [p \in Products |-> [w \in Warehouses |-> 0]]
      /\ Basket = [o \in Orders |-> [p \in Products |-> 0]]
      /\ Place = [o \in Orders |-> [p \in Products |-> None]]
  BY DEF Init, EmptyRow, NoOrder, OnHand, Basket, Place
<1>2. Phase = [o \in Orders |-> "none"]
  <2>1. PhaseOf("none") = "none"
    BY DEF PhaseOf
  <2> QED
    BY <2>1 DEF Init, NoOrder, Phase
<1>3. PaidBy = [o \in Orders |-> None]
  <2>1. \A o \in Orders : SuccessOf(o) = {}
    BY DEF Init, NoPayment, SuccessOf
  <2> QED
    BY <2>1, PayerIs DEF PaidBy
<1> QED
  BY <1>1, <1>2, <1>3 DEF Contract!Init, OnHand, Phase, Basket, Place, PaidBy, Payer

\* Every step of the shop is a step of the contract, or none.
LEMMA ContractNext ==
    ASSUME IInv, StockInv, [Next]_vars
    PROVE  [Contract!Next]_(Contract!vars)
<1> USE DEF IInv, StockInv
<1>1. CASE InventoryNext
  <2>1. ASSUME NEW p \in Products, NEW w \in Warehouses, NEW d \in (-MaxStock)..MaxStock,
               RecordMovement(p, w, d)
        PROVE  Contract!Next
    <3>1. \E n \in 0..MaxStock : Contract!Restock(p, w, n)
      BY <2>1, MaxStockAssumption, RestockStep
    <3> QED
      BY <3>1 DEF Contract!Next
  <2>2. ASSUME NEW w \in Warehouses, DeleteWarehouse(w)
        PROVE  Contract!Next
    BY <2>2, ForgetStep DEF Contract!Next
  <2> QED
    BY <1>1, <2>1, <2>2, StutterStep DEF InventoryNext
<1>2. CASE CheckoutNext
  <2>1. PICK o \in Orders, u \in Users, cart \in Carts, total \in Totals, code \in BOOLEAN,
            place \in [Products -> Warehouses \cup {None}] :
              Checkout(o, u, cart, place, total, code)
    BY <1>2 DEF CheckoutNext
  <2>2. cart \in [Products -> 0..MaxItemQty]
    BY DEF Carts
  <2>3. Contract!Open(o, cart, place)
    BY <2>1, OpenStep
  <2> QED
    BY <2>2, <2>3 DEF Contract!Next
<1>3. CASE OrderNext
  <2>1. ASSUME NEW o \in Orders, CancelOrder(o)
        PROVE  Contract!Next
    BY <2>1, ReleaseStep DEF Contract!Next
  <2> QED
    BY <1>3, <2>1, StutterStep DEF OrderNext
<1>4. CASE PaymentNext
  <2>1. ASSUME NEW m \in Payments, MarkSuccess(m)
        PROVE  Contract!Next
    <3>1. PICK o \in Orders : o = payment[m].order
      BY <2>1 DEF MarkSuccess, PaymentsAgree, OpenAttemptsArePayable
    <3>2. Contract!Pay(o, m)
      BY <2>1, <3>1, PayStep
    <3> QED
      BY <3>2 DEF Contract!Next
  <2> QED
    BY <1>4, <2>1, StutterStep DEF PaymentNext
<1>5. CASE UNCHANGED vars
  BY <1>5, StutterStep
<1> QED
  BY <1>1, <1>2, <1>3, <1>4, <1>5 DEF Next

\* The order life cycle implements the contract: reservation counters, attempts, sellers
\* and discounts sell no unit twice, take no second payment for an order and give back
\* what a cancelled order held, in shops of every size.
THEOREM ShopKeepsItsContract == Spec => KeepsContract
<1>1. Init => Contract!Init
  BY ContractInit
<1>2. IInv /\ StockInv /\ [Next]_vars => [Contract!Next]_(Contract!vars)
  BY ContractNext
<1> QED
  BY <1>1, <1>2, Inductive, StockInductive, PTL DEF Spec, KeepsContract, Contract!Spec

----------------------------------------------------------------------------
(* The steps of Inventory on the tables of Commerce. *)

\* A transfer that exists is of a product, between warehouses.
TransfersAreWhole ==
    \A t \in Transfers : transfer[t].status # "none" =>
        /\ transfer[t].product \in Products
        /\ transfer[t].from \in Warehouses /\ transfer[t].to \in Warehouses

\* A transfer moves units like any other movement.
LEMMA LegIsMovement ==
    ASSUME InventoryTypeOK, TransfersAreWhole, NEW t \in Transfers, NEW w \in Warehouses,
           NEW d \in Int, Leg(t, w, d), transfer[t].status # "none"
    PROVE  Next
<1>1. PICK p \in Products : p = transfer[t].product
  BY DEF TransfersAreWhole
<1>2. RecordMovement(p, w, d)
  BY <1>1 DEF Leg
<1>3. d \in (-MaxStock)..MaxStock
  <2>1. stock[p][w].quantity \in 0..MaxStock /\ stock[p][w].quantity + d \in 0..MaxStock
    BY <1>2 DEF InventoryTypeOK, TypeOK, Row, RecordMovement, CanMove
  <2> QED
    BY <2>1, MaxStockAssumption
<1> QED
  BY <1>2, <1>3 DEF Next, InventoryNext

\* A request ships from, and receives in, a warehouse of its user.
LEMMA ShippedFromOwn ==
    ASSUME NEW u \in Staff, NEW w \in MemberOf[u]
    PROVE  w \in Warehouses
BY InventoryAssumption

\* Every step but the edit of a row is a step of Commerce, or none, on its tables.
LEMMA StepsOfCommerce ==
    ASSUME InventoryTypeOK, TransfersAreWhole, AllNext
    PROVE  Next \/ UNCHANGED vars \/ SaveEdit
<1>1. CASE ShopNext
  BY <1>1 DEF ShopNext, Next, InventoryNext
<1>2. CASE TransferNext
  <2>1. ASSUME NEW t \in Transfers, NEW u \in Staff, Ship(t, u) \/ Receive(t, u)
        PROVE  Next
    <3>1. transfer[t].quantity \in Nat /\ transfer[t].status # "none"
      BY <2>1, InventoryAssumption DEF InventoryTypeOK, TransferRow, Ship, Receive
    <3>2. CASE Ship(t, u)
      <4>1. transfer[t].from \in Warehouses /\ Leg(t, transfer[t].from, - transfer[t].quantity)
        BY <3>2, ShippedFromOwn DEF Ship
      <4> QED
        BY <3>1, <4>1, LegIsMovement
    <3>3. CASE Receive(t, u)
      <4>1. transfer[t].to \in Warehouses /\ Leg(t, transfer[t].to, transfer[t].quantity)
        BY <3>3, ShippedFromOwn DEF Receive
      <4> QED
        BY <3>1, <4>1, LegIsMovement
    <3> QED
      BY <2>1, <3>2, <3>3
  <2> QED
    BY <1>2, <2>1 DEF TransferNext, CreateTransfer, Approve, CancelTransfer
<1>3. CASE EditNext
  BY <1>3 DEF EditNext, BeginEdit
<1>4. CASE \E w \in Warehouses : DeleteWarehouseAndTransfers(w)
  BY <1>4 DEF DeleteWarehouseAndTransfers, Next, InventoryNext
<1> QED
  BY <1>1, <1>2, <1>3, <1>4 DEF AllNext

\* The rows that transfers, their movements and edits write.
OwnTypeOK ==
    /\ transfer \in [Transfers -> TransferRow]
    /\ transferred \in [Products -> [Warehouses -> Int]]
    /\ edit \in Edit \cup {None} /\ edits \in 0..MaxEdits

\* The empty inventory has rows of the right types.
LEMMA InventoryTypeInit ==
    ASSUME InventoryInit
    PROVE  InventoryTypeOK /\ TransfersAreWhole
<1>1. TypeOK
  BY TypeInit DEF InventoryInit
<1>2. NoTransfer \in TransferRow
  BY InventoryAssumption DEF NoTransfer, TransferRow, TransferStatus
<1> QED
  BY <1>1, <1>2, InventoryAssumption
     DEF InventoryInit, InventoryTypeOK, TransfersAreWhole, NoTransfer

\* What the steps of a transfer write is of its type.
LEMMA TransferRowWith ==
    ASSUME NEW row \in TransferRow, NEW status \in TransferStatus, NEW u \in Staff
    PROVE  /\ [row EXCEPT !.status = status] \in TransferRow
           /\ [row EXCEPT !.status = status].product = row.product
           /\ [row EXCEPT !.status = status].from = row.from
           /\ [row EXCEPT !.status = status].to = row.to
           /\ [row EXCEPT !.status = status, !.approved_by = u] \in TransferRow
           /\ [row EXCEPT !.status = status, !.approved_by = u].product = row.product
           /\ [row EXCEPT !.status = status, !.approved_by = u].from = row.from
           /\ [row EXCEPT !.status = status, !.approved_by = u].to = row.to
BY DEF TransferRow

\* Every step keeps the tables of transfers and edits in their types, and transfers whole.
LEMMA OwnTypeNext ==
    ASSUME InventoryTypeOK, TransfersAreWhole, AllNext
    PROVE  OwnTypeOK' /\ TransfersAreWhole'
<1>0. OwnTypeOK
  BY DEF InventoryTypeOK, OwnTypeOK
<1>1. CASE ShopNext
  BY <1>0, <1>1 DEF ShopNext, ownVars, OwnTypeOK, TransfersAreWhole
<1>2. ASSUME NEW t \in Transfers, NEW u \in Staff, NEW p \in Products, NEW from \in Warehouses,
             NEW to \in Warehouses, NEW q \in 1..MaxTransfer, CreateTransfer(t, u, p, from, to, q)
      PROVE  OwnTypeOK' /\ TransfersAreWhole'
  <2> DEFINE row == [status |-> "pending", product |-> p, from |-> from, to |-> to,
                     quantity |-> q, requested_by |-> u, approved_by |-> None]
  <2>1. row \in TransferRow
    BY InventoryAssumption DEF TransferRow, TransferStatus
  <2>2. /\ transfer' = [transfer EXCEPT ![t] = row]
        /\ row.product = p /\ row.from = from /\ row.to = to
        /\ UNCHANGED <<transferred, edit, edits>>
    BY <1>2 DEF CreateTransfer
  <2> HIDE DEF row
  <2> QED
    BY <1>0, <2>1, <2>2 DEF OwnTypeOK, TransfersAreWhole
<1>3. ASSUME NEW t \in Transfers, NEW u \in Staff, Approve(t, u) \/ CancelTransfer(t, u)
      PROVE  OwnTypeOK' /\ TransfersAreWhole'
  <2>1. transfer[t] \in TransferRow /\ transfer[t].status # "none"
    BY <1>0, <1>3 DEF OwnTypeOK, Approve, CancelTransfer
  <2>2. PICK row \in TransferRow :
            /\ row.product = transfer[t].product
            /\ row.from = transfer[t].from /\ row.to = transfer[t].to
            /\ transfer' = [transfer EXCEPT ![t] = row]
    <3>1. CASE Approve(t, u)
      <4>1. transfer' = [transfer EXCEPT ![t] =
                [transfer[t] EXCEPT !.status = "approved", !.approved_by = u]]
        BY <3>1 DEF Approve
      <4>2. "approved" \in TransferStatus
        BY DEF TransferStatus
      <4> QED
        BY <2>1, <4>1, <4>2, TransferRowWith
    <3>2. CASE CancelTransfer(t, u)
      <4>1. transfer' = [transfer EXCEPT ![t] = [transfer[t] EXCEPT !.status = "cancelled"]]
        BY <3>2 DEF CancelTransfer
      <4>2. "cancelled" \in TransferStatus
        BY DEF TransferStatus
      <4> QED
        BY <2>1, <4>1, <4>2, TransferRowWith
    <3> QED
      BY <1>3, <3>1, <3>2
  <2>3. UNCHANGED <<transferred, edit, edits>>
    BY <1>3 DEF Approve, CancelTransfer
  <2> QED
    BY <1>0, <2>1, <2>2, <2>3 DEF OwnTypeOK, TransfersAreWhole
<1>4. ASSUME NEW t \in Transfers, NEW u \in Staff, Ship(t, u) \/ Receive(t, u)
      PROVE  OwnTypeOK' /\ TransfersAreWhole'
  <2>1. /\ transfer[t] \in TransferRow /\ transfer[t].status # "none"
        /\ transfer[t].quantity \in Int /\ transfer[t].product \in Products
    BY <1>0, <1>4, InventoryAssumption
       DEF OwnTypeOK, Ship, Receive, TransferRow, TransfersAreWhole
  <2>2. PICK status \in TransferStatus : transfer' = [transfer EXCEPT ![t].status = status]
    BY <1>4 DEF Ship, Receive, TransferStatus
  <2>3. PICK w \in Warehouses, d \in Int :
            transferred' = [transferred EXCEPT ![transfer[t].product][w] = @ + d]
    <3>1. CASE Ship(t, u)
      <4>1. PICK w \in Warehouses, d \in Int :
                w = transfer[t].from /\ d = - transfer[t].quantity
        BY <2>1, <3>1, ShippedFromOwn DEF Ship
      <4>2. Leg(t, w, d)
        BY <3>1, <4>1 DEF Ship
      <4> QED
        BY <4>2 DEF Leg
    <3>2. CASE Receive(t, u)
      <4>1. PICK w \in Warehouses, d \in Int : w = transfer[t].to /\ d = transfer[t].quantity
        BY <2>1, <3>2, ShippedFromOwn DEF Receive
      <4>2. Leg(t, w, d)
        BY <3>2, <4>1 DEF Receive
      <4> QED
        BY <4>2 DEF Leg
    <3> QED
      BY <1>4, <3>1, <3>2
  <2>4. transferred' \in [Products -> [Warehouses -> Int]]
    BY <1>0, <2>1, <2>3 DEF OwnTypeOK
  <2>5. edit' = edit /\ edits' = edits
    BY <1>4 DEF Ship, Receive
  <2>6. [transfer[t] EXCEPT !.status = status] \in TransferRow
    BY <2>1, TransferRowWith
  <2>7. transfer' \in [Transfers -> TransferRow] /\ TransfersAreWhole'
    BY <1>0, <2>1, <2>2, <2>6 DEF OwnTypeOK, TransfersAreWhole, TransferRow
  <2> QED
    BY <1>0, <2>4, <2>5, <2>7 DEF OwnTypeOK
<1>5. CASE EditNext
  <2>1. ASSUME NEW p \in Products, NEW w \in Warehouses, BeginEdit(p, w)
        PROVE  OwnTypeOK' /\ TransfersAreWhole'
    <3>1. edit' \in Edit
      BY <2>1 DEF BeginEdit, Edit, InventoryTypeOK, TypeOK
    <3> QED
      BY <1>0, <2>1, <3>1, InventoryAssumption DEF BeginEdit, OwnTypeOK, TransfersAreWhole
  <2>2. CASE SaveEdit
    BY <1>0, <2>2 DEF SaveEdit, OwnTypeOK, TransfersAreWhole
  <2> QED
    BY <1>5, <2>1, <2>2 DEF EditNext
<1>6. ASSUME NEW w \in Warehouses, DeleteWarehouseAndTransfers(w)
      PROVE  OwnTypeOK' /\ TransfersAreWhole'
  <2>1. NoTransfer \in TransferRow /\ NoTransfer.status = "none"
    BY InventoryAssumption DEF NoTransfer, TransferRow, TransferStatus
  <2> QED
    BY <1>0, <1>6, <2>1 DEF DeleteWarehouseAndTransfers, OwnTypeOK, TransfersAreWhole
<1> QED
  BY <1>1, <1>2, <1>3, <1>4, <1>5, <1>6 DEF AllNext, TransferNext

----------------------------------------------------------------------------
(* Orders and payments stand beside transfers and edits. *)

\* The shop's part of the inductive invariant survives every step, also the edit that
\* overwrites the quantities of a row: it touches neither orders nor movements.
SalesInv == InventoryTypeOK /\ TransfersAreWhole /\ PaymentsAgree /\ SalesAreItems

\* The sales stay explained by the movements whatever step Inventory takes.
LEMMA SalesInvNext ==
    ASSUME SalesInv, [AllNext]_allVars
    PROVE  SalesInv'
<1> USE DEF SalesInv
<1>1. CASE AllNext
  <2>1. OwnTypeOK' /\ TransfersAreWhole'
    BY <1>1, OwnTypeNext
  <2>2. TypeOK' /\ PaymentsAgree' /\ SalesAreItems'
    <3>1. CASE Next
      BY <3>1, TypeNext, AgreeNext, SalesNext DEF InventoryTypeOK
    <3>2. CASE UNCHANGED <<ledger, warehouse, order, fulfillment, payment, usedCount>>
               /\ stock' \in [Products -> [Warehouses -> Row]]
      <4>1. TypeOK'
        BY <3>2 DEF InventoryTypeOK, TypeOK
      <4>2. PaymentsAgree'
        BY <3>2, AgreeFrame DEF InventoryTypeOK
      <4>3. \A p \in Products, w \in Warehouses :
              Claimed(PaidOrders, p, w)' = Claimed(PaidOrders, p, w)
        BY <3>2, ClaimedFrame DEF InventoryTypeOK
      <4> QED
        BY <3>2, <4>1, <4>2, <4>3 DEF SalesAreItems
    <3>3. CASE UNCHANGED vars
      <4>1. stock' \in [Products -> [Warehouses -> Row]]
        BY <3>3 DEF vars, InventoryTypeOK, TypeOK
      <4> QED
        BY <3>2, <3>3, <4>1 DEF vars
    <3>4. CASE SaveEdit
      <4>1. edit \in Edit
        BY <3>4 DEF SaveEdit, InventoryTypeOK
      <4>2. stock' \in [Products -> [Warehouses -> Row]]
        BY <3>4, <4>1 DEF SaveEdit, InventoryTypeOK, TypeOK, Edit
      <4> QED
        BY <3>2, <3>4, <4>2 DEF SaveEdit
    <3> QED
      BY <1>1, <3>1, <3>3, <3>4, StepsOfCommerce
  <2> QED
    BY <2>1, <2>2 DEF InventoryTypeOK, OwnTypeOK
<1>2. CASE UNCHANGED allVars
  <2>1. UNCHANGED vars /\ UNCHANGED ownVars
    BY <1>2 DEF allVars
  <2>2. TypeOK' /\ InventoryTypeOK' /\ TransfersAreWhole'
    BY <2>1 DEF vars, ownVars, InventoryTypeOK, TypeOK, TransfersAreWhole
  <2>3. PaymentsAgree'
    BY <2>1, AgreeFrame DEF vars, InventoryTypeOK
  <2>4. \A p \in Products, w \in Warehouses :
          Claimed(PaidOrders, p, w)' = Claimed(PaidOrders, p, w)
    BY <2>1, ClaimedFrame DEF vars, InventoryTypeOK
  <2>5. SalesAreItems'
    BY <2>1, <2>4 DEF vars, SalesAreItems
  <2> QED
    BY <2>2, <2>3, <2>5
<1> QED
  BY <1>1, <1>2

\* SalesInv holds from the start.
LEMMA SalesInductive == InventorySpec => []SalesInv
<1>1. InventoryInit => SalesInv
  <2> SUFFICES ASSUME InventoryInit PROVE SalesInv
    OBVIOUS
  <2>1. Init
    BY DEF InventoryInit
  <2> QED
    BY <2>1, InventoryTypeInit, AgreeInit, StockInit DEF SalesInv, StockInv
<1>2. SalesInv /\ [AllNext]_allVars => SalesInv'
  BY SalesInvNext
<1> QED
  BY <1>1, <1>2, PTL DEF InventorySpec

\* However edits lose stock updates and transfers interleave, an order is paid once, and
\* the sale movements are the items of the paid orders.
THEOREM SalesStand == InventorySpec => []SalesSurviveEdits
<1>1. SalesInv => SalesSurviveEdits
  BY DEF SalesInv, PaymentsAgree, SalesAreItems, SalesSurviveEdits
<1> QED
  BY <1>1, SalesInductive, PTL

----------------------------------------------------------------------------
(* Transfers conserve units. *)

\* The sums that TransfersConserveUnits compares, for a product whose warehouses all exist.
TransfersBalance ==
    (\A w \in Warehouses : warehouse[w] # "deleted") =>
        \A p \in Products : SumFunctionOnSet(transferred[p], Warehouses) = - InTransit(p)

\* The units on the way are numbers.
LEMMA CarriedType ==
    ASSUME InventoryTypeOK, NEW p \in Products
    PROVE  /\ \A t \in Transfers : Carried(p)[t] \in Int
           /\ \A w \in Warehouses : transferred[p][w] \in Int
BY InventoryAssumption DEF InventoryTypeOK, TransferRow, Carried

\* A deleted warehouse does not come back.
LEMMA DeletedStays ==
    ASSUME InventoryTypeOK, AllNext, NEW w \in Warehouses, warehouse[w] = "deleted"
    PROVE  warehouse'[w] = "deleted"
<1>1. ASSUME NEW ww \in Warehouses,
             \/ \E status \in {"active", "inactive"} : SetWarehouseActive(ww, status)
             \/ DeleteWarehouse(ww)
      PROVE  warehouse'[w] = "deleted"
  BY <1>1 DEF SetWarehouseActive, DeleteWarehouse, InventoryTypeOK, TypeOK
<1>2. CASE ShopNext
  <2>1. CASE CheckoutNext \/ OrderNext \/ PaymentNext
    BY ZenonT(60), <2>1 DEF CheckoutNext, Checkout, OrderNext, CancelOrder, AdminStart, SellerStart,
        PaymentNext, CreatePayment, MarkSuccess, MarkFailed, CancelPayment
  <2> QED
    BY <1>1, <1>2, <2>1 DEF ShopNext, RecordMovement
<1>3. CASE TransferNext
  BY ZenonT(60), <1>3 DEF TransferNext, CreateTransfer, Approve, Ship, Receive, CancelTransfer, Leg,
      RecordMovement, vars
<1>4. CASE EditNext
  BY <1>4 DEF EditNext, BeginEdit, SaveEdit, vars
<1> QED
  BY <1>1, <1>2, <1>3, <1>4 DEF AllNext, DeleteWarehouseAndTransfers

\* A step that leaves alone what transfers carry, and what they moved.
LEMMA BalanceFrame ==
    ASSUME TransfersBalance,
           \A w \in Warehouses : warehouse[w] = "deleted" => warehouse'[w] = "deleted",
           transferred' = transferred, \A p \in Products : Carried(p)' = Carried(p)
    PROVE  TransfersBalance'
BY DEF TransfersBalance, InTransit

\* The two ends of a transfer: what leaves the warehouses is on the way, and what arrives
\* is not any more.
LEMMA BalanceLeg ==
    ASSUME InventoryTypeOK, TransfersAreWhole, TransfersBalance,
           NEW t \in Transfers, NEW u \in Staff, Ship(t, u) \/ Receive(t, u)
    PROVE  TransfersBalance'
<1>1. transfer[t].product \in Products /\ transfer[t].quantity \in Int
  BY InventoryAssumption
     DEF InventoryTypeOK, TransferRow, Ship, Receive, TransfersAreWhole
<1>2. PICK w \in Warehouses, d \in Int, status \in {"in_transit", "completed"} :
          /\ Leg(t, w, d) /\ transfer' = [transfer EXCEPT ![t].status = status]
          /\ \/ /\ transfer[t].status = "approved" /\ status = "in_transit"
                /\ d = - transfer[t].quantity
             \/ /\ transfer[t].status = "in_transit" /\ status = "completed"
                /\ d = transfer[t].quantity
  <2>1. CASE Ship(t, u)
    <3>1. PICK w \in Warehouses, d \in Int : w = transfer[t].from /\ d = - transfer[t].quantity
      BY <1>1, <2>1, ShippedFromOwn DEF Ship
    <3> QED
      BY <2>1, <3>1 DEF Ship
  <2>2. CASE Receive(t, u)
    <3>1. PICK w \in Warehouses, d \in Int : w = transfer[t].to /\ d = transfer[t].quantity
      BY <1>1, <2>2, ShippedFromOwn DEF Receive
    <3> QED
      BY <2>2, <3>1 DEF Receive
  <2> QED
    BY <2>1, <2>2
<1>3. warehouse' = warehouse
  BY <1>2 DEF Leg, RecordMovement
<1> SUFFICES ASSUME \A ww \in Warehouses : warehouse[ww] # "deleted", NEW p \in Products
             PROVE  SumFunctionOnSet(transferred'[p], Warehouses) = - InTransit(p)'
  BY <1>3 DEF TransfersBalance
<1>4. /\ SumFunctionOnSet(transferred[p], Warehouses) = - InTransit(p)
      /\ InTransit(p) = SumFunctionOnSet(Carried(p), Transfers)
      /\ InTransit(p)' = SumFunctionOnSet(Carried(p)', Transfers)
  BY DEF TransfersBalance, InTransit
<1>5. transfer'[t].product = transfer[t].product /\ transfer'[t].quantity = transfer[t].quantity
      /\ transfer'[t].status = status /\ \A x \in Transfers \ {t} : transfer'[x] = transfer[x]
  BY <1>2 DEF InventoryTypeOK, TransferRow
<1>6. \A x \in Transfers \ {t} : Carried(p)'[x] = Carried(p)[x]
  BY <1>5 DEF Carried
<1>7. /\ IsFiniteSet(Transfers) /\ IsFiniteSet(Warehouses)
      /\ \A x \in Transfers : Carried(p)[x] \in Int
      /\ \A x \in Warehouses : transferred[p][x] \in Int
  BY CarriedType, InventoryAssumption
<1>8. SumFunctionOnSet(Carried(p), Transfers) \in Int
  BY <1>7, SumInt
<1>9. CASE p = transfer[t].product
  <2>1. Carried(p)'[t] \in Int /\ Carried(p)[t] \in Int /\ Carried(p)'[t] = Carried(p)[t] - d
    BY <1>1, <1>2, <1>5, <1>9 DEF Carried
  <2>2. InTransit(p)' = SumFunctionOnSet(Carried(p), Transfers) - Carried(p)[t] + Carried(p)'[t]
    BY <1>4, <1>6, <1>7, <2>1, SumChange
  <2>3. /\ transferred'[p][w] = transferred[p][w] + d
        /\ \A x \in Warehouses \ {w} : transferred'[p][x] = transferred[p][x]
    BY <1>2, <1>9 DEF Leg, InventoryTypeOK
  <2>4. SumFunctionOnSet(transferred'[p], Warehouses)
          = SumFunctionOnSet(transferred[p], Warehouses) - transferred[p][w] + transferred'[p][w]
    BY <1>7, <2>3, SumChange
  <2> QED
    BY <1>4, <1>7, <1>8, <2>1, <2>2, <2>3, <2>4
<1>10. CASE p # transfer[t].product
  <2>1. transferred'[p] = transferred[p]
    BY <1>2, <1>10 DEF Leg, InventoryTypeOK
  <2>2. Carried(p)' = Carried(p)
    BY <1>5, <1>6, <1>10 DEF Carried
  <2> QED
    BY <1>4, <2>1, <2>2
<1> QED
  BY <1>9, <1>10

\* Every step keeps the balance.
LEMMA BalanceNext ==
    ASSUME InventoryTypeOK, TransfersAreWhole, TransfersBalance, [AllNext]_allVars
    PROVE  TransfersBalance'
<1>0. ASSUME AllNext
      PROVE  \A w \in Warehouses : warehouse[w] = "deleted" => warehouse'[w] = "deleted"
  BY <1>0, DeletedStays
<1>1. CASE ShopNext
  <2>1. transfer' = transfer /\ transferred' = transferred
    BY <1>1 DEF ShopNext, ownVars
  <2> QED
    BY <1>0, <1>1, <2>1, BalanceFrame DEF AllNext, Carried
<1>2. ASSUME NEW t \in Transfers, NEW u \in Staff,
             \/ \E p \in Products, from \in Warehouses, to \in Warehouses, q \in 1..MaxTransfer :
                    CreateTransfer(t, u, p, from, to, q)
             \/ Approve(t, u) \/ CancelTransfer(t, u)
      PROVE  TransfersBalance'
  <2>1. /\ transfer[t].status # "in_transit" /\ transfer'[t].status # "in_transit"
        /\ \A x \in Transfers \ {t} : transfer'[x] = transfer[x]
    <3>1. transfer \in [Transfers -> TransferRow] /\ transfer[t] \in TransferRow
      BY DEF InventoryTypeOK
    <3> QED
      BY <1>2, <3>1 DEF CreateTransfer, Approve, CancelTransfer, TransferRow
  <2>2. transferred' = transferred /\ warehouse' = warehouse
    BY <1>2 DEF CreateTransfer, Approve, CancelTransfer, vars
  <2>3. \A p \in Products : Carried(p)' = Carried(p)
    BY <2>1 DEF Carried
  <2> QED
    BY <2>2, <2>3, BalanceFrame
<1>3. ASSUME NEW t \in Transfers, NEW u \in Staff, Ship(t, u) \/ Receive(t, u)
      PROVE  TransfersBalance'
  BY <1>3, BalanceLeg
<1>4. CASE EditNext \/ UNCHANGED allVars
  <2>1. UNCHANGED <<transfer, transferred, warehouse>>
    BY <1>4 DEF EditNext, BeginEdit, SaveEdit, allVars, vars, ownVars
  <2> QED
    BY <2>1, BalanceFrame DEF Carried
<1>5. ASSUME NEW w \in Warehouses, DeleteWarehouseAndTransfers(w)
      PROVE  TransfersBalance'
  <2>1. warehouse'[w] = "deleted"
    BY <1>5 DEF DeleteWarehouseAndTransfers, DeleteWarehouse, InventoryTypeOK, TypeOK
  <2> QED
    BY <2>1 DEF TransfersBalance
<1> QED
  BY <1>1, <1>2, <1>3, <1>4, <1>5 DEF AllNext, TransferNext

\* For every number of warehouses and transfers, units that transfers took out and did not
\* bring in are on the way; with InventoryTypeOK, no transfer takes more than there is.
THEOREM TransfersLoseNothing == InventorySpec => []TransfersConserveUnits
<1>1. InventoryInit => TransfersBalance
  <2> SUFFICES ASSUME InventoryInit, NEW p \in Products
               PROVE  SumFunctionOnSet(transferred[p], Warehouses) = - InTransit(p)
    BY DEF TransfersBalance
  <2>1. \A w \in Warehouses : transferred[p][w] = 0
    BY DEF InventoryInit
  <2>2. \A t \in Transfers : Carried(p)[t] = 0
    BY DEF InventoryInit, NoTransfer, Carried
  <2>3. /\ SumFunctionOnSet(transferred[p], Warehouses) = 0
        /\ SumFunctionOnSet(Carried(p), Transfers) = 0
    BY <2>1, <2>2, SumZero, InventoryAssumption
  <2>4. /\ SumFunctionOnSet(transferred[p], Warehouses) \in Int /\ InTransit(p) \in Int
        /\ SumFunctionOnSet(transferred[p], Warehouses) + InTransit(p) = 0
    BY <2>3 DEF InTransit
  <2> QED
    BY <2>4
<1>2. SalesInv /\ TransfersBalance /\ [AllNext]_allVars => TransfersBalance'
  BY BalanceNext DEF SalesInv
<1>3. SalesInv /\ TransfersBalance => TransfersConserveUnits
  BY DEF SalesInv, TransfersBalance, TransfersConserveUnits
<1> QED
  BY <1>1, <1>2, <1>3, SalesInductive, PTL DEF InventorySpec
=============================================================================
