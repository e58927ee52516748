------------------------------ MODULE Shipping ------------------------------
(***************************************************************************)
(* Parcels of paid orders.  Every seller of an order sends a parcel of     *)
(* their own, and the status of the order is computed from the sellers'.   *)
(* An order without items, which older data and the checkout race leave    *)
(* behind, has one parcel for all of it.                                   *)
(*                                                                         *)
(* The methods of Shipment lock the order and read it and the shipment     *)
(* again, so each is one action.  The create endpoint looks at the order   *)
(* before that, without a lock.  As long as a request that has passed      *)
(* these checks waits for the lock, its order and seller are in "wanted";  *)
(* anything may happen meanwhile, and any number of requests alike may     *)
(* wait.                                                                   *)
(***************************************************************************)
EXTENDS Naturals

CONSTANTS
    Orders, Sellers,
    SellersOf,   \* the sellers of the items of each order
    Shipments,   \* ids of shipment rows
    None         \* a null foreign key

ASSUME ShippingAssumption ==
    /\ SellersOf \in [Orders -> SUBSET Sellers]
    /\ None \notin Sellers /\ None \notin Orders

VARIABLES
    order,        \* Order.status, from the payment on
    fulfillment,  \* SellerOrderFulfillment.status: order -> seller
    shipment,     \* Shipment
    wanted        \* orders and sellers some validated request for a shipment is for

vars == <<order, fulfillment, shipment, wanted>>

OrderStatus == {"paid", "processing", "shipped", "delivered"}
ShipmentStatus ==
    {"none", "pending", "ready_to_ship", "shipped", "delivered", "cancelled"}

ShipmentRow ==
    [order : Orders \cup {None}, seller : Sellers \cup {None}, status : ShipmentStatus]

NoShipment == [order |-> None, seller |-> None, status |-> "none"]

\* Whom a parcel of an order can be for; None is the order as a whole.
Parts(o) == IF SellersOf[o] = {} THEN {None} ELSE SellersOf[o]

Active(n) == shipment[n].status \notin {"none", "cancelled"}

ActiveFor(o, s) ==
    {n \in Shipments : Active(n) /\ shipment[n].order = o /\ shipment[n].seller = s}

Init ==
    /\ order = [o \in Orders |-> "paid"]
    /\ fulfillment = [o \in Orders |-> [s \in Sellers |->
            IF s \in SellersOf[o] THEN "paid" ELSE "none"]]
    /\ shipment = [n \in Shipments |-> NoShipment]
    /\ wanted = {}

----------------------------------------------------------------------------
(* What the sellers' statuses say about the order. *)

\* Mutant: the parcels that have been shipped decide for the others.
MutAggregate(o, statuses, fallback) ==
    LET some(S) == \E s \in SellersOf[o] : statuses[s] \in S
    IN IF SellersOf[o] = {} THEN fallback
       ELSE IF ~ some({"paid", "processing", "shipped"}) THEN "delivered"
       ELSE IF some({"shipped", "delivered"}) THEN "shipped"
       ELSE IF some({"processing"}) THEN "processing"
       ELSE "paid"

\* Shipment._sync_order_status.
Aggregate(o, statuses, fallback) ==
    LET all(S) == \A s \in SellersOf[o] : statuses[s] \in S
    IN IF SellersOf[o] = {} THEN fallback
       ELSE IF all({"delivered"}) THEN "delivered"
       ELSE IF all({"shipped", "delivered"}) THEN "shipped"
       ELSE IF all({"paid"}) THEN "paid"
       ELSE "processing"

\* Shipment._set_seller_status and _sync_order_status.
SetStatus(o, s, status) ==
    /\ fulfillment' = IF s = None THEN fulfillment
                      ELSE [fulfillment EXCEPT ![o][s] = status]
    /\ order' = [order EXCEPT ![o] = Aggregate(o, fulfillment'[o], status)]

----------------------------------------------------------------------------
(* POST /shipments/. *)

\* A seller, or an order without sellers, that still needs a parcel.
Eligible(o, s) ==
    /\ order[o] \in {"paid", "processing"}
    /\ s \in Parts(o)
    /\ ActiveFor(o, s) = {}
    /\ s # None => fulfillment[o][s] \in {"paid", "processing"}

\* ShipmentCreateSerializer.validate.
RequestShipment(o, s) ==
    /\ Eligible(o, s)
    /\ wanted' = wanted \cup {<<o, s>>}
    /\ UNCHANGED <<order, fulfillment, shipment>>

\* Mutant: the parcels are not looked up again under the lock.
MutCanShip(o, s) == order[o] # "delivered"

\* Shipment.create_from_order: what the lock makes sure of.
CanShip(o, s) == order[o] # "delivered" /\ ActiveFor(o, s) = {}

\* A request for the part ends: the last one that waits, or one of several.
EndRequest(o, s) ==
    /\ <<o, s>> \in wanted
    /\ wanted' \in {wanted, wanted \ {<<o, s>>}}

CreateShipment(n, o, s) ==
    /\ EndRequest(o, s)
    /\ shipment[n].status = "none"
    /\ CanShip(o, s)
    /\ shipment' = [shipment EXCEPT ![n] = [order |-> o, seller |-> s, status |-> "pending"]]
    /\ UNCHANGED <<order, fulfillment>>

RefuseShipment(o, s) ==
    /\ EndRequest(o, s)
    /\ ~ CanShip(o, s)
    /\ UNCHANGED <<order, fulfillment, shipment>>

----------------------------------------------------------------------------
(* The way of a parcel. *)

\* The parcel n leaves one of the statuses in from.
Advance(n, from, status, sellerStatus) ==
    /\ shipment[n].status \in from
    /\ order[shipment[n].order] # "delivered"
    /\ shipment' = [shipment EXCEPT ![n].status = status]
    /\ SetStatus(shipment[n].order, shipment[n].seller, sellerStatus)
    /\ UNCHANGED wanted

MarkReady(n) == Advance(n, {"pending"}, "ready_to_ship", "processing")
MarkShipped(n) == Advance(n, {"pending", "ready_to_ship"}, "shipped", "shipped")
MarkDelivered(n) == Advance(n, {"shipped"}, "delivered", "delivered")

\* Mutant: the seller does not start over.
MutCancel(n) ==
    /\ shipment[n].status \notin {"none", "delivered", "cancelled"}
    /\ shipment' = [shipment EXCEPT ![n].status = "cancelled"]
    /\ UNCHANGED <<order, fulfillment, wanted>>

\* Shipment.cancel.  The order of a parcel without a seller is left as it is.
Cancel(n) ==
    /\ shipment[n].status \notin {"none", "delivered", "cancelled"}
    /\ shipment' = [shipment EXCEPT ![n].status = "cancelled"]
    /\ IF shipment[n].seller = None THEN UNCHANGED <<order, fulfillment>>
       ELSE SetStatus(shipment[n].order, shipment[n].seller, "paid")
    /\ UNCHANGED wanted

----------------------------------------------------------------------------
(* Preparation, which does not go through a shipment. *)

\* POST /orders/<o>/seller-status/.
SellerStart(o, s) ==
    /\ fulfillment[o][s] = "paid"
    /\ fulfillment' = [fulfillment EXCEPT ![o][s] = "processing"]
    /\ order' = [order EXCEPT ![o] = IF @ = "paid" THEN "processing" ELSE @]
    /\ UNCHANGED <<shipment, wanted>>

\* POST /orders/<o>/update-status/.
AdminStart(o) ==
    /\ order[o] = "paid"
    /\ order' = [order EXCEPT ![o] = "processing"]
    /\ UNCHANGED <<fulfillment, shipment, wanted>>

----------------------------------------------------------------------------
Next ==
    \/ \E o \in Orders : \E s \in Parts(o) :
        \/ RequestShipment(o, s) \/ RefuseShipment(o, s)
        \/ \E n \in Shipments : CreateShipment(n, o, s)
    \/ \E n \in Shipments :
        MarkReady(n) \/ MarkShipped(n) \/ MarkDelivered(n) \/ Cancel(n)
    \/ \E o \in Orders : AdminStart(o) \/ \E s \in Sellers : SellerStart(o, s)

Spec == Init /\ [][Next]_vars

----------------------------------------------------------------------------
(* Properties. *)

TypeOK ==
    /\ order \in [Orders -> OrderStatus]
    /\ fulfillment \in [Orders -> [Sellers -> OrderStatus \cup {"none"}]]
    /\ shipment \in [Shipments -> ShipmentRow]
    /\ wanted \subseteq Orders \X (Sellers \cup {None})

\* A seller's part of an order never has two parcels under way, whatever
\* requests were validated at the same time, and every parcel is for a part of
\* its order.
OneParcelPerPart ==
    \A n \in Shipments : Active(n) =>
        /\ shipment[n].order \in Orders
        /\ shipment[n].seller \in Parts(shipment[n].order)
        /\ ActiveFor(shipment[n].order, shipment[n].seller) = {n}

\* A seller's status is where the parcel is: shipped or delivered exactly if a
\* parcel under way is, and preparing from the moment the parcel is ready.
SellerFollowsParcel ==
    \A o \in Orders : \A s \in SellersOf[o] :
        LET parcels == {shipment[n].status : n \in ActiveFor(o, s)}
        IN /\ fulfillment[o][s] = "delivered" <=> "delivered" \in parcels
           /\ fulfillment[o][s] = "shipped" <=> "shipped" \in parcels
           /\ "ready_to_ship" \in parcels => fulfillment[o][s] = "processing"

\* "The whole order ships only after all sellers have shipped", it is delivered
\* exactly when all have delivered, and it goes back when a parcel is cancelled.
OrderFollowsSellers ==
    \A o \in Orders : SellersOf[o] # {} =>
        LET all(S) == \A s \in SellersOf[o] : fulfillment[o][s] \in S
        IN /\ order[o] = "delivered" <=> all({"delivered"})
           /\ order[o] \in {"shipped", "delivered"} <=> all({"shipped", "delivered"})
           /\ order[o] = "paid" => all({"paid"})

\* A seller who has not delivered has a parcel under way or can get one, after
\* any number of cancelled parcels.
NoSellerStrands ==
    \A o \in Orders : \A s \in SellersOf[o] :
        Eligible(o, s) \/ ActiveFor(o, s) # {}

\* A step that takes no delivered order or parcel back.
KeepsDelivered ==
    /\ \A o \in Orders : order[o] = "delivered" => order'[o] = "delivered"
    /\ \A n \in Shipments : shipment[n].status = "delivered" => shipment'[n] = shipment[n]

\* What has been delivered stays so, against a late cancellation, a stale request or a
\* preparation step.
DeliveryIsFinal == [][KeepsDelivered]_vars

\* Whatever step is taken, parcels, sellers and the order tell the same story after it,
\* and it takes no delivery back.
StatusesFollowParcels ==
    [][SellerFollowsParcel' /\ OrderFollowsSellers' /\ KeepsDelivered]_vars
=============================================================================
