--------------------------- MODULE ShippingProofs ---------------------------
(***************************************************************************)
(* Proofs about Shipping, for any number of orders, sellers and parcels.   *)
(*                                                                         *)
(* The invariants of the model-checking run are inductive together, once   *)
(* one fact is added that the others take for granted: a seller has a      *)
(* status for an order exactly if the order has an item of theirs.  Almost *)
(* every step moves one parcel to a new status and the seller and the      *)
(* order with it, so those steps share one lemma (ParcelMoves).            *)
(***************************************************************************)
EXTENDS Shipping, TLAPS

\* The sellers with a status are the sellers of the items.
OwnPart ==
    \A o \in Orders, s \in Sellers : fulfillment[o][s] = "none" <=> s \notin SellersOf[o]

IInv == TypeOK /\ OwnPart /\ OneParcelPerPart /\ SellerFollowsParcel /\ OrderFollowsSellers

\* Active and ActiveFor for given rows, those before or those after a step.
Live(row) == row.status \notin {"none", "cancelled"}

LiveFor(rows, o, s) ==
    {n \in Shipments : Live(rows[n]) /\ rows[n].order = o /\ rows[n].seller = s}

\* The seller's status that goes with a parcel's.
Matches(status, sellerStatus) ==
    /\ status \in {"ready_to_ship", "shipped", "delivered", "cancelled"}
    /\ sellerStatus \in OrderStatus
    /\ status = "delivered" <=> sellerStatus = "delivered"
    /\ status = "shipped" <=> sellerStatus = "shipped"
    /\ status = "ready_to_ship" => sellerStatus = "processing"

\* The parcel n gets a new status, its seller and order the one that goes with it.
Moves(n, status, sellerStatus) ==
    /\ Live(shipment[n])
    /\ shipment' = [shipment EXCEPT ![n].status = status]
    /\ SetStatus(shipment[n].order, shipment[n].seller, sellerStatus)
    /\ wanted' = wanted

\* Parts of an order are the sellers of its items, if there are any.
LEMMA PartsOfOrder ==
    ASSUME NEW o \in Orders
    PROVE  /\ Parts(o) \subseteq Sellers \cup {None}
           /\ \A s \in Parts(o) : s # None <=> SellersOf[o] # {}
           /\ \A s \in Parts(o) : s # None => s \in SellersOf[o] /\ s \in Sellers
           /\ SellersOf[o] \subseteq Parts(o)
  BY ShippingAssumption DEF Parts

\* The status computed for an order is one, and says what OrderFollowsSellers demands.
LEMMA AggregateIsRight ==
    ASSUME NEW o \in Orders, NEW statuses, NEW fallback \in OrderStatus
    PROVE  LET all(S) == \A s \in SellersOf[o] : statuses[s] \in S
               result == Aggregate(o, statuses, fallback)
           IN /\ result \in OrderStatus
              /\ SellersOf[o] # {} =>
                    /\ result = "delivered" <=> all({"delivered"})
                    /\ result \in {"shipped", "delivered"} <=> all({"shipped", "delivered"})
                    /\ result = "paid" => all({"paid"})
  BY DEF Aggregate, OrderStatus

\* Initially nothing is under way.
LEMMA InitHolds == Init => IInv
<1> SUFFICES ASSUME Init PROVE IInv
  OBVIOUS
<1>1. \A n \in Shipments : shipment[n] = NoShipment /\ ~ Active(n)
  BY DEF Init, NoShipment, Active
<1>2. TypeOK
  <2>1. NoShipment \in ShipmentRow
    BY DEF NoShipment, ShipmentRow, ShipmentStatus
  <2> QED BY <2>1, ShippingAssumption DEF Init, TypeOK, OrderStatus
<1>3. OwnPart
  BY DEF Init, OwnPart
<1>4. OneParcelPerPart
  BY <1>1 DEF OneParcelPerPart
<1>5. SellerFollowsParcel
  <2> SUFFICES ASSUME NEW o \in Orders, NEW s \in SellersOf[o]
               PROVE  ActiveFor(o, s) = {} /\ fulfillment[o][s] = "paid"
    BY DEF SellerFollowsParcel
  <2>1. ActiveFor(o, s) = {}
    BY <1>1 DEF ActiveFor
  <2>2. s \in Sellers
    BY ShippingAssumption
  <2> QED BY <2>1, <2>2 DEF Init
<1>6. OrderFollowsSellers
  BY ShippingAssumption DEF Init, OrderFollowsSellers
<1> QED BY <1>2, <1>3, <1>4, <1>5, <1>6 DEF IInv

----------------------------------------------------------------------------
(* The invariants that speak of parcels, in these terms. *)

\* The parcels before a step, ...
LEMMA ParcelsNow ==
    ASSUME IInv
    PROVE  /\ \A n \in Shipments : Live(shipment[n]) =>
                /\ shipment[n].order \in Orders
                /\ shipment[n].seller \in Parts(shipment[n].order)
                /\ LiveFor(shipment, shipment[n].order, shipment[n].seller) = {n}
           /\ \A o \in Orders : \A s \in SellersOf[o] :
                LET parcels == {shipment[n].status : n \in LiveFor(shipment, o, s)}
                IN /\ fulfillment[o][s] = "delivered" <=> "delivered" \in parcels
                   /\ fulfillment[o][s] = "shipped" <=> "shipped" \in parcels
                   /\ "ready_to_ship" \in parcels => fulfillment[o][s] = "processing"
BY DEF IInv, OneParcelPerPart, SellerFollowsParcel, Active, ActiveFor, Live, LiveFor

\* ... and after it.
LEMMA ParcelsNext ==
    ASSUME \A n \in Shipments : Live(shipment'[n]) =>
                /\ shipment'[n].order \in Orders
                /\ shipment'[n].seller \in Parts(shipment'[n].order)
                /\ LiveFor(shipment', shipment'[n].order, shipment'[n].seller) = {n},
           \A o \in Orders : \A s \in SellersOf[o] :
                LET parcels == {shipment'[n].status : n \in LiveFor(shipment', o, s)}
                IN /\ fulfillment'[o][s] = "delivered" <=> "delivered" \in parcels
                   /\ fulfillment'[o][s] = "shipped" <=> "shipped" \in parcels
                   /\ "ready_to_ship" \in parcels => fulfillment'[o][s] = "processing"
    PROVE  OneParcelPerPart' /\ SellerFollowsParcel'
<1>1. OneParcelPerPart'
  BY DEF OneParcelPerPart, Active, ActiveFor, Live, LiveFor, Parts
<1>2. SellerFollowsParcel'
  BY DEF SellerFollowsParcel, Active, ActiveFor, Live, LiveFor
<1> QED BY <1>1, <1>2

----------------------------------------------------------------------------
(* One parcel moves. *)

\* What such a step does to the parcels under way.
LEMMA MovedParcel ==
    ASSUME IInv, NEW n \in Shipments, NEW status, NEW sellerStatus,
           Matches(status, sellerStatus), Moves(n, status, sellerStatus)
    PROVE  /\ shipment[n].order \in Orders
           /\ shipment[n].seller \in Parts(shipment[n].order)
           /\ LiveFor(shipment, shipment[n].order, shipment[n].seller) = {n}
           /\ shipment' \in [Shipments -> ShipmentRow]
           /\ shipment'[n].status = status
           /\ shipment'[n].order = shipment[n].order
           /\ shipment'[n].seller = shipment[n].seller
           /\ \A m \in Shipments : m # n => shipment'[m] = shipment[m]
           /\ Live(shipment'[n]) <=> status # "cancelled"
<1>1. shipment \in [Shipments -> ShipmentRow] /\ shipment[n] \in ShipmentRow
  BY DEF IInv, TypeOK
<1>2. status \in ShipmentStatus
  BY DEF Matches, ShipmentStatus
<1>3. shipment' = [shipment EXCEPT ![n].status = status] /\ Live(shipment[n])
  BY DEF Moves
<1>4. /\ shipment[n].order \in Orders
      /\ shipment[n].seller \in Parts(shipment[n].order)
      /\ LiveFor(shipment, shipment[n].order, shipment[n].seller) = {n}
  BY <1>3, ParcelsNow
<1>5. shipment' \in [Shipments -> ShipmentRow]
  BY <1>1, <1>2, <1>3 DEF ShipmentRow
<1>6. /\ shipment'[n].status = status
      /\ shipment'[n].order = shipment[n].order
      /\ shipment'[n].seller = shipment[n].seller
      /\ \A m \in Shipments : m # n => shipment'[m] = shipment[m]
  BY <1>1, <1>3 DEF ShipmentRow
<1>7. Live(shipment'[n]) <=> status # "cancelled"
  BY <1>6 DEF Live, Matches
<1> QED BY <1>4, <1>5, <1>6, <1>7

\* The parcels of a part of an order after such a step.
LEMMA MovedParts ==
    ASSUME IInv, NEW n \in Shipments, NEW status, NEW sellerStatus,
           Matches(status, sellerStatus), Moves(n, status, sellerStatus),
           NEW o, NEW s
    PROVE  IF o = shipment[n].order /\ s = shipment[n].seller
           THEN LiveFor(shipment', o, s) = IF status = "cancelled" THEN {} ELSE {n}
           ELSE /\ n \notin LiveFor(shipment, o, s)
                /\ LiveFor(shipment', o, s) = LiveFor(shipment, o, s)
BY MovedParcel DEF LiveFor

\* The seller of the parcel gets the new status, and nobody else does.
LEMMA MovedStatus ==
    ASSUME IInv, NEW n \in Shipments, NEW status, NEW sellerStatus,
           Matches(status, sellerStatus), Moves(n, status, sellerStatus)
    PROVE  /\ fulfillment' \in [Orders -> [Sellers -> OrderStatus \cup {"none"}]]
           /\ \A o \in Orders, s \in Sellers :
                fulfillment'[o][s] =
                    IF o = shipment[n].order /\ s = shipment[n].seller
                    THEN sellerStatus ELSE fulfillment[o][s]
           /\ order' \in [Orders -> OrderStatus]
           /\ \A o \in Orders :
                order'[o] = IF o = shipment[n].order
                            THEN Aggregate(o, fulfillment'[o], sellerStatus) ELSE order[o]
<1> DEFINE p == shipment[n].order
           q == shipment[n].seller
<1>1. p \in Orders /\ q \in Parts(p)
  BY MovedParcel
<1>2. q \in Sellers \cup {None}
  BY <1>1, PartsOfOrder
<1>3. SetStatus(p, q, sellerStatus) /\ sellerStatus \in OrderStatus
  BY DEF Moves, Matches
<1>4. /\ fulfillment \in [Orders -> [Sellers -> OrderStatus \cup {"none"}]]
      /\ order \in [Orders -> OrderStatus]
  BY DEF IInv, TypeOK
<1>5. CASE q = None
  <2>1. fulfillment' = fulfillment
    BY <1>3, <1>5 DEF SetStatus
  <2>2. \A s \in Sellers : s # q
    BY <1>5, ShippingAssumption
  <2>3. order' = [order EXCEPT ![p] = Aggregate(p, fulfillment'[p], sellerStatus)]
    BY <1>3 DEF SetStatus
  <2>4. Aggregate(p, fulfillment'[p], sellerStatus) \in OrderStatus
    BY <1>1, <1>3, AggregateIsRight
  <2> HIDE DEF p, q
  <2>5. QED BY <1>1, <1>4, <2>1, <2>2, <2>3, <2>4 DEF p, q
<1>6. CASE q # None
  <2>1. fulfillment' = [fulfillment EXCEPT ![p][q] = sellerStatus]
    BY <1>3, <1>6 DEF SetStatus
  <2>2. order' = [order EXCEPT ![p] = Aggregate(p, fulfillment'[p], sellerStatus)]
    BY <1>3 DEF SetStatus
  <2>3. Aggregate(p, fulfillment'[p], sellerStatus) \in OrderStatus
    BY <1>1, <1>3, AggregateIsRight
  <2>4. q \in Sellers
    BY <1>2, <1>6
  <2>5. /\ fulfillment' \in [Orders -> [Sellers -> OrderStatus \cup {"none"}]]
        /\ \A o \in Orders, s \in Sellers :
             fulfillment'[o][s] = IF o = p /\ s = q THEN sellerStatus ELSE fulfillment[o][s]
    <3> HIDE DEF p, q
    <3> QED BY <1>1, <1>3, <1>4, <2>1, <2>4
  <2>6. /\ order' \in [Orders -> OrderStatus]
        /\ \A o \in Orders :
             order'[o] = IF o = p THEN Aggregate(o, fulfillment'[o], sellerStatus) ELSE order[o]
    <3> HIDE DEF p, q
    <3> QED BY <1>1, <1>4, <2>2, <2>3
  <2> QED BY <2>5, <2>6
<1> QED BY <1>5, <1>6

\* Moving a parcel together with its seller and order keeps the invariant.
LEMMA ParcelMoves ==
    ASSUME IInv, NEW n \in Shipments, NEW status, NEW sellerStatus,
           Matches(status, sellerStatus), Moves(n, status, sellerStatus)
    PROVE  IInv'
<1> DEFINE p == shipment[n].order
           q == shipment[n].seller
<1>1. p \in Orders /\ q \in Parts(p)
  BY MovedParcel
<1>2. TypeOK'
  BY MovedParcel, MovedStatus DEF TypeOK, IInv, Moves
<1>3. OwnPart'
  <2> SUFFICES ASSUME NEW o \in Orders, NEW s \in Sellers
               PROVE  fulfillment'[o][s] = "none" <=> s \notin SellersOf[o]
    BY DEF OwnPart
  <2>1. CASE o = p /\ s = q
    <3>1. s \in SellersOf[o]
      BY <1>1, <2>1, PartsOfOrder, ShippingAssumption
    <3>2. fulfillment'[o][s] = sellerStatus
      BY <2>1, MovedStatus
    <3> QED BY <3>1, <3>2 DEF Matches, OrderStatus
  <2>2. CASE ~ (o = p /\ s = q)
    <3>1. fulfillment'[o][s] = fulfillment[o][s]
      BY <2>2, MovedStatus
    <3> QED BY <3>1 DEF IInv, OwnPart
  <2> QED BY <2>1, <2>2
<1>4. ASSUME NEW m \in Shipments, Live(shipment'[m])
      PROVE  /\ shipment'[m].order \in Orders
             /\ shipment'[m].seller \in Parts(shipment'[m].order)
             /\ LiveFor(shipment', shipment'[m].order, shipment'[m].seller) = {m}
  <2>1. CASE m = n
    BY <1>1, <1>4, <2>1, MovedParcel, MovedParts
  <2>2. CASE m # n
    <3>1. shipment'[m] = shipment[m]
      BY <2>2, MovedParcel
    <3>2. /\ shipment[m].order \in Orders
          /\ shipment[m].seller \in Parts(shipment[m].order)
          /\ LiveFor(shipment, shipment[m].order, shipment[m].seller) = {m}
      BY <1>4, <3>1, ParcelsNow
    <3>3. ~ (shipment[m].order = p /\ shipment[m].seller = q)
      BY <2>2, <3>2, MovedParcel
    <3> QED BY <3>1, <3>2, <3>3, MovedParts
  <2> QED BY <2>1, <2>2
<1>5. ASSUME NEW o \in Orders, NEW s \in SellersOf[o]
      PROVE  LET parcels == {shipment'[m].status : m \in LiveFor(shipment', o, s)}
             IN /\ fulfillment'[o][s] = "delivered" <=> "delivered" \in parcels
                /\ fulfillment'[o][s] = "shipped" <=> "shipped" \in parcels
                /\ "ready_to_ship" \in parcels => fulfillment'[o][s] = "processing"
  <2>0. s \in Sellers
    BY ShippingAssumption
  <2>1. CASE o = p /\ s = q
    <3>1. fulfillment'[o][s] = sellerStatus
      BY <2>0, <2>1, MovedStatus
    <3>2. LiveFor(shipment', o, s) = IF status = "cancelled" THEN {} ELSE {n}
      BY <2>1, MovedParts
    <3>3. shipment'[n].status = status
      BY MovedParcel
    <3> QED BY <3>1, <3>2, <3>3 DEF Matches
  <2>2. CASE ~ (o = p /\ s = q)
    <3>1. fulfillment'[o][s] = fulfillment[o][s]
      BY <2>0, <2>2, MovedStatus
    <3>2. n \notin LiveFor(shipment, o, s) /\ LiveFor(shipment', o, s) = LiveFor(shipment, o, s)
      BY <2>2, MovedParts
    <3>3. \A m \in LiveFor(shipment, o, s) : shipment'[m] = shipment[m]
      BY <3>2, MovedParcel DEF LiveFor
    <3>4. {shipment'[m].status : m \in LiveFor(shipment', o, s)}
            = {shipment[m].status : m \in LiveFor(shipment, o, s)}
      BY <3>2, <3>3
    <3> QED BY <3>1, <3>4, ParcelsNow
  <2> QED BY <2>1, <2>2
<1>6. OrderFollowsSellers'
  <2> SUFFICES ASSUME NEW o \in Orders, SellersOf[o] # {}
               PROVE  LET all(S) == \A s \in SellersOf[o] : fulfillment'[o][s] \in S
                      IN /\ order'[o] = "delivered" <=> all({"delivered"})
                         /\ order'[o] \in {"shipped", "delivered"} <=> all({"shipped", "delivered"})
                         /\ order'[o] = "paid" => all({"paid"})
    BY DEF OrderFollowsSellers
  <2>1. CASE o = p
    <3>1. order'[o] = Aggregate(o, fulfillment'[o], sellerStatus)
      BY <2>1, MovedStatus
    <3>2. sellerStatus \in OrderStatus
      BY DEF Matches
    <3> QED BY <3>1, <3>2, AggregateIsRight
  <2>2. CASE o # p
    <3>1. order'[o] = order[o]
      BY <2>2, MovedStatus
    <3>2. \A s \in SellersOf[o] : fulfillment'[o][s] = fulfillment[o][s]
      BY <2>2, MovedStatus, ShippingAssumption
    <3> QED BY <3>1, <3>2 DEF IInv, OrderFollowsSellers
  <2> QED BY <2>1, <2>2
<1>7. OneParcelPerPart' /\ SellerFollowsParcel'
  BY <1>4, <1>5, ParcelsNext
<1> QED BY <1>2, <1>3, <1>6, <1>7 DEF IInv

----------------------------------------------------------------------------
(* The steps. *)

\* Requests that are validated or refused change nothing but themselves.
LEMMA RequestsKeepInvariant ==
    ASSUME IInv, NEW o \in Orders, NEW s \in Parts(o),
           RequestShipment(o, s) \/ RefuseShipment(o, s)
    PROVE  IInv'
<1>1. UNCHANGED <<order, fulfillment, shipment>>
  BY DEF RequestShipment, RefuseShipment
<1>2. wanted' \subseteq Orders \X (Sellers \cup {None})
  BY PartsOfOrder DEF IInv, TypeOK, RequestShipment, RefuseShipment, EndRequest
<1>3. TypeOK'
  BY <1>1, <1>2 DEF IInv, TypeOK
<1>4. OwnPart' /\ OrderFollowsSellers'
  BY <1>1 DEF IInv, OwnPart, OrderFollowsSellers
<1>5. OneParcelPerPart' /\ SellerFollowsParcel'
  BY <1>1, ParcelsNow, ParcelsNext
<1> QED BY <1>3, <1>4, <1>5 DEF IInv

\* A new parcel is the only one for its part, and its seller has not shipped.
LEMMA CreateKeepsInvariant ==
    ASSUME IInv, NEW o \in Orders, NEW s \in Parts(o), NEW n \in Shipments,
           CreateShipment(n, o, s)
    PROVE  IInv'
<1> DEFINE row == [order |-> o, seller |-> s, status |-> "pending"]
<1>1. /\ shipment' = [shipment EXCEPT ![n] = row]
      /\ UNCHANGED <<order, fulfillment>>
      /\ wanted' \subseteq wanted
  BY DEF CreateShipment, EndRequest
<1>2. shipment \in [Shipments -> ShipmentRow] /\ s \in Sellers \cup {None}
  BY PartsOfOrder DEF IInv, TypeOK
<1>3. row \in ShipmentRow /\ Live(row)
  BY <1>2 DEF ShipmentRow, ShipmentStatus, Live
<1>4. ~ Live(shipment[n]) /\ LiveFor(shipment, o, s) = {}
  BY DEF CreateShipment, CanShip, ActiveFor, Active, Live, LiveFor
<1> HIDE DEF row
<1>5. /\ shipment' \in [Shipments -> ShipmentRow]
      /\ shipment'[n] = row
      /\ \A m \in Shipments : m # n => shipment'[m] = shipment[m]
  BY <1>1, <1>2, <1>3
<1>6. row.order = o /\ row.seller = s /\ row.status = "pending"
  BY DEF row
<1>7. LiveFor(shipment', o, s) = {n}
  BY <1>3, <1>4, <1>5, <1>6 DEF LiveFor
<1>8. \A p, q : ~ (p = o /\ q = s) =>
            n \notin LiveFor(shipment, p, q) /\ LiveFor(shipment', p, q) = LiveFor(shipment, p, q)
  BY <1>4, <1>5, <1>6 DEF LiveFor
<1>9. TypeOK'
  BY <1>1, <1>5 DEF IInv, TypeOK
<1>10. OwnPart' /\ OrderFollowsSellers'
  BY <1>1 DEF IInv, OwnPart, OrderFollowsSellers
<1>11. ASSUME NEW m \in Shipments, Live(shipment'[m])
       PROVE  /\ shipment'[m].order \in Orders
              /\ shipment'[m].seller \in Parts(shipment'[m].order)
              /\ LiveFor(shipment', shipment'[m].order, shipment'[m].seller) = {m}
  <2>1. CASE m = n
    BY <1>5, <1>6, <1>7, <2>1
  <2>2. CASE m # n
    <3>1. shipment'[m] = shipment[m]
      BY <1>5, <2>2
    <3>2. /\ shipment[m].order \in Orders
          /\ shipment[m].seller \in Parts(shipment[m].order)
          /\ LiveFor(shipment, shipment[m].order, shipment[m].seller) = {m}
      BY <1>11, <3>1, ParcelsNow
    <3>3. ~ (shipment[m].order = o /\ shipment[m].seller = s)
      BY <1>4, <3>2
    <3> QED BY <1>8, <3>1, <3>2, <3>3
  <2> QED BY <2>1, <2>2
<1>12. ASSUME NEW p \in Orders, NEW q \in SellersOf[p]
       PROVE  LET parcels == {shipment'[m].status : m \in LiveFor(shipment', p, q)}
              IN /\ fulfillment'[p][q] = "delivered" <=> "delivered" \in parcels
                 /\ fulfillment'[p][q] = "shipped" <=> "shipped" \in parcels
                 /\ "ready_to_ship" \in parcels => fulfillment'[p][q] = "processing"
  <2>1. CASE p = o /\ q = s
    <3>1. fulfillment[p][q] # "delivered" /\ fulfillment[p][q] # "shipped"
      BY <1>4, <2>1, ParcelsNow
    <3> QED BY <1>1, <1>5, <1>6, <1>7, <2>1, <3>1
  <2>2. CASE ~ (p = o /\ q = s)
    <3>1. n \notin LiveFor(shipment, p, q) /\ LiveFor(shipment', p, q) = LiveFor(shipment, p, q)
      BY <1>8, <2>2
    <3>2. \A m \in LiveFor(shipment, p, q) : shipment'[m] = shipment[m]
      BY <1>5, <3>1 DEF LiveFor
    <3>3. {shipment'[m].status : m \in LiveFor(shipment', p, q)}
            = {shipment[m].status : m \in LiveFor(shipment, p, q)}
      BY <3>1, <3>2
    <3> QED BY <1>1, <3>3, ParcelsNow
  <2> QED BY <2>1, <2>2
<1>13. OneParcelPerPart' /\ SellerFollowsParcel'
  BY <1>11, <1>12, ParcelsNext
<1> QED BY <1>9, <1>10, <1>13 DEF IInv

\* The parcel of an order without items is cancelled alone.
LEMMA CancelWithoutSeller ==
    ASSUME IInv, NEW n \in Shipments, Cancel(n), shipment[n].seller = None
    PROVE  IInv'
<1>1. /\ shipment' = [shipment EXCEPT ![n].status = "cancelled"]
      /\ UNCHANGED <<order, fulfillment, wanted>>
      /\ Live(shipment[n])
  BY DEF Cancel, Live
<1>2. shipment \in [Shipments -> ShipmentRow] /\ shipment[n] \in ShipmentRow
  BY DEF IInv, TypeOK
<1>3. /\ shipment' \in [Shipments -> ShipmentRow]
      /\ shipment'[n].status = "cancelled"
      /\ \A m \in Shipments : m # n => shipment'[m] = shipment[m]
  BY <1>1, <1>2 DEF ShipmentRow, ShipmentStatus
<1>4. LiveFor(shipment, shipment[n].order, shipment[n].seller) = {n}
  BY <1>1, ParcelsNow
<1>5. \A o, s : n \notin LiveFor(shipment, o, s) =>
                    LiveFor(shipment', o, s) = LiveFor(shipment, o, s)
  BY <1>3 DEF LiveFor, Live
<1>6. TypeOK'
  BY <1>1, <1>3 DEF IInv, TypeOK
<1>7. OwnPart' /\ OrderFollowsSellers'
  BY <1>1 DEF IInv, OwnPart, OrderFollowsSellers
<1>8. ASSUME NEW m \in Shipments, Live(shipment'[m])
      PROVE  /\ shipment'[m].order \in Orders
             /\ shipment'[m].seller \in Parts(shipment'[m].order)
             /\ LiveFor(shipment', shipment'[m].order, shipment'[m].seller) = {m}
  <2>1. m # n /\ shipment'[m] = shipment[m]
    BY <1>3, <1>8 DEF Live
  <2>2. /\ shipment[m].order \in Orders
        /\ shipment[m].seller \in Parts(shipment[m].order)
        /\ LiveFor(shipment, shipment[m].order, shipment[m].seller) = {m}
    BY <1>8, <2>1, ParcelsNow
  <2> QED BY <1>5, <2>1, <2>2
<1>9. ASSUME NEW o \in Orders, NEW s \in SellersOf[o]
      PROVE  LET parcels == {shipment'[m].status : m \in LiveFor(shipment', o, s)}
             IN /\ fulfillment'[o][s] = "delivered" <=> "delivered" \in parcels
                /\ fulfillment'[o][s] = "shipped" <=> "shipped" \in parcels
                /\ "ready_to_ship" \in parcels => fulfillment'[o][s] = "processing"
  <2>1. s # None
    BY ShippingAssumption
  <2>2. n \notin LiveFor(shipment, o, s)
    BY <2>1 DEF LiveFor
  <2>3. LiveFor(shipment', o, s) = LiveFor(shipment, o, s)
    BY <1>5, <2>2
  <2>4. \A m \in LiveFor(shipment, o, s) : shipment'[m] = shipment[m]
    BY <1>3, <2>2 DEF LiveFor
  <2>5. {shipment'[m].status : m \in LiveFor(shipment', o, s)}
          = {shipment[m].status : m \in LiveFor(shipment, o, s)}
    BY <2>3, <2>4
  <2> QED BY <1>1, <2>5, ParcelsNow
<1>10. OneParcelPerPart' /\ SellerFollowsParcel'
  BY <1>8, <1>9, ParcelsNext
<1> QED BY <1>6, <1>7, <1>10 DEF IInv

\* Every step of a parcel is a move, or the end of a parcel without a seller.
LEMMA ParcelStepsKeepInvariant ==
    ASSUME IInv, NEW n \in Shipments,
           MarkReady(n) \/ MarkShipped(n) \/ MarkDelivered(n) \/ Cancel(n)
    PROVE  IInv'
<1>1. CASE MarkReady(n)
  <2>1. Matches("ready_to_ship", "processing") /\ Moves(n, "ready_to_ship", "processing")
    BY <1>1 DEF MarkReady, Advance, Matches, Moves, Live, OrderStatus
  <2> QED BY <2>1, ParcelMoves
<1>2. CASE MarkShipped(n)
  <2>1. Matches("shipped", "shipped") /\ Moves(n, "shipped", "shipped")
    BY <1>2 DEF MarkShipped, Advance, Matches, Moves, Live, OrderStatus
  <2> QED BY <2>1, ParcelMoves
<1>3. CASE MarkDelivered(n)
  <2>1. Matches("delivered", "delivered") /\ Moves(n, "delivered", "delivered")
    BY <1>3 DEF MarkDelivered, Advance, Matches, Moves, Live, OrderStatus
  <2> QED BY <2>1, ParcelMoves
<1>4. CASE Cancel(n) /\ shipment[n].seller # None
  <2>1. Matches("cancelled", "paid") /\ Moves(n, "cancelled", "paid")
    BY <1>4 DEF Cancel, Matches, Moves, Live, OrderStatus
  <2> QED BY <2>1, ParcelMoves
<1>5. CASE Cancel(n) /\ shipment[n].seller = None
  BY <1>5, CancelWithoutSeller
<1> QED BY <1>1, <1>2, <1>3, <1>4, <1>5

\* Preparation moves a seller, or an order, from paid to processing.
LEMMA PreparationKeepsInvariant ==
    ASSUME IInv, NEW o \in Orders,
           AdminStart(o) \/ \E s \in Sellers : SellerStart(o, s)
    PROVE  IInv'
<1>1. /\ order \in [Orders -> OrderStatus]
      /\ fulfillment \in [Orders -> [Sellers -> OrderStatus \cup {"none"}]]
  BY DEF IInv, TypeOK
<1>2. UNCHANGED <<shipment, wanted>>
  BY DEF AdminStart, SellerStart
<1>3. CASE AdminStart(o)
  <2>1. /\ order' = [order EXCEPT ![o] = "processing"]
        /\ order[o] = "paid"
        /\ fulfillment' = fulfillment
    BY <1>3 DEF AdminStart
  <2>2. TypeOK'
    BY <1>1, <1>2, <2>1 DEF IInv, TypeOK, OrderStatus
  <2>3. OwnPart'
    BY <2>1 DEF IInv, OwnPart
  <2>4. OneParcelPerPart' /\ SellerFollowsParcel'
    BY <1>2, <2>1, ParcelsNow, ParcelsNext
  <2>5. OrderFollowsSellers'
    BY <1>1, <2>1 DEF IInv, OrderFollowsSellers
  <2> QED BY <2>2, <2>3, <2>4, <2>5 DEF IInv
<1>4. ASSUME NEW s \in Sellers, SellerStart(o, s) PROVE IInv'
  <2>1. /\ fulfillment[o][s] = "paid"
        /\ fulfillment' = [fulfillment EXCEPT ![o][s] = "processing"]
        /\ order' = [order EXCEPT ![o] = IF @ = "paid" THEN "processing" ELSE @]
    BY <1>4 DEF SellerStart
  <2>2. s \in SellersOf[o]
    BY <2>1 DEF IInv, OwnPart
  <2>3. /\ fulfillment' \in [Orders -> [Sellers -> OrderStatus \cup {"none"}]]
        /\ \A p \in Orders, q \in Sellers :
             fulfillment'[p][q] = IF p = o /\ q = s THEN "processing" ELSE fulfillment[p][q]
    BY <1>1, <2>1 DEF OrderStatus
  <2>4. /\ order' \in [Orders -> OrderStatus]
        /\ order'[o] = IF order[o] = "paid" THEN "processing" ELSE order[o]
        /\ \A p \in Orders : p # o => order'[p] = order[p]
    BY <1>1, <2>1 DEF OrderStatus
  <2>5. TypeOK'
    BY <1>2, <2>3, <2>4 DEF IInv, TypeOK
  <2>6. OwnPart'
    BY <2>2, <2>3 DEF IInv, OwnPart
  <2>7. ASSUME NEW p \in Orders, NEW q \in SellersOf[p]
        PROVE  LET parcels == {shipment[m].status : m \in LiveFor(shipment, p, q)}
               IN /\ fulfillment'[p][q] = "delivered" <=> "delivered" \in parcels
                  /\ fulfillment'[p][q] = "shipped" <=> "shipped" \in parcels
                  /\ "ready_to_ship" \in parcels => fulfillment'[p][q] = "processing"
    <3>1. q \in Sellers
      BY ShippingAssumption
    <3> QED BY <2>1, <2>3, <3>1, ParcelsNow
  <2>8. OneParcelPerPart' /\ SellerFollowsParcel'
    BY <1>2, <2>7, ParcelsNow, ParcelsNext
  <2>9. OrderFollowsSellers'
    <3> SUFFICES ASSUME NEW p \in Orders, SellersOf[p] # {}
                 PROVE  LET all(S) == \A q \in SellersOf[p] : fulfillment'[p][q] \in S
                        IN /\ order'[p] = "delivered" <=> all({"delivered"})
                           /\ order'[p] \in {"shipped", "delivered"} <=> all({"shipped", "delivered"})
                           /\ order'[p] = "paid" => all({"paid"})
      BY DEF OrderFollowsSellers
    <3>1. \A q \in SellersOf[p] : q \in Sellers
      BY ShippingAssumption
    <3>2. CASE p = o
      <4>1. order[o] \notin {"shipped", "delivered"}
        BY <2>1, <2>2 DEF IInv, OrderFollowsSellers
      <4>2. order'[o] = "processing"
        BY <1>1, <2>4, <4>1 DEF OrderStatus
      <4>3. fulfillment'[o][s] = "processing"
        BY <2>3
      <4> QED BY <2>2, <3>2, <4>2, <4>3
    <3>3. CASE p # o
      BY <2>3, <2>4, <3>1, <3>3 DEF IInv, OrderFollowsSellers
    <3> QED BY <3>2, <3>3
  <2> QED BY <2>5, <2>6, <2>8, <2>9 DEF IInv
<1> QED BY <1>3, <1>4

\* Every step keeps the invariant.
LEMMA NextKeepsInvariant == IInv /\ [Next]_vars => IInv'
<1> SUFFICES ASSUME IInv, [Next]_vars PROVE IInv'
  OBVIOUS
<1>1. ASSUME NEW o \in Orders, NEW s \in Parts(o),
             RequestShipment(o, s) \/ RefuseShipment(o, s)
      PROVE  IInv'
  BY <1>1, RequestsKeepInvariant
<1>2. ASSUME NEW o \in Orders, NEW s \in Parts(o), NEW n \in Shipments, CreateShipment(n, o, s)
      PROVE  IInv'
  BY <1>2, CreateKeepsInvariant
<1>3. ASSUME NEW n \in Shipments,
             MarkReady(n) \/ MarkShipped(n) \/ MarkDelivered(n) \/ Cancel(n)
      PROVE  IInv'
  BY <1>3, ParcelStepsKeepInvariant
<1>4. ASSUME NEW o \in Orders, AdminStart(o) \/ \E s \in Sellers : SellerStart(o, s)
      PROVE  IInv'
  BY <1>4, PreparationKeepsInvariant
<1>5. CASE UNCHANGED vars
  <2>1. UNCHANGED <<order, fulfillment, shipment, wanted>>
    BY <1>5 DEF vars
  <2>2. TypeOK' /\ OwnPart' /\ OrderFollowsSellers'
    BY <2>1 DEF IInv, TypeOK, OwnPart, OrderFollowsSellers
  <2>3. OneParcelPerPart' /\ SellerFollowsParcel'
    BY <2>1, ParcelsNow, ParcelsNext
  <2> QED BY <2>2, <2>3 DEF IInv
<1> QED BY <1>1, <1>2, <1>3, <1>4, <1>5 DEF Next

\* The invariant holds in every reachable state.
LEMMA Invariant == Spec => []IInv
<1> QED BY InitHolds, NextKeepsInvariant, PTL DEF Spec

----------------------------------------------------------------------------
(* Theorems. *)

\* Orders, sellers' statuses and parcels keep their types.
THEOREM TypesAreCorrect == Spec => []TypeOK
<1>1. IInv => TypeOK
  BY DEF IInv
<1> QED BY <1>1, Invariant, PTL

\* However many requests for a parcel are validated at once, create_from_order
\* never lets a seller's part of an order have two parcels under way.
THEOREM NoSecondParcel == Spec => []OneParcelPerPart
<1>1. IInv => OneParcelPerPart
  BY DEF IInv
<1> QED BY <1>1, Invariant, PTL

\* A seller's fulfillment status is shipped or delivered exactly if the parcel is.
THEOREM SellersFollowParcels == Spec => []SellerFollowsParcel
<1>1. IInv => SellerFollowsParcel
  BY DEF IInv
<1> QED BY <1>1, Invariant, PTL

\* The order's status is what its sellers' statuses say, for any number of them.
THEOREM OrdersFollowSellers == Spec => []OrderFollowsSellers
<1>1. IInv => OrderFollowsSellers
  BY DEF IInv
<1> QED BY <1>1, Invariant, PTL

\* After any number of cancelled parcels, a seller can still deliver.
THEOREM SellersCanShip == Spec => []NoSellerStrands
<1>1. IInv => NoSellerStrands
  <2> SUFFICES ASSUME IInv, NEW o \in Orders, NEW s \in SellersOf[o], ActiveFor(o, s) = {}
               PROVE  Eligible(o, s)
    BY DEF NoSellerStrands
  <2>1. s \in Sellers /\ s \in Parts(o)
    BY ShippingAssumption, PartsOfOrder
  <2>2. fulfillment[o][s] \notin {"shipped", "delivered", "none"}
    BY <2>1 DEF IInv, SellerFollowsParcel, OwnPart
  <2>3. fulfillment[o][s] \in {"paid", "processing"}
    BY <2>1, <2>2 DEF IInv, TypeOK, OrderStatus
  <2>4. order[o] \in {"paid", "processing"}
    BY <2>3 DEF IInv, TypeOK, OrderFollowsSellers, OrderStatus
  <2> QED BY <2>1, <2>3, <2>4 DEF Eligible
<1> QED BY <1>1, Invariant, PTL

\* A parcel that takes a step has not been delivered, nor has its order.
LEMMA StepsBeforeDelivery ==
    ASSUME IInv, NEW n \in Shipments,
           MarkReady(n) \/ MarkShipped(n) \/ MarkDelivered(n) \/ Cancel(n)
    PROVE  /\ \A o \in Orders : order[o] = "delivered" => order'[o] = "delivered"
           /\ \A m \in Shipments :
                shipment[m].status = "delivered" => shipment'[m] = shipment[m]
<1> DEFINE p == shipment[n].order
           q == shipment[n].seller
<1>1. /\ Live(shipment[n]) /\ shipment[n].status # "delivered"
      /\ \E status : shipment' = [shipment EXCEPT ![n].status = status]
      /\ order' = order \/ \E status : order' = [order EXCEPT ![p] = status]
  BY DEF MarkReady, MarkShipped, MarkDelivered, Advance, Cancel, SetStatus, Live
<1>2. shipment \in [Shipments -> ShipmentRow] /\ order \in [Orders -> OrderStatus]
  BY DEF IInv, TypeOK
<1>3. \A m \in Shipments : shipment[m].status = "delivered" => shipment'[m] = shipment[m]
  BY <1>1, <1>2
<1>4. order' = order \/ order[p] # "delivered"
  <2>1. CASE Cancel(n) /\ q # None
    <3>1. p \in Orders /\ q \in Parts(p) /\ LiveFor(shipment, p, q) = {n}
      BY <1>1, ParcelsNow
    <3>2. q \in SellersOf[p]
      BY <2>1, <3>1, PartsOfOrder
    <3>3. fulfillment[p][q] # "delivered"
      <4> HIDE DEF p, q
      <4> QED BY <1>1, <3>1, <3>2, ParcelsNow
    <3> QED BY <3>1, <3>2, <3>3 DEF IInv, OrderFollowsSellers
  <2>2. CASE Cancel(n) /\ q = None
    BY <2>2 DEF Cancel
  <2>3. CASE MarkReady(n) \/ MarkShipped(n) \/ MarkDelivered(n)
    BY <2>3 DEF MarkReady, MarkShipped, MarkDelivered, Advance
  <2> QED BY <2>1, <2>2, <2>3
<1>5. \A o \in Orders : order[o] = "delivered" => order'[o] = "delivered"
  <2> HIDE DEF p
  <2> QED BY <1>1, <1>2, <1>4
<1> QED BY <1>3, <1>5

\* No step takes a delivered order or parcel back.
THEOREM DeliveredForGood == Spec => DeliveryIsFinal
<1>1. IInv /\ [Next]_vars => [KeepsDelivered]_vars
  <2> SUFFICES ASSUME IInv, Next PROVE KeepsDelivered
    OBVIOUS
  <2>1. ASSUME NEW o \in Orders, NEW s \in Parts(o),
               \/ RequestShipment(o, s) \/ RefuseShipment(o, s)
               \/ \E n \in Shipments : CreateShipment(n, o, s)
        PROVE  KeepsDelivered
    BY <2>1 DEF RequestShipment, RefuseShipment, CreateShipment, EndRequest, IInv, TypeOK, KeepsDelivered
  <2>2. ASSUME NEW n \in Shipments,
               MarkReady(n) \/ MarkShipped(n) \/ MarkDelivered(n) \/ Cancel(n)
        PROVE  KeepsDelivered
    BY <2>2, StepsBeforeDelivery DEF KeepsDelivered
  <2>3. ASSUME NEW o \in Orders, AdminStart(o) \/ \E s \in Sellers : SellerStart(o, s)
        PROVE  KeepsDelivered
    BY <2>3 DEF AdminStart, SellerStart, IInv, TypeOK, KeepsDelivered
  <2> QED BY <2>1, <2>2, <2>3 DEF Next
<1> QED BY <1>1, Invariant, PTL DEF Spec, DeliveryIsFinal

\* The three statuses agree after every step and what was delivered stays so.
THEOREM StatusesFollowParcelsAlways == Spec => StatusesFollowParcels
  BY SellersFollowParcels, OrdersFollowSellers, DeliveredForGood, PTL
  DEF StatusesFollowParcels, DeliveryIsFinal
=============================================================================
