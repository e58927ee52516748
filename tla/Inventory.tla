----------------------------- MODULE Inventory ------------------------------
(***************************************************************************)
(* The inventory application around the order life cycle: transfers        *)
(* between warehouses, and the stock endpoint that edits the location and  *)
(* threshold of a row.  A transfer moves units through StockMovement like  *)
(* every other operation.  The edit is the one writer of the Stock table   *)
(* that does not lock: it reads the whole row, and saves the whole row     *)
(* when the request ends.                                                  *)
(***************************************************************************)
EXTENDS Commerce

CONSTANTS
    Staff,       \* users who work on transfers
    MemberOf,    \* the warehouses each of them is an active member of
    Transfers,   \* ids of transfer rows
    MaxTransfer, \* bound: units in one transfer
    MaxEdits     \* bound: PATCH /stocks/ requests in a behaviour

ASSUME InventoryAssumption ==
    /\ MemberOf \in [Staff -> SUBSET Warehouses]
    /\ MaxTransfer \in Nat /\ MaxEdits \in Nat
    /\ None \notin Staff /\ None \notin Products
    /\ IsFiniteSet(Warehouses) /\ IsFiniteSet(Transfers)

VARIABLES
    transfer,      \* StockTransfer
    transferred,   \* the part of the ledger that transfers wrote
    edit,          \* a PATCH /stocks/ request under way: the row it has read
    edits          \* how many there were

ownVars == <<transfer, transferred, edit, edits>>
allVars == <<vars, ownVars>>

TransferStatus ==
    {"none", "pending", "approved", "in_transit", "completed", "cancelled"}

TransferRow ==
    [status : TransferStatus, product : Products \cup {None},
     from : Warehouses \cup {None}, to : Warehouses \cup {None},
     quantity : 0..MaxTransfer,
     requested_by : Staff \cup {None}, approved_by : Staff \cup {None}]

NoTransfer ==
    [status |-> "none", product |-> None, from |-> None, to |-> None,
     quantity |-> 0, requested_by |-> None, approved_by |-> None]

Edit == [product : Products, warehouse : Warehouses, row : Row]

InventoryInit ==
    /\ Init
    /\ transfer = [t \in Transfers |-> NoTransfer]
    /\ transferred = [p \in Products |-> [w \in Warehouses |-> 0]]
    /\ edit = None /\ edits = 0

----------------------------------------------------------------------------
(* Transfers. *)

\* POST /transfers/.  The availability it looks at is advice: nothing is
\* reserved for the transfer.
CreateTransfer(t, u, p, from, to, q) ==
    /\ transfer[t].status = "none"
    /\ from # to /\ warehouse[from] = "active" /\ warehouse[to] = "active"
    /\ Available(stock[p][from]) >= q
    /\ transfer' = [transfer EXCEPT ![t] =
            [status |-> "pending", product |-> p, from |-> from, to |-> to,
             quantity |-> q, requested_by |-> u, approved_by |-> None]]
    /\ UNCHANGED <<vars, transferred, edit, edits>>

\* StockTransfer.approve.
Approve(t, u) ==
    /\ transfer[t].status = "pending"
    /\ transfer[t].requested_by # u
    /\ transfer' = [transfer EXCEPT ![t].status = "approved", ![t].approved_by = u]
    /\ UNCHANGED <<vars, transferred, edit, edits>>

\* A movement of d units that a transfer writes in warehouse w.
Leg(t, w, d) ==
    LET p == transfer[t].product
    IN /\ RecordMovement(p, w, d)
       /\ transferred' = [transferred EXCEPT ![p][w] = @ + d]

\* StockTransfer.ship: the units leave the source.
Ship(t, u) ==
    /\ transfer[t].status = "approved"
    /\ transfer[t].from \in MemberOf[u]
    /\ Leg(t, transfer[t].from, - transfer[t].quantity)
    /\ transfer' = [transfer EXCEPT ![t].status = "in_transit"]
    /\ UNCHANGED <<edit, edits>>

\* Mutant: the status is not looked at again under the lock, so that a second
\* request receives the units once more.
MutReceive(t, u) ==
    /\ transfer[t].status \in {"in_transit", "completed"}
    /\ transfer[t].to \in MemberOf[u]
    /\ Leg(t, transfer[t].to, transfer[t].quantity)
    /\ transfer' = [transfer EXCEPT ![t].status = "completed"]
    /\ UNCHANGED <<edit, edits>>

\* StockTransfer.receive: the units arrive at the destination.
Receive(t, u) ==
    /\ transfer[t].status = "in_transit"
    /\ transfer[t].to \in MemberOf[u]
    /\ Leg(t, transfer[t].to, transfer[t].quantity)
    /\ transfer' = [transfer EXCEPT ![t].status = "completed"]
    /\ UNCHANGED <<edit, edits>>

\* StockTransfer.cancel.
CancelTransfer(t, u) ==
    /\ transfer[t].status \in {"pending", "approved"}
    /\ transfer[t].requested_by # u
    /\ transfer' = [transfer EXCEPT ![t].status = "cancelled"]
    /\ UNCHANGED <<vars, transferred, edit, edits>>

\* DELETE /warehouses/<w>/ takes the transfers from and to it along.
DeleteWarehouseAndTransfers(w) ==
    /\ DeleteWarehouse(w)
    /\ transfer' = [t \in Transfers |->
            IF w \in {transfer[t].from, transfer[t].to} THEN NoTransfer ELSE transfer[t]]
    /\ transferred' = [p \in Products |-> [transferred[p] EXCEPT ![w] = 0]]
    /\ UNCHANGED <<edit, edits>>

----------------------------------------------------------------------------
(* PATCH /stocks/<row>/ of location or threshold. *)

\* get_object reads the row, without a lock.
BeginEdit(p, w) ==
    /\ edit = None /\ edits < MaxEdits
    /\ edits' = edits + 1
    /\ warehouse[w] # "deleted"
    /\ edit' = [product |-> p, warehouse |-> w, row |-> stock[p][w]]
    /\ UNCHANGED <<vars, transfer, transferred>>

\* serializer.save writes every column of the row it read, the quantities
\* included; the insert of a row whose warehouse is gone fails.
SaveEdit ==
    /\ edit # None
    /\ stock' = IF warehouse[edit.warehouse] = "deleted" THEN stock
                ELSE [stock EXCEPT ![edit.product][edit.warehouse] = edit.row]
    /\ edit' = None
    /\ UNCHANGED <<ledger, warehouse, order, fulfillment, payment, usedCount,
                   transfer, transferred, edits>>

----------------------------------------------------------------------------
TransferNext ==
    \/ \E t \in Transfers, u \in Staff, p \in Products, from, to \in Warehouses :
            \E q \in 1..MaxTransfer : CreateTransfer(t, u, p, from, to, q)
    \/ \E t \in Transfers, u \in Staff :
            Approve(t, u) \/ Ship(t, u) \/ Receive(t, u) \/ CancelTransfer(t, u)

EditNext == SaveEdit \/ \E p \in Products, w \in Warehouses : BeginEdit(p, w)

\* The steps of Commerce that leave transfers and edits alone.
ShopNext ==
    /\ \/ CheckoutNext \/ OrderNext \/ PaymentNext
       \/ \E p \in Products, w \in Warehouses, d \in (-MaxStock)..MaxStock : RecordMovement(p, w, d)
       \/ \E w \in Warehouses, status \in {"active", "inactive"} : SetWarehouseActive(w, status)
    /\ UNCHANGED ownVars

AllNext ==
    \/ ShopNext
    \/ TransferNext
    \/ EditNext
    \/ \E w \in Warehouses : DeleteWarehouseAndTransfers(w)

InventorySpec == InventoryInit /\ [][AllNext]_allVars

----------------------------------------------------------------------------
(* Properties. *)

InventoryTypeOK ==
    /\ TypeOK
    /\ transfer \in [Transfers -> TransferRow]
    /\ transferred \in [Products -> [Warehouses -> Int]]
    /\ edit \in Edit \cup {None} /\ edits \in 0..MaxEdits

\* Units of p that each transfer has on the way.
Carried(p) ==
    [t \in Transfers |->
        IF transfer[t].product = p /\ transfer[t].status = "in_transit"
        THEN transfer[t].quantity ELSE 0]

InTransit(p) == SumFunctionOnSet(Carried(p), Transfers)

\* While no warehouse is deleted, transfers neither make nor lose units: what
\* they took out of all warehouses and did not bring in yet is in transit,
\* whatever is paid, cancelled, corrected or edited in between.  Every row keeps its
\* type, so nothing takes more out of a stock row than is in it.
TransfersConserveUnits ==
    /\ InventoryTypeOK
    /\ (\A w \in Warehouses : warehouse[w] # "deleted") =>
           \A p \in Products :
               SumFunctionOnSet(transferred[p], Warehouses) = - InTransit(p)

\* Orders and payments stand in spite of lost stock updates: an order is still
\* paid at most once, and the sale movements are still its items.
SalesSurviveEdits ==
    /\ PaidExactlyOnce
    /\ \A p \in Products, w \in Warehouses :
            ledger[p][w].sale = - Claimed(PaidOrders, p, w)

\* "Every inventory change must be recorded here" (StockMovement) and the
\* quantities of a stock record "cannot be edited directly" (StockSerializer):
\* the movements of a row add up to its quantity.  An edit that saves a row it
\* read before a movement undoes the movement's effect and keeps its record.
QuantityIsRecorded ==
    \A p \in Products, w \in Warehouses :
        stock[p][w].quantity = ledger[p][w].other + ledger[p][w].sale
=============================================================================
