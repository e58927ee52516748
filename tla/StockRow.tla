------------------------------ MODULE StockRow ------------------------------
(***************************************************************************)
(* One row of the Stock table: the units of a product that lie in one      *)
(* warehouse and how many of them are promised to unpaid orders.  Every    *)
(* operation of the code takes the row with SELECT ... FOR UPDATE, checks, *)
(* writes and commits, so an operation is a guard (Can...) and the new row *)
(* that replaces the old one.                                              *)
(***************************************************************************)
EXTENDS Integers

\* The largest value a PositiveIntegerField column holds.
CONSTANT MaxStock

ASSUME MaxStockAssumption == MaxStock \in Nat

Row == [quantity : 0..MaxStock, reserved : 0..MaxStock]

\* get_or_create inserts the missing row of a product and warehouse empty.
EmptyRow == [quantity |-> 0, reserved |-> 0]

Available(row) == row.quantity - row.reserved

\* Mutant: units already promised are promised again.
MutCanReserve(row, q) == q > 0 /\ row.quantity >= q

CanReserve(row, q) == q > 0 /\ Available(row) >= q
Reserve(row, q) == [row EXCEPT !.reserved = @ + q]

CanRelease(row, q) == q > 0 /\ row.reserved >= q
Release(row, q) == [row EXCEPT !.reserved = @ - q]

\* A StockMovement of d units, positive in and negative out.
CanMove(row, d) ==
    /\ d # 0
    /\ row.quantity + d \in 0..MaxStock
    /\ row.reserved <= row.quantity + d
Move(row, d) == [row EXCEPT !.quantity = @ + d]

\* Mutant: the units are released but do not leave.
MutSell(row, q) == Release(row, q)

\* A payment sells reserved units: their release and a movement out.
CanSell(row, q) == CanRelease(row, q) /\ CanMove(Release(row, q), -q)
Sell(row, q) == Move(Release(row, q), -q)

\* The check constraint stock_reserved_lte_quantity.
RowConsistent(row) == row.reserved <= row.quantity
=============================================================================
