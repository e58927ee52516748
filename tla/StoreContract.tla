--------------------------- MODULE StoreContract ----------------------------
(***************************************************************************)
(* What the shop promises about orders, units and money, without a word on *)
(* reservation counters, payment attempts, sellers or discounts: an open   *)
(* order can always have the units it was promised, an order is paid once  *)
(* and its units leave once, and a cancelled order gives its units back.   *)
(* Commerce implements it, and so does the checkout of CheckoutRace, which *)
(* takes several statements.                                               *)
(***************************************************************************)
EXTENDS Integers, FiniteSets, Functions

CONSTANTS Products, Warehouses, Orders, Payments, MaxItemQty, MaxStock, None

VARIABLES
    onHand,   \* units of each product that lie in each warehouse
    phase,    \* what has become of each order
    basket,   \* units of each product an order is for
    place,    \* the warehouse each of them comes from
    paidBy    \* the payment that paid an order

vars == <<onHand, phase, basket, place, paidBy>>

Units(o, p, w) == IF place[o][p] = w THEN basket[o][p] ELSE 0

\* Units in a warehouse that open orders were promised.
Promised(p, w) ==
    SumFunctionOnSet([o \in Orders |-> Units(o, p, w)], {o \in Orders : phase[o] = "open"})

Init ==
    /\ onHand = [p \in Products |-> [w \in Warehouses |-> 0]]
    /\ phase = [o \in Orders |-> "none"]
    /\ basket = [o \in Orders |-> [p \in Products |-> 0]]
    /\ place = [o \in Orders |-> [p \in Products |-> None]]
    /\ paidBy = [o \in Orders |-> None]

\* Units come in or go out, never those an open order was promised.
Restock(p, w, n) ==
    /\ n >= Promised(p, w)
    /\ onHand' = [onHand EXCEPT ![p][w] = n]
    /\ UNCHANGED <<phase, basket, place, paidBy>>

\* An order is accepted when the units nobody else was promised cover it.
Open(o, units, from) ==
    /\ phase[o] = "none"
    /\ \E p \in Products : units[p] > 0
    /\ \A p \in Products : units[p] > 0 =>
        /\ from[p] \in Warehouses
        /\ onHand[p][from[p]] - Promised(p, from[p]) >= units[p]
    /\ phase' = [phase EXCEPT ![o] = "open"]
    /\ basket' = [basket EXCEPT ![o] = units]
    /\ place' = [place EXCEPT ![o] = from]
    /\ UNCHANGED <<onHand, paidBy>>

\* One payment pays for one order, whose units leave the shop.
Pay(o, m) ==
    /\ phase[o] = "open"
    /\ \A p \in Products : basket[o][p] > 0 => place[o][p] \in Warehouses
    /\ \A other \in Orders : paidBy[other] # m
    /\ phase' = [phase EXCEPT ![o] = "paid"]
    /\ paidBy' = [paidBy EXCEPT ![o] = m]
    /\ onHand' = [p \in Products |-> [w \in Warehouses |-> onHand[p][w] - Units(o, p, w)]]
    /\ UNCHANGED <<basket, place>>

\* A cancelled order is promised nothing any more.
Release(o) ==
    /\ phase[o] = "open"
    /\ phase' = [phase EXCEPT ![o] = "released"]
    /\ UNCHANGED <<onHand, basket, place, paidBy>>

\* A warehouse is closed down: its units are gone, also for open orders.
Forget(w) ==
    /\ onHand' = [p \in Products |-> [onHand[p] EXCEPT ![w] = 0]]
    /\ place' = [o \in Orders |-> [p \in Products |-> IF place[o][p] = w THEN None ELSE place[o][p]]]
    /\ UNCHANGED <<phase, basket, paidBy>>

Next ==
    \/ \E p \in Products, w \in Warehouses, n \in 0..MaxStock : Restock(p, w, n)
    \/ \E o \in Orders, units \in [Products -> 0..MaxItemQty],
         from \in [Products -> Warehouses \cup {None}] : Open(o, units, from)
    \/ \E o \in Orders, m \in Payments : Pay(o, m)
    \/ \E o \in Orders : Release(o)
    \/ \E w \in Warehouses : Forget(w)

Spec == Init /\ [][Next]_vars
=============================================================================
