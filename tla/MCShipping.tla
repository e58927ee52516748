----------------------------- MODULE MCShipping -----------------------------
(* An order of two sellers and an order without items.                       *)
EXTENDS Shipping, TLC

CONSTANTS o1, o2, s1, s2

MCSellersOf == o1 :> {s1, s2} @@ o2 :> {}

Symmetry == Permutations(Shipments) \cup Permutations(Sellers)
=============================================================================
