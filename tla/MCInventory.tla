---------------------------- MODULE MCInventory -----------------------------
(* One product in two warehouses, one order, one transfer, two members of    *)
(* staff: one works in both warehouses, one in the second only.              *)
EXTENDS Inventory, TLC

CONSTANTS p1, s1, w1, w2, a, b

MCSellerOf == p1 :> s1
MCMemberOf == a :> {w1, w2} @@ b :> {w2}

Symmetry == Permutations(Payments)
=============================================================================
