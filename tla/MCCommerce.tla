----------------------------- MODULE MCCommerce -----------------------------
(* A shop small enough to explore: two sellers with one product each. *)
EXTENDS Commerce, TLC

CONSTANTS p1, p2, s1, s2

MCSellerOf == p1 :> s1 @@ p2 :> s2

Symmetry ==
    UNION {Permutations(S) : S \in {Orders, Payments, Users, Warehouses}}
=============================================================================
