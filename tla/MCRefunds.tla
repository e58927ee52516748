----------------------------- MODULE MCRefunds ------------------------------
(* An order of two items by two sellers.  A discount makes the first cheaper *)
(* than its price.                                                           *)
EXTENDS Refunds, TLC

CONSTANTS o1, o2, a, b, s1, s2

MCOrderOf == a :> o1 @@ b :> o1
MCSellerOf == a :> s1 @@ b :> s2
MCBought == a :> 2 @@ b :> 1
MCUnitPrice == a :> 2 @@ b :> 1
MCNet == a :> 2 @@ b :> 1
MCFees == a :> 0 @@ b :> 1
MCPayable == a :> 1 @@ b :> 1

\* RefundKeys are not alike, nor PayoutKeys: one of each is dated ahead.
Symmetry ==
    Permutations(Returns) \cup Permutations(PayoutKeys \ Ahead) \cup Permutations(References)
=============================================================================
