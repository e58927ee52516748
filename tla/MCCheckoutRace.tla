--------------------------- MODULE MCCheckoutRace ---------------------------
(* Two users whose carts list the same two products in opposite order; the   *)
(* first sends its checkout twice.                                           *)
EXTENDS CheckoutRace, TLC

CONSTANTS u1, u2, p1, p2, r1, r2, r3

MCUserOf == r1 :> u1 @@ r2 :> u1 @@ r3 :> u2
MCCartOrder == u1 :> (p1 :> 1 @@ p2 :> 2) @@ u2 :> (p1 :> 2 @@ p2 :> 1)
MCFirstCart == u1 :> (p1 :> 1 @@ p2 :> 1) @@ u2 :> (p1 :> 1 @@ p2 :> 1)
MCMaxChanges == u1 :> 3 @@ u2 :> 0
MCPrice == p1 :> 1 @@ p2 :> 3
MCQuantity == p1 :> 2 @@ p2 :> 1
=============================================================================
