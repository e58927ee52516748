------------------------------ MODULE MCFigures ------------------------------
(***************************************************************************)
(* The rows about money and those of each other table change independently *)
(* and no figure relates them: a run takes the steps of one of these.  Nor  *)
(* does any relate refunds to what becomes of an order besides: parcels,   *)
(* cancellations and failed attempts have a part of their own, without      *)
(* refunds.                                                                *)
(***************************************************************************)
EXTENDS Figures, TLC

VARIABLE part     \* what changes: money, orders or the rows of one table

TwoItems ==
    {[order |-> "o1", product |-> "x", gross |-> 2, discount |-> 1],
     [order |-> "o1", product |-> "y", gross |-> 1, discount |-> 0]}
OneFee == [o \in {"o1"} |-> 1]
FewRows ==
    [table : DOMAIN Statuses, group : {"first"}, amount : {1}]
        \cup [table : {"user", "review", "return"}, group : {"second"}, amount : {2}]

ShortMonths == <<3, 3>>
ShortPeriods == [week |-> 1, month |-> 2, year |-> 2]

MCInit == FigureInit /\ part \in {"money", "orders"} \cup DOMAIN Statuses

\* One product changes hands, the other stays with its seller.
OneMoves == owner'["y"] = owner["y"]

\* Steps left to the part without refunds.
Ended == {"failed", "cancelled"}
Aside ==
    \/ \E o \in Orders : order'[o].status \in {"processing", "shipped", "delivered", "cancelled"}
    \/ \E p \in Attempts : payment[p].status \notin Ended /\ payment'[p].status \in Ended
                           /\ ~order'[payment[p].order].paid

\* Refunds bear the first time or the last.
Dated == \A r \in refund' \ refund : r.at \in {0, LastInstant}

MCNext ==
    /\ UNCHANGED part
    /\ \/ PassTime
       \/ part = "money" /\ MoneyStep /\ ~Aside
       \/ part = "orders" /\ MoneyStep /\ refund' = {}
       \/ part \in DOMAIN Statuses /\ EntryStep(part)
    /\ OneMoves
    /\ Dated

MCSpec == MCInit /\ [][MCNext]_<<part, figureVars>>

Symmetry == Permutations(Sellers) \cup Permutations(Providers) \cup Permutations(Attempts)
=============================================================================
