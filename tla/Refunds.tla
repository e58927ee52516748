------------------------------ MODULE Refunds -------------------------------
(***************************************************************************)
(* Money after the sale: returns, the refunds a processor has confirmed,   *)
(* and the ledger that credits sellers for captured payments, debits them  *)
(* for refunds and pays them out.  The ledger is on                        *)
(* (SETTLEMENTS_LEDGER_ENABLED), and all amounts are cents of one currency.*)
(*                                                                         *)
(* Confirmations arrive signed, from outside, and as often as the sender   *)
(* likes.  A handler is one transaction that locks the order, the payment, *)
(* the return or the seller it decides about, so it is one action.  One    *)
(* that is refused, or that repeats what was recorded under its key,       *)
(* changes nothing and is no step.                                         *)
(***************************************************************************)
EXTENDS Integers, FiniteSets, Functions

CONSTANTS
    Orders, Items, Sellers,
    OrderOf, SellerOf,   \* of each item
    Bought, UnitPrice,   \* of each item
    Net,                 \* ItemAllocation.merchandise_net: price less discount
    Fees,                \* ItemAllocation.shipping and tax, which are treated alike
    Payable,             \* ItemAllocation.seller_payable: Net less commission
    Returns,             \* ids of return requests
    RefundKeys,          \* idempotency keys of refund confirmations
    PayoutKeys,          \* idempotency keys of payout confirmations
    Ahead,               \* keys of confirmations dated later than the server's clock
    References,          \* references the processor or bank gives
    None

ASSUME RefundsAssumption ==
    /\ OrderOf \in [Items -> Orders] /\ SellerOf \in [Items -> Sellers]
    /\ \A f \in {Bought, UnitPrice, Net, Fees, Payable} : f \in [Items -> Nat]
    /\ \A i \in Items : Payable[i] <= Net[i] /\ Net[i] <= Bought[i] * UnitPrice[i]
    /\ None \notin Orders /\ None \notin Returns /\ None \notin Sellers
    /\ None \notin References
    /\ Ahead \subseteq RefundKeys \cup PayoutKeys
    /\ RefundKeys \cap PayoutKeys = {}
    /\ IsFiniteSet(Items) /\ IsFiniteSet(Returns)
    /\ IsFiniteSet(RefundKeys) /\ IsFiniteSet(PayoutKeys)

VARIABLES
    payment,    \* status of the payment of each order
    delivery,   \* order -> seller: not delivered, within or past the hold period
    return,     \* ReturnRequest and its ReturnItem rows
    sale,       \* SellerLedgerEntry of kind sale: the credit for each item
    refund,     \* ConfirmedRefund, its RefundAllocation rows and ledger debits
    payout      \* ConfirmedPayout and its ledger debit

vars == <<payment, delivery, return, sale, refund, payout>>

Amounts == [Items -> Nat]
Zero == [i \in Items |-> 0]

Total(amounts) == SumFunctionOnSet(amounts, Items)

ItemsOf(o) == {i \in Items : OrderOf[i] = o}

ReturnStatus ==
    {"none", "submitted", "approved", "rejected", "cancelled", "item_received", "refunded"}

ReturnRow ==
    [order : Orders \cup {None}, status : ReturnStatus,
     quantity : Amounts, approved : Amounts, total : Nat]

RefundRow ==
    [order : Orders \cup {None}, return : Returns \cup {None},
     reference : References \cup {None},
     merchandise : Amounts, fees : Amounts, debit : Amounts]

PayoutRow ==
    [seller : Sellers \cup {None}, reference : References \cup {None}, amount : Nat]

NoReturn == [order |-> None, status |-> "none", quantity |-> Zero, approved |-> Zero, total |-> 0]
NoRefund ==
    [order |-> None, return |-> None, reference |-> None,
     merchandise |-> Zero, fees |-> Zero, debit |-> Zero]
NoPayout == [seller |-> None, reference |-> None, amount |-> 0]

Init ==
    /\ payment = [o \in Orders |-> "pending"]
    /\ delivery = [o \in Orders |-> [s \in Sellers |-> "no"]]
    /\ return = [r \in Returns |-> NoReturn]
    /\ sale = Zero
    /\ refund = [k \in RefundKeys |-> NoRefund]
    /\ payout = [k \in PayoutKeys |-> NoPayout]

----------------------------------------------------------------------------
(* What the handlers add up. *)

\* What customers have paid for an order.
Paid(o) == SumFunctionOnSet([i \in Items |-> Net[i] + Fees[i]], ItemsOf(o))

RefundsOf(o) == {k \in RefundKeys : refund[k].order = o}
RefundsOn(r) == {k \in RefundKeys : refund[k].return = r}

Merchandise(S, i) == SumFunctionOnSet([k \in RefundKeys |-> refund[k].merchandise[i]], S)
FeesBack(S, i) == SumFunctionOnSet([k \in RefundKeys |-> refund[k].fees[i]], S)
Debited(i) == SumFunctionOnSet([k \in RefundKeys |-> refund[k].debit[i]], RefundKeys)

\* What a set of refunds has given back, for an item and in all.
Given(S, i) == Merchandise(S, i) + FeesBack(S, i)
GivenBack(S) == Total([i \in Items |-> Given(S, i)])

OwnItems(s) == {i \in Items : SellerOf[i] = s}
Credits(I) == SumFunctionOnSet(sale, I)

\* The refund and payout debits of a seller that were confirmed under the given keys.
Debits(s, keys) ==
    SumFunctionOnSet([k \in RefundKeys |-> SumFunctionOnSet(refund[k].debit, OwnItems(s))],
                     RefundKeys \cap keys)
    + SumFunctionOnSet([k \in PayoutKeys |-> payout[k].amount],
                       {k \in PayoutKeys \cap keys : payout[k].seller = s})

AllKeys == RefundKeys \cup PayoutKeys

\* seller_balance.
Balance(s) == Credits(OwnItems(s)) - Debits(s, AllKeys)

----------------------------------------------------------------------------
(* Capture and delivery. *)

\* post_captured_payment: credits that are in the ledger are not posted again.
Posted(o) ==
    [i \in Items |-> IF i \in ItemsOf(o) /\ sale[i] = 0 THEN Payable[i] ELSE sale[i]]

\* A capture confirmation, the first or a repeated one.
Capture(o) ==
    /\ payment' = [payment EXCEPT ![o] = IF @ = "pending" THEN "success" ELSE @]
    /\ sale' = Posted(o)
    /\ UNCHANGED <<delivery, return, refund, payout>>

\* The seller's parcel arrives (Shipping), and later the hold period passes.
Deliver(o, s) ==
    /\ payment[o] # "pending"
    /\ \E i \in ItemsOf(o) : SellerOf[i] = s
    /\ delivery[o][s] # "released"
    /\ delivery' = [delivery EXCEPT ![o][s] = IF @ = "no" THEN "held" ELSE "released"]
    /\ UNCHANGED <<payment, return, sale, refund, payout>>

----------------------------------------------------------------------------
(* Returns. *)

\* get_already_returned_quantity.
Returned(i) ==
    SumFunctionOnSet([r \in Returns |-> return[r].quantity[i]],
                     {r \in Returns : return[r].status \notin {"rejected", "cancelled"}})

\* create_return_request.
Submit(r, o, quantity) ==
    /\ return[r].status = "none"
    /\ payment[o] # "pending"
    /\ quantity # Zero
    /\ \A i \in Items : quantity[i] > 0 =>
        /\ OrderOf[i] = o
        /\ delivery[o][SellerOf[i]] # "no"
        /\ quantity[i] <= Bought[i] - Returned(i)
    /\ return' = [return EXCEPT ![r] =
            [NoReturn EXCEPT !.order = o, !.status = "submitted", !.quantity = quantity]]
    /\ UNCHANGED <<payment, delivery, sale, refund, payout>>

SetReturn(r, from, status) ==
    /\ return[r].status = from
    /\ return' = [return EXCEPT ![r].status = status]
    /\ UNCHANGED <<payment, delivery, sale, refund, payout>>

CancelReturn(r) == SetReturn(r, "submitted", "cancelled")
Reject(r) == SetReturn(r, "submitted", "rejected")

ReceiveItem(r) == SetReturn(r, "approved", "item_received")

Requested(r) == [i \in Items |-> return[r].quantity[i] * UnitPrice[i]]

\* An approved amount by item: in proportion and rounded down, the rest for
\* the last item.
Split(amount, requested, last) ==
    LET share == [i \in Items |-> IF requested[i] = 0 \/ i = last THEN 0
                                  ELSE (amount * requested[i]) \div Total(requested)]
    IN [share EXCEPT ![last] = amount - Total(share)]

\* approve_return_request.  The last item is the last the customer named.
Approve(r, amount, last) ==
    LET requested == Requested(r)
    IN /\ return[r].status = "submitted"
       /\ amount <= Total(requested)
       /\ requested[last] > 0 \/ Total(requested) = 0
       /\ return' = [return EXCEPT ![r].status = "approved", ![r].total = amount,
                                   ![r].approved = Split(amount, requested, last)]
       /\ UNCHANGED <<payment, delivery, sale, refund, payout>>

\* Mutant: any confirmed refund will do.
MutMarkRefunded(r) ==
    /\ return[r].total > 0 => GivenBack(RefundsOn(r)) > 0
    /\ SetReturn(r, "item_received", "refunded")

\* mark_return_refunded: only with proof of the whole amount.
MarkRefunded(r) ==
    /\ GivenBack(RefundsOn(r)) >= return[r].total
    /\ SetReturn(r, "item_received", "refunded")

----------------------------------------------------------------------------
(* Confirmed refunds. *)

\* a * b / c to the nearest cent, halves up.
Rounded(a, b, c) == (2 * a * b + c) \div (2 * c)

Least(a, b) == IF a <= b THEN a ELSE b

\* Mutant: the last refund is rounded like the others.
MutDebit(i, merchandise) ==
    IF Net[i] = 0 THEN 0 ELSE Rounded(Payable[i], merchandise, Net[i])

\* What a refund of merchandise takes back from the seller of i: in proportion,
\* and all that is left with the last of it.
Debit(i, merchandise) ==
    LET left == Payable[i] - Debited(i)
    IN IF Net[i] = 0 THEN 0
       ELSE IF Merchandise(RefundKeys, i) + merchandise = Net[i] THEN left
       ELSE Least(Rounded(Payable[i], merchandise, Net[i]), left)

\* Mutant: refunds on other returns are not counted.
MutRefundable(r, i, merchandise, fees) ==
    /\ Merchandise(RefundsOn(r), i) + merchandise <= Net[i]
    /\ FeesBack(RefundsOn(r), i) + fees <= Fees[i]
    /\ Given(RefundsOn(r), i) + merchandise + fees <= return[r].approved[i]

\* A line gives back no more than was charged for the item, nor more than was
\* approved for it on this return.
Refundable(r, i, merchandise, fees) ==
    /\ Merchandise(RefundKeys, i) + merchandise <= Net[i]
    /\ FeesBack(RefundKeys, i) + fees <= Fees[i]
    /\ Given(RefundsOn(r), i) + merchandise + fees <= return[r].approved[i]

\* post_verified_refund.
PostRefund(k, g, r, merchandise, fees) ==
    LET o == return[r].order
        lines == {i \in Items : merchandise[i] + fees[i] > 0}
        row == [order |-> o, return |-> r, reference |-> g,
                merchandise |-> merchandise, fees |-> fees,
                debit |-> [i \in Items |-> IF i \in lines THEN Debit(i, merchandise[i]) ELSE 0]]
        given == GivenBack(RefundsOf(o)) + Total(merchandise) + Total(fees)
    IN /\ refund[k] = NoRefund
       /\ \A other \in RefundsOf(o) : refund[other].reference # g
       /\ return[r].status \in {"approved", "item_received"}
       /\ lines # {}
       /\ given <= Paid(o)
       /\ \A i \in lines :
            /\ return[r].quantity[i] > 0
            /\ Payable[i] > 0 => sale[i] > 0
            /\ Refundable(r, i, merchandise[i], fees[i])
       /\ refund' = [refund EXCEPT ![k] = row]
       /\ payment' = [payment EXCEPT ![o] = IF given = Paid(o) THEN "refunded" ELSE @]
       /\ UNCHANGED <<delivery, return, sale, payout>>

----------------------------------------------------------------------------
(* Payouts. *)

OpenReturn(i) ==
    \E r \in Returns :
        return[r].quantity[i] > 0 /\ return[r].status \in {"submitted", "approved", "item_received"}

\* Mutant: credits of items that are still within the hold period are paid out.
MutReleased(s) == {i \in OwnItems(s) : delivery[OrderOf[i]][s] # "no" /\ ~ OpenReturn(i)}

\* Items whose credit may be paid out: delivered long enough ago, no open return.
Released(s) == {i \in OwnItems(s) : delivery[OrderOf[i]][s] = "released" /\ ~ OpenReturn(i)}

\* Mutant: the balance of the whole ledger is not looked at.
MutWithdrawable(s) == Credits(Released(s)) - Debits(s, AllKeys \ Ahead)

\* payout_eligibility: a debit counts from the date of its confirmation.
Withdrawable(s) ==
    Least(Balance(s), Credits(Released(s)) - Debits(s, AllKeys \ Ahead))

\* post_confirmed_payout.
PostPayout(k, g, s, amount) ==
    /\ payout[k] = NoPayout
    /\ \A other \in PayoutKeys : payout[other].reference # g
    /\ amount > 0
    /\ amount <= Withdrawable(s)
    /\ payout' = [payout EXCEPT ![k] = [seller |-> s, reference |-> g, amount |-> amount]]
    /\ UNCHANGED <<payment, delivery, return, sale, refund>>

----------------------------------------------------------------------------
(* What the financial audit reports (reconciliation_report), as far as the  *)
(* tables of the model could ever show it.                                  *)

\* captured_allocations_missing_sale_credit.
MissingCredit(i) == payment[OrderOf[i]] # "pending" /\ Payable[i] > 0 /\ sale[i] # Payable[i]

\* legacy_refunded_payment_without_evidence.
RefundedPaymentWithoutEvidence(o) == payment[o] = "refunded" /\ RefundsOf(o) = {}

\* return_refunded_without_verified_evidence.
RefundedReturnWithoutEvidence(r) == return[r].status = "refunded" /\ RefundsOn(r) = {}

\* negative_seller_balance.
InDebt(s) == Balance(s) < 0

----------------------------------------------------------------------------
UpTo(limits) == {f \in [Items -> 0..Total(limits)] : \A i \in Items : f[i] <= limits[i]}

ReturnNext ==
    \/ \E r \in Returns, o \in Orders, quantity \in UpTo(Bought) : Submit(r, o, quantity)
    \/ \E r \in Returns : CancelReturn(r) \/ Reject(r) \/ ReceiveItem(r) \/ MarkRefunded(r)
    \/ \E r \in Returns, last \in Items :
            \E amount \in 0..Total(Requested(r)) : Approve(r, amount, last)

RefundNext ==
    \E k \in RefundKeys, g \in References, r \in Returns :
        \E merchandise \in UpTo(Net), fees \in UpTo(Fees) : PostRefund(k, g, r, merchandise, fees)

PayoutNext ==
    \E k \in PayoutKeys, g \in References, s \in Sellers :
        \E amount \in 1..Total(Payable) : PostPayout(k, g, s, amount)

Next ==
    \/ \E o \in Orders : Capture(o) \/ \E s \in Sellers : Deliver(o, s)
    \/ ReturnNext \/ RefundNext \/ PayoutNext

Spec == Init /\ [][Next]_vars

----------------------------------------------------------------------------
(* Properties. *)

TypeOK ==
    /\ payment \in [Orders -> {"pending", "success", "refunded"}]
    /\ delivery \in [Orders -> [Sellers -> {"no", "held", "released"}]]
    /\ return \in [Returns -> ReturnRow]
    /\ sale \in Amounts
    /\ refund \in [RefundKeys -> RefundRow]
    /\ payout \in [PayoutKeys -> PayoutRow]

\* However often a capture is confirmed, an item is credited to its seller at
\* most once, for what the checkout's snapshot says.
CreditedOnce == \A i \in Items : sale[i] \in {0, Payable[i]}

\* Returns that were not turned down never take back more units of an item
\* than were bought, and never units the seller has not delivered.
ReturnsWithinPurchase ==
    LET kept(i) == SumFunctionOnSet([r \in Returns |-> return[r].quantity[i]],
                        {r \in Returns : return[r].status \notin {"rejected", "cancelled"}})
    IN \A i \in Items :
        /\ kept(i) <= Bought[i]
        /\ kept(i) > 0 => delivery[OrderOf[i]][SellerOf[i]] # "no"

\* Refunds, over all returns and confirmations, give back no more of an item
\* than its price and fees, and a payment is refunded exactly when all is back.
RefundsWithinCharge ==
    /\ \A i \in Items : Merchandise(RefundKeys, i) <= Net[i] /\ FeesBack(RefundKeys, i) <= Fees[i]
    /\ \A o \in Orders :
        payment[o] = "refunded" <=> (payment[o] # "pending" /\ Paid(o) > 0
                                      /\ GivenBack(RefundsOf(o)) = Paid(o))

\* "Last refund of all merchandise uses remaining credit to prevent rounding
\* drift": a seller never gives back more than the credit for an item, and
\* exactly that once the merchandise is refunded whole, in any number of parts.
NoRoundingDrift ==
    \A i \in Items :
        /\ Debited(i) <= Payable[i]
        /\ Net[i] > 0 /\ Merchandise(RefundKeys, i) = Net[i] => Debited(i) = Payable[i]

\* A seller's credit for an item is given once and taken back to the last unit of money,
\* and no amount in the tables is less than nothing.
CreditsComeBackWhole == TypeOK /\ CreditedOnce /\ NoRoundingDrift

\* Neither units nor money come back that were not bought and paid.
ReturnsWithinSale == ReturnsWithinPurchase /\ RefundsWithinCharge

\* A return is closed as refunded only when confirmed refunds amount to exactly
\* what was approved, and the items' shares of it add up.
RefundedIsProven ==
    \A r \in Returns :
        /\ Total(return[r].approved) = return[r].total
        /\ GivenBack(RefundsOn(r)) <= return[r].total
        /\ return[r].status = "refunded" => GivenBack(RefundsOn(r)) = return[r].total

\* A seller was never paid more than the credits of items past the hold period, in
\* whatever order payouts, refunds and returns come.  A payout whose confirmation is dated
\* ahead does not count yet when the next one is confirmed, so this is said of the others;
\* of all of them together, that they do not exceed what the seller was ever credited.
PayoutsAreReleased ==
    \A s \in Sellers :
        /\ Debits(s, PayoutKeys \ Ahead)
               <= Credits({i \in OwnItems(s) : delivery[OrderOf[i]][s] = "released"})
        /\ Debits(s, PayoutKeys) <= Credits(OwnItems(s))

\* What a daily audit can find is known: sellers who were paid out before a refund,
\* and returns that were closed after nothing was approved.  Never an uncredited
\* sale or a refunded payment without a refund.
AuditFindsOnlyDebts ==
    /\ \A i \in Items : ~ MissingCredit(i)
    /\ \A o \in Orders : ~ RefundedPaymentWithoutEvidence(o)
    /\ \A r \in Returns : RefundedReturnWithoutEvidence(r) => return[r].total = 0
    /\ \A s \in Sellers : InDebt(s) => Debits(s, PayoutKeys) > 0 /\ Debits(s, RefundKeys) > 0

\* Every difference an audit may meet has its history: whatever happens, what it finds
\* is one of the two above, and only a refund leaves a seller in debt, a payout never.
DebtsAreExplained ==
    [][/\ AuditFindsOnlyDebts'
       /\ \A s \in Sellers : InDebt(s)' => InDebt(s) \/ refund' # refund]_vars
=============================================================================
