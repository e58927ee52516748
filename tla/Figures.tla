------------------------------- MODULE Figures -------------------------------
(***************************************************************************)
(* What the shop reports about itself (analytics): cash flow, sales,       *)
(* sellers' figures, counts by status, series, breakdowns and exports.     *)
(*                                                                         *)
(* The same rows are read by many queries, each with its own filter and    *)
(* its own idea of when something happened: cash flow takes paid_at and    *)
(* confirmed_at, the gateway's times, sales take the creation of the       *)
(* payment, sellers' figures the allocations made at checkout.  The rows   *)
(* change as the other components change them; the steps here are theirs,  *)
(* reduced to what the figures read.  One currency.                        *)
(***************************************************************************)
EXTENDS Periods, FiniteSets

CONSTANTS
    Items,        \* order items: [order, product, gross, discount]
    Extra,        \* shipping and tax of each order
    Sellers,
    Providers,
    Attempts,     \* payments
    Entries,      \* rows of other tables: [table, group, amount], group is a ticket's
                  \* category or a return's reason
    MaxRefunds    \* bound on the refunds

Orders == DOMAIN Extra
Products == {i.product : i \in Items}
NoOne == "no one"

ASSUME FigureAssumption ==
    /\ \A i \in Items : i.order \in Orders /\ i.gross \in Nat /\ i.discount \in 0..i.gross
    /\ Extra \in [Orders -> Nat]
    /\ \A e \in Entries : e.amount \in Nat
    /\ NoOne \notin Orders /\ NoOne \notin Sellers
    /\ MaxRefunds \in Nat
    /\ IsFiniteSet(Items) /\ IsFiniteSet(Orders) /\ IsFiniteSet(Attempts)
    /\ IsFiniteSet(Sellers) /\ IsFiniteSet(Providers) /\ IsFiniteSet(Entries)

VARIABLES
    ledger,      \* SETTLEMENTS_LEDGER_ENABLED
    owner,       \* seller of each product
    order,       \* orders: when created, their status and whether paid
    sold,        \* item allocations: the seller at checkout
    payment,     \* payments
    refund,      \* ConfirmedRefund rows, each with its one line
    entry        \* other rows: when created, and their status

moneyVars == <<ledger, owner, order, sold, payment, refund>>
figureVars == <<now, moneyVars, entry>>

Never == -1
Net(i) == i.gross - i.discount
ItemsOf(o) == {i \in Items : i.order = o}
Total(o) == SumFunction([i \in ItemsOf(o) |-> Net(i)]) + Extra[o]
Amount(p) == Total(payment[p].order)
Amounts(payments) == SumFunction([p \in payments |-> Amount(p)])
\* status and payment_status of an order are columns of their own.
OrderStatuses == {"pending_payment", "paid", "processing", "shipped", "delivered", "cancelled",
                  "refunded"}
NoOrder == [created |-> Never, status |-> "none", paid |-> FALSE]
Statuses ==
    [user   |-> {"active"},
     review |-> {"pending", "approved", "rejected", "hidden"},
     ticket |-> {"open", "pending", "resolved", "closed"},
     return |-> {"submitted", "under_review", "approved", "rejected", "waiting_for_item",
                 "item_received", "inspecting", "refund_pending", "refunded", "replaced",
                 "cancelled", "closed"},
     page   |-> {"draft", "published", "archived"}]
NoEntry == [created |-> Never, status |-> "none", urgent |-> FALSE, assigned |-> FALSE]
NoPayment == [order |-> NoOne, provider |-> NoOne,
              status |-> "none", created |-> Never, paid |-> Never, refunded |-> Never]

FigureInit ==
    /\ now = 0
    /\ ledger \in BOOLEAN
    /\ owner \in [Products -> Sellers]
    /\ order = [o \in Orders |-> NoOrder]
    /\ sold = [i \in Items |-> NoOne]
    /\ payment = [p \in Attempts |-> NoPayment]
    /\ refund = {}
    /\ entry = [e \in Entries |-> NoEntry]

-----------------------------------------------------------------------------
\* What the other components do to the rows.

PlaceOrder(o) ==
    /\ order[o].created = Never
    /\ order' = [order EXCEPT ![o].created = now, ![o].status = "pending_payment"]
    /\ sold' = [i \in Items |-> IF ledger /\ i.order = o THEN owner[i.product] ELSE sold[i]]
    /\ UNCHANGED <<now, ledger, owner, payment, refund, entry>>

\* One attempt is pending for each provider; a second request is given the first.
StartPayment(p, o, provider) ==
    /\ payment[p].status = "none"
    /\ order[o].status = "pending_payment" /\ ~order[o].paid
    /\ \A q \in Attempts : payment[q].order = o /\ payment[q].status = "pending" =>
           payment[q].provider # provider
    /\ payment' = [payment EXCEPT ![p] = [NoPayment EXCEPT !.order = o, !.provider = provider,
                                                           !.status = "pending",
                                                           !.created = now]]
    /\ UNCHANGED <<now, ledger, owner, order, sold, refund, entry>>

\* The attempts of an order that are still pending end with it.
CancelPending(o) ==
    [q \in Attempts |-> IF payment[q].status = "pending" /\ payment[q].order = o
                        THEN [payment[q] EXCEPT !.status = "cancelled"] ELSE payment[q]]

\* A confirmation bears the time the gateway gives, which no one compares with any other:
\* it may lie before the attempt and it may lie ahead.  Other attempts end.
Capture(p, at) ==
    LET o == payment[p].order IN
    /\ payment[p].status = "pending"
    /\ order[o].status = "pending_payment" /\ ~order[o].paid
    /\ payment' = [CancelPending(o) EXCEPT ![p] = [payment[p] EXCEPT !.status = "success",
                                                                   !.paid = at]]
    /\ order' = [order EXCEPT ![o].paid = TRUE, ![o].status = "paid"]
    /\ UNCHANGED <<now, ledger, owner, sold, refund, entry>>

\* mark_failed and cancel
EndPayment(p, status) ==
    /\ \/ payment[p].status = "pending"
       \/ payment[p].status = "failed" /\ status = "cancelled"
    /\ payment' = [payment EXCEPT ![p].status = status]
    /\ UNCHANGED <<now, ledger, owner, order, sold, refund, entry>>

\* Order.cancel leaves payment_status as it is.
CancelOrder(o) ==
    /\ order[o].status = "pending_payment" /\ ~order[o].paid
    /\ order' = [order EXCEPT ![o].status = "cancelled"]
    /\ payment' = CancelPending(o)
    /\ UNCHANGED <<now, ledger, owner, sold, refund, entry>>

\* Sellers, staff and parcels move a paid order on, and back when a parcel is cancelled.
MoveOrder(o, status) ==
    /\ order[o].paid
    /\ order' = [order EXCEPT ![o].status = status]
    /\ UNCHANGED <<now, ledger, owner, sold, payment, refund, entry>>

\* post_verified_refund: goods of one item, and a part of shipping and tax.
Goods(refunds) == SumFunction([r \in refunds |-> r.goods])
Extras(refunds) == SumFunction([r \in refunds |-> r.extra])
ConfirmRefund(p, i, goods, extra, at) ==
    LET earlier == {r \in refund : r.payment = p} IN
    /\ Cardinality(refund) < MaxRefunds
    /\ payment[p].status = "success" /\ i.order = payment[p].order
    /\ sold[i] # NoOne
    /\ goods + extra > 0
    /\ goods + Goods({r \in refund : r.item = i}) <= Net(i)
    /\ extra + Extras(earlier) <= Extra[i.order]
    /\ refund' = refund \cup {[n |-> Cardinality(refund), payment |-> p, item |-> i,
                               goods |-> goods, extra |-> extra, at |-> at]}
    /\ payment' = IF Goods(earlier) + Extras(earlier) + goods + extra = Amount(p)
                  THEN [payment EXCEPT ![p].status = "refunded", ![p].refunded = at]
                  ELSE payment
    /\ UNCHANGED <<now, ledger, owner, order, sold, entry>>

ChangeOwner(product, s) ==
    /\ owner[product] # s
    /\ owner' = [owner EXCEPT ![product] = s]
    /\ UNCHANGED <<now, ledger, order, sold, payment, refund, entry>>

\* Rows of other tables, with whatever status their own component gives them.
SetEntry(e, status, urgent, assigned) ==
    /\ (urgent \/ assigned) => e.table = "ticket"
    /\ entry' = [entry EXCEPT ![e] = [created |-> IF @ = NoEntry THEN now ELSE @.created,
                                      status |-> status, urgent |-> urgent,
                                      assigned |-> assigned]]
    /\ UNCHANGED <<now, ledger, owner, order, sold, payment, refund>>

PassTime ==
    /\ now < LastInstant
    /\ now' = now + 1
    /\ UNCHANGED <<ledger, owner, order, sold, payment, refund, entry>>

MoneyStep ==
    \/ \E o \in Orders :
           \/ PlaceOrder(o) \/ CancelOrder(o)
           \/ \E status \in {"paid", "processing", "shipped", "delivered"} : MoveOrder(o, status)
    \/ \E p \in Attempts :
           \/ \E o \in Orders, provider \in Providers : StartPayment(p, o, provider)
           \/ \E at \in 0..LastInstant :
                  \/ Capture(p, at)
                  \/ \E i \in Items : \E goods \in 0..Net(i), extra \in 0..Extra[i.order] :
                         ConfirmRefund(p, i, goods, extra, at)
           \/ \E status \in {"failed", "cancelled"} : EndPayment(p, status)
    \/ \E product \in Products, s \in Sellers : ChangeOwner(product, s)

EntryStep(table) ==
    \E e \in Entries, status \in Statuses[table], urgent, assigned \in BOOLEAN :
        e.table = table /\ SetEntry(e, status, urgent, assigned)

FigureNext == PassTime \/ MoneyStep \/ \E table \in DOMAIN Statuses : EntryStep(table)

FigureSpec == FigureInit /\ [][FigureNext]_figureVars

-----------------------------------------------------------------------------
\* Cash flow: what was captured and refunded in a window of time.

\* Mutant: a payment that was refunded is no longer counted as captured.
MutCapturedStatuses == {"success"}
CapturedStatuses == {"success", "refunded"}

Captured == {p \in Attempts : payment[p].status \in CapturedStatuses}
RefundEvents ==
    IF ledger THEN {[payment |-> r.payment, amount |-> r.goods + r.extra, at |-> r.at, n |-> r.n] :
                       r \in refund}
    ELSE {[payment |-> p, amount |-> Amount(p), at |-> payment[p].refunded, n |-> 0] :
             p \in {q \in Attempts : payment[q].status = "refunded"}}

\* captured, refunded and their counts among the payments and days that are asked for.
Bucket(ps, rs) ==
    [captured |-> Amounts(ps), captures |-> Cardinality(ps),
     refunded |-> SumFunction([r \in rs |-> r.amount]), refunds |-> Cardinality(rs)]
CapturedIn(window) == {p \in Captured : InWindow(payment[p].paid, window)}
RefundedIn(window) == {r \in RefundEvents : InWindow(r.at, window)}

get_financial_cashflow(window) == Bucket(CapturedIn(window), RefundedIn(window))

by_provider(window) ==
    [v \in Providers |-> Bucket({p \in CapturedIn(window) : payment[p].provider = v},
                                {r \in RefundedIn(window) : payment[r.payment].provider = v})]

\* One point for each day from the first to the last of a window that is bounded.
DaysOf(window) == Day(window.from)..Day(window.before - 1)

daily_series(window) ==
    [d \in DaysOf(window) |->
        Bucket({p \in CapturedIn(window) : Day(payment[p].paid) = d},
               {r \in RefundedIn(window) : Day(r.at) = d})]

\* Sums of the fields of several records.
AddUp(rows, fields) ==
    [f \in fields |-> SumFunction([x \in DOMAIN rows |-> rows[x][f]])]

\* The warnings that come with the figures, over all time.
get_financial_data_quality ==
    [unpaid   |-> {p \in Captured : payment[p].paid = Never},
     undated  |-> {p \in Attempts : payment[p].status = "refunded" /\ payment[p].refunded = Never},
     repeated |-> {o \in Orders : Cardinality({p \in Captured : payment[p].order = o}) > 1}]

\* A seller's merchandise, by the snapshot of who sold it and for the first capture of the
\* order; items without one count for the owner of the product, in full, once for each
\* payment of the order.
CapturedAt(i) == {payment[p].paid : p \in {q \in Captured : payment[q].order = i.order}}
SoldIn(i, window) ==
    \E t \in CapturedAt(i) : InWindow(t, window) /\ \A u \in CapturedAt(i) : t <= u
Legacy(s, payments) ==
    {x \in Items \X payments : /\ sold[x[1]] = NoOne /\ owner[x[1].product] = s
                              /\ payment[x[2]].order = x[1].order}
Gross(items) == SumFunction([i \in items |-> i.gross])
Discount(items) == SumFunction([i \in items |-> i.discount])
LegacyGross(pairs) == SumFunction([x \in pairs |-> x[1].gross])
get_seller_analytics(s, window) ==
    LET snapshots == {i \in Items : sold[i] = s /\ SoldIn(i, window)}
        lines     == {r \in refund : sold[r.item] = s /\ InWindow(r.at, window)}
        paid      == Legacy(s, CapturedIn(window))
        returned  == Legacy(s, {p \in Attempts : payment[p].status = "refunded"
                                                 /\ InWindow(payment[p].refunded, window)})
    IN  [gross    |-> Gross(snapshots) + LegacyGross(paid),
         discount |-> Discount(snapshots),
         refund   |-> Goods(lines) + LegacyGross(returned),
         units    |-> Cardinality(snapshots) + Cardinality(paid)]

-----------------------------------------------------------------------------
\* Sales and counts go by the time a row was created and by its status now.

PaymentStatuses == {"pending", "success", "failed", "cancelled", "refunded"}
PaymentsIn(range) ==
    {p \in Attempts : payment[p].status # "none" /\ InRange(payment[p].created, range)}
Successful(range) == {p \in PaymentsIn(range) : payment[p].status = "success"}
OrdersIn(range) == {o \in Orders : order[o].created # Never /\ InRange(order[o].created, range)}
Paid(os) == {o \in os : order[o].paid}
In(table, range) ==
    {e \in Entries : e.table = table /\ entry[e] # NoEntry /\ InRange(entry[e].created, range)}

\* Rows by the value of a field: of every choice, or of those that occur.
count_by_choices(field, choices) ==
    [v \in choices |-> Cardinality({x \in DOMAIN field : field[x] = v})]
values_count(field) == count_by_choices(field, {field[x] : x \in DOMAIN field})
by_status(table, range) ==
    count_by_choices([e \in In(table, range) |-> entry[e].status], Statuses[table])

get_sales_summary(range) ==
    [revenue |-> Amounts(Successful(range)),
     orders  |-> Cardinality(Paid(OrdersIn(range)))]

get_order_summary(range) ==
    [total |-> Cardinality(OrdersIn(range)),
     by_status |-> count_by_choices([o \in OrdersIn(range) |-> order[o].status], OrderStatuses),
     by_payment_status |-> count_by_choices([o \in OrdersIn(range) |-> order[o].paid], BOOLEAN)]

get_payment_summary(range) ==
    LET With(s) == {p \in PaymentsIn(range) : payment[p].status = s} IN
    [total       |-> Cardinality(PaymentsIn(range)),
     successful  |-> Amounts(With("success")),
     refunded    |-> Amounts(With("refunded")),
     failed      |-> Cardinality(With("failed")),
     by_status   |-> count_by_choices([p \in PaymentsIn(range) |-> payment[p].status],
                                      PaymentStatuses),
     by_provider |-> values_count([p \in PaymentsIn(range) |-> payment[p].provider])]

get_customer_summary(range) ==
    [total |-> Cardinality(In("user", AllTime)), new |-> Cardinality(In("user", range))]

get_review_summary(range) ==
    [total |-> Cardinality(In("review", range)), by_status |-> by_status("review", range)]

get_support_summary(range) ==
    LET tickets == In("ticket", range) IN
    [total       |-> Cardinality(tickets),
     unassigned  |-> Cardinality({e \in tickets : ~entry[e].assigned}),
     urgent      |-> Cardinality({e \in tickets : entry[e].urgent}),
     by_status   |-> by_status("ticket", range),
     by_category |-> count_by_choices([e \in tickets |-> e.group], {e.group : e \in Entries})]

AmountAsked(entries) == SumFunction([e \in entries |-> e.amount])
get_return_summary(range) ==
    [total     |-> Cardinality(In("return", range)),
     requested |-> AmountAsked(In("return", range)),
     by_status |-> by_status("return", range)]

get_content_summary(range) ==
    [new |-> Cardinality(In("page", range)), pages |-> by_status("page", AllTime)]

\* One point for each day of the range; all time stands for the last 30 days.
SeriesRange(range) == IF range.bounded THEN range ELSE get_date_range("month", NoDates, now)

\* Mutant: the last day is left out.
Mut_get_date_points(range) == Day(range.from)..Day(range.to) - 1

get_date_points(range) == Day(range.from)..Day(range.to)

get_analytics_timeseries(range) ==
    LET r == SeriesRange(range) IN
    [d \in get_date_points(r) |->
        [revenue |-> Amounts({p \in Successful(r) : Day(payment[p].created) = d}),
         orders  |-> Cardinality({o \in OrdersIn(r) : Day(order[o].created) = d}),
         paid    |-> Cardinality({o \in Paid(OrdersIn(r)) : Day(order[o].created) = d}),
         users   |-> Cardinality({e \in In("user", r) : Day(entry[e].created) = d})]]

get_payment_provider_breakdown(range) ==
    [v \in DOMAIN get_payment_summary(range).by_provider |->
        LET ps == {p \in PaymentsIn(range) : payment[p].provider = v} IN
        [count |-> Cardinality(ps), success |-> Cardinality(ps \cap Successful(range)),
         total |-> Amounts(ps)]]

\* The merchandise of paid orders, before discount; the one by category is alike.  The code
\* cuts both to the first rows, limit of them; here are all.
get_top_selling_products_breakdown(range) ==
    [x \in Products |->
        Gross({i \in Items : i.product = x /\ i.order \in Paid(OrdersIn(range))})]

get_support_category_breakdown(range) ==
    [g \in {e.group : e \in Entries} |->
        LET tickets == {e \in In("ticket", range) : e.group = g} IN
        [count  |-> Cardinality(tickets),
         urgent |-> Cardinality({e \in tickets : entry[e].urgent})]]

get_return_reason_breakdown(range) ==
    [g \in {e.group : e \in Entries} |->
        AmountAsked({e \in In("return", range) : e.group = g})]

\* The rows of the CSV exports.
build_sales_export(range) == Successful(range)
build_orders_export(range) == OrdersIn(range)
build_payments_export(range) == PaymentsIn(range)
build_support_export(range) == In("ticket", range)
build_returns_export(range) == In("return", range)
build_reviews_export(range) == In("review", range)

\* The cards count what waits, over all time.
PendingReturns == {"submitted", "under_review", "waiting_for_item", "item_received", "inspecting",
                   "refund_pending"}
get_analytics_alerts ==
    LET Waiting(table, statuses) == {e \in In(table, AllTime) : entry[e].status \in statuses}
        tickets == Waiting("ticket", {"open", "pending"})
    IN  [failed_payments    |-> Cardinality({p \in Attempts : payment[p].status = "failed"}),
         pending_orders     |-> Cardinality({o \in Orders : order[o].status = "pending_payment"}),
         pending_reviews    |-> Cardinality(Waiting("review", {"pending"})),
         urgent_tickets     |-> Cardinality({e \in tickets : entry[e].urgent}),
         unassigned_tickets |-> Cardinality({e \in tickets : ~entry[e].assigned}),
         pending_returns    |-> Cardinality(Waiting("return", PendingReturns)),
         draft_pages        |-> Cardinality(Waiting("page", {"draft"}))]

\* The dashboard compares a range with the one of the same length before it.
get_trend_summary(range) ==
    LET Counts(r) == [revenue |-> get_sales_summary(r).revenue,
                      orders |-> Cardinality(OrdersIn(r)), users |-> Cardinality(In("user", r))]
    IN  [current |-> Counts(range), previous |-> Counts(get_previous_date_range(range))]

-----------------------------------------------------------------------------
FigureTypeOK ==
    /\ now \in 0..LastInstant /\ ledger \in BOOLEAN
    /\ owner \in [Products -> Sellers]
    /\ order \in [Orders -> [created : Int, status : OrderStatuses \cup {"none"}, paid : BOOLEAN]]
    /\ sold \in [Items -> Sellers \cup {NoOne}]
    /\ payment \in [Attempts -> [order : Orders \cup {NoOne}, provider : Providers \cup {NoOne},
                                 status : {"none", "pending", "success", "failed", "cancelled",
                                           "refunded"},
                                 created : Int, paid : Int, refunded : Int]]
    /\ refund \subseteq [n : Nat, payment : Attempts, item : Items, goods : Nat, extra : Nat,
                         at : Int]
    /\ entry \in [Entries -> [created : Int, urgent : BOOLEAN, assigned : BOOLEAN,
                              status : {"none"} \cup UNION {Statuses[t] : t \in DOMAIN Statuses}]]

LastDay == Day(LastInstant)
Dates == {d \in (0..LastDay) \X (0..LastDay) : d[1] <= d[2]}
Windows == {get_financial_window("all", d, now) : d \in Dates}
           \cup {get_financial_window(period, NoDates, now) : period \in RequestPeriods}
Ranges == {get_date_range("all", d, now) : d \in Dates}
          \cup {get_date_range(period, NoDates, now) : period \in RequestPeriods}

\* Whatever was paid and refunded, in any order and whatever times the gateway gives, the
\* totals of a window are the sum over the providers and over the days; with the ledger on
\* the sellers' merchandise and the orders' shipping and tax make up the same totals, also
\* after a product has changed hands.  Over all time, and once the times the gateway gave
\* have passed, what the sellers sold is what the products sold; and no data quality
\* warning ever appears.
FiguresReconcile ==
    /\ \A window \in Windows :
           LET cash == get_financial_cashflow(window)
               sellers == AddUp([s \in Sellers |-> get_seller_analytics(s, window)],
                                {"gross", "discount", "refund"})
               extras == SumFunction([p \in CapturedIn(window) |-> Extra[payment[p].order]])
               back == Extras({r \in refund : InWindow(r.at, window)})
           IN  /\ AddUp(by_provider(window), DOMAIN cash) = cash
               /\ ~window.open => AddUp(daily_series(window), DOMAIN cash) = cash
               /\ ledger => /\ sellers.gross - sellers.discount + extras = cash.captured
                            /\ sellers.refund + back = cash.refunded
    /\ LET always == get_financial_window("all", NoDates, LastInstant + 1) IN
       SumFunction([s \in Sellers |-> get_seller_analytics(s, always).gross])
           = SumFunction(get_top_selling_products_breakdown(AllTime))
    /\ LET quality == get_financial_data_quality IN \A kind \in DOMAIN quality : quality[kind] = {}

\* The dashboard, the series, the breakdowns, the exports and the alerts give the same
\* counts and sums for the same range, though each asks the database on its own: every
\* row is in one day of the series, in one choice of each field, and in one row of its
\* export, and none of these knows a status the others do not.  The orders the card says
\* wait for payment are, with those that were cancelled, the ones the summary says are not
\* paid, though two columns tell it.  What was made at the very instant where a range and
\* the one before it meet counts in both.
SurfacesAgree ==
    /\ \A range \in Ranges :
           LET sales == get_sales_summary(range)
               payments == get_payment_summary(range)
               orders == get_order_summary(range)
               support == get_support_summary(range)
               returns == get_return_summary(range)
               reviews == get_review_summary(range)
               providers == get_payment_provider_breakdown(range)
               categories == get_support_category_breakdown(range)
               series == get_analytics_timeseries(range)
               trend == get_trend_summary(range)
               both == [range EXCEPT !.from = range.from - (range.to - range.from)]
               byProvider == AddUp(providers, {"count", "success"})
               byDay == AddUp(series, {"revenue", "orders", "paid", "users"})
           IN  /\ sales.revenue = payments.successful
               /\ sales.revenue = Amounts(build_sales_export(range))
               /\ payments.total = Cardinality(build_payments_export(range))
               /\ payments.total = SumFunction(payments.by_status)
               /\ payments.total = byProvider.count
               /\ Cardinality(Successful(range)) = byProvider.success
               /\ orders.total = Cardinality(build_orders_export(range))
               /\ orders.total = SumFunction(orders.by_status)
               /\ orders.by_payment_status[TRUE] = sales.orders
               /\ orders.by_payment_status[FALSE] =
                      orders.by_status["pending_payment"] + orders.by_status["cancelled"]
               /\ support.total = SumFunction(support.by_status)
               /\ support.total = Cardinality(build_support_export(range))
               /\ support.by_category = [g \in DOMAIN categories |-> categories[g].count]
               /\ support.urgent = AddUp(categories, {"urgent"}).urgent
               /\ returns.total = SumFunction(returns.by_status)
               /\ returns.total = Cardinality(build_returns_export(range))
               /\ returns.requested = SumFunction(get_return_reason_breakdown(range))
               /\ reviews.total = Cardinality(build_reviews_export(range))
               /\ reviews.total = SumFunction(reviews.by_status)
               /\ range.bounded =>
                      /\ byDay.revenue = sales.revenue
                      /\ byDay.orders = orders.total
                      /\ byDay.paid = sales.orders
                      /\ byDay.users = get_customer_summary(range).new
                      /\ trend.current.orders + trend.previous.orders =
                             Cardinality(OrdersIn(both))
                             + Cardinality({o \in OrdersIn(both) : order[o].created = range.from})
    /\ LET alerts == get_analytics_alerts
           returns == get_return_summary(AllTime)
       IN  /\ alerts.failed_payments = get_payment_summary(AllTime).failed
           /\ alerts.pending_orders = get_order_summary(AllTime).by_status["pending_payment"]
           /\ alerts.pending_reviews = get_review_summary(AllTime).by_status["pending"]
           /\ alerts.draft_pages = get_content_summary(AllTime).pages["draft"]
           /\ alerts.pending_returns =
                  returns.total - SumFunction([s \in Statuses.return \ PendingReturns |->
                                              returns.by_status[s]])

\* No two places that show a figure disagree about it.
FiguresAgree == FigureTypeOK /\ FiguresReconcile /\ SurfacesAgree

\* What a day once showed as captured or refunded it never loses: a later refund is an
\* event of its own, and neither it nor a change of owner takes anything from the days
\* before.  Only the sellers' figures of orders without a snapshot follow the owner.
PastFiguresStand ==
    [][\A d \in 0..LastDay :
           LET window == get_financial_window("all", <<d, d>>, now)
               cash == get_financial_cashflow(window)
               later == get_financial_cashflow(window)'
           IN  /\ cash.captured <= later.captured /\ cash.refunded <= later.refunded
               /\ ledger => \A s \in Sellers :
                      LET share == get_seller_analytics(s, window)
                          newer == get_seller_analytics(s, window)'
                      IN  share.gross <= newer.gross /\ share.refund <= newer.refund]_moneyVars
=============================================================================
