# A TLA+ model of the mallbyte marketplace API

`mallbyte-api` is a Django REST backend of a marketplace: users fill a cart and
check it out, several sellers supply the items from several warehouses, payments
come in through provider callbacks, sellers prepare and ship their part of an
order, buyers return items, and an operations side watches the system. It runs as
several web workers and Celery workers on one PostgreSQL database, so its
difficulties are those of concurrent transactions: rows read before they are
locked, handlers that do two transactions, requests sent twice, callbacks that
come late.

This directory holds TLA+ modules of that behaviour, TLC configurations that check
them on small instances, and TLAPS proofs for every instance. Paths below are
relative to the repository root (`src/`).

## 1. Inventory

| Component | State it keeps | Operations | Hard behaviour | What makes it correct |
|---|---|---|---|---|
| Orders (`apps/orders`) | carts, orders, order items, one fulfillment row per seller, status history | cart endpoints, checkout, cancel, seller-status, update-status | cart is read several times without a lock; two checkouts lock stock rows in different orders; cancel races a payment | an order is its cart at one moment; reserved units are exactly the open orders'; every checkout ends; sellers wait for the payment |
| Payments (`apps/payments`) | payment attempts and their events | create, mark-success, mark-failed, cancel | two attempts of one order succeed, a failure report comes late, success races a cancellation | an order is paid by exactly one attempt and for its whole amount; attempts left open are payable |
| Inventory (`apps/inventory`) | warehouses and members, stock rows, movements, transfers | movements, reservations, sales, transfers, edit of a stock row | the edit does not lock; a transfer spans days and two people; a warehouse is deleted under open orders | quantities are explained by movements; transfers conserve units; reserved never exceeds quantity |
| Discounts (`apps/discounts`) | discount, `used_count`, usage rows | validate, use at checkout, release at cancellation | limit checked by many checkouts at once | `used_count` counts the usages and no limit is exceeded |
| Shipping (`apps/shipping`) | shipments | create, ready, shipped, delivered, cancel, tracking | several sellers' shipments drive one order status; a request is validated before the lock; cancel and create race | one parcel per seller and order; order status agrees with the sellers' and the shipments' |
| Returns (`apps/returns`) | return requests, items | submit, approve, reject, cancel, receive, mark refunded | two requests for the same units; an approval the ledger cannot pay | never more returned than bought; closed as refunded only with the money back |
| Settlements (`apps/settlements`) | item allocations, ledger entries, confirmed refunds and payouts, policies | capture, refund and payout confirmations, eligibility, audit | confirmations come again, out of order and with their own clock; cents are split | each capture, refund and payout posted once; nobody refunded or paid out too much |
| Observability (`apps/observability`, `deploy`) | alerts, incidents, AI diagnoses, infrastructure operations | evaluate rules, diagnose, request, approve, claim, restart, report, reconcile | web, Celery worker, broker and host runner crash independently; a runner reports late | a restart is approved and happens once; the provider is called once; decisions stay |
| Accounts (`apps/accounts`) | users, one-time passwords, verification links, MFA device and challenges, seller profiles, addresses | register, request and present a code, verify an address by link, set up and use a second factor, apply and decide, choose the default address | every statement commits on its own: a code is looked up and used in two, a link is mailed for an address saved before, a decision is three saves | a code, a factor and a challenge let somebody in once; verified means that mail to the address was read; status, flag and role of a seller agree; one default address |
| RBAC (`apps/rbac`) | roles, holdings, grants, the cached permission list of each user | assign, remove, bulk, switch, delete, with the signals that clear the cache; the cached read | a list read before a change is stored after it; some changes clear before they commit, some clear nothing | a cached list is what the rows give, and one that is not lapses |
| Support (`apps/support`) | a ticket, its messages, files and tags, an audit trail | create, reply, note, upload, assign, prioritise, tag, resolve, close, reopen | each request writes row, ticket and audit row in statements of their own; a reply saves the status last | the audit trail tells the ticket as it is |
| Reviews (`apps/reviews`) | reviews, votes, counts on the review, rating on the product | submit, edit, vote, moderate, delete | the rating is read and stored in two statements; an edit saves counts and status it read | what is stored because it was counted is what counting gives |
| Analytics (`apps/analytics`) | report schedules and generated reports; everything else it reads from others | edit a schedule, run the due ones, generate; dashboards, series, breakdowns, exports, alerts, financial and seller figures | a task is queued before its report is committed; short months, late runs; many queries answer one question, each in its own way | a schedule runs when its calendar says; a report ends; no two places disagree about a figure; a past day keeps its figures |
| Notifications (`apps/notifications`) | notifications, one row of preferences per user | notify, change preferences, mark, clear, clean up | preferences are asked before the notification is created, and saved as a whole | nobody is told what they have muted |
| Products (`apps/products`), Content (`apps/content`), configuration | rows of their own | CRUD and reads | little | - |

Components interact in three ways: direct calls inside one transaction (checkout
reserves stock and uses a discount; a payment sells stock and releases sellers),
shared rows that two handlers read and write (orders and payments; stock rows), and
Celery tasks that look at committed rows later. `PROJECT.json` lists each hazard at
the line where it bites, with the properties that cover it or a note.

## 2. Modules

| Module | Models | Role |
|---|---|---|
| `StockRow` | `Stock` and `StockMovement` (`apps/inventory/models.py`) | one stock row: guards and effects of reserve, release, move and sell |
| `Commerce` | orders, payments, discounts, movements and warehouses, a transaction per action | the core; everything else composes with it |
| `StoreContract` | no code: the promises | abstract specification that `Commerce` and the transactions of `CheckoutRace` implement |
| `Inventory` | stock transfers and the unlocked `PATCH /stocks/` | extends `Commerce` |
| `CheckoutRace` | the cart endpoints and the checkout handler, a statement per action | what the atomic `Checkout` of `Commerce` leaves out |
| `Shipping` | parcels, sellers' and order statuses from payment to delivery | continues an order where `Commerce` leaves it, at `paid` |
| `Refunds` | returns, captures, refunds, payouts and the seller ledger | continues with the money of delivered orders |
| `Operations` | restarts with approval and the host runner, AI diagnoses with their task | stands alone; a restart of the worker kills its tasks |
| `Alerts` | alerts: the periodic evaluation of the rules, unhandled exceptions, staff | stands alone |
| `PaymentTrail` | the requests around `Payment.mark_success` and the like, and the `PaymentEvent` rows | what the atomic actions of `Commerce` leave out of a payment's history |
| `Access` | roles, permissions and the cache of a user's permissions | stands alone |
| `Identity` | registration, codes, verification links, deleted accounts | stands alone |
| `Mfa` | second factor of a privileged account | stands alone |
| `Applications` | applications of sellers and the decisions about them | stands alone |
| `AddressBook` | the addresses of a user and the default | stands alone |
| `Support` | one ticket and its audit trail | stands alone |
| `Reviews` | the reviews of a product and its rating | stands alone |
| `Notices` | one user's notifications and preferences | stands alone |
| `Periods` | the clock; ranges, windows and the calendar of schedules | pure operators beside the clock, used by `Reports` and `Figures` |
| `Reports` | schedules, report runs, the task queue | extends `Periods` |
| `Figures` | what dashboards, exports and financial reports compute from orders, payments and refunds | extends `Periods`; its steps are those of the other components, reduced to what is read |
| `SumTheorems` | no code | what sums over finite sets do when a row enters, leaves or changes |
| `CommerceProofs`, `CheckoutRaceProofs`, `ShippingProofs`, `RefundsProofs`, `MembersProofs`, `ServiceProofs`, `JobsProofs` | - | the theorems; section 4 says which modules each is about |
| `MC*` | - | constants for TLC |

`MCMembers`, `MCService`, `MCJobs` and `MCFigures` put modules together that share no state.
A variable `part` says which of them takes steps while the others stay as they began, so
TLC explores the sum of their state spaces and not the product. Fairness is then
demanded of the part that takes steps only.

No step of one part reads or writes a variable of another. That is a fact about the modules, and where the
code does let two parts touch one table, each module has the steps of both sides that touch it. The
case is the `UserRole` rows: `Access` knows them as holdings of any role, whoever writes them, and `Applications` knows
one role, the sellers' (`vendor`), which the decisions about applications give and take, and the
endpoints of the roles too (`GiveRole`, `TakeRole`, `MoveRole`, `DropRole`, `NameRole`).
A payment's status is written by the requests of `PaymentTrail` and by the refunds of the
ledger; `PaymentTrail` has both (`RefundAttempt`), and `Figures` and `Refunds` have what they read of it.

### Variables that name what the code does not guarantee

Much of this code reads a row, decides, and saves in a later statement, without a lock or a
transaction. What such code promises holds as long as two requests do not overlap in a
certain way. Those modules keep a variable that records exactly these overlaps, and the
property speaks of everything else: of the same requests in every other interleaving, and of other
rows and columns even while two requests overlap.

| Variable | Is set when |
|---|---|
| `tangled`, `byHand` (Applications) | an approval and a rejection of one application overlap, or a decision is cut off; the sellers' role of a user was given, taken or moved by the roles' own endpoints, or was missing at the decision |
| `jumbled` (AddressBook) | two requests write one address or both set a default, an address is deleted under a request, or a request is cut off |
| `mixed`, `cut`, `gone` (Support) | two requests change one column at once; a request of a kind is cut off; a tag was deleted |
| `stale`, `miscounted` (Reviews) | a refresh of the rating overlapped another or failed; an edit overwrote the counts of a review |
| `muddled`, `silent` (PaymentTrail) | two requests about one attempt overlap or one is cut off after its commit; the gateway captured it |
| `clash` (Notices) | two changes of the preferences overlap |
| `crossed`, `raced` (Identity) | the address of an account changes beside a request that verifies or changes it; two requests about the codes of one inbox overlap |
| `unsettled` (Access) | rows changed during a fill, in a transaction that had cleared already, or by a change that clears nothing |
| `disrupted` (Reports) | a change of a schedule overlaps a run or is cut off |

### Commerce

A row of a table is a record, a table a function from ids to rows, and an id
without a row has status `none`. The variables `stock`, `ledger`, `warehouse`,
`order`, `fulfillment`, `payment` and `usedCount` are the tables `Stock`,
`StockMovement` (kept as two sums per stock row, because only their totals matter),
`Warehouse`, `Order` with its `OrderItem`s and `DiscountUsage`,
`SellerOrderFulfillment`, `Payment` and the column `Discount.used_count`.

| Action | Code |
|---|---|
| `RecordMovement` | `StockMovement.save` behind `POST /movements/` |
| `SetWarehouseActive`, `DeleteWarehouse` | warehouse endpoints, with the cascades of the foreign keys |
| `Checkout` | `CheckoutSerializer.create`: stock, order, items, fulfillment rows, discount use |
| `CancelOrder` | `Order.cancel`: release, discount use given back, open attempts closed |
| `SellerStart`, `AdminStart` | `seller-status` and `update-status` with their transition tables, as far as preparation |
| `CreatePayment`, `MarkSuccess`, `MarkFailed`, `CancelPayment` | `PaymentCreateSerializer.create` and the methods of `Payment` |

Why one action per transaction is faithful here: `Order.cancel`, `mark_success`,
`mark_failed`, `cancel` and `Stock.reserve/release` read their rows again under
`SELECT ... FOR UPDATE` before they decide, and all of them lock the order before the
payment before the stock. Two kinds of code do not, and each has a module where
transactions are split: the edit of a stock row (`Inventory`) and checkout's reads
of the cart (`CheckoutRace`). Checkout's unlocked scan for a warehouse is kept by
letting it take any active warehouse that has enough when the row is locked.

### Inventory

Adds `StockTransfer` (`transfer`), the part of the movements transfers wrote
(`transferred`) and an edit under way (`edit`): `BeginEdit` is `get_object`, which
reads the row, `SaveEdit` is `Model.save`, which writes all of it back. In between
any other action may run.

### CheckoutRace

Each request goes `idle`, `validated`, `opened`, `reserving`, `done` or `failed`. A
stock row has a `holder` from its first lock to the end of the holder's transaction.
Plain reads see committed data only (`Free`). A cycle of waiting requests is broken
by `DeadlockDetected`, which is PostgreSQL's. Cart changes are a read and a write
(`BeginChange`, `SaveChange`) or single statements.

### Shipping

| Action | Code |
|---|---|
| `RequestShipment` | the checks of `ShipmentCreateSerializer.validate`, which lock nothing |
| `CreateShipment`, `RefuseShipment` | `Shipment.create_from_order`, which locks the order and checks some of it again |
| `MarkReady`, `MarkShipped`, `MarkDelivered`, `Cancel` | the methods of `Shipment` behind the endpoints |
| `SellerStart`, `AdminStart` | preparation through the order endpoints, which moves the same statuses |

`order`, `fulfillment` and `shipment` are the three status columns. `wanted` is not a
table: it holds the orders and sellers for which validated requests wait for the lock. Any
number of requests alike may wait, so the end of one leaves the pair in or takes it out. `Aggregate` is `_sync_order_status`. An
order without items has one parcel, whose seller is null; its status is set by the
parcel directly and is not taken back when the parcel is cancelled, as in the code.

### Refunds

`payment`, `return`, `sale`, `refund` and `payout` are the status of `Payment`,
`ReturnRequest` with its `ReturnItem`s, the ledger's sale credits,
`ConfirmedRefund` with its allocations and debits, and `ConfirmedPayout` with its
debit. The balance of a seller is not a variable, as it is not a column: `Balance` adds
up the ledger. `delivery` is what eligibility asks of `delivered_at`: not delivered,
within the hold period, or past it.

| Action | Code |
|---|---|
| `Capture` | `post_captured_payment`, for a first or a repeated confirmation |
| `Submit`, `CancelReturn`, `Reject`, `Approve`, `ReceiveItem`, `MarkRefunded` | `apps/returns/services.py` |
| `PostRefund` | `post_verified_refund`, with the debit rounded to cents |
| `PostPayout` | `post_confirmed_payout` under `payout_eligibility` |
| `Deliver` | a delivery, and the end of the hold period |

Each handler locks what it decides about before it decides, in the order order, payment,
return, seller, so one action per handler is faithful. A confirmation that repeats
a key changes nothing and is no step; one that repeats a reference under another key is
refused. `Ahead` names the confirmations whose `confirmed_at` lies ahead of the server's
clock: the code compares it with nothing, and eligibility leaves such debits out.

### Operations

`operation` and `diagnosis` are the tables `InfrastructureOperation` and `AIDiagnosis`.
`runner` is the process on each host, `task` the worker's process for each diagnosis and
`queue` the broker. `restarts` and `calls` only count, for the properties.

| Action | Code |
|---|---|
| `Request`, `Approve`, `ApproveTooLate`, `Reject`, `CancelOp` | `InfrastructureOperationViewSet`; `PassDeadline` is the thirty minutes of `expires_at` |
| `Poll`, `Claim` | the bridge's `claim`: running targets are read before a row is locked |
| `Restart`, `Refuse` | what `host_runner.py` does with Docker, with any outcome |
| `Report` | the bridge's `complete`, which the token guards |
| `Stop` | the end of a runner that is killed, loses an answer or is refused |
| `Reconcile` | `observability_ops_reconcile`, also against a runner that is alive |
| `Diagnose`, `CommitDiagnosis`, `Enqueue`, `MarkUnsent`, `WebWorkerDies` | `IncidentViewSet.diagnose`: the transaction, and the callback after its commit |
| `StartTask`, `IgnoreTask`, `CallProvider`, `EndTask`, `KillTask` | `run_observability_ai_diagnosis` |

The transaction of `diagnose` is two actions, because another user's may run inside it:
its locks are those of one incident. The transactions of the bridge and of the viewset lock
their operation first and are one action each, except for `Poll`.

### Alerts

`alert` is the table `ObservabilityAlert`; of its columns the fingerprint and the status
decide anything. `health` is what a check of each rule would find now, `caller` what
an evaluation, or a request that raised an exception, has still to report, and `staff` what
a request of an alert manager has read and is about to write.

| Action | Code |
|---|---|
| `Collect`, `Count` | `collect_system_health_snapshot`, which reads everything first, but for the two rules that count rows when their turn comes |
| `Raise` | `create_error_log_from_exception`, from the middleware |
| `Look`, `Update`, `Insert`, `Collide`, `LookAgain` | the statements of `create_or_update_alert`; `LookAgain` raises when it finds nothing, which ends the evaluation |
| `Recover`, `Skip` | `recover_alert`, one statement; a reading that is unknown does nothing |
| `Acknowledge`, `Resolve`, `SaveAcknowledge`, `SaveResolve` | the two endpoints: read and check, then write |
| `Change`, `Crash` | the surroundings: readings change, a worker or a request is killed |

There is no transaction around any of this (`ATOMIC_REQUESTS` is not set), so each statement
is an action. `Taken` is the partial unique index `obs_one_live_fingerprint`; a
fingerprint is never empty in the calls the code makes. `Update` writes texts only, which the
model leaves out, so it only ends the call; that it leaves the status alone is what
`SettledForever` depends on.

An acknowledgement that read an alert before it was closed brings it back as acknowledged,
unless a newer one is live, when the index turns the request into an error. The next good
reading closes it again; an alert of an exception stays until somebody resolves it.

### PaymentTrail

| Action | Code |
|---|---|
| `CreateAttempt` | `PaymentCreateSerializer.create`, with its event |
| `LoadAttempt`, `MarkAttempt`, `RefuseAttempt`, `RefreshAttempt`, `WriteEvent` | the actions of `PaymentViewSet`: `get_object` and the serializer's check, the transaction of the model or its refusal, `refresh_from_db`, `PaymentEvent.objects.create` |
| `ConfirmCapture` | `CaptureConfirmationView`, which calls `mark_success` and writes no event |
| `CancelTheOrder` | `Order.cancel`, which closes attempts with their events |
| `RefundAttempt` | `post_verified_refund`, which makes a payment `refunded` when all of it has come back, and writes no event |
| `CutOffVisit` | a killed process |

One order is enough, because no event relates two. `awaiting` is its status as far as payments
ask.

### Access

`held`, `grants`, `present`, `defined` and `superuser` are the rows; `entry` is the cache,
and time passes in ticks (`AccessTick`), by which holdings and entries expire. A second has `Second` ticks: the timeout of a
list is whole seconds, `min(timeout, max(1, int(seconds)))`, which is `StoreTimeout` with `WholeSeconds`. So the
list ends before the next role of the user does, unless less than a second was left of that role; then the list
has it for up to a second longer, which is what `Agrees` allows and no more.

| Action | Code |
|---|---|
| `ReadRoles`, `ReadGrants`, `ReadExpiry`, `StoreList` | `get_user_permissions` on a miss: three queries and `cache.set` |
| `AssignRole`, `BulkAssign`, `BulkStep`, `RemoveRole`, `AddPermission`, `RemovePermission`, `SetActive` | write first; `ClearMember` and `SweepRole` are the signals and functions that clear the cache afterwards |
| `DeleteHolding`, `DeleteRole`, `DeletePermission`, `SwitchPermission`, then `Commit` | clear inside a transaction that commits later |
| `MoveHolding`, `SetSuperuser`, `CreatePermission` | clear nothing, or the cache of the wrong user |
| `CreateRole` | grants nothing yet, so nothing has to be cleared |

### Identity

| Action | Code |
|---|---|
| `Register`, `SetStatus`, `DeleteAccount`, `AdminDeleteUser` | the account endpoints and the console |
| `AskCode`, `CreateCode`, `SendCode`, `DropCode`, `ExpireCode` | `OTPRequestView` and `PasswordResetRequestView`: older codes used up, a new one made, mailed, or marked as used when it cannot be mailed |
| `PresentCode`, `SpendCode`, `FindAccount`, `CreateAccount`, `SaveVerified` | `OTPVerifyView` and the reset: the code is looked up, marked, and the account found or made |
| `AskLink`, `SaveAddress`, `CacheToken`, `SendLink`, `LinkExpires`, `FollowLink`, `MatchToken` | `EmailVerifyRequestView`, `EmailVerifyConfirmView` |
| `CutOff` | a killed process |

`proof` is not a table: it holds the inboxes whose mail was read to verify an account.

### Mfa

Every endpoint is a transaction that locks challenge, account and device first, so each is one
action: `Issue`, `RefuseSetup`, `Setup`, `Complete`, `Verify`, `Misdirect`. `SwitchPrivilege` and
`Wait` are the surroundings. A code is a secret and a time step, a recovery code or wrong; what it
takes to compute one is not part of the model. `codes`, `opened` and `tried` only count.

### Applications and AddressBook

`Apply`, `Decide`, `SaveStatus`, `SaveFlag`, `SaveRole` and `EditStore` are
`SellerApplyView`, the two decision views with their three saves, and the seller's edit of the
store, which saves the status it read. `LeaveOutRole` is a decision that finds no role of the name `vendor` and passes over it
(`Role.DoesNotExist`); `role` says whether there is one, and whether it is a system role, which the code does not let anybody delete or rename. `GiveRole` and `TakeRole` are
`AssignRoleView`, `BulkAssignRolesView`, `RemoveRoleView`, an expiry, and `UserRoleViewSet`; `MoveRole` is the last one's
save of a row with another user; `DropRole` and `NameRole` are `RoleViewSet`, which deletes, creates and renames roles.

`CreateAddress`, `EditAddress` and `SetDefault` begin a request of
`AddressViewSet`; `ClearDefault`, `ResetDefault` and `WriteAddress` are its statements (`Address.save` takes the
default from the others a second time); `DeleteAddress` is one statement. `Interrupt` and
`Abandon` cut a request off.

### Support

| Action | Code |
|---|---|
| `CreateTicket` | `SupportTicketSerializer.create`, the only transaction |
| `Assign`, `SetPriority`, `AddTag`, `RemoveTag`, `Resolve`, `Close`, `Reopen` | load and permission checks of the endpoints, then `Save` and `Log` |
| `Reply` | the checks of `reply`, then `WriteRow`, `Log` and, last, `Save` |
| `DeleteTag` | `SupportTagViewSet.destroy`: the tag leaves the ticket by the cascade, and no audit row says so; a request that adds it afterwards is `Refused` by the foreign key |
| `AddNote`, `UploadAttachment` | a row and its audit row; the ticket stays |
| `Fail` | a killed process or a failing statement |

`trail` is the ticket as the audit rows tell it, kept up to date by `Log`.

### Reviews

| Action | Code |
|---|---|
| `Submit` | `ProductReviewSerializer.create` |
| `Moderate`, `SaveVerdict` | approve, reject and hide, and the administration's actions on several reviews |
| `Delete`, `SaveDeletion` | `perform_destroy` |
| `ReadStats`, `StoreStats` | `update_product_review_stats` |
| `Edit`, `EditForm`, `SaveEdit` | PUT and PATCH of the author, the administration's form |
| `Vote`, `SaveVote` | `helpful` and `not_helpful`: the check, then `set_review_vote` in one transaction |
| `Killed` | a killed process |

### Notices

`Happens`, `AskPreference` and `CreateNotification` are `create_notification`;
`LoadPreferences` and `SavePreferences` the POST of the preferences, which saves the whole row;
`LoadToMark` and `SaveMark` mark selected rows one by one; `MarkAllRead`, `ClearRead`, `ClearAll`,
`DeleteSelected` and `CleanUp` are single statements. `wish` is what the user has asked for,
`unwanted` the notifications that came against it.

### Periods and Reports

`Periods` has `get_date_range`, `get_previous_date_range`, the window of the financial reports and the
four `*_next_run` functions. `RunsAt` says what the calendar of a schedule is without
computing it; `RunsWhenTheCalendarSays` compares the two at every instant.

| Action | Code |
|---|---|
| `ListDue`, `TakeSchedule`, `Enqueue`, `CommitRun`, `RollBack` | `run_due_analytics_report_schedules`: the list, then a transaction per schedule that creates the report, queues its task and moves the schedule on |
| `GenerateNow` | `run_now` and `GenerateAnalyticsReportNowView`, which queue after the commit |
| `StartReport`, `FinishReport`, `LoseReport` | `generate_analytics_report`, and a worker that is killed |
| `EditSchedule`, `SaveSchedule`, `RecomputeNextRun`, `CutOffEdit` | PATCH of a schedule: loaded, saved, next run computed and saved |
| `Elapse` | the clock |

### Figures

Its steps (`PlaceOrder`, `StartPayment`, `Capture`, `EndPayment`, `CancelOrder`, `MoveOrder`, `ConfirmRefund`,
`ChangeOwner`, `SetEntry`, `PassTime`) are those of the other components, reduced to the columns the queries read.
An order has both of its status columns: `Order.cancel` ends the one and leaves `payment_status`, and some queries count by
the one and some by the other. A gateway's time is compared with nothing in the code and is any instant here: a capture
dated ahead is among the products sold at once, and among a seller's figures when its time has come.
The queries are operators with the names of the functions: `get_financial_cashflow`,
`get_seller_analytics`, `get_sales_summary`, `get_analytics_timeseries`, the `get_*_breakdown`s, the
`build_*_export`s, `get_analytics_alerts`, `get_trend_summary` and others. Each is translated with
its own filter and its own idea of when something happened, which is what can make two of
them disagree. Rows of the tables that only are counted (users, reviews, tickets, returns, pages)
are `entry`.

## 3. Runs

| Run | Question | Bounds and why they are enough |
|---|---|---|
| `commerce` | Do stock, orders, payments, sellers and the discount stay in agreement under every order of requests, and does the shop implement `StoreContract`? | two orders, two attempts, two warehouses, two sellers with a product each, one unit per row, one use of the discount. One unit makes two orders compete for it, one use makes them compete for the discount; two attempts can be for one order or for two; two sellers make an order partly started. |
| `inventory` | Do transfers conserve units and need a second person next to an order, and what does an unlocked edit leave intact? | one product, one unit per row and transfer, one order, two attempts, one transfer, one edit. The unit is wanted by the order and the transfer at once, and the edit may surround any of them. |
| `stock_edits` (violation) | Are a row's movements always the whole story of its quantity? | as `inventory` |
| `checkout_race` | With the ledger on: exact reservations, commits that are the atomic checkouts of `StoreContract`, every checkout ends? | a user who sends checkout twice and changes the cart three times meanwhile, and another whose cart lists the same products in the opposite order; the second product exists once. The cycle of lock waits, the double submission and the change between two reads all happen. |
| `checkout_no_ledger` (violation) | The same with the ledger off, the default | as `checkout_race` |
| `shipping` | Do parcels, sellers and order agree through concurrent requests, cancellations and new parcels? | an order of two sellers and one without items, five parcels in all. Five let a seller cancel and ship again while the others have theirs; two sellers make every mixed status. |
| `refunds` | Is nobody credited, refunded or paid out twice or too much, in every order of confirmations? | an order of two items by two sellers, two returns, two refund keys and three payout keys, one of either kind dated ahead of the server's clock, two references. The first item is bought twice and discounted from 4 to 2 cents with 1 for its seller, so half of a refund has to be rounded; the second has a fee to give back. |
| `members` | Are cached permissions those of the rows, factors used once, sellers' records in agreement, is there one default address? | Access: two members, two roles, one of them a system role, one permission, one request that fills, two edits, a second of two ticks, a timeout of two seconds, roles that live for three ticks; so a role has a whole second left or less, and two edits put a change before and one into a fill. Mfa: two challenges, two secrets, two clock steps, two attempts, one recovery code. Applications: two users, two requests at once, and a role that is a system role or not. AddressBook: three addresses, two requests at once, so the default moves among addresses neither works on. |
| `jobs` | Has a fingerprint one live alert that follows the readings; does a schedule run when its calendar says and does every report end? | Alerts: two workers with two rules, one of each kind, a request that raises, two requests of staff, three events of the surroundings; three are enough for a collision whose alert is closed before the second lookup, for an acknowledgement that brings a closed alert back and for one the index refuses. Six alerts are more than three events can use: the liveness property would fail if an insert had no id left. Reports: two runs of the periodic task, one change of the schedule, two reports, days of two instants, months of 2, 1, 3 and 3 days, a clock to 3; a schedule of each frequency, the monthly one for a day one month lacks. |
| `report_period` (violation) | Does a report cover its period? | as `jobs` |
| `service` | Six parts: are restarts approved, single and final, and diagnoses asked once; is a verified address proved; are stored counts right; are payment events the history; is nobody told what is muted; does an audit trail tell the ticket? | Operations: one request by a member of staff who is also an approver, with a second approver, and either two hosts with one diagnosis or two diagnoses of one incident with one host; hosts compete for the claim, diagnoses for the cooldown (the second row comes after the first is committed, which they must with one incident; they differ in name only), and a restart of the worker hits its tasks in both. Identity: two accounts, one of which may be suspended or deleted, two inboxes, three requests, two at once, two codes. Reviews: two authors with ratings 2 and 5, one voter, two requests; the average of 2 and 5 has to be rounded. PaymentTrail: three attempts, three requests. Notices: two kinds of happening, two channels, two notifications, three requests. Support: three requests, two at once, customer, agent and manager, two priorities, one tag. |
| `figures` | Do all places that show a figure agree, and does a past day keep its figures? | one order of two items by two products, one discounted, with a fee; two sellers, two providers, two payments, two partial refunds, a clock to 2 with days of two instants, so a confirmation may be of the day before or of the day after; a capture bears any of the three times and a refund the first or the last; one of the products changes hands at any time. Cancelled and moved orders and attempts that fail are in a part without refunds (`orders`), since no figure relates the two. Of the other tables one row, of users, reviews and returns two, one table at a time. |

Deadlock checking is off in all of them because the system may stop: bounded orders, payments,
requests, edits and clocks run out, and in the runs with parts only the periodic evaluation of
`Alerts` goes on for ever.

Each property that names several things at once joins properties of its module:
`StatusesFollowParcels` those of `Shipping` with `DeliveryIsFinal`, `CreditsComeBackWhole`
`CreditedOnce` and `NoRoundingDrift`, `DebtsAreExplained` `AuditFindsOnlyDebts` and the rule
that only a refund leaves a seller in debt, `RestartsAreDecided` `RestartsAreApproved` and
`DecisionsAreFinal` (these three constrain every step: the state it leads to and what it keeps),
`CountedIsStored` the rating of the product and the counts of the reviews, `FiguresAgree`
the financial figures and the rest.

### What the violation runs show

* `stock_edits`: `PATCH /stocks/<id>/` of a row's location saves every column as it
  was read. A movement or a sale committed in between is undone while its
  `StockMovement` stays, although `apps/inventory/models.py:269` says "every inventory
  change must be recorded here". The `inventory` run shows the limits of the damage:
  payments and the sale movements stay right (`SalesSurviveEdits`).
* `checkout_no_ledger`: the subtotal and the items of a new order come from two reads of
  the cart, and the cart is cleared at the end whatever it holds by then. A second
  checkout, or a change of the cart, in between leaves an order without items or
  whose subtotal is not their sum. `checkout_race` shows that
  `build_order_allocations` catches both, but it runs only with
  `SETTLEMENTS_LEDGER_ENABLED`, which is off by default.
* `report_period`: `generate_analytics_report` passes the report's period to `build_csv_export_data`,
  and `get_date_range` (`apps/analytics/services.py:60`) knows today, week, month and year only. The periods
  a report may have are others (yesterday, last 7 days and so on, `apps/analytics/models.py:27`), and
  for them it returns no bounds: the report covers all rows there ever were.

### Fairness

`CheckoutRace`, `Alerts`, `Reports` and `Access` have liveness properties. `EveryCheckoutEnds` assumes weak
fairness of `Proceed(r)` for each request: a web worker executes the statements of a
transaction it has begun, and the database wakes a waiter of a released lock and
aborts one transaction of a waiting cycle (`deadlock_timeout`). Nothing is assumed of
users: no cart change, checkout, payment or cancellation has to happen.

`AlertsFollowHealth` assumes that some worker is given the task again and again
(`setup_observability_scheduler` has Celery Beat queue it every five minutes) and that a worker
that is not killed finishes what it began. A request that raised may stop anywhere. Staff need
not act, nor finish, and `MaxEvents` makes them, crashes and changes finitely many:
somebody who resolves an alert at every evaluation can keep it closed.

`ReportsEnd` assumes that a worker takes what is in the queue and finishes it or is killed, and
that a transaction of the periodic task ends, by a commit or a rollback. Neither the clock nor
anybody who edits has to move. It speaks of the reports of the periodic task, queued before they are committed, and of those of `run_now`, queued after.
A report whose task was taken too early, never queued or killed, before or after the worker marked the report as being processed, is `lost`, and
the property says so: the code has nothing that would find such a report again.

`StaleEntriesLapse` assumes that time passes, that a request that missed the cache ends, and that
a cache that is to be cleared is cleared. Administrators need not do anything and stop after
`MaxEdits` changes; readers may go on for ever.

## 4. Proofs

Eight modules hold theorems, all about specifications for every value of their constants. The constants
have the assumptions their modules name, `CommerceAssumption` and so on: typed constants, null distinct from every id,
and tables over which something is added up are finite. No assumption bounds a number of rows, requests or
workers, and the bounds of the runs (`MaxEdits` and the like) may be any numbers.

| Module | Extends | Theorems about |
|---|---|---|
| `SumTheorems` | library modules only | finite sums, used by the others |
| `CommerceProofs` | `Inventory` | the shop, the contract, edits and transfers |
| `CheckoutRaceProofs` | `CheckoutRace` | checkouts, a statement at a time |
| `ShippingProofs` | `Shipping` | parcels and statuses |
| `RefundsProofs` | `Refunds` | returns, refunds, payouts, the ledger |
| `MembersProofs` | `Mfa`, `Applications`, `AddressBook`, `Identity`, `Access` | members; a section and an inductive invariant for each |
| `ServiceProofs` | `Operations`, `Support`, `PaymentTrail`, `Notices`, `Reviews` | operations and records, likewise |
| `JobsProofs` | `Alerts`, `Reports`, `Figures` | periodic tasks and the figures their reports print, likewise |

The type invariant of every module is proved, as a part of an inductive invariant if
not as a theorem of its own. The runs do not check most of them: a proof covers every instance.

### SumTheorems

Much of what this system promises compares a counter with a sum over rows. The sums are `SumFunctionOnSet` of
the community modules, a fold whose own induction theorems need a prover that
instantiates operators. `SumTheorems` goes around that: `SmallestSubset` says that a non-empty collection
of subsets of a finite set has a smallest member (from `FS_StrictSubsetOrderingWellFounded`), and an
induction over a set becomes an argument about a smallest subset that breaks the claim. From that follow, in order, that
the fold is the only function with its recursion (`SumStep`), that any element may be taken first (`SumTake`), and
what the proofs cite: a row that enters, leaves or changes (`SumEnter`, `SumLeave`, `SumChange`), sums of
sums (`SumPlus`, `SumScale`, `SumSwap`), parts (`SumSplit`, `SumPart`, `SumLeq`), sums and counts over the
classes of a key (`SumOfClasses`, `SumOfParts`, `CountsAddUp`) and over rows of another table that stand for these one
by one (`SumOfImages`).

### The shop (`CommerceProofs`)

From `MaxStockAssumption`, `CommerceAssumption` and, for the last two, `InventoryAssumption`:

| Theorem | Statement |
|---|---|
| `TypesAreCorrect` | `Spec => []TypeOK` |
| `OrdersArePaidOnce` | `Spec => []PaidExactlyOnce` |
| `NoStaleAttempt` | `Spec => []OpenAttemptsArePayable` |
| `SellersWaitForPayment` | `Spec => []FulfillmentFollowsPayment` |
| `NoUnitPromisedTwice` | `Spec => []RowsConsistent`: reserved never exceeds quantity |
| `DiscountIsLimited` | `Spec => []DiscountWithinLimits` |
| `ReservationsAreItems` | `Spec => []ReservationsMatchOrders` |
| `MovementsAreComplete` | `Spec => []MovementsExplainStock` |
| `ShopKeepsItsContract` | `Spec => KeepsContract`: `Commerce` implements `StoreContract` |
| `SalesStand` | `InventorySpec => []SalesSurviveEdits` |
| `TransfersLoseNothing` | `InventorySpec => []TransfersConserveUnits` |

The argument. `IInv` is `TypeOK /\ PaymentsAgree /\ SellersAgree`, proved inductive
action by action. `PaymentsAgree` joins `PaidExactlyOnce` and
`OpenAttemptsArePayable` because neither is inductive alone: that a success leaves
the order with one successful attempt needs that the order was unpaid, which a
pending attempt tells, and that a new attempt stays payable needs that no other
success changes the order without closing it. `TypeOK` needs both, since
`MarkSuccess` indexes `order` with the order of a pending attempt. `SellersAgree` adds to
`FulfillmentFollowsPayment` that an id without an order is
blank, or a checkout that reuses it would start from somebody's leftovers.
`RowsConsistent` follows from lemmas about `StockRow` (each guard is exactly what its
effect needs) and `StockWrites`, which says that every step changes a row by one of them.
`DiscountWithinLimits` needs cardinalities: a checkout adds one order to the set of
usages and a cancellation removes one, by `FS_AddElement` and `FS_RemoveElement`.

`StockInv` has the three sums of a stock row: the units reserved are those the open orders claim, the sale
movements those the paid orders claim, the quantity is all movements. A step moves one order between
two of these sets at most, so each sum changes by that order's claim (`SumEnter`, `SumLeave`), which is what
the step writes to the row.

`ShopKeepsItsContract` is the refinement, step by step (`ContractNext`): a movement is a `Restock`, a checkout an `Open`, a success a `Pay`,
a cancellation a `Release` and a deleted warehouse a `Forget`, and everything else, sellers and new or failed attempts among it,
leaves the contract alone. The hard step is the movement. The contract asks that a row never falls
below what is promised, while the code compares with a counter, so `PromisedAreClaimed`
and `ReservedAreItems` have to say that the counter is that sum. A success needs `PaymentsAgree`, as the
contract knows one payer only.

With `Inventory`'s steps `QuantitiesAreMovements` and `ReservedAreItems` are no longer true, since an edit overwrites rows
(the run `stock_edits`). `SalesInv` is what is left: `PaymentsAgree` and `SalesAreItems`, which read no row an edit
writes. A transfer's legs are movements (`LegIsMovement`), and `TransfersBalance` says that what they wrote is minus what is on the way,
as long as no warehouse was deleted: a deletion takes movements and transfers with it.

### Checkouts (`CheckoutRaceProofs`)

From `CheckoutRaceAssumption`:

| Theorem | Statement |
|---|---|
| `NoReservationLeaks` | `Spec => []ReservationsAreExact` |
| `CheckoutsHappenAtOnce` | `LedgerEnabled => (Spec => CheckoutsAreAtomic)`: the transactions implement the checkout of `StoreContract` |

`RaceInv` says what a request holds at each place (`HeldAreItems`), that the rows it has locked are the ones it
holds (`LocksAreHeld`: so a rollback, an abort of the database's included, releases neither less nor more), and
that the counter of a row is the sum over the requests (`CountersAreSums`). The hypothesis `LedgerEnabled` of the second theorem is the code's
setting; with `FALSE` the run `checkout_no_ledger` violates `OrdersFollowTheCart`.

`Commerce` takes a checkout for one step, and `CheckoutsHappenAtOnce` is why it may. `CheckoutRace` maps its
committed requests to the open orders of `StoreContract`; the shop opens with its units in place, so the theorem is about steps and not about
the contract's first state. A commit is an `Open` (`CommitOpens`), every other statement changes nothing the contract
knows of (`OthersStutter`). What has to be shown is that the units the contract has not promised cover the order: promised are the
reservations of the committed (`PromisedAreReserved`), which together with this request's are a part of the counter's sum, and
the counter is within the row (`ReservedIsFree`). With the ledger off, a commit of an order
without items is a step that the contract does not have. The run `checkout_race` checks `CheckoutsAreAtomic` with the ledger on.

### Parcels (`ShippingProofs`)

From `ShippingAssumption` (typed constants, no seller and no order is null):

| Theorem | Statement |
|---|---|
| `TypesAreCorrect` | `Spec => []TypeOK` |
| `NoSecondParcel` | `Spec => []OneParcelPerPart` |
| `SellersFollowParcels` | `Spec => []SellerFollowsParcel` |
| `OrdersFollowSellers` | `Spec => []OrderFollowsSellers` |
| `SellersCanShip` | `Spec => []NoSellerStrands` |
| `DeliveredForGood` | `Spec => DeliveryIsFinal` |
| `StatusesFollowParcelsAlways` | `Spec => StatusesFollowParcels`, the property the run checks: two of the above and `DeliveryIsFinal` |

The inductive invariant joins the first four with `OwnPart`: a seller has a status in an
order exactly if items of it are theirs. `SellerFollowsParcel` is inductive only with
`OneParcelPerPart`, since a parcel that moves may set the seller's status only if no other
parcel contradicts it, and `CreateShipment` keeps it because the new parcel is the only
one. `MarkReady`, `MarkShipped`, `MarkDelivered` and `Cancel` share the lemma
`ParcelMoves`. `SellersCanShip` needs no induction of its own: a seller without a parcel
under way has, by the invariant, a status that makes a request `Eligible`.

### Returns and money (`RefundsProofs`)

From `RefundsAssumption` (amounts are natural numbers, what a seller is paid for an item is at most what the buyer paid for it, and that at
most its price; keys of refunds are not keys of payouts, which is so because the two tables are different):

| Theorem | Statement |
|---|---|
| `CreditsReturn` | `Spec => []CreditsComeBackWhole` |
| `ReturnsStayWithinSale` | `Spec => []ReturnsWithinSale` |
| `RefundsAreProven` | `Spec => []RefundedIsProven` |
| `PayoutsStayReleased` | `Spec => []PayoutsAreReleased` |
| `AuditIsExplained` | `Spec => DebtsAreExplained` |

`RefundsInv` is the properties themselves and four facts they take for granted: a return is of a paid order and its
items' shares add up (`ReturnsAreWhole`), a refund is of a return that was approved (`RefundsAreOfReturns`), refunds on a
return give back no more of an item than its share (`SharesHold`), and what was captured is credited and no
more than that debited (`CreditsArePosted`). A confirmed refund is a new row in five sums; `RefundEnters` follows it
through the columns and `PayoutEnters` a payout through the seller's. Each debit is
rounded by itself, so `NoRoundingDrift` needs both of the code's precautions: a debit is capped by what is left of the credit, and the
refund that completes the merchandise takes all that is left.

### Members (`MembersProofs`)

From `MfaAssumption`, `ApplicationAssumption`, `AddressAssumption`, `IdentityAssumption` and `AccessAssumption`:

| Theorem | Statement |
|---|---|
| `MfaTypesHold`, `FactorsAreAlwaysSpent` | `MfaSpec => []MfaTypeOK`, `[]FactorsAreSpent` |
| `ApplicationTypesHold`, `SellersAlwaysAgree` | `ApplicationSpec => []ApplicationTypeOK`, `[]SellersAgree` |
| `AddressTypesHold`, `DefaultIsAlwaysTheChosen` | `AddressSpec => []AddressTypeOK`, `[]DefaultIsTheChosen` |
| `VerifiedIsAlwaysProven`, `OneCodeAlways` | `IdentitySpec => []VerifiedIsProven`, `[]OneCodePerInbox` |
| `ListsStayCurrent` | `AccessSpec => []Current` |

`FactorsAreSpent` needs to know why a code does not match again: a TOTP that opened a session is one of the
device's present secret, at or before `last`; a recovery code is no longer there (`Spent`). That
the secret is still the present one needs that a secret changes only before the first session.
`Counted` ties the codes tried to the attempts of the challenge.

`SellersAgree` speaks of moments when nobody decides; the inductive `Agreed` speaks of all: the decisions
under way about one user are never opposed, each agrees with the status (`Consistent`), and
flag and role follow the status or a request is about to make them (`Follows`), the role unless it is
`byHand`. A decision that finds the role takes its user out of `byHand`, and has to leave the three in agreement whatever
happened to the role before. That two equal decisions
at once are harmless comes out of the proof and was not assumed. `AddressInv` has that at most one request makes a default and
that between its statements nobody is the default.

`IdentityInv` says of each account that is not `crossed`: at most one request mails a link for it, the account is not
verified meanwhile, a request that is about to save it as verified holds the address the account has, and so does its cached
token, but for the moment between the saved address and the new token (`Undisturbed`). Of each inbox that is not `raced`: one request at a
time is about its codes, only the newest code is live, and a code about to be marked was not accepted before (`Unraced`).

`Current` speaks of lists that nobody is about to clear. `AccessInv` adds what a reader has read so far
(`FillFits`), because a list is stored two statements after it was read, and the lives: what is left of a
list is at most what is left of each role it was made with, or at most a second (`EntryLasts`), which is why the cache may
outlive a role by less than a second and a grant not at all.

### Service (`ServiceProofs`)

From `OperationsAssumption`, `SupportAssumption`, `TrailAssumption`, `NoticeAssumption` and `ReviewAssumption`:

| Theorem | Statement |
|---|---|
| `TypesAreCorrect` | `Spec => []TypeOK` |
| `RestartsAreApprovedAlways` | `Spec => []RestartsAreApproved` |
| `DecisionsStay` | `Spec => DecisionsAreFinal` |
| `RestartsAreDecidedAlways` | `Spec => RestartsAreDecided`, the conjunction of the two |
| `ProviderCalledOnceAlways` | `Spec => []ProviderCalledOnce` |
| `CooldownHoldsAlways` | `Spec => []CooldownHolds` |
| `SupportTypesHold`, `TrailAlwaysTellsTicket` | `SupportSpec => []SupportTypeOK`, `[]TrailTellsTicket` |
| `TrailTypesHold`, `EventsAreAlwaysHistory` | `TrailSpec => []TrailTypeOK`, `[]EventsAreHistory` |
| `NoticeTypesHold`, `MutedIsAlwaysSilent` | `NoticeSpec => []NoticeTypeOK`, `[]SilentWhenMuted` |
| `CountsAlwaysStored` | `ReviewSpec => []CountedIsStored` |

The inductive invariant of `Operations` has a part for restarts and one for diagnoses, and each kind of
step leaves the other part alone, but for a restart of the worker, which only ends tasks.
`RunnersAgree` is what makes at most one restart inductive: a runner that has claimed
works for an operation that has not been restarted yet, is running or has been given up,
and that no other runner works for. `CallsAgree` ties the calls to the provider to a diagnosis's status.
`OneFresh` counts rows not committed yet as well, since the cooldown holds only
because a second request waits for the incident's lock.

`SupportInv` says of each column that is neither mixed nor cut: one request at most works on it, and then what the ticket
will be and what the trail will tell agree (`ColumnTold`). A reply saves after its audit row and
the other requests before it; `WillBe` and `WillTell` make the two cases one. A deleted tag is on no ticket and may be in
what the trail tells, so tags agree up to those `gone`. The rows written are the
rows logged and one for each request between a row and its audit row (`RowsTold`), a fact about the cardinality of
the set of these requests.

`EventsAreHistory` is inductive with what a request knows (`VisitOK`, `History`): between commit and event the last
event still names the old status, and the attempt is what the request will write. A refund may
come between the two: a request that refreshes after it writes `refunded`, which is the status, and after a
request that refreshed before it the last event says `success`, as it does when nobody was there (`LastToldOf`). `OneSuccess` is a separate
argument, since it must hold of attempts whose requests overlap too: the order awaits payment until the
first success, and only one request can be between that commit and its event. `NoticeInv` has that a change of the preferences under way
agrees with the row in every field but its own.

`ReviewInv` says when a refresh of the rating is `alone`: no other request works, and what it has counted is still what
counting gives (`AloneIsAlone`). The rating is right whenever nobody refreshes it and nothing went `stale` (`RatingIsCurrent`); the
counts an edit has read are right until a vote comes between (`EditsAreCurrent`). A rounded average is between 1 and 5 (`Rounded`), which the
column needs.

### Periodic tasks and figures (`JobsProofs`)

From `AlertsAssumption`, `PeriodAssumption`, `ReportAssumption` and `FigureAssumption`:

| Theorem | Statement |
|---|---|
| `TypesAreCorrect` | `Spec => []TypeOK` |
| `OneLiveAlertAlways` | `Spec => []OneLiveAlert` |
| `SettledAlertsStaySettled` | `Spec => SettledForever` |
| `SchedulesFollowTheCalendar` | `ReportSpec => []RunsWhenTheCalendarSays` |
| `FigureInductive` | `FigureSpec => []FigureInv` |
| `FiguresAlwaysAgree` | `FigureSpec => []FiguresAgree` |
| `PastFiguresAlwaysStand` | `FigureSpec => PastFiguresStand` |

`OneLiveAlert` is inductive beside the types. Two steps make an alert live, `Insert` and
`SaveAcknowledge`, and both meet the index (`GoesLive`); all others only close
(`OnlyCloses`). `SettledForever` needs the types alone: only `SaveAcknowledge` could
bring a closed alert back, and it belongs to a request that was under way.

`SchedulesFollowTheCalendar` has two halves. The first is about the four `*_next_run` functions, for days, weeks and months of any
lengths: what they return is ahead, the calendar names it, and nothing the calendar names is between (`IsNextRun`).
A timing names days and each day has one instant, so it is enough that the day is the first of those whose
instant is ahead (`FirstDayAhead`); which days these are, is an argument for each frequency: the next such weekday is within a
week (`WeekdayAhead`), a day the month lacks is its last (`MonthExists`, `RunDayIs`), and steps of n days are counted from
the last run (`StepDays`). The assumption that a month begins after the last instant is the horizon of the model's calendar, which the code's does not have.
The second is `ReportInv`: runs of the task are one transaction at a time (`OneTransaction`), times are in order, and
while nothing is `disrupted` the schedule is as last computed, except under the lock of the run that is about to
move it on and between the two saves of a change (`Undisturbed`).

The figures are queries: what changes is in the rows, and what has to agree is arithmetic. `FigureInv` is about the rows. An order is
paid by one captured attempt (`PaidByOne`), which is inductive only with the fact that an order is unpaid while an attempt is
pending (`AttemptsFit`); the two status columns of an order fit (`OrdersFit`): what is cancelled was not paid, and what is
neither unpaid nor cancelled was; a refund is of a captured payment and of an item whose seller is known (`RefundsFit`, `SnapshotsFit`), and
refunds are numbered, so two equal ones are two rows.

From there every figure is a sum over rows (`ItemSums`, `AmountSums`, `SellerShares`), and two queries that must agree are compared in
one of three ways. Some filter the same rows. Some split them: by provider, day, status, category, seller or product, and the
classes of a key add up to the whole (`BucketsAddUp`, `DaysAddUp`, `SharesAddUp`, `StatusesAddUp`, `SeriesAgrees`), which
asks that every row has its class: that an instant of a window is in one of the window's days (`DayOfWindow`, `DayOfRange`), by the
arithmetic of days of any length. And some go through other rows: the amounts captured are those of the items whose order was captured
(`MerchandiseOfCaptured`), which needs `PaidByOne`, or an order would count twice in one and once in the other; the ledger's refund
events are its lines one by one (`LinesAreEvents`). `TrendAgrees` counts the instant where two ranges meet in both, as the queries
do. The sellers' shares reconcile with the cash only while the ledger is on, which is how `FiguresAgree` says it.

`PastFiguresStand` needs that the rows a past figure is made of only grow (`FiguresGrow`, shown of each step next to `FigureInv`):
a captured payment stays captured, at its time and for its order, when it is refunded later; no refund leaves; a seller who was noted with
an item stays noted. The sums are of numbers that are not negative, so they grow with their rows (`SumPart`).

### Only model-checked

* Liveness: `EveryCheckoutEnds`, `StaleEntriesLapse`, `AlertsFollowHealth`, `ReportsEnd`. The prover has no rules for
  fairness and `ENABLED`.

Every safety invariant and every action property that a passing run checks is a theorem. The properties of the violation runs
are refuted by TLC and are not theorems.

## 5. Abstractions, and what is not modelled

* Prices, discount amounts, dates and targeting of discounts: an order has a total out
  of a set, and a code applies or does not. Zero is among the totals, because an order
  that a discount covers wholly can be created but never paid: `CreatePayment` needs a
  positive amount, as the code does.
* An order waits for its payment for ever: the code has no expiry, so the model has none,
  and a reservation may stay until somebody cancels.
* `Stock.reserve` that loses the race for the units it saw raises and ends the checkout; no
  further warehouse is tried. In `Commerce` such a checkout is a request that changes
  nothing; in `CheckoutRace` it is `OutOfStock`.
* The seller of a product, warehouse memberships and prices are constants. A superuser is
  a member of every warehouse.
* Order status history, shipment events, low-stock alerts and read views decide nothing the
  properties are about.
* The tables of `Shipping` and `Refunds` have statuses no code sets (in transit, failed,
  draft, under review, inspecting, refund pending); they are left out. Tracking numbers,
  costs and notes decide nothing.
* In `Refunds` shipping fees and tax of an item are one number, since both are
  refunded up to what was charged. Amounts are of one currency, and the ledger is on. The
  commission given back with a refund is what is left of the line and is not kept. The
  audit's findings that no sequence of handlers can bring about are not stated.
* In `Operations` a deadline or an age passes at any moment. A runner may be slow for longer
  than its timeouts let it be, so `Reconcile` may meet one at work; the command's text asks
  the operator to look first. Staff are not deleted. The broker loses no task it has
  taken, and may deliver one again.
* In `Access` the list of a user has no more than the codenames, and time is in ticks, parts of a second: the
  cache counts seconds, roles expire between two. Every order of expiry and clearing is there. In `Mfa` the
  contents of a code, and in `Identity` passwords and tokens of a session, are left out; what guessing one would take
  is not asked.
* In `Support` one ticket, in `Reviews` one product, in `PaymentTrail` one order, in
  `Notices` and `AddressBook` one user stand for all, because no statement touches two. The tags of `Support` are there from the
  start, are all active (an inactive one is refused, which changes nothing) and do not come back when deleted.
* In `Reports` a schedule makes one report; the report types of one schedule are made alike. `Figures` has
  one currency and no timezone but UTC, which the settings fix. The
  lists of best sellers are whole: the cut after the first `limit` products decides nothing that is compared. The
  cached widgets, the layout of exports and the demo data are left out.
* The Django admin, where it writes rows without the methods above. Where its forms and actions were modelled
  (`Access`, `Reviews`, `Notices`) the map names them.
* Accounts: passwords, session tokens, login by phone, profile texts, documents. Reviews: images and reports by
  users. Support: departments, canned texts, downloads. Settlements: the life of audit runs and
  alerts. Observability: its request, error and audit logs with their cleanup, and the statuses of
  incidents.
* Products and Content: catalogue rows and pages that are created, edited and read by one statement each;
  what other parts need of them enters as a constant. Configuration: settings, routes and probes.

Met while modelling, without a run of their own:

* A return's amounts come from the list price (`apps/returns/services.py:167`) and a refund may not exceed the
  price less the discount. A full approval of a discounted item can then not be confirmed in full, and
  such a return can be neither closed nor cancelled.
* `payout_eligibility` counts debits up to now by the time the confirmation carries. A payout dated
  ahead leaves eligibility as it was for the time being; the run `refunds` has such a key and shows that credits paid out are
  released ones and every debt is still explained. The comment of `settlement_policy.py` that refund and payout debits always reduce
  the eligible balance is true of debits dated in time only.
* `diagnose` counts a user's diagnoses of the day under the lock of the incident only
  (`apps/observability/workflow_views.py:196`). Two requests for two incidents do not see each other and both pass,
  although `docs/observability/RUNBOOK_AI_DIAGNOSIS.md:45` calls the maximum database-enforced.
* A reply that was under way when its ticket was closed opens it again (`apps/support/views.py:578`), and an
  application that two administrators decide in opposite ways may end as rejected with the vendor
  role. `mixed` and `tangled` name these cases.

## 6. Plan

Done so far, in this order: the shop (`Commerce`, `Inventory`, `CheckoutRace`), what follows an order
(`Shipping`, `Refunds`, `PaymentTrail`), operations and alerts, members (`Access`, `Identity`,
`Mfa`, `Applications`, `AddressBook`), service (`Support`, `Reviews`, `Notices`), reports (`Periods`, `Reports`,
`Figures`). What is left:

1. **Incidents**: the transitions of their statuses next to the comments and links of several
   members of staff, and the cleanup of the logs they refer to.
2. **Settlement audits**: the life of an audit run and its alerts.
3. **Products**: the capped list of recently viewed products, the only part with a limit of its own.
