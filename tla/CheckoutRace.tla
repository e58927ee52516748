---------------------------- MODULE CheckoutRace ----------------------------
(***************************************************************************)
(* Checkout requests statement by statement.  The handler reads the cart   *)
(* several times and never locks it, so other requests of the same user    *)
(* may change it, or check it out, between two reads.  Stock rows are      *)
(* locked one by one in the order of the cart and kept until the           *)
(* transaction ends.  PostgreSQL runs at READ COMMITTED: a plain read sees *)
(* what is committed, a locking read waits for the holder, and one         *)
(* transaction of a cycle of waiting ones is aborted.                      *)
(***************************************************************************)
EXTENDS Integers, FiniteSets, Functions

CONSTANTS
    Users, Products,
    FirstCart,          \* what each user's cart lists to begin with
    MaxChanges,         \* bound: cart changes a user makes meanwhile
    Requests, UserOf,   \* checkout requests and the user that sends each
    CartOrder,          \* where in a user's cart each product is listed
    Price,              \* unit price of each product
    Quantity,           \* units of each product in the warehouse
    MaxItemQty,         \* bound: units of one product in a cart
    LedgerEnabled,      \* SETTLEMENTS_LEDGER_ENABLED
    None

ASSUME CheckoutRaceAssumption ==
    /\ MaxChanges \in [Users -> Nat]
    /\ FirstCart \in [Users -> [Products -> 0..MaxItemQty]]
    /\ UserOf \in [Requests -> Users]
    /\ CartOrder \in [Users -> [Products -> Nat]]
    /\ \A u \in Users : IsInjective(CartOrder[u])
    /\ Price \in [Products -> Nat] /\ Quantity \in [Products -> Nat]
    /\ MaxItemQty \in Nat /\ LedgerEnabled \in BOOLEAN
    /\ None \notin Requests /\ None \notin Products
    /\ IsFiniteSet(Requests) /\ IsFiniteSet(Products)

VARIABLES
    cart,       \* CartItem: user -> product -> quantity, 0 for no row
    changes,    \* how often each user has changed the cart
    edit,       \* the cart change each user's other request has under way
    request,    \* checkout requests: where they are and what they have read
    reserved,   \* Stock.reserved_quantity, as the holder of the row sees it
    holder      \* the request whose transaction has locked each stock row

vars == <<cart, changes, edit, request, reserved, holder>>

Lines == [Products -> 0..MaxItemQty]
NoLines == [p \in Products |-> 0]

Amount(lines) == SumFunctionOnSet([p \in Products |-> lines[p] * Price[p]], Products)
InCart(lines) == {p \in Products : lines[p] > 0}

NoEdit == [product |-> None, quantity |-> 0, deleted |-> FALSE]

NoRequest ==
    [pc |-> "idle", subtotal |-> 0, items |-> NoLines, held |-> {}]

Init ==
    /\ cart = FirstCart
    /\ changes = [u \in Users |-> 0]
    /\ edit = [u \in Users |-> NoEdit]
    /\ request = [r \in Requests |-> NoRequest]
    /\ reserved = [p \in Products |-> 0]
    /\ holder = [p \in Products |-> None]

----------------------------------------------------------------------------
(* Cart endpoints.  Each is a read and a write that no lock connects. *)

\* One more request that changes the cart.
Change(u) ==
    /\ changes[u] < MaxChanges[u]
    /\ changes' = [changes EXCEPT ![u] = @ + 1]

\* POST /cart/add/ of a product the cart does not list inserts its row.
AddItem(u, p, q) ==
    /\ Change(u)
    /\ cart[u][p] = 0
    /\ cart' = [cart EXCEPT ![u][p] = q]
    /\ UNCHANGED <<edit, request, reserved, holder>>

\* POST /cart/add/ of a listed product and PATCH /cart/items/<p>/ read the row
\* and decide on its new quantity.
BeginChange(u, p, q) ==
    /\ Change(u)
    /\ edit[u].product = None
    /\ cart[u][p] > 0
    /\ edit' = [edit EXCEPT ![u] = [product |-> p, quantity |-> q, deleted |-> FALSE]]
    /\ UNCHANGED <<cart, request, reserved, holder>>

\* Model.save updates the row it read; a row deleted meanwhile is inserted
\* again, which fails when the product has got another row.
SaveChange(u) ==
    LET p == edit[u].product
    IN /\ p # None
       /\ cart' = IF edit[u].deleted /\ cart[u][p] > 0 THEN cart
                  ELSE [cart EXCEPT ![u][p] = edit[u].quantity]
       /\ edit' = [edit EXCEPT ![u] = NoEdit]
       /\ UNCHANGED <<changes, request, reserved, holder>>

\* The rows of the products in gone leave u's cart.
DeleteRows(u, gone) ==
    /\ cart' = [cart EXCEPT ![u] = [p \in Products |-> IF p \in gone THEN 0 ELSE @[p]]]
    /\ edit' = [edit EXCEPT ![u].deleted = @ \/ edit[u].product \in gone]

\* DELETE /cart/items/<p>/.
RemoveItem(u, p) ==
    /\ Change(u)
    /\ cart[u][p] > 0
    /\ DeleteRows(u, {p})
    /\ UNCHANGED <<request, reserved, holder>>

\* DELETE /cart/clear/.
ClearCart(u) ==
    /\ Change(u)
    /\ cart[u] # NoLines
    /\ DeleteRows(u, Products)
    /\ UNCHANGED <<request, reserved, holder>>

----------------------------------------------------------------------------
(* CheckoutSerializer. *)

\* Units that a plain read finds available: reservations of transactions that
\* have not committed do not count.
Uncommitted(p) == IF holder[p] = None THEN 0 ELSE request[holder[p]].items[p]
Free(p) == Quantity[p] - (reserved[p] - Uncommitted(p))

To(r, pc) == request' = [request EXCEPT ![r].pc = pc]

\* validate: the cart has items and the shop has the units.
Validate(r) ==
    /\ request[r].pc = "idle"
    /\ cart[UserOf[r]] # NoLines
    /\ \A p \in Products : Free(p) >= cart[UserOf[r]][p]
    /\ To(r, "validated")
    /\ UNCHANGED <<cart, changes, edit, reserved, holder>>

\* create reads the cart's subtotal for the new order ...
OpenOrder(r) ==
    /\ request[r].pc = "validated"
    /\ request' = [request EXCEPT ![r].pc = "opened",
                                  ![r].subtotal = Amount(cart[UserOf[r]])]
    /\ UNCHANGED <<cart, changes, edit, reserved, holder>>

\* ... and then its items.
ReadItems(r) ==
    /\ request[r].pc = "opened"
    /\ request' = [request EXCEPT ![r].pc = "reserving", ![r].items = cart[UserOf[r]]]
    /\ UNCHANGED <<cart, changes, edit, reserved, holder>>

\* The items that wait for their reservation, and the one whose turn it is in
\* the order of the cart.
Todo(r) == InCart(request[r].items) \ request[r].held

IsNext(r, p) ==
    /\ request[r].pc = "reserving"
    /\ p \in Todo(r)
    /\ \A q \in Todo(r) : CartOrder[UserOf[r]][p] <= CartOrder[UserOf[r]][q]

\* Mutant: the row is not checked again once it is locked.
MutReserveItem(r, p) ==
    /\ IsNext(r, p)
    /\ holder[p] = None
    /\ reserved' = [reserved EXCEPT ![p] = @ + request[r].items[p]]
    /\ holder' = [holder EXCEPT ![p] = r]
    /\ request' = [request EXCEPT ![r].held = @ \cup {p}]
    /\ UNCHANGED <<cart, changes, edit>>

\* Stock.reserve locks the row, checks it again and adds the units.
ReserveItem(r, p) ==
    /\ IsNext(r, p)
    /\ holder[p] = None
    /\ Free(p) >= request[r].items[p]
    /\ reserved' = [reserved EXCEPT ![p] = @ + request[r].items[p]]
    /\ holder' = [holder EXCEPT ![p] = r]
    /\ request' = [request EXCEPT ![r].held = @ \cup {p}]
    /\ UNCHANGED <<cart, changes, edit>>

\* build_order_allocations, when the ledger is on, refuses an order without
\* items or with a subtotal that is not the sum of its items.
Allocated(r) ==
    LedgerEnabled =>
        /\ request[r].items # NoLines
        /\ request[r].subtotal = Amount(request[r].items)

Unlocked(r) == [p \in Products |-> IF holder[p] = r THEN None ELSE holder[p]]

\* The last item is reserved: the cart is cleared, whatever it holds by now,
\* and the transaction commits.
Commit(r) ==
    /\ request[r].pc = "reserving" /\ Todo(r) = {}
    /\ Allocated(r)
    /\ DeleteRows(UserOf[r], Products)
    /\ holder' = Unlocked(r)
    /\ To(r, "done")
    /\ UNCHANGED <<changes, reserved>>

\* Mutant: units of every item are given back, whether or not they were reserved.
MutRollback(r) ==
    /\ reserved' = [p \in Products |->
            IF reserved[p] >= request[r].items[p] THEN reserved[p] - request[r].items[p] ELSE 0]
    /\ holder' = Unlocked(r)
    /\ request' = [request EXCEPT ![r] = [NoRequest EXCEPT !.pc = "failed"]]
    /\ UNCHANGED <<cart, changes, edit>>

\* The transaction takes its reservations and its order with it.
Rollback(r) ==
    /\ reserved' = [p \in Products |->
            IF p \in request[r].held THEN reserved[p] - request[r].items[p] ELSE reserved[p]]
    /\ holder' = Unlocked(r)
    /\ request' = [request EXCEPT ![r] = [NoRequest EXCEPT !.pc = "failed"]]
    /\ UNCHANGED <<cart, changes, edit>>

\* No warehouse has enough of an item, or too little is left once it is locked.
OutOfStock(r) ==
    /\ \E p \in Products : IsNext(r, p) /\ Free(p) < request[r].items[p]
    /\ Rollback(r)

NotAllocated(r) ==
    /\ request[r].pc = "reserving" /\ Todo(r) = {}
    /\ ~ Allocated(r)
    /\ Rollback(r)

\* r waits for a row that some request of S holds.
WaitsFor(r, S) == \E p \in Products : IsNext(r, p) /\ holder[p] \in S

\* Mutant: nobody breaks a cycle of transactions that wait for each other.
MutDeadlockDetected(r) == FALSE /\ Rollback(r)

\* PostgreSQL aborts a transaction that waits in a cycle.
DeadlockDetected(r) ==
    /\ \E cycle \in SUBSET Requests : r \in cycle /\ \A q \in cycle : WaitsFor(q, cycle)
    /\ Rollback(r)

----------------------------------------------------------------------------
CartNext ==
    \E u \in Users :
        \/ \E p \in Products, q \in 1..MaxItemQty : AddItem(u, p, q) \/ BeginChange(u, p, q)
        \/ SaveChange(u) \/ ClearCart(u)
        \/ \E p \in Products : RemoveItem(u, p)

\* What the transaction of r does of itself.
Proceed(r) ==
    \/ OpenOrder(r) \/ ReadItems(r) \/ Commit(r)
    \/ \E p \in Products : ReserveItem(r, p)
    \/ OutOfStock(r) \/ NotAllocated(r) \/ DeadlockDetected(r)

Next == CartNext \/ \E r \in Requests : Validate(r) \/ Proceed(r)

\* A request under way is not abandoned: the worker executes its statements,
\* and the database wakes the first waiter of a lock or aborts it.
Fairness == \A r \in Requests : WF_vars(Proceed(r))

Spec == Init /\ [][Next]_vars /\ Fairness

----------------------------------------------------------------------------
(* Properties. *)

TypeOK ==
    /\ cart \in [Users -> Lines]
    /\ changes \in [Users -> Nat] /\ \A u \in Users : changes[u] <= MaxChanges[u]
    /\ edit \in [Users ->
            [product : Products \cup {None}, quantity : 0..MaxItemQty, deleted : BOOLEAN]]
    /\ request \in [Requests ->
            [pc : {"idle", "validated", "opened", "reserving", "done", "failed"},
             subtotal : Nat, items : Lines, held : SUBSET Products]]
    /\ reserved \in [Products -> Nat]
    /\ holder \in [Products -> Requests \cup {None}]

\* Units of p that each request has reserved.
Reservations(p) ==
    [r \in Requests |-> IF p \in request[r].held THEN request[r].items[p] ELSE 0]

\* However requests interleave, are refused or are aborted, the reserved
\* counter of a row is the sum of the items that hold a reservation, never
\* more than there is, and a committed order has one for every item; no counter
\* leaves its type.
ReservationsAreExact ==
    /\ TypeOK
    /\ \A p \in Products :
        /\ reserved[p] <= Quantity[p]
        /\ reserved[p] = SumFunctionOnSet(Reservations(p), Requests)
    /\ \A r \in Requests : request[r].pc = "done" => request[r].held = InCart(request[r].items)

\* An order has items, and its subtotal is their sum.
OrdersFollowTheCart ==
    \A r \in Requests : request[r].pc = "done" =>
        /\ request[r].items # NoLines
        /\ request[r].subtotal = Amount(request[r].items)

\* A checkout that passed validation ends, with an order or without, although
\* it may wait for rows that other checkouts hold.
EveryCheckoutEnds ==
    \A r \in Requests : request[r].pc = "validated" ~> request[r].pc \in {"done", "failed"}

----------------------------------------------------------------------------
(* What the checkouts amount to once they have committed. *)

Committed(r) == request[r].pc = "done"

Contract == INSTANCE StoreContract WITH
    Warehouses <- {"warehouse"}, Orders <- Requests, Payments <- {}, MaxStock <- 0,
    onHand <- [p \in Products |-> [w \in {"warehouse"} |-> Quantity[p]]],
    phase  <- [r \in Requests |-> IF Committed(r) THEN "open" ELSE "none"],
    basket <- [r \in Requests |-> IF Committed(r) THEN request[r].items ELSE NoLines],
    place  <- [r \in Requests |->
                 [p \in Products |-> IF Committed(r) THEN "warehouse" ELSE None]],
    paidBy <- [r \in Requests |-> None]

\* A checkout takes effect at once: whatever its statements met and however many wait or
\* are rolled back meanwhile, a commit accepts an order that the units nobody else was
\* promised cover, and no other statement does anything that the contract knows of.
CheckoutsAreAtomic == [][Contract!Next]_(Contract!vars)
=============================================================================
