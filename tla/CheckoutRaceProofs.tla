------------------------- MODULE CheckoutRaceProofs -------------------------
(***************************************************************************)
(* Theorems about CheckoutRace for any number of users, products and       *)
(* checkout requests, however their statements interleave.                 *)
(***************************************************************************)
EXTENDS CheckoutRace, SumTheorems

----------------------------------------------------------------------------
(* The inductive invariant. *)

\* Before it reads its items a request holds nothing; what it holds are items of
\* its order, all of them once it has committed.
HeldAreItems ==
    \A r \in Requests :
        /\ request[r].pc \in {"idle", "validated", "opened", "failed"} => request[r].held = {}
        /\ request[r].held \subseteq InCart(request[r].items)
        /\ request[r].pc = "done" => request[r].held = InCart(request[r].items)

\* The rows a request has locked are those it holds while its transaction runs.
LocksAreHeld ==
    \A r \in Requests, p \in Products :
        holder[p] = r <=> request[r].pc = "reserving" /\ p \in request[r].held

\* The counter of a row is the sum of what requests reserved, and within the row.
CountersAreSums ==
    \A p \in Products :
        /\ reserved[p] = SumFunctionOnSet(Reservations(p), Requests)
        /\ reserved[p] <= Quantity[p]

RaceInv == TypeOK /\ HeldAreItems /\ LocksAreHeld /\ CountersAreSums

\* The subtotal of a cart is an amount.
LEMMA AmountType ==
    ASSUME NEW lines \in Lines
    PROVE  Amount(lines) \in Nat
<1> DEFINE value == [p \in Products |-> lines[p] * Price[p]]
<1>1. \A p \in Products : value[p] \in Nat
  <2> SUFFICES ASSUME NEW p \in Products
               PROVE  lines[p] * Price[p] \in Nat
    OBVIOUS
  <2>1. lines[p] \in Nat /\ Price[p] \in Nat
    BY CheckoutRaceAssumption DEF Lines
  <2>2. \A m, n \in Nat : m * n \in Nat
    OBVIOUS
  <2> QED
    BY <2>1, <2>2
<1>2. IsFiniteSet(Products)
  BY CheckoutRaceAssumption
<1>3. Amount(lines) = SumFunctionOnSet(value, Products)
  BY DEF Amount
<1> HIDE DEF value
<1> QED
  BY <1>1, <1>2, <1>3, SumNat

\* A user's reservations are numbers of units.
LEMMA ReservationsType ==
    ASSUME TypeOK, NEW p \in Products
    PROVE  \A r \in Requests : Reservations(p)[r] \in Nat
BY CheckoutRaceAssumption DEF TypeOK, Lines, Reservations

\* A step that leaves alone what requests hold leaves the sums alone.
LEMMA CountersFrame ==
    ASSUME CountersAreSums, reserved' = reserved,
           \A r \in Requests :
               /\ request'[r].held = request[r].held
               /\ \A p \in request[r].held : request'[r].items[p] = request[r].items[p]
    PROVE  CountersAreSums'
<1>1. \A p \in Products : Reservations(p)' = Reservations(p)
  BY DEF Reservations
<1> QED
  BY <1>1 DEF CountersAreSums

----------------------------------------------------------------------------
(* Steps on the cart, which no lock protects. *)

\* The cart endpoints keep the tables in their types ...
LEMMA TypeCart ==
    ASSUME TypeOK, CartNext
    PROVE  TypeOK'
<1>0. PICK u \in Users :
        \/ \E p \in Products, q \in 1..MaxItemQty : AddItem(u, p, q) \/ BeginChange(u, p, q)
        \/ SaveChange(u) \/ ClearCart(u)
        \/ \E p \in Products : RemoveItem(u, p)
  BY DEF CartNext
<1> USE CheckoutRaceAssumption DEF Lines
<1>1. ASSUME Change(u)
      PROVE  changes' \in [Users -> Nat] /\ \A x \in Users : changes'[x] <= MaxChanges[x]
  BY <1>1 DEF Change, TypeOK
<1>2. ASSUME NEW gone, DeleteRows(u, gone)
      PROVE  /\ cart' \in [Users -> Lines]
             /\ edit' \in [Users -> [product : Products \cup {None}, quantity : 0..MaxItemQty,
                                     deleted : BOOLEAN]]
  <2>1. edit[u] \in [product : Products \cup {None}, quantity : 0..MaxItemQty,
                     deleted : BOOLEAN]
    BY DEF TypeOK
  <2>2. [p \in Products |-> IF p \in gone THEN 0 ELSE cart[u][p]] \in Lines
    BY DEF TypeOK
  <2>3. (edit[u].deleted \/ edit[u].product \in gone) \in BOOLEAN
    BY <2>1
  <2>4. [edit[u] EXCEPT !.deleted = edit[u].deleted \/ edit[u].product \in gone]
          \in [product : Products \cup {None}, quantity : 0..MaxItemQty, deleted : BOOLEAN]
    BY <2>1, <2>3
  <2> QED
    BY <1>2, <2>2, <2>4 DEF DeleteRows, TypeOK
<1>3. ASSUME NEW p \in Products, NEW q \in 1..MaxItemQty, AddItem(u, p, q) \/ BeginChange(u, p, q)
      PROVE  TypeOK'
  <2>1. CASE AddItem(u, p, q)
    BY <1>1, <2>1 DEF AddItem, TypeOK
  <2>2. CASE BeginChange(u, p, q)
    BY <1>1, <2>2 DEF BeginChange, TypeOK
  <2> QED
    BY <1>3, <2>1, <2>2
<1>4. CASE SaveChange(u)
  <2>1. NoEdit \in [product : Products \cup {None}, quantity : 0..MaxItemQty, deleted : BOOLEAN]
    BY DEF NoEdit
  <2>2. edit[u].product \in Products \cup {None} /\ edit[u].quantity \in 0..MaxItemQty
    BY DEF TypeOK
  <2>3. cart' \in [Users -> Lines]
    BY <1>4, <2>2 DEF SaveChange, TypeOK
  <2> QED
    BY <1>4, <2>1, <2>3 DEF SaveChange, TypeOK
<1>5. CASE ClearCart(u)
  BY <1>1, <1>2, <1>5 DEF ClearCart, TypeOK
<1>6. ASSUME NEW p \in Products, RemoveItem(u, p)
      PROVE  TypeOK'
  BY <1>1, <1>2, <1>6 DEF RemoveItem, TypeOK
<1> QED
  BY <1>0, <1>3, <1>4, <1>5, <1>6

\* ... and touch neither requests nor stock rows.
LEMMA CartFrame ==
    ASSUME CartNext
    PROVE  UNCHANGED <<request, reserved, holder>>
BY DEF CartNext, AddItem, BeginChange, SaveChange, ClearCart, RemoveItem

----------------------------------------------------------------------------
(* Steps of a request that change no reservation. *)

\* What a step of one request that is not a reservation or its end does.
LEMMA RequestReads ==
    ASSUME RaceInv, NEW r \in Requests, Validate(r) \/ OpenOrder(r) \/ ReadItems(r)
    PROVE  RaceInv'
<1> USE DEF RaceInv
<1>0. /\ request[r].held = {} /\ UNCHANGED <<cart, changes, edit, reserved, holder>>
      /\ request[r].pc \in {"idle", "validated", "opened"}
  BY DEF Validate, OpenOrder, ReadItems, To, HeldAreItems
<1>1. PICK pc \in {"validated", "opened", "reserving"}, n \in Nat, items \in Lines :
          request' = [request EXCEPT ![r].pc = pc, ![r].subtotal = n, ![r].items = items]
  <2>1. /\ request[r].subtotal \in Nat /\ request[r].items \in Lines
        /\ cart[UserOf[r]] \in Lines /\ request \in [Requests -> [
             pc : {"idle", "validated", "opened", "reserving", "done", "failed"},
             subtotal : Nat, items : Lines, held : SUBSET Products]]
    BY CheckoutRaceAssumption DEF TypeOK
  <2>2. Amount(cart[UserOf[r]]) \in Nat
    BY <2>1, AmountType
  <2>3. CASE Validate(r)
    <3>1. request' = [request EXCEPT ![r].pc = "validated", ![r].subtotal = request[r].subtotal,
                                     ![r].items = request[r].items]
      BY <2>1, <2>3 DEF Validate, To
    <3> QED
      BY <2>1, <3>1
  <2>4. CASE OpenOrder(r)
    <3>1. request' = [request EXCEPT ![r].pc = "opened", ![r].subtotal = Amount(cart[UserOf[r]]),
                                     ![r].items = request[r].items]
      BY <2>1, <2>4 DEF OpenOrder
    <3> QED
      BY <2>1, <2>2, <3>1
  <2>5. CASE ReadItems(r)
    <3>1. request' = [request EXCEPT ![r].pc = "reserving", ![r].subtotal = request[r].subtotal,
                                     ![r].items = cart[UserOf[r]]]
      BY <2>1, <2>5 DEF ReadItems
    <3> QED
      BY <2>1, <3>1
  <2> QED
    BY <2>3, <2>4, <2>5
<1>2. /\ request'[r].pc = pc /\ request'[r].subtotal = n /\ request'[r].items = items
      /\ request'[r].held = {}
      /\ \A x \in Requests \ {r} : request'[x] = request[x]
  BY <1>0, <1>1 DEF TypeOK
<1>3. TypeOK'
  <2>1. [request[r] EXCEPT !.pc = pc, !.subtotal = n, !.items = items] \in [
           pc : {"idle", "validated", "opened", "reserving", "done", "failed"},
           subtotal : Nat, items : Lines, held : SUBSET Products]
    BY ZenonT(60) DEF TypeOK
  <2>2. request' \in [Requests -> [
           pc : {"idle", "validated", "opened", "reserving", "done", "failed"},
           subtotal : Nat, items : Lines, held : SUBSET Products]]
    BY <1>1, <2>1 DEF TypeOK
  <2> QED
    BY <1>0, <2>2 DEF TypeOK
<1>4. HeldAreItems'
  BY <1>2 DEF HeldAreItems
<1>5. LocksAreHeld'
  BY <1>0, <1>2 DEF LocksAreHeld
<1>6. CountersAreSums'
  BY <1>0, <1>2, CountersFrame
<1> QED
  BY <1>3, <1>4, <1>5, <1>6

\* A commit keeps the reservations, of all items, and drops the locks.
LEMMA RequestCommits ==
    ASSUME RaceInv, NEW r \in Requests, Commit(r)
    PROVE  RaceInv'
<1> USE DEF RaceInv
<1>1. /\ request'[r].pc = "done" /\ request[r].pc = "reserving"
      /\ request'[r].items = request[r].items /\ request'[r].held = request[r].held
      /\ \A x \in Requests \ {r} : request'[x] = request[x]
      /\ Todo(r) = {}
      /\ reserved' = reserved /\ changes' = changes
      /\ holder' = Unlocked(r)
  BY DEF Commit, To, TypeOK
<1>2. TypeOK'
  <2> USE CheckoutRaceAssumption
  <2>1. cart' \in [Users -> Lines]
    BY DEF Commit, DeleteRows, TypeOK, Lines
  <2>2. edit' \in [Users -> [product : Products \cup {None}, quantity : 0..MaxItemQty,
                             deleted : BOOLEAN]]
    <3> DEFINE u == UserOf[r]
    <3>1. edit[u] \in [product : Products \cup {None}, quantity : 0..MaxItemQty,
                       deleted : BOOLEAN]
      BY DEF TypeOK
    <3>2. (edit[u].deleted \/ edit[u].product \in Products) \in BOOLEAN
      BY <3>1
    <3>3. [edit[u] EXCEPT !.deleted = edit[u].deleted \/ edit[u].product \in Products]
            \in [product : Products \cup {None}, quantity : 0..MaxItemQty, deleted : BOOLEAN]
      BY <3>1, <3>2
    <3> QED
      BY <3>3 DEF Commit, DeleteRows, TypeOK
  <2>3. request' \in [Requests -> [
           pc : {"idle", "validated", "opened", "reserving", "done", "failed"},
           subtotal : Nat, items : Lines, held : SUBSET Products]]
    BY ZenonT(60) DEF Commit, To, TypeOK
  <2>4. holder' \in [Products -> Requests \cup {None}]
    BY <1>1 DEF Unlocked, TypeOK
  <2> QED
    BY <1>1, <2>1, <2>2, <2>3, <2>4 DEF TypeOK
<1>3. HeldAreItems'
  <2>1. request[r].held = InCart(request[r].items)
    BY <1>1 DEF HeldAreItems, Todo
  <2> QED
    BY <1>1, <2>1 DEF HeldAreItems
<1>4. LocksAreHeld'
  BY <1>1, CheckoutRaceAssumption DEF LocksAreHeld, Unlocked
<1>5. CountersAreSums'
  <2>1. \A x \in Requests : request'[x].held = request[x].held /\ request'[x].items = request[x].items
    BY <1>1
  <2> QED
    BY <1>1, <2>1, CountersFrame
<1> QED
  BY <1>2, <1>3, <1>4, <1>5

----------------------------------------------------------------------------
(* Steps that reserve and give back. *)

\* A reservation takes the row of an item that the request did not hold, which nobody
\* holds and which has the units.
LEMMA RequestReserves ==
    ASSUME RaceInv, NEW r \in Requests, NEW p \in Products, ReserveItem(r, p)
    PROVE  RaceInv'
<1> USE DEF RaceInv
<1>1. /\ request[r].pc = "reserving" /\ p \in InCart(request[r].items) /\ p \notin request[r].held
      /\ holder[p] = None /\ Quantity[p] - reserved[p] >= request[r].items[p]
      /\ reserved' = [reserved EXCEPT ![p] = reserved[p] + request[r].items[p]]
      /\ holder' = [holder EXCEPT ![p] = r]
      /\ request' = [request EXCEPT ![r].held = request[r].held \cup {p}]
      /\ UNCHANGED <<cart, changes, edit>>
  <2>1. reserved[p] \in Nat /\ Quantity[p] \in Nat
    BY CheckoutRaceAssumption DEF TypeOK
  <2> QED
    BY <2>1 DEF ReserveItem, IsNext, Todo, Free, Uncommitted
<1>2. /\ request'[r].pc = request[r].pc /\ request'[r].items = request[r].items
      /\ request'[r].held = request[r].held \cup {p}
      /\ \A x \in Requests \ {r} : request'[x] = request[x]
  BY <1>1 DEF TypeOK
<1>3. /\ request[r].items[p] \in Nat /\ reserved[p] \in Nat /\ Quantity[p] \in Nat
      /\ IsFiniteSet(Requests)
  BY CheckoutRaceAssumption DEF TypeOK, Lines
<1>4. TypeOK'
  BY <1>1, <1>3 DEF TypeOK
<1>5. HeldAreItems'
  BY <1>1, <1>2 DEF HeldAreItems
<1>6. LocksAreHeld'
  <2>1. r # None
    BY CheckoutRaceAssumption
  <2>2. \A x \in Requests : ~ (request[x].pc = "reserving" /\ p \in request[x].held)
    BY <1>1, CheckoutRaceAssumption DEF LocksAreHeld
  <2> QED
    BY <1>1, <1>2, <2>1, <2>2 DEF LocksAreHeld, TypeOK
<1>7. CountersAreSums'
  <2> SUFFICES ASSUME NEW q \in Products
               PROVE  /\ reserved'[q] = SumFunctionOnSet(Reservations(q)', Requests)
                      /\ reserved'[q] <= Quantity[q]
    BY DEF CountersAreSums
  <2>1. reserved[q] = SumFunctionOnSet(Reservations(q), Requests) /\ reserved[q] <= Quantity[q]
    BY DEF CountersAreSums
  <2>2. CASE q = p
    <3>1. /\ Reservations(p)[r] = 0 /\ Reservations(p)'[r] = request[r].items[p]
          /\ \A x \in Requests \ {r} : Reservations(p)'[x] = Reservations(p)[x]
      BY <1>1, <1>2 DEF Reservations
    <3>2. \A x \in Requests : Reservations(p)[x] \in Int
      BY ReservationsType
    <3>3. SumFunctionOnSet(Reservations(p)', Requests)
            = SumFunctionOnSet(Reservations(p), Requests)
                - Reservations(p)[r] + Reservations(p)'[r]
      BY <1>3, <3>1, <3>2, SumChange
    <3> QED
      BY <1>1, <1>3, <2>1, <2>2, <3>1, <3>3 DEF TypeOK
  <2>3. CASE q # p
    <3>1. Reservations(q)' = Reservations(q) /\ reserved'[q] = reserved[q]
      BY <1>1, <1>2, <2>3 DEF Reservations, TypeOK
    <3> QED
      BY <2>1, <3>1
  <2> QED
    BY <2>2, <2>3
<1> QED
  BY <1>4, <1>5, <1>6, <1>7

\* A rollback gives back what the request held, no more.
LEMMA RequestRollsBack ==
    ASSUME RaceInv, NEW r \in Requests, request[r].pc = "reserving", Rollback(r)
    PROVE  RaceInv'
<1> USE DEF RaceInv
<1>1. /\ request'[r] = [NoRequest EXCEPT !.pc = "failed"]
      /\ request'[r].pc = "failed" /\ request'[r].held = {}
      /\ \A x \in Requests \ {r} : request'[x] = request[x]
      /\ UNCHANGED <<cart, changes, edit>>
  BY DEF Rollback, NoRequest, TypeOK
<1>2. ASSUME NEW p \in Products
      PROVE  /\ reserved'[p] = SumFunctionOnSet(Reservations(p)', Requests)
             /\ reserved'[p] <= Quantity[p] /\ reserved'[p] \in Nat
  <2>1. /\ reserved[p] = SumFunctionOnSet(Reservations(p), Requests)
        /\ reserved[p] <= Quantity[p] /\ reserved[p] \in Nat /\ Quantity[p] \in Nat
    BY CheckoutRaceAssumption DEF CountersAreSums, TypeOK
  <2>2. /\ Reservations(p)'[r] = 0
        /\ \A x \in Requests \ {r} : Reservations(p)'[x] = Reservations(p)[x]
    BY <1>1 DEF Reservations
  <2>3. IsFiniteSet(Requests) /\ \A x \in Requests : Reservations(p)[x] \in Nat
    BY ReservationsType, CheckoutRaceAssumption
  <2>4. SumFunctionOnSet(Reservations(p)', Requests)
          = SumFunctionOnSet(Reservations(p), Requests) - Reservations(p)[r] + Reservations(p)'[r]
    BY <2>2, <2>3, SumChange
  <2>5. reserved'[p] = reserved[p] - Reservations(p)[r]
    BY <2>1 DEF Rollback, Reservations
  <2>6. Reservations(p)[r] <= reserved[p] /\ Reservations(p)[r] \in Nat
    BY <2>1, <2>3, SumOne
  <2> QED
    BY <2>1, <2>2, <2>4, <2>5, <2>6
<1>3. TypeOK'
  <2>1. reserved' \in [Products -> Nat]
    BY <1>2 DEF Rollback
  <2>2. holder' \in [Products -> Requests \cup {None}]
    BY DEF Rollback, Unlocked, TypeOK
  <2>3. [NoRequest EXCEPT !.pc = "failed"] \in [
           pc : {"idle", "validated", "opened", "reserving", "done", "failed"},
           subtotal : Nat, items : Lines, held : SUBSET Products]
    <3>1. NoLines \in Lines
      BY CheckoutRaceAssumption DEF NoLines, Lines
    <3>2. [NoRequest EXCEPT !.pc = "failed"]
            = [pc |-> "failed", subtotal |-> 0, items |-> NoLines, held |-> {}]
      BY DEF NoRequest
    <3> QED
      BY <3>1, <3>2
  <2>4. request' \in [Requests -> [
           pc : {"idle", "validated", "opened", "reserving", "done", "failed"},
           subtotal : Nat, items : Lines, held : SUBSET Products]]
    BY <2>3 DEF Rollback, TypeOK
  <2> QED
    BY <1>1, <2>1, <2>2, <2>4 DEF TypeOK
<1>4. HeldAreItems'
  BY <1>1 DEF HeldAreItems
<1>5. LocksAreHeld'
  BY <1>1, CheckoutRaceAssumption DEF LocksAreHeld, Rollback, Unlocked
<1>6. CountersAreSums'
  BY <1>2 DEF CountersAreSums
<1> QED
  BY <1>3, <1>4, <1>5, <1>6

----------------------------------------------------------------------------
\* Nothing is requested, held or counted at first.
LEMMA RaceInit ==
    ASSUME Init
    PROVE  RaceInv
<1> USE CheckoutRaceAssumption
<1>1. NoRequest.held = {} /\ NoRequest.pc = "idle"
  BY DEF NoRequest
<1>2. TypeOK
  BY DEF Init, TypeOK, NoEdit, NoRequest, NoLines, Lines
<1>3. HeldAreItems /\ LocksAreHeld
  BY <1>1 DEF Init, HeldAreItems, LocksAreHeld
<1>4. CountersAreSums
  <2> SUFFICES ASSUME NEW p \in Products
               PROVE  /\ reserved[p] = SumFunctionOnSet(Reservations(p), Requests)
                      /\ reserved[p] <= Quantity[p]
    BY DEF CountersAreSums
  <2>1. \A r \in Requests : Reservations(p)[r] = 0
    BY <1>1 DEF Init, Reservations
  <2>2. SumFunctionOnSet(Reservations(p), Requests) = 0
    BY <2>1, SumZero
  <2> QED
    BY <2>2 DEF Init
<1> QED
  BY <1>2, <1>3, <1>4 DEF RaceInv

\* Every way in which a request may fail is a rollback of a running transaction.
LEMMA Failures ==
    ASSUME RaceInv, NEW r \in Requests, OutOfStock(r) \/ NotAllocated(r) \/ DeadlockDetected(r)
    PROVE  request[r].pc = "reserving" /\ Rollback(r)
BY DEF OutOfStock, NotAllocated, DeadlockDetected, WaitsFor, IsNext

\* RaceInv is inductive.
LEMMA RaceNext ==
    ASSUME RaceInv, [Next]_vars
    PROVE  RaceInv'
<1>1. CASE CartNext
  <2>1. TypeOK' /\ UNCHANGED <<request, reserved, holder>>
    BY <1>1, TypeCart, CartFrame DEF RaceInv
  <2>2. CountersAreSums'
    BY <2>1, CountersFrame DEF RaceInv
  <2> QED
    BY <2>1, <2>2 DEF RaceInv, HeldAreItems, LocksAreHeld
<1>2. ASSUME NEW r \in Requests, Validate(r) \/ Proceed(r)
      PROVE  RaceInv'
  BY <1>2, RequestReads, RequestCommits, RequestReserves, RequestRollsBack, Failures
     DEF Proceed
<1>3. CASE UNCHANGED vars
  <2>1. CountersAreSums'
    BY <1>3, CountersFrame DEF vars, RaceInv
  <2> QED
    BY <1>3, <2>1 DEF vars, RaceInv, TypeOK, HeldAreItems, LocksAreHeld
<1> QED
  BY <1>1, <1>2, <1>3 DEF Next

\* The invariant of the race is inductive.
LEMMA RaceInductive == Spec => []RaceInv
<1>1. Init => RaceInv
  BY RaceInit
<1>2. RaceInv /\ [Next]_vars => RaceInv'
  BY RaceNext
<1> QED
  BY <1>1, <1>2, PTL DEF Spec

\* However many checkouts interleave statement by statement, wait, are refused or are
\* aborted: a row's counter is what they hold, within the row, and a committed order
\* holds all its items.
THEOREM NoReservationLeaks == Spec => []ReservationsAreExact
<1>1. RaceInv => ReservationsAreExact
  BY DEF RaceInv, HeldAreItems, CountersAreSums, ReservationsAreExact
<1> QED
  BY <1>1, RaceInductive, PTL

----------------------------------------------------------------------------
(* The transactions implement the checkout of StoreContract. *)

\* What the contract says of the requests.
Units == [p \in Products |-> [w \in {"warehouse"} |-> Quantity[p]]]
Phase == [r \in Requests |-> IF Committed(r) THEN "open" ELSE "none"]
Basket == [r \in Requests |-> IF Committed(r) THEN request[r].items ELSE NoLines]
Place == [r \in Requests |-> [p \in Products |-> IF Committed(r) THEN "warehouse" ELSE None]]
Here == [p \in Products |-> "warehouse"]

\* What the contract has promised are the reservations of the orders.
LEMMA PromisedAreReserved ==
    ASSUME RaceInv, NEW p \in Products
    PROVE  Contract!Promised(p, "warehouse")
               = SumFunctionOnSet(Reservations(p), {r \in Requests : Committed(r)})
<1> DEFINE units == [r \in Requests |-> Contract!Units(r, p, "warehouse")]
           Done == {r \in Requests : Committed(r)}
<1>1. ASSUME NEW r \in Done
      PROVE  Reservations(p)[r] \in Int /\ units[r] = Reservations(p)[r]
  <2>1. r \in Requests /\ request[r].pc = "done"
    BY DEF Committed
  <2>2. request[r].items \in Lines /\ request[r].held = InCart(request[r].items)
    BY <2>1 DEF RaceInv, TypeOK, HeldAreItems
  <2>3. request[r].items[p] \in Nat
    BY <2>2, CheckoutRaceAssumption DEF Lines
  <2>4. units[r] = request[r].items[p]
    BY <2>1 DEF Contract!Units, Committed
  <2>5. Reservations(p)[r] = request[r].items[p]
    BY <2>1, <2>2, <2>3 DEF Reservations, InCart
  <2> QED
    BY <2>3, <2>4, <2>5
<1>2. Contract!Promised(p, "warehouse") = SumFunctionOnSet(units, Done)
  <2>1. \A f, S : Contract!SumFunctionOnSet(f, S) = SumFunctionOnSet(f, S)
    BY DEF Contract!SumFunctionOnSet, Contract!FoldFunctionOnSet, Contract!MapThenFoldSet,
           SumFunctionOnSet, FoldFunctionOnSet, MapThenFoldSet
  <2>2. {r \in Requests : Phase[r] = "open"} = Done
    BY DEF Phase
  <2> QED
    BY <2>1, <2>2 DEF Contract!Promised, Phase
<1>3. IsFiniteSet(Done)
  BY CheckoutRaceAssumption, FS_Subset
<1> HIDE DEF units, Done
<1>4. SumFunctionOnSet(units, Done) = SumFunctionOnSet(Reservations(p), Done)
  BY <1>1, <1>3, SumSame
<1> QED
  BY <1>2, <1>4 DEF Done

\* A request that has reserved all its items leaves what the others were promised.
LEMMA ReservedIsFree ==
    ASSUME RaceInv, NEW r \in Requests, request[r].pc = "reserving", Todo(r) = {},
           NEW p \in Products
    PROVE  Quantity[p] - Contract!Promised(p, "warehouse") >= request[r].items[p]
<1> DEFINE Done == {x \in Requests : Committed(x)}
           T == Done \cup {r}
<1>1. \A x \in Requests : Reservations(p)[x] \in Nat
  BY ReservationsType DEF RaceInv
<1>2. request[r].items[p] \in Nat /\ Reservations(p)[r] = request[r].items[p]
  BY CheckoutRaceAssumption DEF RaceInv, TypeOK, Lines, Todo, InCart, Reservations
<1>3. Done \in SUBSET Requests /\ T \in SUBSET Requests /\ r \in T /\ T \ {r} = Done
  BY DEF Committed
<1> HIDE DEF Done, T
<1>4. IsFiniteSet(Requests) /\ IsFiniteSet(T) /\ IsFiniteSet(Done)
  BY <1>3, CheckoutRaceAssumption, FS_Subset
<1>5. SumFunctionOnSet(Reservations(p), T)
          = request[r].items[p] + SumFunctionOnSet(Reservations(p), Done)
  <2>1. \A x \in T : Reservations(p)[x] \in Int
    BY <1>1, <1>3
  <2> QED
    BY <1>2, <1>3, <1>4, <2>1, SumTake
<1>6. /\ SumFunctionOnSet(Reservations(p), T) \in Nat
      /\ SumFunctionOnSet(Reservations(p), T) <= SumFunctionOnSet(Reservations(p), Requests)
  BY <1>1, <1>3, <1>4, SumPart
<1>7. SumFunctionOnSet(Reservations(p), Done) \in Nat
  BY <1>1, <1>3, <1>4, SumPart
<1>8. /\ SumFunctionOnSet(Reservations(p), Requests) = reserved[p]
      /\ reserved[p] \in Nat /\ reserved[p] <= Quantity[p]
  BY DEF RaceInv, CountersAreSums, TypeOK
<1>9. Quantity[p] \in Nat
  BY CheckoutRaceAssumption
<1>10. Contract!Promised(p, "warehouse") = SumFunctionOnSet(Reservations(p), Done)
  BY PromisedAreReserved DEF Done
<1> QED
  BY <1>2, <1>5, <1>6, <1>7, <1>8, <1>9, <1>10

\* A commit is a checkout of the contract.
LEMMA CommitOpens ==
    ASSUME RaceInv, LedgerEnabled, NEW r \in Requests, Commit(r)
    PROVE  Contract!Next
<1>1. /\ request[r].pc = "reserving" /\ Todo(r) = {} /\ request[r].items # NoLines
      /\ request[r].items \in Lines
  BY DEF Commit, Allocated, RaceInv, TypeOK
<1>2. /\ request'[r].pc = "done" /\ request'[r].items = request[r].items
      /\ \A x \in Requests \ {r} : request'[x] = request[x]
  BY DEF Commit, To, RaceInv, TypeOK
<1>3. \E p \in Products : request[r].items[p] > 0
  BY <1>1, CheckoutRaceAssumption DEF Lines, NoLines
<1>4. Phase' = [Phase EXCEPT ![r] = "open"] /\ Phase[r] = "none"
  BY <1>1, <1>2 DEF Phase, Committed
<1>5. Basket' = [Basket EXCEPT ![r] = request[r].items]
  BY <1>1, <1>2 DEF Basket, Committed, NoLines
<1>6. Place' = [Place EXCEPT ![r] = Here]
  BY <1>1, <1>2 DEF Place, Committed, Here
<1>7. \A p \in Products : request[r].items[p] > 0 =>
          /\ Here[p] \in {"warehouse"}
          /\ Units[p][Here[p]] - Contract!Promised(p, Here[p]) >= request[r].items[p]
  BY <1>1, ReservedIsFree DEF Here, Units
<1>8. Contract!Open(r, request[r].items, Here)
  BY <1>3, <1>4, <1>5, <1>6, <1>7 DEF Contract!Open, Phase, Basket, Place, Units
<1>9. request[r].items \in [Products -> 0..MaxItemQty] /\ Here \in [Products -> {"warehouse"} \cup {None}]
  BY <1>1 DEF Lines, Here
<1> QED
  BY <1>8, <1>9 DEF Contract!Next

\* No other statement commits an order or touches one.
LEMMA OthersStutter ==
    ASSUME RaceInv, [Next]_vars, \A r \in Requests : ~Commit(r)
    PROVE  UNCHANGED Contract!vars
<1>1. \A x \in Requests : /\ Committed(x)' <=> Committed(x)
                          /\ Committed(x) => request'[x].items = request[x].items
  <2>1. CASE UNCHANGED request
    BY <2>1 DEF Committed
  <2>2. ASSUME NEW r \in Requests,
               \/ Validate(r) \/ OpenOrder(r) \/ ReadItems(r)
               \/ request[r].pc = "reserving" /\ Rollback(r)
               \/ \E p \in Products : ReserveItem(r, p)
        PROVE  /\ request[r].pc # "done" /\ request'[r].pc # "done"
               /\ \A x \in Requests \ {r} : request'[x] = request[x]
    BY <2>2 DEF Validate, OpenOrder, ReadItems, Rollback, ReserveItem, IsNext, To, NoRequest,
                RaceInv, TypeOK
  <2> QED
    BY <2>1, <2>2, CartFrame, Failures DEF Next, Proceed, vars, Committed
<1> QED
  BY <1>1 DEF Contract!vars, Committed

\* With the ledger on, checkouts that run statement by statement, wait for each other's rows
\* and are rolled back have the effect of checkouts that happen at once, when they commit: an
\* order is accepted with units that no other order was promised, and nothing else happens.
THEOREM CheckoutsHappenAtOnce == LedgerEnabled => (Spec => CheckoutsAreAtomic)
<1> SUFFICES ASSUME LedgerEnabled
             PROVE  Spec => CheckoutsAreAtomic
  OBVIOUS
<1>1. RaceInv /\ [Next]_vars => [Contract!Next]_(Contract!vars)
  BY CommitOpens, OthersStutter
<1> QED
  BY <1>1, RaceInductive, PTL DEF Spec, CheckoutsAreAtomic
=============================================================================
