SPECIFICATION Spec
CONSTANTS
    u1 = u1
    u2 = u2
    p1 = p1
    p2 = p2
    r1 = r1
    r2 = r2
    r3 = r3
    Users = {u1, u2}
    FirstCart <- MCFirstCart
    MaxChanges <- MCMaxChanges
    Products = {p1, p2}
    Requests = {r1, r2, r3}
    UserOf <- MCUserOf
    CartOrder <- MCCartOrder
    Price <- MCPrice
    Quantity <- MCQuantity
    MaxItemQty = 1
    LedgerEnabled = TRUE
    None = None
INVARIANTS
    ReservationsAreExact
PROPERTIES
    EveryCheckoutEnds
    CheckoutsAreAtomic
CHECK_DEADLOCK FALSE
