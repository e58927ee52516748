SPECIFICATION Spec
CONSTANTS
    Users = {u1}
    p1 = p1
    p2 = p2
    s1 = s1
    s2 = s2
    Products = {p1, p2}
    Sellers = {s1, s2}
    SellerOf <- MCSellerOf
    Warehouses = {w1, w2}
    Orders = {o1, o2}
    Payments = {m1, m2}
    Providers = {"mock"}
    Totals = {0, 10}
    MaxItemQty = 1
    MaxStock = 1
    UsageLimit = 1
    PerUserLimit = 1
    None = None
SYMMETRY Symmetry
INVARIANTS
    ReservationsMatchOrders
    MovementsExplainStock
    PaidExactlyOnce
    DiscountWithinLimits
    FulfillmentFollowsPayment
PROPERTIES
    KeepsContract
CHECK_DEADLOCK FALSE
