SPECIFICATION InventorySpec
CONSTANTS
    p1 = p1
    s1 = s1
    w1 = w1
    w2 = w2
    a = a
    b = b
    Users = {u1}
    Products = {p1}
    Sellers = {s1}
    SellerOf <- MCSellerOf
    Warehouses = {w1, w2}
    Orders = {o1}
    Payments = {m1, m2}
    Providers = {"mock"}
    Totals = {10}
    MaxItemQty = 1
    MaxStock = 1
    UsageLimit = 1
    PerUserLimit = 1
    None = None
    Staff = {a, b}
    MemberOf <- MCMemberOf
    Transfers = {t1}
    MaxTransfer = 1
    MaxEdits = 1
SYMMETRY Symmetry
INVARIANT
    QuantityIsRecorded
CHECK_DEADLOCK FALSE
