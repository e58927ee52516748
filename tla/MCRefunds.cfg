SPECIFICATION Spec
CONSTANTS
    o1 = o1
    o2 = o2
    a = a
    b = b
    s1 = s1
    s2 = s2
    Orders = {o1}
    Items = {a, b}
    Sellers = {s1, s2}
    OrderOf <- MCOrderOf
    SellerOf <- MCSellerOf
    Bought <- MCBought
    UnitPrice <- MCUnitPrice
    Net <- MCNet
    Fees <- MCFees
    Payable <- MCPayable
    Returns = {r1, r2}
    RefundKeys = {k1, k2}
    Ahead = {k1, x1}
    PayoutKeys = {x1, x2, x3}
    References = {g1, g2}
    None = None
SYMMETRY Symmetry
INVARIANTS
    CreditsComeBackWhole
    ReturnsWithinSale
    RefundedIsProven
    PayoutsAreReleased
PROPERTIES
    DebtsAreExplained
CHECK_DEADLOCK FALSE
