SPECIFICATION Spec
CONSTANTS
    o1 = o1
    o2 = o2
    s1 = s1
    s2 = s2
    Orders = {o1, o2}
    Sellers = {s1, s2}
    SellersOf <- MCSellersOf
    Shipments = {n1, n2, n3, n4, n5}
    None = None
SYMMETRY Symmetry
INVARIANTS
    OneParcelPerPart
    NoSellerStrands
PROPERTIES
    StatusesFollowParcels
CHECK_DEADLOCK FALSE
