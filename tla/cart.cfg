SPECIFICATION Spec
CONSTANTS
    u1 = u1
    u2 = u2
    v1 = v1
    v2 = v2
    w1 = w1
    w2 = w2
    a1 = a1
    a2 = a2
    a3 = a3
    a4 = a4
    i1 = i1
    i2 = i2
    k1 = k1
    k2 = k2
    s1 = s1
    NoRow = NoRow
    Users = {u1}
    Vendors = {w1, w2}
    Variants = {v1}
    Currencies = {"BDT", "USD"}
    AddRequests = {a1, a3}
    ItemRequests = {i1}
    CheckoutRequests = {k1, k2}
    StockRequests = {}
    UserOf <- OneUser
    StoredItems <- NothingStored
    VendorOf <- OneVendor
    MaxQuantity = 1
    MaxInt = 2
INVARIANTS
    OneOrderPerCart
    CartsUnique
    OrderOfOneCustomerAndCurrency
