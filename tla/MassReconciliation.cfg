SPECIFICATION Spec
CONSTANTS
    Orders = {b, s}
    Sells = {s}
    b = b
    s = s
    Qty = 2
    Retries = 2
    MaxLag = 1
    MaxDay = 2
    MaxFaults = 1
INVARIANT EndedIsSettled
PROPERTY BuysOnlyAtParity
