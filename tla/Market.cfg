SPECIFICATION FairSpec
CONSTANTS
    Keys = {k1}
    Sellers = {p1}
    Operators = {o1}
    Prices = {1, 2}
    Quotas = {1}
    MaxBuys = 1
    SelectLimit = 2
    Life = 2
    PlayerLives = {2}
    MaxTime = 3
    MaxOrders = 2
    Requests = {"start", "stop", "restart", "cleanup", "quota", "disable"}
    Faults = {"insert", "init", "crash", "buy"}
    Overlap = FALSE
INVARIANT ListingsSound
INVARIANT SellersPaid
INVARIANT WishKept
PROPERTY Served
