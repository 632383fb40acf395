SPECIFICATION KoreSpec
CONSTANTS
    x = x
    y = y
    Workers = {w1, w2}
    Customers = {"c", "d"}
    Purchases = {p}
    FreeCredits = 1
    PackCredits = 2
    Cost <- MCCost
    QuotaLimit = 1
    Garbled <- MCGarbled
    GarbledCounts = {1}
    MaxCalls = 2
    MaxSends = 1
    MaxCrashes = 1
    Routers = {r1, r2}
    Subscribers = {x, y}
    Owner <- MCOwner
    Named = {x}
    Tiers = {"dev", "pro"}
    MaxEvents = 3
    MaxDeliveries = 2
    MaxPlans = 2
CONSTRAINT MCNotMixed
INVARIANTS
    
    
    LedgerIsComplete
    PoolsWerePaidFor
CHECK_DEADLOCK FALSE
