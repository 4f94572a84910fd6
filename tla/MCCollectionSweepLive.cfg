SPECIFICATION SweepSpec
CONSTANTS
    p1 = p1
    p2 = p2
    t1 = t1
    t2 = t2
    Payments = {p1}
    Captive = {p1}
    Tenants = {t1}
    TenantOf <- JustOne
    Amount <- OneAmount
    Rate = 5000
    Workers = {r1, r2}
    Words = {"CANCELLED"}
    MaxCrashes = 2
    MaxFaults = 2
INVARIANT SweepTypeOK
PROPERTY PaidIsCompleted
CHECK_DEADLOCK FALSE
