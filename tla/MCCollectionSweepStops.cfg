SPECIFICATION SweepSpec
CONSTANTS
    p1 = p1
    p2 = p2
    t1 = t1
    t2 = t2
    Payments = {p1, p2}
    Captive = {p1}
    Tenants = {t1, t2}
    TenantOf <- TwoTenants
    Amount <- TwoAmounts
    Rate = 5000
    Workers = {r1}
    Words = {"CANCELLED"}
    MaxCrashes = 0
    MaxFaults = 0
INVARIANT BadRowNeverStopsSweep
CHECK_DEADLOCK FALSE
