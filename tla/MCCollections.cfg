SPECIFICATION Spec
CONSTANTS
    p1 = p1
    p2 = p2
    Payments = {p1, p2}
    Captive = {p1}
    t1 = t1
    t2 = t2
    Tenants = {t1}
    TenantOf <- OneTenant
    Amount <- TwoAmounts
    Rate = 5000
    Workers = {r1, r2}
    Words = {"CANCELLED"}
    MaxCrashes = 1
INVARIANT TypeOK
INVARIANT CreditedIffCompleted
INVARIANT CreditedOnlyIfPaid
INVARIANT PendingIsShares
INVARIANT PaidIsQueued
PROPERTY LifeOfPayment
CHECK_DEADLOCK FALSE
