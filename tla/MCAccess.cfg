SPECIFICATION FairSpec
CONSTANTS
    p1 = p1
    p2 = p2
    s1 = s1
    ph1 = ph1
    k1 = k1
    t1 = t1
    w1 = w1
    v1 = v1
    Sessions = {s1}
    Payments = {p1, p2}
    Phones = {ph1}
    Packages = {k1}
    Tenants = {t1}
    SessionOf <- OneSession
    PhoneOf <- OnePhone
    PackageOf <- OnePackage
    TenantOf <- OneTenant
    OnSale <- Sale
    Walkins = {w1}
    Vouchers = {v1}
    Immediate = {w1}
    Casts <- TwoScenes
    Clicks = {p1, v1}
    Workers = {r1, r2}
    MaxCrashes = 1
INVARIANT TypeOK
INVARIANT VoucherSpentOnce
INVARIANT AccessOnlyIfPaid
INVARIANT ShownCredentialsWork
INVARIANT PromptsBounded
INVARIANT SoldForOnePeriod
PROPERTY PaidIsActivated
CHECK_DEADLOCK FALSE
