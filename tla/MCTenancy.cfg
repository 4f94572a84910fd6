SPECIFICATION Spec
CONSTANTS
    a1 = a1
    a2 = a2
    e1 = e1
    w1 = w1
    w2 = w2
    Registrations = {a1, a2}
    Emails = {e1}
    EmailOf <- MCEmailOf
    Modes = {"direct_merchant_settlement", "platform_managed_wallet"}
    Rates = {"ten percent"}
    Workers = {w1, w2}
    Scenes <- MCScenes
    MaxFaults = 1
SYMMETRY Symmetry
INVARIANTS
    TypeOK
    TenantKeepsOwner
    NoOrphanUnlessFault
    MailOnlyCommitted
    OneActiveConfig
    OnlyActiveTenantsWork
PROPERTY RegistrationKept
CHECK_DEADLOCK FALSE
