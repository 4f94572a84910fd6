SPECIFICATION Spec
CONSTANTS
    r1 = r1
    r2 = r2
    w1 = w1
    w2 = w2
    test = test
    identity = identity
    resource = resource
    sessions = sessions
    interfaces = interfaces
    status = status
    diagnose = diagnose
    disconnect = disconnect
    ping = ping
    group = group
    user = user
    revoke = revoke
    reconcile = reconcile
    Routers = {r1, r2}
    Hosts <- MCHosts
    Calls = {test, identity, resource, sessions, interfaces, status, disconnect, ping, diagnose, group, user, revoke, reconcile}
    KindOf <- MCKindOf
    RouterOf <- MCRouterOf
    Workers = {w1, w2}
    Skew = 2
    Ttl = 4
    Scenes <- MCScenes
    MaxTime = 6
    MaxCrashes = 1
SYMMETRY Symmetry
INVARIANTS
    TypeOK
    TunnelIpUnique
    NasTellsRoutersApart
    SuccessMeansDone
PROPERTY CallsKept
CHECK_DEADLOCK FALSE
