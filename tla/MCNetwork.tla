----------------------------- MODULE MCNetwork -----------------------------
(* Two routers, two addresses.  A behaviour tries either four wizard       *)
(* requests, two at a time, or the least a router needs and one call to    *)
(* it, or one or two other calls.                                          *)
EXTENDS Network, TLC

CONSTANTS
    r1, r2, w1, w2,
    test, identity, resource, sessions, interfaces, status, disconnect,
    ping, diagnose, group, user, revoke, reconcile

MCHosts  == 2..3
MCKindOf ==
    test :> "test" @@ identity :> "identity" @@ resource :> "resource" @@ sessions :> "active"
    @@ interfaces :> "interfaces" @@ status :> "radius_status" @@ disconnect :> "disconnect"
    @@ ping :> "ping" @@ diagnose :> "diagnose" @@ group :> "package_group" @@ user :> "user"
    @@ revoke :> "revoke" @@ reconcile :> "reconcile_withdrawal"
MCRouterOf == [c \in DOMAIN MCKindOf |-> r1]

Scene(n, cs, a) == [steps |-> n, calls |-> cs, ahead |-> a]
MCScenes == {Scene(4, {}, 0), Scene(1, {test}, 1), Scene(1, {identity}, 0), Scene(1, {resource}, 0),
             Scene(1, {sessions}, 0), Scene(1, {interfaces}, 0), Scene(1, {status}, 0),
             Scene(1, {disconnect}, 0), Scene(0, {diagnose}, 0),
             Scene(0, {ping}, -1), Scene(0, {group}, 1), Scene(0, {user, revoke}, 1),
             Scene(0, {reconcile}, 1), Scene(0, {reconcile}, -1)}
Symmetry == Permutations({w1, w2})
=============================================================================
