------------------------------ MODULE Network ------------------------------
(***************************************************************************)
(* A tenant's routers and the signed requests that reach them.             *)
(*                                                                         *)
(* The provisioning wizard (router_provisioning.py) gives a router its     *)
(* address in the WireGuard tunnel, its keys and its RADIUS secret, and    *)
(* hands an operator the blocks to install.  The operator also enters the  *)
(* router in the registry of the network agent, the one process that talks *)
(* to routers and to the RADIUS database.                                  *)
(*                                                                         *)
(* Requests to the agent, and those of the worker to web, carry a time, a  *)
(* nonce and a signature (signing.py, internal_auth.py).  A copy of a      *)
(* request may be late, arrive twice, or be answered in vain.              *)
(*                                                                         *)
(* A wizard request is one transaction: it loads the router, and its       *)
(* UPDATE locks the row until the commit.                                  *)
(***************************************************************************)
EXTENDS Integers, FiniteSets

CONSTANTS
    Routers,
    Hosts,        \* the tunnel's addresses for routers (.2 and up)
    Calls,        \* calls of the API to the agent, or of the worker to web
    KindOf,       \* what each call asks for
    RouterOf,     \* the router it is about, if it is about one
    Workers,      \* wizard requests in progress at the same time
    Skew,         \* how far a request's time may be from the receiver's clock
    Ttl,          \* for how long a receiver remembers a nonce
    Scenes,       \* bound: wizard requests and calls tried in one behaviour;
                  \* and how far the sender's clock is ahead of the receiver's
    MaxTime,      \* bound on the receiver's clock
    MaxCrashes    \* bound on the crashes of a behaviour

(* The agent reads a router, tests or changes it, or works on the RADIUS   *)
(* database, or is only asked whether it is there; web reconciles.         *)
Reads       == {"identity", "resource", "active", "interfaces", "radius_status"}
RouterKinds == Reads \cup {"test", "disconnect"}
RadiusKinds == {"ping", "diagnose", "package_group", "user", "revoke"}
WebKinds    == {"reconcile_withdrawal", "reconcile_collection"}
Kinds       == RouterKinds \cup RadiusKinds \cup WebKinds

ASSUME HostAssumption == Hosts \subseteq Nat \ {0}
ASSUME CallAssumption ==
    /\ KindOf \in [Calls -> Kinds]
    /\ RouterOf \in [Calls -> Routers]
ASSUME SceneAssumption == Scenes \subseteq [steps : Nat, calls : SUBSET Calls, ahead : Int]

(***************************************************************************)
(* A nonce is remembered until its request would be refused for its time.  *)
(* The agent: 300 s and 600 s, so for a clock less than 300 s ahead; web:  *)
(* 90 s and 300 s.                                                         *)
(***************************************************************************)
ASSUME ClockAssumption ==
    /\ Skew \in Nat /\ Ttl \in Nat /\ MaxTime \in Nat
    /\ \A s \in Scenes : Skew + s.ahead < Ttl
ASSUME CrashAssumption == MaxCrashes \in Nat

VARIABLES
    known,      \* the routers rows: those created
    ip,         \* the tunnel address of each, or 0
    keys,       \* the wizard request whose key pair the row has, or 0
    secret,     \* the wizard request whose RADIUS secret the row has, or 0
    network,    \* routers with a hotspot network configured
    completed,  \* routers whose provisioning was marked completed
    nas,        \* the NAS client block last handed out: address and secret
    overtaken,  \* routers reconfigured since that block was computed (history)
    online,     \* routers with a customer's hotspot session
    radius,     \* RADIUS rows of the package and of the user there are
    registry,   \* the host the agent's registry has for each router, or 0
    job,        \* what each wizard request is doing
    steps,      \* wizard requests so far
    now,        \* the receivers' clock
    call,       \* what has become of each call
    sent,       \* the signed copies under way or arrived: a call's attempts
    stamp,      \* the time each of them carries
    seen,       \* until when each copy's nonce is remembered
    carried,    \* copies carried out since the receiver started: 0, 1 or more (2)
    everDone,   \* calls ever carried out (history)
    scene,      \* what is tried in this behaviour
    crashes     \* crashes so far

wizard  == <<known, ip, keys, secret, network, completed, nas, overtaken, job, steps>>
channel == <<call, sent, stamp, seen, carried, everDone>>
served  == <<online, radius>>
vars    == <<wizard, served, registry, now, channel, scene, crashes>>

----------------------------------------------------------------------------
(* State *)

MaxSteps == 8 \* bound on the wizard requests of any scene
Steps == 0..MaxSteps
NoBlock == [ip |-> 0, secret |-> 0]
Blocks  == [ip : Hosts \cup {0}, secret : Steps]

(***************************************************************************)
(* A wizard request.  load: the router was read, with address ip and keys. *)
(*   picked: an address was chosen; stored, sealed: the row is written and *)
(*   locked, to commit.                                                    *)
(***************************************************************************)
IdleJob == [phase |-> "idle"]
Jobs ==
    {IdleJob}
        \cup [phase : {"loaded"}, r : Routers, ip : Hosts \cup {0}, step : Steps]
        \cup [phase : {"picked", "stored"}, r : Routers, ip : Hosts \cup {0}, new : Hosts, step : Steps]
        \cup [phase : {"radius", "sealed"}, r : Routers, step : Steps]

(* The first attempt, and the worker's second one.                         *)
ToWeb       == {c \in Calls : KindOf[c] \in WebKinds}
Attempts(c) == IF c \in ToWeb THEN 1..2 ELSE {1}
Copies      == Calls \X (1..2)
CallStates  == {"new", "first", "second", "ok", "answered", "refused", "unreachable", "error"}
Attempt(c)  == IF call[c] = "first" THEN 1 ELSE 2
Waiting(c)  == call[c] \in {"first", "second"}

To(w, j) == job' = [job EXCEPT ![w] = j]
UpTo2(n) == IF n < 2 THEN n + 1 ELSE 2

Init ==
    /\ known = {} /\ network = {} /\ completed = {} /\ overtaken = {}
    /\ ip = [r \in Routers |-> 0]
    /\ keys = [r \in Routers |-> 0]
    /\ secret = [r \in Routers |-> 0]
    /\ nas = [r \in Routers |-> NoBlock]
    /\ online = {} /\ radius = {}
    /\ registry = [r \in Routers |-> 0]
    /\ job = [w \in Workers |-> IdleJob]
    /\ steps = 0 /\ now = 0 /\ crashes = 0
    /\ call = [c \in Calls |-> "new"]
    /\ sent = {}
    /\ stamp = [k \in Copies |-> 0]
    /\ seen = [k \in Copies |-> 0]
    /\ carried = [k \in Copies |-> 0]
    /\ everDone = {}
    /\ scene \in Scenes

----------------------------------------------------------------------------
(* The wizard *)

(* A row written by a request stays locked until that request ends.        *)
RowLocked(r)  == \E w \in Workers : job[w].phase \in {"stored", "sealed"} /\ job[w].r = r
GetRouter(r)  == r \in known
Step          == steps < scene.steps /\ steps < MaxSteps /\ steps' = steps + 1
NextStep      == steps + 1
rows          == <<known, ip, keys, secret, network, completed>>
elsewhere     == <<served, now, channel, scene>>

CreateRouter(r) ==
    /\ ~GetRouter(r)
    /\ scene.steps > 0
    /\ known' = known \cup {r}
    /\ UNCHANGED <<ip, keys, secret, network, completed, nas, overtaken, registry,
                   job, steps, crashes, elsewhere>>

(* A gateway outside the network is refused and changes nothing.           *)
SetNetworkConfig(r) ==
    /\ GetRouter(r) /\ ~RowLocked(r)
    /\ Step
    /\ network' = network \cup {r}
    /\ UNCHANGED <<known, ip, keys, secret, completed, nas, overtaken, registry,
                   job, crashes, elsewhere>>

(* No step of the wizard is required before this one.                      *)
CompleteProvisioning(r) ==
    /\ GetRouter(r) /\ ~RowLocked(r)
    /\ Step
    /\ completed' = completed \cup {r}
    /\ UNCHANGED <<known, ip, keys, secret, network, nas, overtaken, registry,
                   job, crashes, elsewhere>>

LoadRouter(w, r) ==
    /\ job[w] = IdleJob
    /\ GetRouter(r)
    /\ Step
    /\ To(w, [phase |-> "loaded", r |-> r, ip |-> ip[r], step |-> NextStep])
    /\ UNCHANGED <<rows, nas, overtaken, registry, crashes, elsewhere>>

(* Over all tenants' routers, and with no lock: two requests may choose    *)
(* the same address.                                                       *)
Assigned == {ip[r] : r \in known} \ {0}
Free     == Hosts \ Assigned
FirstFree == CHOOSE h \in Free : \A g \in Free : h <= g

NextWireguardTunnelIpAny(w) == \* the subnet's last address and no further is not checked
    /\ job[w].phase = "loaded"
    /\ To(w, [phase |-> "picked", r |-> job[w].r, ip |-> job[w].ip,
              new |-> IF Free = {} THEN 1 + CHOOSE h \in Hosts : \A g \in Hosts : g <= h
                      ELSE FirstFree, step |-> job[w].step])
    /\ UNCHANGED <<rows, nas, overtaken, steps, registry, crashes, elsewhere>>
NextWireguardTunnelIp(w) ==
    /\ job[w].phase = "loaded"
    /\ IF Free = {}
         THEN To(w, IdleJob)                 \* ValueError
         ELSE To(w, [phase |-> "picked", r |-> job[w].r, ip |-> job[w].ip,
                     new |-> FirstFree, step |-> job[w].step])
    /\ UNCHANGED <<rows, nas, overtaken, steps, registry, crashes, elsewhere>>

(***************************************************************************)
(* The unique index on the address: an UPDATE waits for a request that is  *)
(* about to commit the same address for another router, and fails if one   *)
(* has.  An attribute set to the value it was loaded with is not written.  *)
(***************************************************************************)
Writes(w)  == job[w].new # job[w].ip
ClashNever(w) == FALSE \* no UNIQUE on wireguard_tunnel_ip
Clash(w) ==
    /\ Writes(w)
    /\ \E r \in known : r # job[w].r /\ ip[r] = job[w].new
Contested(w) ==
    \E u \in Workers :
        /\ u # w
        /\ job[u].phase = "stored"
        /\ job[u].r # job[w].r
        /\ job[u].new = job[w].new

StoreWireguard(w) ==
    /\ job[w].phase = "picked"
    /\ ~RowLocked(job[w].r)
    /\ ~Contested(w)
    /\ IF Clash(w)
         THEN To(w, IdleJob)                 \* IntegrityError
         ELSE To(w, [job[w] EXCEPT !.phase = "stored"])
    /\ UNCHANGED <<rows, nas, overtaken, steps, registry, crashes, elsewhere>>

CommitWireguard(w) ==
    /\ job[w].phase = "stored"
    /\ ip' = [ip EXCEPT ![job[w].r] = IF Writes(w) THEN job[w].new ELSE @]
    /\ keys' = [keys EXCEPT ![job[w].r] = job[w].step]
    /\ overtaken' = overtaken \cup {job[w].r}
    /\ To(w, IdleJob)
    /\ UNCHANGED <<known, secret, network, completed, nas, steps, registry, crashes, elsewhere>>

LoadForRadius(w, r) ==
    /\ job[w] = IdleJob
    /\ GetRouter(r)
    /\ ip[r] # 0
    /\ Step
    /\ To(w, [phase |-> "radius", r |-> r, step |-> NextStep])
    /\ UNCHANGED <<rows, nas, overtaken, registry, crashes, elsewhere>>

StoreSecret(w) ==
    /\ job[w].phase = "radius"
    /\ ~RowLocked(job[w].r)
    /\ To(w, [job[w] EXCEPT !.phase = "sealed"])
    /\ UNCHANGED <<rows, nas, overtaken, steps, registry, crashes, elsewhere>>

(* The row is read again once it is locked, so the block has the address   *)
(* of this moment.  The reply may be lost.                                 *)
CommitRadiusEarlier(w, heard) == \* the block is built with the secret there was
    /\ job[w].phase = "sealed"
    /\ LET r == job[w].r IN
       /\ secret' = [secret EXCEPT ![r] = job[w].step]
       /\ nas' = IF heard THEN [nas EXCEPT ![r] = [ip |-> ip[r], secret |-> secret[r]]] ELSE nas
       /\ overtaken' = IF heard THEN overtaken \ {r} ELSE overtaken \cup {r}
    /\ To(w, IdleJob)
    /\ UNCHANGED <<known, ip, keys, network, completed, steps, registry, crashes, elsewhere>>
CommitRadius(w, heard) ==
    /\ job[w].phase = "sealed"
    /\ LET r == job[w].r IN
       /\ secret' = [secret EXCEPT ![r] = job[w].step]
       /\ nas' = IF heard THEN [nas EXCEPT ![r] = [ip |-> ip[r], secret |-> job[w].step]] ELSE nas
       /\ overtaken' = IF heard THEN overtaken \ {r} ELSE overtaken \cup {r}
    /\ To(w, IdleJob)
    /\ UNCHANGED <<known, ip, keys, network, completed, steps, registry, crashes, elsewhere>>

CrashApi(w) ==
    /\ crashes < MaxCrashes
    /\ job[w] # IdleJob
    /\ crashes' = crashes + 1
    /\ To(w, IdleJob)
    /\ UNCHANGED <<rows, nas, overtaken, steps, registry, elsewhere>>

(* The operator's part: the agent's routers.yaml, edited by hand.          *)
Register(r) ==
    /\ ip[r] # 0
    /\ registry[r] # ip[r]
    /\ registry' = [registry EXCEPT ![r] = ip[r]]
    /\ UNCHANGED <<wizard, elsewhere, crashes>>

----------------------------------------------------------------------------
(* Signed calls *)

(***************************************************************************)
(* What a caller makes of what it hears.  A connection test and a ping     *)
(* report what failed; other calls raise it.  A diagnosis takes any status *)
(* for an answer of the agent that accepted its signature, but for the     *)
(* 401 and 403 of a refusal.                                               *)
(***************************************************************************)
Diagnoses      == {c \in Calls : KindOf[c] = "diagnose"}
Failure(c)     == IF KindOf[c] \in {"test", "ping", "diagnose"} THEN "unreachable" ELSE "error"
Success(c)     == IF c \in Diagnoses THEN "answered" ELSE "ok"
ErrorStatus(c) == IF c \in Diagnoses THEN "answered" ELSE Failure(c)
Refusal(c)     == IF c \in Diagnoses THEN "refused" ELSE Failure(c)

Sign(c, n) ==
    /\ sent' = sent \cup {<<c, n>>}
    /\ stamp' = [stamp EXCEPT ![<<c, n>>] = now + scene.ahead]

Send(c) ==
    /\ call[c] = "new"
    /\ call' = [call EXCEPT ![c] = "first"]
    /\ Sign(c, 1)
    /\ UNCHANGED <<wizard, served, registry, now, seen, carried, everDone, scene, crashes>>

(* A retry is signed anew.  The agent's clients do not retry.              *)
TransportError(c) ==
    /\ Waiting(c)
    /\ IF Attempt(c) + 1 \in Attempts(c)
         THEN call' = [call EXCEPT ![c] = "second"] /\ Sign(c, 2)
         ELSE call' = [call EXCEPT ![c] = Failure(c)] /\ UNCHANGED <<sent, stamp>>
    /\ UNCHANGED <<wizard, served, registry, now, seen, carried, everDone, scene, crashes>>

(* The proxy in front of the agent answers in its place, with an error;    *)
(* the agent may be down, or still get the request.                        *)
ProxyAnswers(c) ==
    /\ c \notin ToWeb
    /\ Waiting(c)
    /\ call' = [call EXCEPT ![c] = ErrorStatus(c)]
    /\ UNCHANGED <<wizard, served, registry, now, sent, stamp, seen, carried, everDone, scene, crashes>>

Sent(c, n) == <<c, n>> \in sent

Distance(t) == IF t > now THEN t - now ELSE now - t
Fresh(c, n) == Distance(stamp[<<c, n>>]) <= Skew
SeenBefore(c, n) == seen[<<c, n>>] > now

(***************************************************************************)
(* What the caller makes of the reply, if it is still waiting for it and   *)
(* it arrives.                                                             *)
(***************************************************************************)
Reply(c, n, outcome) ==
    \/ Waiting(c) /\ Attempt(c) = n /\ call' = [call EXCEPT ![c] = outcome]
    \/ call' = call

Refuse(c, n) ==
    /\ Sent(c, n)
    /\ ~Fresh(c, n) \/ SeenBefore(c, n)
    /\ Waiting(c) /\ Attempt(c) = n
    /\ Reply(c, n, Refusal(c))
    /\ UNCHANGED <<wizard, served, registry, now, sent, stamp, seen, carried, everDone, scene, crashes>>

Accepts(c, n) == Sent(c, n) /\ Fresh(c, n) /\ ~SeenBefore(c, n)
RememberBriefly(c, n) == \* for no longer than a request on time is accepted
    seen' = [seen EXCEPT ![<<c, n>>] = now + Skew + 1]
Remember(c, n) == seen' = [seen EXCEPT ![<<c, n>>] = now + Ttl]

Serve(c, n, kinds) ==
    /\ KindOf[c] \in kinds
    /\ Accepts(c, n)
    /\ Remember(c, n)
    /\ carried' = [carried EXCEPT ![<<c, n>>] = UpTo2(@)]
    /\ everDone' = everDone \cup {c}
    /\ Reply(c, n, Success(c))
    /\ UNCHANGED <<wizard, registry, now, sent, stamp, scene, crashes>>

(* A router that is not in the registry is not found.                      *)
Registered(c) == registry[RouterOf[c]] # 0

TestConnection(c, n)    == Registered(c) /\ Serve(c, n, {"test"}) /\ UNCHANGED served
ReadRouter(c, n, what)  == Registered(c) /\ Serve(c, n, {what}) /\ UNCHANGED served
GetIdentity(c, n)       == ReadRouter(c, n, "identity")
GetResource(c, n)       == ReadRouter(c, n, "resource")
GetActiveSessions(c, n) == ReadRouter(c, n, "active")
GetInterfaces(c, n)     == ReadRouter(c, n, "interfaces")
GetRadiusStatus(c, n)   == ReadRouter(c, n, "radius_status")
DisconnectHotspotUser(c, n) ==
    /\ Registered(c)
    /\ RouterOf[c] \in online
    /\ Serve(c, n, {"disconnect"})
    /\ online' = online \ {RouterOf[c]}
    /\ radius' = radius
RadiusPing(c, n) == Serve(c, n, {"ping"}) /\ UNCHANGED served
(* Asks for a router that cannot be: the agent's "not found" comes after   *)
(* the signature held, but any other status is taken for the same.         *)
DiagnosticPing(c, n) == Serve(c, n, {"diagnose"}) /\ UNCHANGED served
SyncPackageGroup(c, n) ==
    /\ Serve(c, n, {"package_group"})
    /\ radius' = radius \cup {"group"} /\ online' = online
ProvisionUser(c, n) ==
    /\ Serve(c, n, {"user"})
    /\ radius' = radius \cup {"user"} /\ online' = online
RevokeUser(c, n) ==
    /\ Serve(c, n, {"revoke"})
    /\ radius' = radius \ {"user"} /\ online' = online
Reconcile(c, n) == Serve(c, n, WebKinds) /\ UNCHANGED served

(***************************************************************************)
(* The router or the database cannot be reached, or refuses; the agent     *)
(* does not know the router, or web the row.  Nothing is done.             *)
(***************************************************************************)
FailsAsOk(c, n) == \* the error is answered as success
    /\ Accepts(c, n)
    /\ Remember(c, n)
    /\ Reply(c, n, "ok")
    /\ UNCHANGED <<wizard, served, registry, now, sent, stamp, carried, everDone, scene, crashes>>
Fails(c, n) ==
    /\ Accepts(c, n)
    /\ Remember(c, n)
    /\ Reply(c, n, ErrorStatus(c))
    /\ UNCHANGED <<wizard, served, registry, now, sent, stamp, carried, everDone, scene, crashes>>

(* A customer's session at a router.                                       *)
GoOnline(r) ==
    /\ registry[r] # 0
    /\ r \notin online
    /\ \E c \in scene.calls : RouterOf[c] = r /\ KindOf[c] = "disconnect"
    /\ online' = online \cup {r}
    /\ UNCHANGED <<wizard, radius, registry, now, channel, scene, crashes>>

(* The agent keeps its nonces in memory; web keeps them in Redis.          *)
RestartAgent ==
    /\ crashes < MaxCrashes
    /\ scene.calls \ ToWeb # {}
    /\ crashes' = crashes + 1
    /\ seen' = [k \in Copies |-> IF k[1] \in ToWeb THEN seen[k] ELSE 0]
    /\ carried' = [k \in Copies |-> IF k[1] \in ToWeb THEN carried[k] ELSE 0]
    /\ UNCHANGED <<wizard, served, registry, now, call, sent, stamp, everDone, scene>>

Tick ==
    /\ now < MaxTime
    /\ \E c \in Calls : call[c] # "new"
    /\ now' = now + 1
    /\ UNCHANGED <<wizard, served, registry, channel, scene, crashes>>

Next ==
    \/ \E r \in Routers :
         CreateRouter(r) \/ SetNetworkConfig(r) \/ CompleteProvisioning(r) \/ Register(r) \/ GoOnline(r)
    \/ \E w \in Workers :
         \/ \E r \in Routers : LoadRouter(w, r) \/ LoadForRadius(w, r)
         \/ NextWireguardTunnelIp(w) \/ StoreWireguard(w) \/ CommitWireguard(w)
         \/ StoreSecret(w) \/ (\E heard \in BOOLEAN : CommitRadius(w, heard))
         \/ CrashApi(w)
    \/ \E c \in scene.calls :
         \/ Send(c) \/ TransportError(c) \/ ProxyAnswers(c)
         \/ \E n \in 1..2 :
              \/ TestConnection(c, n) \/ GetIdentity(c, n) \/ GetResource(c, n)
              \/ GetActiveSessions(c, n) \/ GetInterfaces(c, n) \/ GetRadiusStatus(c, n)
              \/ DisconnectHotspotUser(c, n)
              \/ RadiusPing(c, n) \/ DiagnosticPing(c, n) \/ SyncPackageGroup(c, n) \/ ProvisionUser(c, n)
              \/ RevokeUser(c, n) \/ Reconcile(c, n)
              \/ Fails(c, n) \/ Refuse(c, n)
    \/ RestartAgent
    \/ Tick

Spec == Init /\ [][Next]_vars

----------------------------------------------------------------------------
(* Properties *)

(* Every variable has its type.                                            *)
TypeOK ==
    /\ known \subseteq Routers /\ network \subseteq known /\ completed \subseteq known
    /\ overtaken \subseteq known
    /\ ip \in [Routers -> Hosts \cup {0}]
    /\ keys \in [Routers -> Steps]
    /\ secret \in [Routers -> Steps]
    /\ nas \in [Routers -> Blocks]
    /\ online \subseteq Routers
    /\ radius \subseteq {"group", "user"}
    /\ registry \in [Routers -> Hosts \cup {0}]
    /\ job \in [Workers -> Jobs]
    /\ steps \in Steps
    /\ now \in 0..MaxTime
    /\ call \in [Calls -> CallStates]
    /\ sent \subseteq Copies
    /\ stamp \in [Copies -> Int]
    /\ seen \in [Copies -> Nat]
    /\ carried \in [Copies -> 0..2]
    /\ everDone \subseteq Calls
    /\ scene \in Scenes
    /\ crashes \in 0..MaxCrashes

(***************************************************************************)
(* The wizard never gives two routers one tunnel address, although two     *)
(* requests may choose the same free one at the same time                  *)
(* (repositories/network.py: one address space for all tenants).           *)
(***************************************************************************)
TunnelIpUnique ==
    \A r, s \in Routers : (r # s /\ ip[r] = ip[s]) => ip[r] = 0

(***************************************************************************)
(* FreeRADIUS tells the routers apart: the client blocks of two routers    *)
(* that were not reconfigured since have different addresses, and the      *)
(* secret in such a block is the one stored (generate_radius_config).      *)
(***************************************************************************)
NasTellsRoutersApart ==
    \A r \in Routers : (nas[r] # NoBlock /\ r \notin overtaken) =>
        /\ nas[r].secret = secret[r]
        /\ \A s \in Routers :
              (s # r /\ nas[s] # NoBlock /\ s \notin overtaken) => nas[s].ip # nas[r].ip

(***************************************************************************)
(* A caller that was told of success was served: a lost reply, an error of *)
(* the router or the proxy, or a repeated nonce is never taken for it      *)
(* (client.py: _request, _post_json).  A diagnosis is told no success: it  *)
(* takes a proxy's error for the agent's answer (diagnostic_ping).         *)
(***************************************************************************)
SuccessMeansDone == \A c \in Calls : call[c] = "ok" => c \in everDone

(***************************************************************************)
(* What callers rely on (module SignedCalls), with the retries of a call   *)
(* and the ways in which it fails told apart no more.                      *)
(***************************************************************************)
Outcome(state) == CASE state \in {"first", "second"}                -> "waiting"
                    [] state \in {"unreachable", "refused", "error"} -> "failed"
                    [] state \in {"new", "ok", "answered"}           -> state

Promise == INSTANCE SignedCalls WITH
    Forgotten <- Calls \ ToWeb,
    Blind     <- Diagnoses,
    outcome   <- [c \in Calls |-> Outcome(call[c])]

CallsKept == Promise!Spec
=============================================================================
