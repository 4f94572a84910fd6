--------------------------- MODULE NetworkProofs ---------------------------
(***************************************************************************)
(* Proofs about Network, for any number of routers, addresses, calls and   *)
(* wizard requests, and any clocks ClockAssumption admits.                 *)
(***************************************************************************)
EXTENDS Network, FiniteSetTheorems, WellFoundedInduction, TLAPS

----------------------------------------------------------------------------
(* The operators the handlers are built from *)

(* next_wireguard_tunnel_ip finds an address whenever one is free: of a    *)
(* nonempty set of addresses one is the least, since the addresses below   *)
(* one are finitely many.                                                  *)
LEMMA FirstFreeIsFree ==
    ASSUME Free # {}
    PROVE  FirstFree \in Free
<1> DEFINE Below(h) == 0..(h - 1)
           T == {Below(h) : h \in Free}
<1>1. Free \subseteq Nat
  BY HostAssumption DEF Free
<1>2. T \subseteq FiniteSubsetsOf(Nat)
  <2>1. SUFFICES ASSUME NEW h \in Free
                 PROVE  Below(h) \in FiniteSubsetsOf(Nat)
    OBVIOUS
  <2>2. IsFiniteSet(0..(h - 1))
    BY <1>1, FS_Interval
  <2>3. QED
    BY <1>1, <2>2 DEF FiniteSubsetsOf
<1>3. IsWellFoundedOn(StrictSubsetOrdering(Nat), FiniteSubsetsOf(Nat))
  BY FS_StrictSubsetOrderingWellFounded
<1>4. T # {}
  OBVIOUS
<1>5. PICK t \in T : \A y \in T : ~(<<y, t>> \in StrictSubsetOrdering(Nat))
  <2> HIDE DEF T
  <2>1. QED
    BY <1>2, <1>3, <1>4, WFMin
<1>6. PICK h \in Free : t = Below(h)
  OBVIOUS
<1>7. ASSUME NEW g \in Free, ~(h <= g)
      PROVE  FALSE
  <2>1. g < h /\ g \in Nat /\ h \in Nat
    BY <1>1, <1>7
  <2>2. Below(g) \subseteq Below(h) /\ Below(g) # Below(h)
    <3>1. g \in Below(h) /\ g \notin Below(g)
      BY <2>1
    <3>2. Below(g) \subseteq Below(h)
      BY <2>1
    <3>3. QED
      BY <3>1, <3>2
  <2>3. Below(g) \in SUBSET Nat /\ Below(h) \in SUBSET Nat
    OBVIOUS
  <2>4. <<Below(g), Below(h)>> \in StrictSubsetOrdering(Nat)
    BY <2>2, <2>3 DEF StrictSubsetOrdering
  <2>5. Below(g) \in T
    OBVIOUS
  <2>6. QED
    BY <1>5, <1>6, <2>4, <2>5
<1>8. QED
  BY <1>7 DEF FirstFree

(***************************************************************************)
(* No error is reported as a success (_request); a diagnosis reports none  *)
(* at all (diagnostic_ping).                                               *)
(***************************************************************************)
LEMMA FailureIsNoSuccess ==
    ASSUME NEW c \in Calls
    PROVE  /\ Failure(c) \in {"unreachable", "error"}
           /\ Refusal(c) \in {"refused", "unreachable", "error"}
           /\ ErrorStatus(c) = IF c \in Diagnoses THEN "answered" ELSE Failure(c)
           /\ Success(c) = IF c \in Diagnoses THEN "answered" ELSE "ok"
BY DEF Failure, Refusal, ErrorStatus, Success

(* A saturating counter stays in its range.                                *)
LEMMA UpTo2Type ==
    ASSUME NEW n \in 0..2
    PROVE  UpTo2(n) \in 0..2
BY DEF UpTo2

----------------------------------------------------------------------------
(***************************************************************************)
(* The wizard.  Its inductive invariant says, beside the types, what the   *)
(* unique index relies on while a request has stored and not committed:    *)
(* two such requests of different routers have different addresses, and    *)
(* an address to be written belongs to no other router.                    *)
(***************************************************************************)

WizardType ==
    /\ known \subseteq Routers /\ network \subseteq known /\ completed \subseteq known
    /\ overtaken \subseteq known
    /\ ip \in [Routers -> Hosts \cup {0}]
    /\ keys \in [Routers -> Steps]
    /\ secret \in [Routers -> Steps]
    /\ nas \in [Routers -> Blocks]
    /\ job \in [Workers -> Jobs]
    /\ steps \in Steps

(* A request in progress is about a router there is; before a RADIUS block *)
(* is made its router has an address.                                      *)
JobsFit ==
    \A w \in Workers :
        /\ job[w] # IdleJob => job[w].r \in known
        /\ job[w].phase \in {"radius", "sealed"} => ip[job[w].r] # 0

UnknownHasNone == \A r \in Routers : r \notin known => ip[r] = 0

Apart ==
    \A w, u \in Workers :
        (job[w].phase = "stored" /\ job[u].phase = "stored" /\ job[w].r # job[u].r)
            => job[w].new # job[u].new

Reserved ==
    \A w \in Workers :
        (job[w].phase = "stored" /\ Writes(w))
            => \A r \in Routers : r # job[w].r => ip[r] # job[w].new

BlocksFit ==
    \A r \in Routers : (nas[r] # NoBlock /\ r \notin overtaken) =>
        /\ nas[r].secret = secret[r]
        /\ nas[r].ip = ip[r]
        /\ ip[r] # 0

WizardInv ==
    WizardType /\ JobsFit /\ UnknownHasNone /\ Apart /\ Reserved /\ BlocksFit /\ TunnelIpUnique

(* The kinds of jobs do not overlap.                                       *)
LEMMA JobKinds ==
    ASSUME NEW j \in Jobs
    PROVE  /\ j.phase = "idle" => j = IdleJob
           /\ j.phase = "loaded" =>
                 j \in [phase : {"loaded"}, r : Routers, ip : Hosts \cup {0}, step : Steps]
           /\ j.phase \in {"picked", "stored"} =>
                 j \in [phase : {"picked", "stored"}, r : Routers, ip : Hosts \cup {0},
                        new : Hosts, step : Steps]
           /\ j.phase \in {"radius", "sealed"} =>
                 j \in [phase : {"radius", "sealed"}, r : Routers, step : Steps]
           /\ j.phase = "idle" \/ j # IdleJob
BY DEF Jobs, IdleJob

(* No router, no request: the wizard starts with its invariant.            *)
LEMMA WizardInit ==
    ASSUME Init
    PROVE  WizardInv
<1>1. 0 \in Steps /\ MaxSteps \in Nat
  BY DEF Steps, MaxSteps
<1>2. NoBlock \in Blocks /\ IdleJob \in Jobs
  BY <1>1 DEF NoBlock, Blocks, Jobs
<1>3. \A w \in Workers : job[w] = IdleJob /\ job[w].phase = "idle"
  BY DEF Init, IdleJob
<1>4. WizardType
  BY <1>1, <1>2 DEF Init, WizardType
<1>5. JobsFit /\ Apart /\ Reserved
  BY <1>3 DEF JobsFit, Apart, Reserved
<1>6. UnknownHasNone /\ TunnelIpUnique /\ BlocksFit
  BY DEF Init, UnknownHasNone, TunnelIpUnique, BlocksFit
<1>7. QED
  BY <1>4, <1>5, <1>6 DEF WizardInv

(***************************************************************************)
(* A step of request w that changes its own job only, to j, keeps the      *)
(* invariant if j fits.                                                    *)
(***************************************************************************)
LEMMA OwnStep ==
    ASSUME WizardInv, NEW w \in Workers, NEW j \in Jobs,
           To(w, j),
           steps' \in Steps,
           UNCHANGED <<known, ip, keys, secret, network, completed, nas, overtaken>>,
           j # IdleJob => j.r \in known,
           j.phase \in {"radius", "sealed"} => ip[j.r] # 0,
           j.phase = "stored" =>
              /\ \A u \in Workers :
                    (u # w /\ job[u].phase = "stored" /\ job[u].r # j.r) => job[u].new # j.new
              /\ j.new # j.ip => \A r \in Routers : r # j.r => ip[r] # j.new
    PROVE  WizardInv'
<1>1. job' = [job EXCEPT ![w] = j] /\ job \in [Workers -> Jobs]
  BY DEF To, WizardInv, WizardType
<1>2. \A u \in Workers : job'[u] = IF u = w THEN j ELSE job[u]
  BY <1>1
<1>3. WizardType'
  BY <1>1 DEF WizardInv, WizardType
<1>4. JobsFit'
  BY <1>2 DEF WizardInv, JobsFit
<1>5. UnknownHasNone' /\ TunnelIpUnique' /\ BlocksFit'
  BY DEF WizardInv, UnknownHasNone, TunnelIpUnique, BlocksFit
<1>6. Apart'
  BY <1>2 DEF WizardInv, Apart
<1>7. Reserved'
  BY <1>2 DEF WizardInv, Reserved, Writes
<1>8. QED
  BY <1>3, <1>4, <1>5, <1>6, <1>7 DEF WizardInv

(* A request that has begun takes its place in the bound.                  *)
LEMMA StepType ==
    ASSUME Step, steps \in Steps
    PROVE  NextStep \in Steps /\ steps' \in Steps
BY DEF Step, Steps, NextStep, MaxSteps

(* get_owned of generate_wireguard.                                        *)
LEMMA LoadRouterKeeps ==
    ASSUME WizardInv, NEW w \in Workers, NEW r \in Routers, LoadRouter(w, r)
    PROVE  WizardInv'
<1> DEFINE j == [phase |-> "loaded", r |-> r, ip |-> ip[r], step |-> NextStep]
<1>1. NextStep \in Steps /\ steps' \in Steps
  BY StepType DEF LoadRouter, WizardInv, WizardType
<1>2. j \in [phase : {"loaded"}, r : Routers, ip : Hosts \cup {0}, step : Steps]
  BY <1>1 DEF WizardInv, WizardType
<1>3. j \in Jobs
  BY <1>2 DEF Jobs
<1>4. j.r \in known /\ j.phase = "loaded"
  BY DEF LoadRouter, GetRouter
<1>5. To(w, j) /\ UNCHANGED <<known, ip, keys, secret, network, completed, nas, overtaken>>
  BY DEF LoadRouter, rows
<1> HIDE DEF j
<1>6. QED
  BY <1>1, <1>3, <1>4, <1>5, OwnStep

(* The choice of an address promises nothing yet.                          *)
LEMMA ChoiceKeeps ==
    ASSUME WizardInv, NEW w \in Workers, NextWireguardTunnelIp(w)
    PROVE  WizardInv'
<1>1. steps' \in Steps /\ UNCHANGED <<known, ip, keys, secret, network, completed, nas, overtaken>>
  BY DEF NextWireguardTunnelIp, rows, WizardInv, WizardType
<1>2. job[w].phase = "loaded" /\ job[w] \in Jobs
  BY DEF NextWireguardTunnelIp, WizardInv, WizardType
<1>3. job[w].r \in Routers /\ job[w].ip \in Hosts \cup {0} /\ job[w].step \in Steps
  BY <1>2, JobKinds
<1>4. job[w].r \in known
  BY <1>2, JobKinds DEF IdleJob, WizardInv, JobsFit
<1>5. CASE Free = {}
  <2>1. To(w, IdleJob) /\ IdleJob \in Jobs /\ IdleJob.phase = "idle"
    BY <1>5 DEF NextWireguardTunnelIp, Jobs, IdleJob
  <2>2. QED
    BY <1>1, <2>1, OwnStep
<1>6. CASE Free # {}
  <2> DEFINE j == [phase |-> "picked", r |-> job[w].r, ip |-> job[w].ip,
                   new |-> FirstFree, step |-> job[w].step]
  <2>1. FirstFree \in Hosts
    BY <1>6, FirstFreeIsFree DEF Free
  <2>2. j \in [phase : {"picked", "stored"}, r : Routers, ip : Hosts \cup {0},
               new : Hosts, step : Steps]
    BY <1>3, <2>1
  <2>3. j \in Jobs
    BY <2>2 DEF Jobs
  <2>4. To(w, j) /\ j.r \in known /\ j.phase = "picked"
    BY <1>4, <1>6 DEF NextWireguardTunnelIp
  <2> HIDE DEF j
  <2>5. QED
    BY <1>1, <2>3, <2>4, OwnStep
<1>7. QED
  BY <1>5, <1>6

(* The UPDATE takes the address, or finds it taken.                        *)
LEMMA StoreKeeps ==
    ASSUME WizardInv, NEW w \in Workers, StoreWireguard(w)
    PROVE  WizardInv'
<1>1. steps' \in Steps /\ UNCHANGED <<known, ip, keys, secret, network, completed, nas, overtaken>>
  BY DEF StoreWireguard, rows, WizardInv, WizardType
<1>2. job[w].phase = "picked" /\ job[w] \in Jobs
  BY DEF StoreWireguard, WizardInv, WizardType
<1>3. job[w] \in [phase : {"picked", "stored"}, r : Routers, ip : Hosts \cup {0},
                  new : Hosts, step : Steps]
  BY <1>2, JobKinds
<1>4. job[w].r \in known
  BY <1>2, JobKinds DEF IdleJob, WizardInv, JobsFit
<1>5. CASE Clash(w)
  <2>1. To(w, IdleJob) /\ IdleJob \in Jobs /\ IdleJob.phase = "idle"
    BY <1>5 DEF StoreWireguard, Jobs, IdleJob
  <2>2. QED
    BY <1>1, <2>1, OwnStep
<1>6. CASE ~Clash(w)
  <2> DEFINE j == [job[w] EXCEPT !.phase = "stored"]
  <2>1. j \in [phase : {"picked", "stored"}, r : Routers, ip : Hosts \cup {0},
               new : Hosts, step : Steps]
    BY <1>3
  <2>2. j \in Jobs
    BY <2>1 DEF Jobs
  <2>3. j.r = job[w].r /\ j.new = job[w].new /\ j.ip = job[w].ip /\ j.phase = "stored"
    BY <1>3
  <2>4. To(w, j)
    BY <1>6 DEF StoreWireguard
  <2>5. \A u \in Workers :
           (u # w /\ job[u].phase = "stored" /\ job[u].r # j.r) => job[u].new # j.new
    BY <2>3 DEF StoreWireguard, Contested
  <2>6. ASSUME j.new # j.ip, NEW r \in Routers, r # j.r
        PROVE  ip[r] # j.new
    <3>1. CASE r \in known
      BY <1>6, <2>3, <2>6, <3>1 DEF Clash, Writes
    <3>2. CASE r \notin known
      <4>1. ip[r] = 0
        BY <3>2 DEF WizardInv, UnknownHasNone
      <4>2. j.new \in Hosts
        BY <2>1
      <4>3. QED
        BY <4>1, <4>2, HostAssumption
    <3>3. QED
      BY <3>1, <3>2
  <2> HIDE DEF j
  <2>7. QED
    BY <1>1, <1>4, <2>2, <2>3, <2>4, <2>5, <2>6, OwnStep
<1>7. QED
  BY <1>5, <1>6

(* The commit of generate_wireguard gives the router the reserved address. *)
LEMMA CommitKeeps ==
    ASSUME WizardInv, NEW w \in Workers, CommitWireguard(w)
    PROVE  WizardInv'
<1>1. job[w].phase = "stored" /\ job[w] \in Jobs
  BY DEF CommitWireguard, WizardInv, WizardType
<1>2. /\ job[w].r \in Routers /\ job[w].ip \in Hosts \cup {0}
      /\ job[w].new \in Hosts /\ job[w].step \in Steps
  BY <1>1, JobKinds
<1>3. job[w].r \in known
  BY <1>1, JobKinds DEF IdleJob, WizardInv, JobsFit
<1>4. \A u \in Workers : job'[u] = IF u = w THEN IdleJob ELSE job[u]
  BY DEF CommitWireguard, To, WizardInv, WizardType
<1>5. \A r \in Routers :
         ip'[r] = IF r = job[w].r /\ Writes(w) THEN job[w].new ELSE ip[r]
  BY DEF CommitWireguard, WizardInv, WizardType
<1>6. UNCHANGED <<known, secret, network, completed, nas>> /\ overtaken' = overtaken \cup {job[w].r}
  BY DEF CommitWireguard
<1>7. WizardType'
  <2>1. ip' \in [Routers -> Hosts \cup {0}] /\ keys' \in [Routers -> Steps]
    BY <1>2 DEF CommitWireguard, WizardInv, WizardType
  <2>2. job' \in [Workers -> Jobs]
    BY DEF CommitWireguard, To, WizardInv, WizardType, Jobs
  <2>3. overtaken' \subseteq known
    BY <1>3, <1>6 DEF WizardInv, WizardType
  <2>4. QED
    BY <1>6, <2>1, <2>2, <2>3 DEF CommitWireguard, WizardInv, WizardType
<1>8. IdleJob.phase = "idle"
  BY DEF IdleJob
<1>9. \A r \in Routers : ip[r] # 0 => ip'[r] # 0
  BY <1>2, <1>5, HostAssumption
<1>10. JobsFit'
  <2>1. \A u \in Workers : job[u].phase \in {"radius", "sealed"} => job[u].r \in Routers
    BY JobKinds DEF WizardInv, WizardType
  <2>2. QED
    BY <1>4, <1>6, <1>8, <1>9, <2>1 DEF WizardInv, JobsFit
<1>11. UnknownHasNone'
  BY <1>3, <1>5, <1>6 DEF WizardInv, UnknownHasNone
<1>12. Apart'
  BY <1>4, <1>8 DEF WizardInv, Apart
<1>13. ASSUME Writes(w), NEW r \in Routers, r # job[w].r
       PROVE  ip[r] # job[w].new
  BY <1>1, <1>13 DEF WizardInv, Reserved
<1>14. Reserved'
  <2>1. SUFFICES ASSUME NEW u \in Workers, u # w, job[u].phase = "stored", Writes(u),
                        NEW r \in Routers, r # job[u].r
                 PROVE  ip'[r] # job[u].new
    BY <1>4, <1>8 DEF Reserved, Writes
  <2>2. CASE r = job[w].r /\ Writes(w)
    BY <1>1, <1>5, <2>1, <2>2 DEF WizardInv, Apart
  <2>3. CASE ~(r = job[w].r /\ Writes(w))
    BY <1>5, <2>1, <2>3 DEF WizardInv, Reserved
  <2>4. QED
    BY <2>2, <2>3
<1>15. TunnelIpUnique'
  BY <1>5, <1>13 DEF WizardInv, TunnelIpUnique
<1>16. BlocksFit'
  BY <1>5, <1>6 DEF WizardInv, BlocksFit
<1>17. QED
  BY <1>7, <1>10, <1>11, <1>12, <1>14, <1>15, <1>16 DEF WizardInv

(* get_owned of generate_radius_config, for a router with an address.      *)
LEMMA LoadForRadiusKeeps ==
    ASSUME WizardInv, NEW w \in Workers, NEW r \in Routers, LoadForRadius(w, r)
    PROVE  WizardInv'
<1> DEFINE j == [phase |-> "radius", r |-> r, step |-> NextStep]
<1>1. NextStep \in Steps /\ steps' \in Steps
  BY StepType DEF LoadForRadius, WizardInv, WizardType
<1>2. j \in [phase : {"radius", "sealed"}, r : Routers, step : Steps]
  BY <1>1
<1>3. j \in Jobs
  BY <1>2 DEF Jobs
<1>4. j.r \in known /\ ip[j.r] # 0 /\ j.phase = "radius"
  BY DEF LoadForRadius, GetRouter
<1>5. To(w, j) /\ UNCHANGED <<known, ip, keys, secret, network, completed, nas, overtaken>>
  BY DEF LoadForRadius, rows
<1> HIDE DEF j
<1>6. QED
  BY <1>1, <1>3, <1>4, <1>5, OwnStep

(* The new secret is written, and the row locked.                          *)
LEMMA StoreSecretKeeps ==
    ASSUME WizardInv, NEW w \in Workers, StoreSecret(w)
    PROVE  WizardInv'
<1> DEFINE j == [job[w] EXCEPT !.phase = "sealed"]
<1>1. steps' \in Steps /\ UNCHANGED <<known, ip, keys, secret, network, completed, nas, overtaken>>
  BY DEF StoreSecret, rows, WizardInv, WizardType
<1>2. job[w].phase = "radius" /\ job[w] \in Jobs
  BY DEF StoreSecret, WizardInv, WizardType
<1>3. job[w] \in [phase : {"radius", "sealed"}, r : Routers, step : Steps]
  BY <1>2, JobKinds
<1>4. j \in [phase : {"radius", "sealed"}, r : Routers, step : Steps]
  BY <1>3
<1>5. j \in Jobs
  BY <1>4 DEF Jobs
<1>6. j.r = job[w].r /\ j.phase = "sealed"
  BY <1>3
<1>7. j.r \in known /\ ip[j.r] # 0
  BY <1>2, <1>6, JobKinds DEF IdleJob, WizardInv, JobsFit
<1>8. To(w, j)
  BY DEF StoreSecret
<1> HIDE DEF j
<1>9. QED
  BY <1>1, <1>5, <1>6, <1>7, <1>8, OwnStep

(* The commit of generate_radius_config, whose block may be handed out.    *)
LEMMA CommitRadiusKeeps ==
    ASSUME WizardInv, NEW w \in Workers, NEW heard \in BOOLEAN, CommitRadius(w, heard)
    PROVE  WizardInv'
<1>1. job[w].phase = "sealed" /\ job[w] \in Jobs
  BY DEF CommitRadius, WizardInv, WizardType
<1>2. job[w].r \in Routers /\ job[w].step \in Steps
  BY <1>1, JobKinds
<1>3. job[w].r \in known /\ ip[job[w].r] # 0
  BY <1>1, JobKinds DEF IdleJob, WizardInv, JobsFit
<1>4. \A u \in Workers : job'[u] = IF u = w THEN IdleJob ELSE job[u]
  BY DEF CommitRadius, To, WizardInv, WizardType
<1>5. UNCHANGED <<known, ip, keys, network, completed, steps>>
  BY DEF CommitRadius
<1>6. secret' = [secret EXCEPT ![job[w].r] = job[w].step]
  BY DEF CommitRadius
<1> DEFINE b == [ip |-> ip[job[w].r], secret |-> job[w].step]
<1>7. \/ nas' = [nas EXCEPT ![job[w].r] = b] /\ overtaken' = overtaken \ {job[w].r}
      \/ nas' = nas /\ overtaken' = overtaken \cup {job[w].r}
  BY DEF CommitRadius
<1>8. b \in Blocks
  BY <1>2 DEF Blocks, WizardInv, WizardType
<1>9. b.ip = ip[job[w].r] /\ b.secret = job[w].step
  OBVIOUS
<1>10. IdleJob.phase = "idle"
  BY DEF IdleJob
<1> HIDE DEF b
<1>11. WizardType'
  <2>1. nas' \in [Routers -> Blocks] /\ secret' \in [Routers -> Steps]
    BY <1>2, <1>6, <1>7, <1>8 DEF WizardInv, WizardType
  <2>2. job' \in [Workers -> Jobs]
    BY DEF CommitRadius, To, WizardInv, WizardType, Jobs
  <2>3. overtaken' \subseteq known
    BY <1>3, <1>7 DEF WizardInv, WizardType
  <2>4. QED
    BY <1>5, <2>1, <2>2, <2>3 DEF WizardInv, WizardType
<1>12. JobsFit' /\ Apart'
  BY <1>4, <1>5, <1>10 DEF WizardInv, JobsFit, Apart
<1>13. Reserved'
  BY <1>4, <1>5, <1>10 DEF WizardInv, Reserved, Writes
<1>14. UnknownHasNone' /\ TunnelIpUnique'
  BY <1>5 DEF WizardInv, UnknownHasNone, TunnelIpUnique
<1>15. BlocksFit'
  <2>1. SUFFICES ASSUME NEW r \in Routers, nas'[r] # NoBlock, r \notin overtaken'
                 PROVE  nas'[r].secret = secret'[r] /\ nas'[r].ip = ip[r] /\ ip[r] # 0
    BY <1>5 DEF BlocksFit
  <2>2. CASE r = job[w].r
    BY <1>2, <1>3, <1>6, <1>7, <1>9, <2>1, <2>2 DEF WizardInv, WizardType
  <2>3. CASE r # job[w].r
    <3>1. nas'[r] = nas[r] /\ secret'[r] = secret[r] /\ r \notin overtaken
      BY <1>6, <1>7, <2>1, <2>3 DEF WizardInv, WizardType
    <3>2. QED
      BY <2>1, <3>1 DEF WizardInv, BlocksFit
  <2>4. QED
    BY <2>2, <2>3
<1>16. QED
  BY <1>11, <1>12, <1>13, <1>14, <1>15 DEF WizardInv

(* A request that dies has written nothing.                                *)
LEMMA CrashKeeps ==
    ASSUME WizardInv, NEW w \in Workers, CrashApi(w)
    PROVE  WizardInv'
<1>1. steps' \in Steps /\ UNCHANGED <<known, ip, keys, secret, network, completed, nas, overtaken>>
  BY DEF CrashApi, rows, WizardInv, WizardType
<1>2. To(w, IdleJob) /\ IdleJob \in Jobs /\ IdleJob.phase = "idle"
  BY DEF CrashApi, Jobs, IdleJob
<1>3. QED
  BY <1>1, <1>2, OwnStep

(* The wizard's steps without a race: registration, the hotspot network,   *)
(* completion.                                                             *)
LEMMA PlainStepKeeps ==
    ASSUME WizardInv, NEW r \in Routers,
           CreateRouter(r) \/ SetNetworkConfig(r) \/ CompleteProvisioning(r)
    PROVE  WizardInv'
<1>1. UNCHANGED <<ip, keys, secret, nas, overtaken, job>>
  BY DEF CreateRouter, SetNetworkConfig, CompleteProvisioning
<1>2. steps' \in Steps
  BY StepType DEF CreateRouter, SetNetworkConfig, CompleteProvisioning, WizardInv, WizardType
<1>3. /\ known' \in {known, known \cup {r}}
      /\ network' \in {network, network \cup {r}}
      /\ completed' \in {completed, completed \cup {r}}
      /\ network' # network \/ completed' # completed => r \in known
  BY DEF CreateRouter, SetNetworkConfig, CompleteProvisioning, GetRouter
<1>4. WizardType'
  BY <1>1, <1>2, <1>3 DEF WizardInv, WizardType
<1>5. JobsFit' /\ UnknownHasNone' /\ BlocksFit' /\ Apart' /\ TunnelIpUnique'
  BY <1>1, <1>3 DEF WizardInv, JobsFit, UnknownHasNone, BlocksFit, Apart, TunnelIpUnique
<1>6. Reserved'
  BY <1>1 DEF WizardInv, Reserved, Writes
<1>7. QED
  BY <1>4, <1>5, <1>6 DEF WizardInv

(* Where the wizard's variables stay, so does its invariant.               *)
LEMMA WizardStutter ==
    ASSUME WizardInv, UNCHANGED wizard
    PROVE  WizardInv'
<1>1. WizardType'
  BY DEF wizard, WizardInv, WizardType
<1>2. JobsFit' /\ UnknownHasNone' /\ BlocksFit' /\ Apart' /\ TunnelIpUnique'
  BY DEF wizard, WizardInv, JobsFit, UnknownHasNone, BlocksFit, Apart, TunnelIpUnique
<1>3. Reserved'
  BY DEF wizard, WizardInv, Reserved, Writes
<1>4. QED
  BY <1>1, <1>2, <1>3 DEF WizardInv

----------------------------------------------------------------------------
(***************************************************************************)
(* The signed calls.  A copy that was carried out is remembered until its  *)
(* time is too far from the clock: it left no later than now by its        *)
(* sender's clock, which is ahead by less than Ttl - Skew.                 *)
(***************************************************************************)

ChannelType ==
    /\ now \in 0..MaxTime
    /\ call \in [Calls -> CallStates]
    /\ sent \subseteq Copies
    /\ stamp \in [Copies -> Int]
    /\ seen \in [Copies -> Nat]
    /\ carried \in [Copies -> 0..2]
    /\ everDone \subseteq Calls
    /\ scene \in Scenes

(* Between two starts of its receiver, a copy is carried out once at most. *)
CarriedOutOnce == \A k \in Copies : carried[k] <= 1

(* A copy is on its way once its attempt was made.                         *)
SentFits ==
    \A c \in Calls :
        /\ call[c] = "new" => <<c, 1>> \notin sent
        /\ call[c] \in {"new", "first"} => <<c, 2>> \notin sent

StampFits == \A k \in sent : stamp[k] <= now + scene.ahead

RememberedLongEnough ==
    \A k \in Copies : carried[k] # 0 => k \in sent /\ seen[k] > stamp[k] + Skew

ChannelInv ==
    /\ ChannelType /\ SentFits /\ StampFits /\ RememberedLongEnough
    /\ CarriedOutOnce /\ SuccessMeansDone

(* What a scene is.                                                        *)
LEMMA SceneType ==
    ASSUME ChannelType
    PROVE  scene.ahead \in Int /\ scene.calls \subseteq Calls /\ Skew + scene.ahead < Ttl
BY SceneAssumption, ClockAssumption DEF ChannelType

(* Nothing was sent: the channel starts with its invariant.                *)
LEMMA ChannelInit ==
    ASSUME Init
    PROVE  ChannelInv
<1>1. ChannelType
  BY ClockAssumption DEF Init, ChannelType, CallStates, Copies
<1>2. SentFits /\ StampFits
  BY DEF Init, SentFits, StampFits
<1>3. RememberedLongEnough /\ CarriedOutOnce
  BY DEF Init, RememberedLongEnough, CarriedOutOnce
<1>4. SuccessMeansDone
  BY DEF Init, SuccessMeansDone
<1>5. QED
  BY <1>1, <1>2, <1>3, <1>4 DEF ChannelInv

(***************************************************************************)
(* A caller that is told of an outcome: the call ends, and no copy is      *)
(* added.                                                                  *)
(***************************************************************************)
LEMMA ReplyKeeps ==
    ASSUME ChannelInv, NEW c \in Calls, NEW n \in 1..2,
           NEW outcome \in {"ok", "answered", "refused", "unreachable", "error"},
           Reply(c, n, outcome), UNCHANGED sent,
           everDone \subseteq everDone', everDone' \subseteq Calls,
           outcome = "ok" => c \in everDone'
    PROVE  call' \in [Calls -> CallStates] /\ SentFits' /\ SuccessMeansDone'
<1>1. call' = call \/ call' = [call EXCEPT ![c] = outcome]
  BY DEF Reply
<1>2. call \in [Calls -> CallStates]
  BY DEF ChannelInv, ChannelType
<1>3. call' \in [Calls -> CallStates]
  BY <1>1, <1>2 DEF CallStates
<1>4. \A d \in Calls : call'[d] = call[d] \/ (d = c /\ call'[d] = outcome)
  BY <1>1, <1>2
<1>5. SentFits'
  BY <1>4 DEF ChannelInv, SentFits
<1>6. SuccessMeansDone'
  BY <1>4 DEF ChannelInv, SuccessMeansDone
<1>7. QED
  BY <1>3, <1>5, <1>6

(* A request that is signed carries its sender's time.                     *)
LEMMA SignKeeps ==
    ASSUME ChannelInv, NEW c \in Calls, NEW n \in 1..2, Sign(c, n),
           <<c, n>> \notin sent, UNCHANGED <<now, seen, carried, scene>>
    PROVE  /\ sent' \subseteq Copies /\ stamp' \in [Copies -> Int]
           /\ StampFits' /\ RememberedLongEnough' /\ CarriedOutOnce'
<1> DEFINE k == <<c, n>>
<1>1. k \in Copies /\ k \notin sent
  BY DEF Copies
<1>2. sent' = sent \cup {k} /\ stamp' = [stamp EXCEPT ![k] = now + scene.ahead]
  BY DEF Sign
<1> HIDE DEF k
<1>3. now \in Int /\ scene.ahead \in Int /\ now + scene.ahead \in Int
  BY SceneType DEF ChannelInv, ChannelType
<1>4. sent' \subseteq Copies /\ stamp' \in [Copies -> Int]
  BY <1>1, <1>2, <1>3 DEF ChannelInv, ChannelType
<1>5. \A l \in Copies : stamp'[l] = IF l = k THEN now + scene.ahead ELSE stamp[l]
  BY <1>2 DEF ChannelInv, ChannelType
<1>6. StampFits'
  BY <1>2, <1>3, <1>4, <1>5 DEF ChannelInv, StampFits
<1>7. RememberedLongEnough'
  BY <1>1, <1>2, <1>5 DEF ChannelInv, RememberedLongEnough
<1>8. CarriedOutOnce'
  BY DEF ChannelInv, CarriedOutOnce
<1>9. QED
  BY <1>4, <1>6, <1>7, <1>8

(* _request and _post_json sign and send.                                  *)
LEMMA SendKeeps ==
    ASSUME ChannelInv, NEW c \in Calls, Send(c)
    PROVE  ChannelInv'
<1>1. call[c] = "new" /\ call' = [call EXCEPT ![c] = "first"] /\ Sign(c, 1)
  BY DEF Send
<1>2. UNCHANGED <<now, seen, carried, everDone, scene>>
  BY DEF Send
<1>3. <<c, 1>> \notin sent /\ <<c, 2>> \notin sent
  BY <1>1 DEF ChannelInv, SentFits
<1>4. /\ sent' \subseteq Copies /\ stamp' \in [Copies -> Int]
      /\ StampFits' /\ RememberedLongEnough' /\ CarriedOutOnce'
  BY <1>1, <1>2, <1>3, SignKeeps
<1>5. ChannelType'
  BY <1>1, <1>2, <1>4 DEF ChannelInv, ChannelType, CallStates
<1>6. sent' = sent \cup {<<c, 1>>}
  BY <1>1 DEF Sign
<1>7. \A d \in Calls : call'[d] = IF d = c THEN "first" ELSE call[d]
  BY <1>1 DEF ChannelInv, ChannelType
<1>8. SentFits'
  <2>1. \A d \in Calls : <<d, 2>> # <<c, 1>> /\ (d # c => <<d, 1>> # <<c, 1>>)
    OBVIOUS
  <2>2. QED
    BY <1>3, <1>6, <1>7, <2>1 DEF ChannelInv, SentFits
<1>9. SuccessMeansDone'
  BY <1>2, <1>7 DEF ChannelInv, SuccessMeansDone
<1>10. QED
  BY <1>4, <1>5, <1>8, <1>9 DEF ChannelInv

(* The worker signs anew and tries again; the API gives up.                *)
LEMMA TransportErrorKeeps ==
    ASSUME ChannelInv, NEW c \in Calls, TransportError(c)
    PROVE  ChannelInv'
<1>1. UNCHANGED <<now, seen, carried, everDone, scene>> /\ Waiting(c)
  BY DEF TransportError
<1>2. CASE Attempt(c) + 1 \in Attempts(c)
  <2>1. call[c] = "first"
    BY <1>1, <1>2 DEF Attempt, Attempts, Waiting
  <2>2. call' = [call EXCEPT ![c] = "second"] /\ Sign(c, 2)
    BY <1>2 DEF TransportError
  <2>3. <<c, 2>> \notin sent
    BY <2>1 DEF ChannelInv, SentFits
  <2>4. /\ sent' \subseteq Copies /\ stamp' \in [Copies -> Int]
        /\ StampFits' /\ RememberedLongEnough' /\ CarriedOutOnce'
    <3>1. 2 \in 1..2 /\ UNCHANGED <<now, seen, carried, scene>>
      BY <1>1
    <3>2. QED
      BY <2>2, <2>3, <3>1, SignKeeps
  <2>5. ChannelType'
    BY <1>1, <2>2, <2>4 DEF ChannelInv, ChannelType, CallStates
  <2>6. sent' = sent \cup {<<c, 2>>}
    BY <2>2 DEF Sign
  <2>7. \A d \in Calls : call'[d] = IF d = c THEN "second" ELSE call[d]
    BY <2>2 DEF ChannelInv, ChannelType
  <2>8. SentFits'
    BY <2>6, <2>7 DEF ChannelInv, SentFits
  <2>9. SuccessMeansDone'
    BY <1>1, <2>7 DEF ChannelInv, SuccessMeansDone
  <2>10. QED
    BY <2>4, <2>5, <2>8, <2>9 DEF ChannelInv
<1>3. CASE Attempt(c) + 1 \notin Attempts(c)
  <2>1. call' = [call EXCEPT ![c] = Failure(c)] /\ UNCHANGED <<sent, stamp>>
    BY <1>3 DEF TransportError
  <2>2. Reply(c, Attempt(c), Failure(c)) /\ Attempt(c) \in 1..2
    BY <1>1, <2>1 DEF Reply, Attempt
  <2>3. call' \in [Calls -> CallStates] /\ SentFits' /\ SuccessMeansDone'
    BY <1>1, <2>1, <2>2, FailureIsNoSuccess, ReplyKeeps DEF ChannelInv, ChannelType
  <2>4. ChannelType' /\ StampFits' /\ RememberedLongEnough' /\ CarriedOutOnce'
    BY <1>1, <2>1, <2>3
    DEF ChannelInv, ChannelType, StampFits, RememberedLongEnough, CarriedOutOnce
  <2>5. QED
    BY <2>3, <2>4 DEF ChannelInv
<1>4. QED
  BY <1>2, <1>3

(* The proxy's error ends the call as the agent's would.                   *)
LEMMA ProxyAnswersKeeps ==
    ASSUME ChannelInv, NEW c \in Calls, ProxyAnswers(c)
    PROVE  ChannelInv'
<1>1. Waiting(c) /\ UNCHANGED <<now, sent, stamp, seen, carried, everDone, scene>>
  BY DEF ProxyAnswers
<1>2. Reply(c, Attempt(c), ErrorStatus(c)) /\ Attempt(c) \in 1..2
  BY DEF ProxyAnswers, Reply, Attempt
<1>3. call' \in [Calls -> CallStates] /\ SentFits' /\ SuccessMeansDone'
  BY <1>1, <1>2, FailureIsNoSuccess, ReplyKeeps DEF ChannelInv, ChannelType
<1>4. ChannelType' /\ StampFits' /\ RememberedLongEnough' /\ CarriedOutOnce'
  BY <1>1, <1>3
  DEF ChannelInv, ChannelType, StampFits, RememberedLongEnough, CarriedOutOnce
<1>5. QED
  BY <1>3, <1>4 DEF ChannelInv

(***************************************************************************)
(* A copy that is accepted is on time and not remembered; if it was        *)
(* carried out, its nonce has expired, and then its time is too old.       *)
(***************************************************************************)
LEMMA AcceptedIsNew ==
    ASSUME ChannelInv, NEW c \in Calls, NEW n \in 1..2, Accepts(c, n)
    PROVE  /\ <<c, n>> \in sent
           /\ carried[<<c, n>>] = 0
           /\ now + Ttl > stamp[<<c, n>>] + Skew
<1> DEFINE k == <<c, n>>
<1>1. k \in sent /\ k \in Copies
  BY DEF Accepts, Sent, Copies
<1>2. Distance(stamp[k]) <= Skew /\ ~(seen[k] > now)
  BY DEF Accepts, Fresh, SeenBefore
<1> HIDE DEF k
<1>3. /\ stamp[k] \in Int /\ seen[k] \in Nat /\ now \in Int
      /\ Skew \in Nat /\ Ttl \in Nat /\ scene.ahead \in Int /\ Skew + scene.ahead < Ttl
  BY <1>1, ClockAssumption, SceneType DEF ChannelInv, ChannelType
<1>4. stamp[k] <= now + scene.ahead
  BY <1>1 DEF ChannelInv, StampFits
<1>5. now - stamp[k] <= Skew
  BY <1>2, <1>3 DEF Distance
<1>6. ~(seen[k] > stamp[k] + Skew)
  BY <1>2, <1>3, <1>5
<1>7. carried[k] = 0
  BY <1>1, <1>6 DEF ChannelInv, RememberedLongEnough
<1>8. now + Ttl > stamp[k] + Skew
  BY <1>3, <1>4
<1>9. QED
  BY <1>1, <1>7, <1>8 DEF k

(* The nonce of an accepted copy is remembered for Ttl.                    *)
LEMMA RememberKeeps ==
    ASSUME ChannelInv, NEW c \in Calls, NEW n \in 1..2, Accepts(c, n), Remember(c, n),
           UNCHANGED <<now, sent, stamp, scene>>,
           carried' = carried \/ carried' = [carried EXCEPT ![<<c, n>>] = UpTo2(@)]
    PROVE  /\ seen' \in [Copies -> Nat] /\ carried' \in [Copies -> 0..2]
           /\ StampFits' /\ RememberedLongEnough' /\ CarriedOutOnce'
<1> DEFINE k == <<c, n>>
<1>1. k \in sent /\ carried[k] = 0 /\ now + Ttl > stamp[k] + Skew
  BY AcceptedIsNew
<1>2. k \in Copies
  BY DEF Copies
<1>3. seen' = [seen EXCEPT ![k] = now + Ttl]
  BY DEF Remember
<1>4. carried' = carried \/ carried' = [carried EXCEPT ![k] = UpTo2(@)]
  OBVIOUS
<1> HIDE DEF k
<1>5. now + Ttl \in Nat
  BY ClockAssumption DEF ChannelInv, ChannelType
<1>6. seen' \in [Copies -> Nat]
  BY <1>3, <1>5 DEF ChannelInv, ChannelType
<1>7. \A l \in Copies : l # k => seen'[l] = seen[l] /\ carried'[l] = carried[l]
  BY <1>3, <1>4 DEF ChannelInv, ChannelType
<1>8. seen'[k] = now + Ttl /\ carried'[k] \in 0..1
  BY <1>1, <1>2, <1>3, <1>4 DEF ChannelInv, ChannelType, UpTo2
<1>9. carried' \in [Copies -> 0..2]
  BY <1>4, UpTo2Type, <1>2 DEF ChannelInv, ChannelType
<1>10. StampFits'
  BY DEF ChannelInv, StampFits
<1>11. RememberedLongEnough'
  BY <1>1, <1>7, <1>8 DEF ChannelInv, RememberedLongEnough
<1>12. CarriedOutOnce'
  BY <1>7, <1>8 DEF ChannelInv, CarriedOutOnce
<1>13. QED
  BY <1>6, <1>9, <1>10, <1>11, <1>12

(* Every handler that serves a call checks and records it the same way.    *)
LEMMA ServeKeeps ==
    ASSUME ChannelInv, NEW c \in Calls, NEW n \in 1..2, NEW kinds, Serve(c, n, kinds)
    PROVE  ChannelInv'
<1>1. Accepts(c, n) /\ Remember(c, n) /\ UNCHANGED <<now, sent, stamp, scene>>
  BY DEF Serve
<1>2. carried' = [carried EXCEPT ![<<c, n>>] = UpTo2(@)]
  BY DEF Serve
<1>3. everDone' = everDone \cup {c} /\ Reply(c, n, Success(c))
  BY DEF Serve
<1>4. /\ seen' \in [Copies -> Nat] /\ carried' \in [Copies -> 0..2]
      /\ StampFits' /\ RememberedLongEnough' /\ CarriedOutOnce'
  BY <1>1, <1>2, RememberKeeps
<1>5. everDone \subseteq everDone' /\ everDone' \subseteq Calls /\ c \in everDone'
  BY <1>3 DEF ChannelInv, ChannelType
<1>6. call' \in [Calls -> CallStates] /\ SentFits' /\ SuccessMeansDone'
  BY <1>1, <1>3, <1>5, FailureIsNoSuccess, ReplyKeeps
<1>7. ChannelType'
  BY <1>1, <1>4, <1>5, <1>6 DEF ChannelInv, ChannelType
<1>8. QED
  BY <1>4, <1>6, <1>7 DEF ChannelInv

(* A handler that cannot do what it was asked.                             *)
LEMMA FailsKeeps ==
    ASSUME ChannelInv, NEW c \in Calls, NEW n \in 1..2, Fails(c, n)
    PROVE  ChannelInv'
<1>1. Accepts(c, n) /\ Remember(c, n) /\ UNCHANGED <<now, sent, stamp, carried, everDone, scene>>
  BY DEF Fails
<1>2. Reply(c, n, ErrorStatus(c))
  BY DEF Fails
<1>3. /\ seen' \in [Copies -> Nat] /\ carried' \in [Copies -> 0..2]
      /\ StampFits' /\ RememberedLongEnough' /\ CarriedOutOnce'
  BY <1>1, RememberKeeps
<1>4. everDone \subseteq everDone' /\ everDone' \subseteq Calls
  BY <1>1 DEF ChannelInv, ChannelType
<1>5. call' \in [Calls -> CallStates] /\ SentFits' /\ SuccessMeansDone'
  BY <1>1, <1>2, <1>4, FailureIsNoSuccess, ReplyKeeps
<1>6. ChannelType'
  BY <1>1, <1>3, <1>4, <1>5 DEF ChannelInv, ChannelType
<1>7. QED
  BY <1>3, <1>5, <1>6 DEF ChannelInv

(* A copy that is late or known is refused.                                *)
LEMMA RefuseKeeps ==
    ASSUME ChannelInv, NEW c \in Calls, NEW n \in 1..2, Refuse(c, n)
    PROVE  ChannelInv'
<1>1. UNCHANGED <<now, sent, stamp, seen, carried, everDone, scene>>
  BY DEF Refuse
<1>2. Reply(c, n, Refusal(c))
  BY DEF Refuse
<1>3. everDone \subseteq everDone' /\ everDone' \subseteq Calls
  BY <1>1 DEF ChannelInv, ChannelType
<1>4. call' \in [Calls -> CallStates] /\ SentFits' /\ SuccessMeansDone'
  BY <1>1, <1>2, <1>3, FailureIsNoSuccess, ReplyKeeps
<1>5. ChannelType'
  BY <1>1, <1>4 DEF ChannelInv, ChannelType
<1>6. StampFits' /\ RememberedLongEnough' /\ CarriedOutOnce'
  BY <1>1 DEF ChannelInv, StampFits, RememberedLongEnough, CarriedOutOnce
<1>7. QED
  BY <1>4, <1>5, <1>6 DEF ChannelInv

(* The agent starts anew, with nothing carried out since.                  *)
LEMMA RestartKeeps ==
    ASSUME ChannelInv, RestartAgent
    PROVE  ChannelInv'
<1>1. UNCHANGED <<now, call, sent, stamp, everDone, scene>>
  BY DEF RestartAgent
<1>2. seen' \in [Copies -> Nat] /\ carried' \in [Copies -> 0..2]
  BY DEF RestartAgent, ChannelInv, ChannelType
<1>3. \A k \in Copies : (seen'[k] = seen[k] /\ carried'[k] = carried[k]) \/ carried'[k] = 0
  BY DEF RestartAgent, ChannelInv, ChannelType
<1>4. ChannelType'
  BY <1>1, <1>2 DEF ChannelInv, ChannelType
<1>5. SentFits' /\ StampFits' /\ SuccessMeansDone'
  BY <1>1 DEF ChannelInv, SentFits, StampFits, SuccessMeansDone
<1>6. RememberedLongEnough' /\ CarriedOutOnce'
  BY <1>1, <1>3 DEF ChannelInv, RememberedLongEnough, CarriedOutOnce
<1>7. QED
  BY <1>4, <1>5, <1>6 DEF ChannelInv

(* Time passes.                                                            *)
LEMMA TickKeeps ==
    ASSUME ChannelInv, Tick
    PROVE  ChannelInv'
<1>1. now' = now + 1 /\ now < MaxTime /\ UNCHANGED <<channel, scene>>
  BY DEF Tick
<1>2. ChannelType'
  BY <1>1, ClockAssumption DEF channel, ChannelInv, ChannelType
<1>3. StampFits'
  <2>1. SUFFICES ASSUME NEW k \in sent PROVE stamp[k] <= now + 1 + scene.ahead
    BY <1>1 DEF StampFits, channel
  <2>2. stamp[k] \in Int /\ now \in Int /\ scene.ahead \in Int
    BY SceneType DEF ChannelInv, ChannelType
  <2>3. QED
    BY <2>2 DEF ChannelInv, StampFits
<1>4. SentFits' /\ RememberedLongEnough' /\ CarriedOutOnce' /\ SuccessMeansDone'
  BY <1>1
  DEF channel, ChannelInv, SentFits, RememberedLongEnough, CarriedOutOnce, SuccessMeansDone
<1>5. QED
  BY <1>2, <1>3, <1>4 DEF ChannelInv

(* Where the channel's variables stay, so does its invariant.              *)
LEMMA ChannelStutter ==
    ASSUME ChannelInv, UNCHANGED <<now, channel, scene>>
    PROVE  ChannelInv'
<1>1. ChannelType'
  BY DEF channel, ChannelInv, ChannelType
<1>2. SentFits' /\ StampFits' /\ RememberedLongEnough' /\ CarriedOutOnce' /\ SuccessMeansDone'
  BY DEF channel, ChannelInv, SentFits, StampFits, RememberedLongEnough, CarriedOutOnce,
         SuccessMeansDone
<1>3. QED
  BY <1>1, <1>2 DEF ChannelInv

----------------------------------------------------------------------------
(* The whole *)

ServedType ==
    /\ online \subseteq Routers
    /\ radius \subseteq {"group", "user"}
    /\ registry \in [Routers -> Hosts \cup {0}]
    /\ crashes \in 0..MaxCrashes

IInv == WizardInv /\ ChannelInv /\ ServedType

Handled(c, n) ==
    \/ TestConnection(c, n) \/ GetIdentity(c, n) \/ GetResource(c, n)
    \/ GetActiveSessions(c, n) \/ GetInterfaces(c, n) \/ GetRadiusStatus(c, n)
    \/ DisconnectHotspotUser(c, n)
    \/ RadiusPing(c, n) \/ DiagnosticPing(c, n) \/ SyncPackageGroup(c, n) \/ ProvisionUser(c, n)
    \/ RevokeUser(c, n) \/ Reconcile(c, n)

(* Every handler is a served call, and leaves the wizard alone.            *)
LEMMA HandledIsServed ==
    ASSUME NEW c \in Calls, NEW n \in 1..2, Handled(c, n), ServedType
    PROVE  /\ \E kinds : Serve(c, n, kinds)
           /\ UNCHANGED wizard /\ ServedType'
<1>1. CASE \/ TestConnection(c, n) \/ GetIdentity(c, n) \/ GetResource(c, n)
           \/ GetActiveSessions(c, n) \/ GetInterfaces(c, n) \/ GetRadiusStatus(c, n)
           \/ RadiusPing(c, n) \/ DiagnosticPing(c, n) \/ Reconcile(c, n)
  <2>1. \E kinds : Serve(c, n, kinds)
    BY <1>1
    DEF TestConnection, GetIdentity, GetResource, GetActiveSessions, GetInterfaces,
        GetRadiusStatus, RadiusPing, DiagnosticPing, Reconcile, ReadRouter
  <2>2. UNCHANGED served
    BY <1>1
    DEF TestConnection, GetIdentity, GetResource, GetActiveSessions, GetInterfaces,
        GetRadiusStatus, RadiusPing, DiagnosticPing, Reconcile, ReadRouter
  <2>3. UNCHANGED <<wizard, registry, crashes>>
    BY <2>1 DEF Serve
  <2>4. QED
    BY <2>1, <2>2, <2>3 DEF ServedType, served
<1>2. CASE \/ DisconnectHotspotUser(c, n) \/ SyncPackageGroup(c, n)
           \/ ProvisionUser(c, n) \/ RevokeUser(c, n)
  <2>1. \E kinds : Serve(c, n, kinds)
    BY <1>2 DEF DisconnectHotspotUser, SyncPackageGroup, ProvisionUser, RevokeUser
  <2>2. online' \subseteq online /\ radius' \subseteq radius \cup {"group", "user"}
    BY <1>2 DEF DisconnectHotspotUser, SyncPackageGroup, ProvisionUser, RevokeUser
  <2>3. UNCHANGED <<wizard, registry, crashes>>
    BY <2>1 DEF Serve
  <2>4. QED
    BY <2>1, <2>2, <2>3 DEF ServedType
<1>3. QED
  BY <1>1, <1>2 DEF Handled

(* The invariant holds at the start.                                       *)
LEMMA InitHolds == Init => IInv
<1> SUFFICES ASSUME Init PROVE IInv
  OBVIOUS
<1>1. ServedType
  BY CrashAssumption DEF Init, ServedType
<1>2. QED
  BY <1>1, WizardInit, ChannelInit DEF IInv

(* Every step keeps the invariant.                                         *)
LEMMA StepKeeps == IInv /\ [Next]_vars => IInv'
<1> SUFFICES ASSUME WizardInv, ChannelInv, ServedType, [Next]_vars
             PROVE  WizardInv' /\ ChannelInv' /\ ServedType'
  BY DEF IInv
<1> USE DEF elsewhere
<1>1. ASSUME NEW r \in Routers,
             CreateRouter(r) \/ SetNetworkConfig(r) \/ CompleteProvisioning(r)
      PROVE  WizardInv' /\ ChannelInv' /\ ServedType'
  <2>1. UNCHANGED <<registry, crashes, elsewhere>>
    BY <1>1 DEF CreateRouter, SetNetworkConfig, CompleteProvisioning
  <2>2. QED
    BY <1>1, <2>1, PlainStepKeeps, ChannelStutter DEF ServedType, served
<1>2. ASSUME NEW r \in Routers, Register(r) \/ GoOnline(r)
      PROVE  WizardInv' /\ ChannelInv' /\ ServedType'
  <2>1. UNCHANGED <<wizard, now, channel, scene, radius, crashes>>
    BY <1>2 DEF Register, GoOnline, served
  <2>2. online' \subseteq Routers /\ registry' \in [Routers -> Hosts \cup {0}]
    BY <1>2 DEF Register, GoOnline, served, ServedType, WizardInv, WizardType
  <2>3. QED
    BY <2>1, <2>2, WizardStutter, ChannelStutter DEF ServedType
<1>3. ASSUME NEW w \in Workers,
             \/ \E r \in Routers : LoadRouter(w, r) \/ LoadForRadius(w, r)
             \/ NextWireguardTunnelIp(w) \/ StoreWireguard(w) \/ CommitWireguard(w)
             \/ StoreSecret(w) \/ \E heard \in BOOLEAN : CommitRadius(w, heard)
             \/ CrashApi(w)
      PROVE  WizardInv' /\ ChannelInv' /\ ServedType'
  <2>1. UNCHANGED <<registry, elsewhere>>
    BY <1>3
    DEF LoadRouter, LoadForRadius, NextWireguardTunnelIp, StoreWireguard, CommitWireguard,
        StoreSecret, CommitRadius, CrashApi
  <2>2. crashes' \in 0..MaxCrashes
    <3>1. crashes' = crashes \/ (crashes < MaxCrashes /\ crashes' = crashes + 1)
      BY <1>3
      DEF LoadRouter, LoadForRadius, NextWireguardTunnelIp, StoreWireguard, CommitWireguard,
          StoreSecret, CommitRadius, CrashApi
    <3>2. QED
      BY <3>1, CrashAssumption DEF ServedType
  <2>3. WizardInv'
    BY <1>3, LoadRouterKeeps, LoadForRadiusKeeps, ChoiceKeeps, StoreKeeps, CommitKeeps,
       StoreSecretKeeps, CommitRadiusKeeps, CrashKeeps
  <2>4. QED
    BY <2>1, <2>2, <2>3, ChannelStutter DEF ServedType, served
<1>4. ASSUME NEW c \in Calls, Send(c) \/ TransportError(c) \/ ProxyAnswers(c)
      PROVE  WizardInv' /\ ChannelInv' /\ ServedType'
  <2>1. UNCHANGED <<wizard, served, registry, crashes>>
    BY <1>4 DEF Send, TransportError, ProxyAnswers
  <2>2. QED
    BY <1>4, <2>1, WizardStutter, SendKeeps, TransportErrorKeeps, ProxyAnswersKeeps
    DEF ServedType, served
<1>5. ASSUME NEW c \in Calls, NEW n \in 1..2, Handled(c, n)
      PROVE  WizardInv' /\ ChannelInv' /\ ServedType'
  BY <1>5, HandledIsServed, ServeKeeps, WizardStutter
<1>6. ASSUME NEW c \in Calls, NEW n \in 1..2, Fails(c, n) \/ Refuse(c, n)
      PROVE  WizardInv' /\ ChannelInv' /\ ServedType'
  <2>1. UNCHANGED <<wizard, served, registry, crashes>>
    BY <1>6 DEF Fails, Refuse
  <2>2. QED
    BY <1>6, <2>1, WizardStutter, FailsKeeps, RefuseKeeps DEF ServedType, served
<1>7. ASSUME RestartAgent
      PROVE  WizardInv' /\ ChannelInv' /\ ServedType'
  <2>1. UNCHANGED <<wizard, served, registry>> /\ crashes' \in 0..MaxCrashes
    BY <1>7, CrashAssumption DEF RestartAgent, ServedType
  <2>2. QED
    BY <1>7, <2>1, WizardStutter, RestartKeeps DEF ServedType, served
<1>8. ASSUME Tick
      PROVE  WizardInv' /\ ChannelInv' /\ ServedType'
  <2>1. UNCHANGED <<wizard, served, registry, crashes>>
    BY <1>8 DEF Tick
  <2>2. QED
    BY <1>8, <2>1, WizardStutter, TickKeeps DEF ServedType, served
<1>9. ASSUME UNCHANGED vars
      PROVE  WizardInv' /\ ChannelInv' /\ ServedType'
  BY <1>9, WizardStutter, ChannelStutter DEF vars, ServedType, served
<1>10. scene.calls \subseteq Calls
  BY SceneType DEF ChannelInv
<1>11. QED
  <2>1. CASE Next
    BY <1>1, <1>2, <1>3, <1>4, <1>5, <1>6, <1>7, <1>8, <1>10, <2>1 DEF Next, Handled
  <2>2. QED
    BY <1>9, <2>1

(* The inductive invariant holds throughout.                               *)
LEMMA Invariant == Spec => []IInv
BY InitHolds, StepKeeps, PTL DEF Spec

(* Every variable keeps its type, in every handler of the wizard and of    *)
(* the signed calls.                                                       *)
THEOREM TypeCorrect == Spec => []TypeOK
<1>1. IInv => TypeOK
  BY DEF IInv, WizardInv, WizardType, ChannelInv, ChannelType, ServedType, TypeOK
<1>2. QED
  BY <1>1, Invariant, PTL

(* However many wizard requests choose addresses at the same time, no two  *)
(* routers get the same one (generate_wireguard, ix_routers_..._tunnel_ip).*)
THEOREM AddressesApart == Spec => []TunnelIpUnique
<1>1. IInv => TunnelIpUnique
  BY DEF IInv, WizardInv
<1>2. QED
  BY <1>1, Invariant, PTL

(* The client blocks FreeRADIUS has to go by name different addresses and  *)
(* hold the stored secret, for routers not reconfigured since              *)
(* (generate_radius_config).                                               *)
THEOREM ClientsApart == Spec => []NasTellsRoutersApart
<1>1. IInv => NasTellsRoutersApart
  BY DEF IInv, WizardInv, BlocksFit, TunnelIpUnique, NasTellsRoutersApart
<1>2. QED
  BY <1>1, Invariant, PTL

(* A signed copy is carried out at most once between two starts of its     *)
(* receiver, for any clocks within ClockAssumption                         *)
(* (core/security.py, internal_auth.py).                                   *)
THEOREM NoReplay == Spec => []CarriedOutOnce
<1>1. IInv => CarriedOutOnce
  BY DEF IInv, ChannelInv
<1>2. QED
  BY <1>1, Invariant, PTL

(***************************************************************************)
(* What a caller is told succeeded was done (_request, _post_json).  It    *)
(* says nothing of a diagnosis, whose caller is told of an answer only:    *)
(* the proxy's error is one (diagnostic_ping).                             *)
(***************************************************************************)
THEOREM NoFalseSuccess == Spec => []SuccessMeansDone
<1>1. IInv => SuccessMeansDone
  BY DEF IInv, ChannelInv
<1>2. QED
  BY <1>1, Invariant, PTL

----------------------------------------------------------------------------
(* What callers rely on *)

Outcomes == [c \in Calls |-> Outcome(call[c])]
Silent   == UNCHANGED <<Outcomes, carried>>

(* What a caller knows of a call, whichever attempt it is at.              *)
LEMMA OutcomeIs ==
    /\ Outcome("new") = "new" /\ Outcome("ok") = "ok" /\ Outcome("answered") = "answered"
    /\ Outcome("first") = "waiting" /\ Outcome("second") = "waiting"
    /\ \A s \in {"unreachable", "refused", "error"} : Outcome(s) = "failed"
BY DEF Outcome

(* One call moves on, the others stay.                                     *)
LEMMA CallMoves ==
    ASSUME ChannelInv, NEW c \in Calls, NEW s, call' = [call EXCEPT ![c] = s]
    PROVE  Outcomes' = [Outcomes EXCEPT ![c] = Outcome(s)]
<1>1. call'[c] = s /\ \A d \in Calls : d # c => call'[d] = call[d]
  BY DEF ChannelInv, ChannelType
<1>2. Outcome(call'[c]) = Outcome(s)
  BY <1>1
<1>3. ASSUME NEW d \in Calls, d # c
      PROVE  Outcome(call'[d]) = Outcome(call[d])
  BY <1>1, <1>3
<1>4. Outcomes = [d \in Calls |-> Outcome(call[d])] /\ Outcomes' = [d \in Calls |-> Outcome(call'[d])]
  BY DEF Outcomes
<1>5. /\ DOMAIN Outcomes = Calls /\ Outcomes'[c] = Outcome(s)
      /\ \A d \in Calls : d # c => Outcomes'[d] = Outcomes[d]
  BY <1>2, <1>3, <1>4
<1>6. QED
  BY <1>4, <1>5

(* A caller that waits has been told nothing.                              *)
LEMMA WaitingIs ==
    ASSUME NEW c \in Calls, Waiting(c)
    PROVE  Outcomes[c] = "waiting"
BY OutcomeIs DEF Waiting, Outcomes

(* Signing the first attempt makes the call.                               *)
LEMMA SendMakes ==
    ASSUME ChannelInv, NEW c \in Calls, Send(c)
    PROVE  Promise!Make(c)
<1>1. call[c] = "new" /\ call' = [call EXCEPT ![c] = "first"]
  BY DEF Send
<1>2. Outcomes' = [Outcomes EXCEPT ![c] = Outcome("first")]
  BY <1>1, CallMoves
<1>3. Outcomes[c] = "new" /\ Outcome("first") = "waiting"
  BY <1>1, OutcomeIs DEF Outcomes
<1>4. QED
  BY <1>2, <1>3 DEF Send, Outcomes, Promise!Make, Promise!Learn

(***************************************************************************)
(* What a caller is told if its call was not done: that it failed, or in a *)
(* diagnosis that there was an answer.                                     *)
(***************************************************************************)
Told(c, s) ==
    \/ s \in {"unreachable", "refused", "error"}
    \/ c \in Diagnoses /\ s = "answered"

(* An error status, a refusal and a lost reply tell no more.               *)
LEMMA ErrorsTell ==
    ASSUME NEW c \in Calls
    PROVE  Told(c, Failure(c)) /\ Told(c, Refusal(c)) /\ Told(c, ErrorStatus(c))
BY FailureIsNoSuccess DEF Told

(* It ends a call that waited, for whatever reason it failed.              *)
LEMMA FailureGivesUp ==
    ASSUME ChannelInv, NEW c \in Calls, NEW s, Told(c, s), Waiting(c),
           call' = [call EXCEPT ![c] = s], UNCHANGED carried
    PROVE  Promise!GiveUp(c) \/ Promise!BeTold(c)
<1>1. Outcomes' = [Outcomes EXCEPT ![c] = Outcome(s)] /\ Outcomes[c] = "waiting"
  BY CallMoves, WaitingIs
<1>2. \/ Outcome(s) = "failed"
      \/ Outcome(s) = "answered" /\ c \in Diagnoses
  BY OutcomeIs DEF Told
<1>3. QED
  BY <1>1, <1>2 DEF Outcomes, Promise!GiveUp, Promise!BeTold, Promise!Learn

(* A retry is hidden from whoever asked; the last attempt gives up.        *)
LEMMA TransportErrorIs ==
    ASSUME ChannelInv, NEW c \in Calls, TransportError(c)
    PROVE  Promise!GiveUp(c) \/ Promise!BeTold(c) \/ Silent
<1>1. Waiting(c) /\ UNCHANGED carried
  BY DEF TransportError
<1>2. CASE call' = [call EXCEPT ![c] = "second"]
  <2>1. Outcomes' = [Outcomes EXCEPT ![c] = Outcome("second")]
    BY <1>2, CallMoves
  <2>2. Outcomes[c] = "waiting" /\ Outcome("second") = "waiting"
    BY <1>1, OutcomeIs, WaitingIs
  <2>3. Outcomes' = Outcomes
    BY <2>1, <2>2 DEF Outcomes
  <2>4. QED
    BY <1>1, <2>3 DEF Silent
<1>3. CASE call' = [call EXCEPT ![c] = Failure(c)]
  BY <1>1, <1>3, ErrorsTell, FailureGivesUp
<1>4. QED
  BY <1>2, <1>3 DEF TransportError

(* A refused or failed copy tells its caller so, or nobody.                *)
LEMMA FailureIs ==
    ASSUME ChannelInv, NEW c \in Calls, NEW n \in 1..2, NEW s, Told(c, s), Reply(c, n, s),
           UNCHANGED carried
    PROVE  Promise!GiveUp(c) \/ Promise!BeTold(c) \/ Silent
<1>1. CASE Waiting(c) /\ call' = [call EXCEPT ![c] = s]
  BY <1>1, FailureGivesUp
<1>2. CASE call' = call
  BY <1>2 DEF Silent, Outcomes
<1>3. QED
  BY <1>1, <1>2 DEF Reply

(***************************************************************************)
(* A copy is served at most once, and only of a call that was made: what   *)
(* the receiver remembers (AcceptedIsNew) is all that this rests on.       *)
(***************************************************************************)
LEMMA ServeCarriesOut ==
    ASSUME ChannelInv, NEW c \in Calls, NEW n \in 1..2, NEW kinds, Serve(c, n, kinds)
    PROVE  Promise!CarryOut(<<c, n>>)
<1> DEFINE k == <<c, n>>
<1>1. k \in sent /\ carried[k] = 0
  BY AcceptedIsNew DEF Serve
<1>2. k \in Copies /\ k[1] = c
  BY DEF Copies
<1>3. call[c] # "new"
  <2>1. n = 1 \/ n = 2
    OBVIOUS
  <2>2. QED
    BY <1>1, <2>1 DEF ChannelInv, SentFits
<1>4. Outcomes[c] # "new"
  BY <1>3 DEF ChannelInv, ChannelType, CallStates, Outcomes, Outcome
<1>5. carried' = [carried EXCEPT ![k] = 1]
  BY <1>1 DEF Serve, UpTo2
<1>6. \/ /\ Outcomes[c] = "waiting"
         /\ Outcomes' = [Outcomes EXCEPT ![c] = IF c \in Diagnoses THEN "answered" ELSE "ok"]
      \/ Outcomes' = Outcomes
  <2>1. CASE Waiting(c) /\ call' = [call EXCEPT ![c] = Success(c)]
    <3>1. Outcomes' = [Outcomes EXCEPT ![c] = Outcome(Success(c))]
      BY <2>1, CallMoves
    <3>2. Outcomes[c] = "waiting"
      BY <2>1, WaitingIs
    <3>3. Outcome(Success(c)) = IF c \in Diagnoses THEN "answered" ELSE "ok"
      BY OutcomeIs, FailureIsNoSuccess
    <3>4. QED
      BY <3>1, <3>2, <3>3
  <2>2. CASE call' = call
    BY <2>2 DEF Outcomes
  <2>3. QED
    BY <2>1, <2>2 DEF Serve, Reply
<1> HIDE DEF k
<1>7. Promise!CarryOut(k)
  BY <1>1, <1>2, <1>4, <1>5, <1>6 DEF Outcomes, Promise!CarryOut, Promise!Learn
<1>8. QED
  BY <1>7 DEF k

(* The agent forgets what it did for the API; web, in Redis, does not.     *)
LEMMA RestartForgets ==
    ASSUME RestartAgent
    PROVE  Promise!Restart
<1>1. \A k \in Copies : k[1] \in Calls
  BY DEF Copies
<1>2. carried' = [k \in Copies |-> IF k[1] \in Calls \ ToWeb THEN 0 ELSE carried[k]]
  BY <1>1 DEF RestartAgent
<1>3. Outcomes' = Outcomes
  BY DEF RestartAgent, Outcomes
<1>4. QED
  BY <1>2, <1>3 DEF Outcomes, Promise!Restart

(* Every step is one of SignedCalls or tells a caller nothing.             *)
LEMMA PromiseStep == ASSUME IInv, [Next]_vars PROVE Promise!Next \/ Silent
<1> USE DEF IInv
<1>1. ASSUME UNCHANGED <<call, carried>> PROVE Silent
  BY <1>1 DEF Silent, Outcomes
<1>2. ASSUME NEW r \in Routers,
             \/ CreateRouter(r) \/ SetNetworkConfig(r) \/ CompleteProvisioning(r)
             \/ Register(r) \/ GoOnline(r)
      PROVE  Silent
  <2>1. UNCHANGED channel
    BY <1>2 DEF CreateRouter, SetNetworkConfig, CompleteProvisioning, Register, GoOnline, elsewhere
  <2>2. QED
    BY <1>1, <2>1 DEF channel
<1>3. ASSUME NEW w \in Workers,
             \/ \E r \in Routers : LoadRouter(w, r) \/ LoadForRadius(w, r)
             \/ NextWireguardTunnelIp(w) \/ StoreWireguard(w) \/ CommitWireguard(w)
             \/ StoreSecret(w) \/ \E heard \in BOOLEAN : CommitRadius(w, heard)
             \/ CrashApi(w)
      PROVE  Silent
  <2>1. UNCHANGED channel
    BY <1>3
    DEF LoadRouter, LoadForRadius, NextWireguardTunnelIp, StoreWireguard, CommitWireguard,
        StoreSecret, CommitRadius, CrashApi, elsewhere
  <2>2. QED
    BY <1>1, <2>1 DEF channel
<1>4. ASSUME NEW c \in Calls, Send(c) \/ TransportError(c) \/ ProxyAnswers(c)
      PROVE  Promise!Next \/ Silent
  <2>1. CASE ProxyAnswers(c)
    <3>1. Waiting(c) /\ call' = [call EXCEPT ![c] = ErrorStatus(c)] /\ UNCHANGED carried
      BY <2>1 DEF ProxyAnswers
    <3>2. QED
      BY <3>1, ErrorsTell, FailureGivesUp DEF Promise!Next
  <2>2. QED
    BY <1>4, <2>1, SendMakes, TransportErrorIs DEF Promise!Next
<1>5. ASSUME NEW c \in Calls, NEW n \in 1..2, Handled(c, n)
      PROVE  Promise!Next
  <2>1. Promise!CarryOut(<<c, n>>)
    BY <1>5, HandledIsServed, ServeCarriesOut
  <2>2. <<c, n>> \in Copies
    BY DEF Copies
  <2>3. QED
    BY <2>1, <2>2 DEF Promise!Next
<1>6. ASSUME NEW c \in Calls, NEW n \in 1..2, Fails(c, n) \/ Refuse(c, n)
      PROVE  Promise!Next \/ Silent
  <2>1. UNCHANGED carried /\ (Reply(c, n, ErrorStatus(c)) \/ Reply(c, n, Refusal(c)))
    BY <1>6 DEF Fails, Refuse
  <2>2. QED
    BY <2>1, ErrorsTell, FailureIs DEF Promise!Next
<1>7. ASSUME RestartAgent PROVE Promise!Next
  BY <1>7, RestartForgets DEF Promise!Next
<1>8. ASSUME Tick \/ UNCHANGED vars PROVE Silent
  BY <1>1, <1>8 DEF Tick, vars, channel
<1>9. scene.calls \subseteq Calls
  BY SceneType DEF ChannelInv
<1>10. QED
  <2>1. CASE Next
    BY <1>2, <1>3, <1>4, <1>5, <1>6, <1>7, <1>8, <1>9, <2>1 DEF Next, Handled
  <2>2. QED
    BY <1>8, <2>1

(***************************************************************************)
(* The signed calls implement SignedCalls: for any clocks ClockAssumption  *)
(* admits and whatever is lost, late or repeated, a call ends once, in     *)
(* success only as a copy of it is carried out, and no copy is carried out *)
(* again before its receiver restarts.  The answer to a diagnosis shows    *)
(* nothing (signing.py, nonce_cache.py, internal_auth.py, client.py).      *)
(***************************************************************************)
THEOREM CallsHold == Spec => CallsKept
<1>1. Init => Promise!Init
  BY OutcomeIs DEF Init, Promise!Init
<1>2. IInv /\ [Next]_vars => [Promise!Next]_<<[c \in Calls |-> Outcome(call[c])], carried>>
  BY PromiseStep DEF Silent, Outcomes
<1>3. QED
  BY <1>1, <1>2, Invariant, PTL DEF Spec, CallsKept, Promise!Spec
=============================================================================
