--------------------------- MODULE TenancyProofs ---------------------------
(***************************************************************************)
(* Proofs about Tenancy, for any number of registrations, addresses and    *)
(* requests at the same time.                                              *)
(***************************************************************************)
EXTENDS Tenancy, TLAPS

----------------------------------------------------------------------------
(* The inductive invariant *)

(* What Tenancy's TypeOK says of each variable alone.                      *)
Types ==
    /\ account \in [Emails -> AccountState]
    /\ owner \in [Emails -> Registrations \cup {NoTenant}]
    /\ roles \in [Emails -> SUBSET Roles]
    /\ tenant \in [Registrations -> TenantStatus]
    /\ review \in [Registrations -> ReviewStatus]
    /\ verified \subseteq Registrations
    /\ flags \subseteq Registrations \X Features
    /\ configs \subseteq Configs
    /\ mails \subseteq Mails
    /\ job \in [Workers -> Jobs]
    /\ tried \subseteq Registrations
    /\ steps \in 0..MaxSteps
    /\ scene \in Scenes
    /\ decided \subseteq Registrations \X Decisions
    /\ active \subseteq Registrations /\ worked \subseteq Registrations
    /\ converted \subseteq Emails /\ lost \subseteq Registrations
    /\ faults \in 0..MaxFaults

(***************************************************************************)
(* A profile has an account; it has the owner's role if and only if it has *)
(* a tenant, which there is and which was registered with its address.     *)
(***************************************************************************)
ProfilesFit ==
    \A e \in Emails :
        /\ account[e] = "none" => owner[e] = NoTenant /\ roles[e] = {}
        /\ owner[e] = NoTenant <=> "TENANT_OWNER" \notin roles[e]
        /\ owner[e] # NoTenant => Exists(owner[e]) /\ EmailOf[owner[e]] = e

TenantsFit ==
    \A a \in Registrations :
        /\ Exists(a) => account[EmailOf[a]] # "none" \/ a \in lost
        /\ tenant[a] = "NONE" <=> review[a] = "NONE"
        /\ tenant[a] = "ACTIVE" => a \in active

(***************************************************************************)
(* Of two tenants of one address, one comes from an attempt that was       *)
(* committed and told it failed; otherwise an address gets one tenant,     *)
(* however many registrations of it run at once, fail or are tried again   *)
(* (onboarding.register).                                                  *)
(***************************************************************************)
OneTenantPerEmail ==
    \A a, b \in Registrations :
        (a # b /\ EmailOf[a] = EmailOf[b] /\ Exists(a) /\ Exists(b)) => a \in lost \/ b \in lost

(***************************************************************************)
(* A registration between the account's creation and its own end: the      *)
(* account is its own, and no attempt was told that it registered the      *)
(* address.  Until the commit the account has no tenant.                   *)
(***************************************************************************)
InFlight == {"created", "records", "undo"}
OwnAccount(a) ==
    /\ account[EmailOf[a]] # "none"
    /\ \A b \in Registrations : (EmailOf[b] = EmailOf[a] /\ Exists(b)) => b \in lost

(* What a request's job says of the state.                                 *)
Good(j) ==
    /\ j.phase \in InFlight => OwnAccount(j.a)
    /\ j.phase \in {"created", "records"} => owner[EmailOf[j.a]] = NoTenant
    /\ j.phase \in {"verify", "alert", "loaded", "written", "notify", "config", "stored"} =>
          Exists(j.a)
    /\ j.phase = "notify" => <<j.a, j.d>> \in decided
    /\ j.phase = "serving" => j.a \in active
    /\ j.phase \in {"config", "stored"} => j.new.a = j.a
    /\ j.phase = "stored" => GetActive(j.a, j.new.kind) \subseteq j.old
    /\ j.phase = "convert" => (j.was = NoTenant <=> "TENANT_OWNER" \notin j.held)

JobsGood == \A w \in Workers : Good(job[w])

(* No two registrations hold one account, and no two requests one row.     *)
AccountsApart ==
    \A w, u \in Workers :
        (w # u /\ job[w].phase \in InFlight /\ job[u].phase \in InFlight)
            => EmailOf[job[w].a] # EmailOf[job[u].a]
ConfigsApart ==
    \A w, u \in Workers :
        (w # u /\ job[w].phase = "stored" /\ job[u].phase = "stored" /\ job[w].a = job[u].a)
            => job[w].new.kind # job[u].new.kind

IInv ==
    /\ Types /\ ProfilesFit /\ TenantsFit /\ JobsGood /\ AccountsApart /\ ConfigsApart
    /\ OneTenantPerEmail /\ TenantKeepsOwner /\ NoOrphanUnlessFault
    /\ MailOnlyCommitted /\ OneActiveConfig /\ OnlyActiveTenantsWork

----------------------------------------------------------------------------
(* Jobs *)

(* The kinds of jobs do not overlap.                                       *)
LEMMA JobKinds ==
    ASSUME NEW j \in Jobs
    PROVE  /\ j.phase = "idle" <=> j = IdleJob
           /\ j.phase \in {"checked", "created", "records", "undo", "verify", "alert"} =>
                 j \in [phase : {"checked", "created", "records", "undo", "verify", "alert"},
                        a : Registrations]
           /\ j.phase \in {"loaded", "written"} =>
                 j \in [phase : {"loaded", "written"}, a : Registrations, d : Decisions,
                        status : TenantStatus, review : ReviewStatus, to : SUBSET Emails]
           /\ j.phase = "notify" =>
                 j \in [phase : {"notify"}, a : Registrations, d : Decisions, to : SUBSET Emails]
           /\ j.phase \in {"config", "stored"} =>
                 j \in [phase : {"config", "stored"}, a : Registrations, new : Configs,
                        old : SUBSET Configs]
           /\ j.phase = "serving" => j \in [phase : {"serving"}, a : Registrations]
           /\ j.phase = "convert" =>
                 j \in [phase : {"convert"}, e : Emails, was : Registrations \cup {NoTenant},
                        held : SUBSET Roles]
BY DEF Jobs, IdleJob

(* An idle request says nothing.                                           *)
LEMMA IdleIsGood == IdleJob \in Jobs /\ Good(IdleJob) /\ IdleJob.phase = "idle"
BY DEF IdleJob, Jobs, Good, InFlight

(***************************************************************************)
(* A step that changes the job of w to j, and beside it only the bounds.   *)
(***************************************************************************)
LEMMA OwnStep ==
    ASSUME IInv, NEW w \in Workers, NEW j \in Jobs, To(w, j), Good(j),
           UNCHANGED <<accounts, records, mails, history, scene>>,
           tried' \subseteq Registrations, steps' \in 0..MaxSteps, faults' \in 0..MaxFaults,
           faults' = faults \/ faults' > 0,
           j.phase \in InFlight => job[w].phase \in InFlight /\ job[w].a = j.a,
           job[w].phase \in InFlight =>
              (j.phase \in InFlight /\ job[w].a = j.a) \/ faults' > 0,
           \A u \in Workers :
              (u # w /\ j.phase = "stored" /\ job[u].phase = "stored" /\ job[u].a = j.a)
                 => job[u].new.kind # j.new.kind
    PROVE  IInv'
<1>1. job' = [job EXCEPT ![w] = j] /\ job \in [Workers -> Jobs]
  BY DEF To, IInv, Types
<1>2. \A u \in Workers : job'[u] = IF u = w THEN j ELSE job[u]
  BY <1>1
<1>3. /\ UNCHANGED <<account, owner, roles, tenant, review, verified, flags, configs, mails>>
      /\ UNCHANGED <<decided, active, worked, converted, lost, scene>>
  BY DEF accounts, records, history
<1>4. Types'
  BY <1>1, <1>3 DEF IInv, Types
<1>5. ProfilesFit' /\ TenantsFit'
  BY <1>3 DEF IInv, ProfilesFit, TenantsFit, Exists
<1>6. JobsGood'
  BY <1>2, <1>3 DEF IInv, JobsGood, Good, OwnAccount, Exists, GetActive
<1>7. AccountsApart'
  BY <1>2 DEF IInv, AccountsApart
<1>8. ConfigsApart'
  BY <1>2 DEF IInv, ConfigsApart
<1>9. OneTenantPerEmail' /\ TenantKeepsOwner'
  BY <1>3 DEF IInv, OneTenantPerEmail, TenantKeepsOwner, Exists
<1>10. NoOrphanUnlessFault'
  <2>1. ASSUME NEW e \in Emails, Registering(e) PROVE Registering(e)' \/ faults' > 0
    <3>1. PICK u \in Workers : job[u].phase \in InFlight /\ EmailOf[job[u].a] = e
      BY <2>1 DEF Registering, InFlight
    <3>2. CASE u = w
      BY <1>2, <3>1, <3>2 DEF Registering, InFlight
    <3>3. CASE u # w
      BY <1>2, <3>1, <3>3 DEF Registering, InFlight
    <3>4. QED
      BY <3>2, <3>3
  <2>2. faults > 0 => faults' > 0
    BY DEF IInv, Types
  <2>3. QED
    BY <1>3, <2>1, <2>2 DEF IInv, NoOrphanUnlessFault
<1>11. MailOnlyCommitted' /\ OneActiveConfig' /\ OnlyActiveTenantsWork'
  BY <1>3 DEF IInv, MailOnlyCommitted, OneActiveConfig, OnlyActiveTenantsWork, Exists
<1>12. QED
  BY <1>4, <1>5, <1>6, <1>7, <1>8, <1>9, <1>10, <1>11 DEF IInv

(* An administrative request takes its place in the bound.                 *)
LEMMA StepType ==
    ASSUME NEW act, Step(act), steps \in 0..MaxSteps
    PROVE  steps' \in 0..MaxSteps /\ steps + 1 \in 1..MaxSteps
BY DEF Step, MaxSteps

(* A request that ends before its account exists, or dies, leaves no trace *)
(* but a fault.                                                            *)
LEMMA EndKeeps ==
    ASSUME IInv, NEW w \in Workers, To(w, IdleJob),
           UNCHANGED <<accounts, records, mails, history, scene>>,
           tried' \subseteq Registrations, steps' = steps,
           \/ faults' = faults /\ job[w].phase \notin InFlight
           \/ faults < MaxFaults /\ faults' = faults + 1
    PROVE  IInv'
<1>1. IdleJob \in Jobs /\ Good(IdleJob) /\ IdleJob.phase = "idle"
  BY IdleIsGood
<1>2. IdleJob.phase \notin InFlight /\ IdleJob.phase # "stored"
  BY <1>1 DEF InFlight
<1>3. faults' \in 0..MaxFaults /\ (faults' = faults \/ faults' > 0)
  BY FaultAssumption DEF IInv, Types
<1>4. steps' \in 0..MaxSteps
  BY DEF IInv, Types
<1>5. job[w].phase \in InFlight => faults' > 0
  BY FaultAssumption DEF IInv, Types
<1>6. QED
  BY <1>1, <1>2, <1>3, <1>4, <1>5, OwnStep

(* A crash at any point.                                                   *)
LEMMA CrashKeeps ==
    ASSUME IInv, NEW w \in Workers, Crash(w)
    PROVE  IInv'
<1>1. /\ To(w, IdleJob) /\ steps' = steps /\ faults < MaxFaults /\ faults' = faults + 1
      /\ UNCHANGED <<accounts, records, mails, history, scene>>
      /\ tried' \subseteq Registrations
  BY DEF Crash, IInv, Types
<1>2. QED
  BY <1>1, EndKeeps

(* The account service refuses the address, or fails to delete it.         *)
LEMMA RefusedKeeps ==
    ASSUME IInv, NEW w \in Workers, CreateUserRefused(w) \/ DeleteUserFails(w)
    PROVE  IInv'
<1>1. /\ To(w, IdleJob) /\ steps' = steps
      /\ UNCHANGED <<accounts, records, mails, history, scene>>
      /\ tried' \subseteq Registrations
  BY DEF CreateUserRefused, DeleteUserFails, bounds, IInv, Types
<1>2. \/ faults' = faults /\ job[w].phase \notin InFlight
      \/ faults < MaxFaults /\ faults' = faults + 1
  BY DEF CreateUserRefused, DeleteUserFails, bounds, At, InFlight
<1>3. QED
  BY <1>1, <1>2, EndKeeps

(* _check_email of register.                                               *)
LEMMA CheckEmailKeeps ==
    ASSUME IInv, NEW w \in Workers, NEW a \in Registrations, CheckEmail(w, a)
    PROVE  IInv'
<1> DEFINE j == [phase |-> "checked", a |-> a]
<1>1. /\ UNCHANGED <<accounts, records, mails, history, scene>>
      /\ tried' \subseteq Registrations /\ steps' \in 0..MaxSteps
      /\ faults' \in 0..MaxFaults /\ faults' = faults
  BY DEF CheckEmail, IInv, Types
<1>2. job[w] = IdleJob /\ job[w].phase = "idle"
  BY DEF CheckEmail, IdleJob
<1>3. CASE EmailInUse(EmailOf[a])
  <2>1. To(w, IdleJob)
    BY <1>2, <1>3 DEF CheckEmail, To, IInv, Types
  <2>2. job[w].phase \notin InFlight /\ steps' = steps
    BY <1>2 DEF InFlight, CheckEmail
  <2>3. QED
    BY <1>1, <2>1, <2>2, EndKeeps
<1>4. CASE ~EmailInUse(EmailOf[a])
  <2>1. To(w, j)
    BY <1>4 DEF CheckEmail
  <2>2. j \in Jobs /\ Good(j) /\ j.phase = "checked"
    BY DEF Jobs, Good, InFlight
  <2> HIDE DEF j
  <2>3. j.phase \notin InFlight /\ j.phase # "stored" /\ job[w].phase \notin InFlight
    BY <1>2, <2>2 DEF InFlight
  <2>4. QED
    BY <1>1, <2>1, <2>2, <2>3, OwnStep
<1>5. QED
  BY <1>3, <1>4

(* A registration that goes on within the life of its account, committed   *)
(* or not: the records are written, or the account is to be deleted.       *)
LEMMA MoveOnKeeps ==
    ASSUME IInv, NEW w \in Workers, job[w].phase \in {"created", "records"},
           NEW j \in Jobs, j.phase \in {"records", "undo"}, j.a = job[w].a, To(w, j),
           UNCHANGED <<accounts, records, mails, history, bounds>>
    PROVE  IInv'
<1>1. /\ UNCHANGED scene /\ tried' \subseteq Registrations /\ steps' \in 0..MaxSteps
      /\ faults' \in 0..MaxFaults /\ faults' = faults
  BY DEF bounds, IInv, Types
<1>2. job[w].phase \in InFlight /\ j.phase \in InFlight /\ j.phase # "stored"
  BY DEF InFlight
<1>3. OwnAccount(j.a)
  BY <1>2 DEF IInv, JobsGood, Good
<1>4. Good(j)
  BY <1>3 DEF IInv, JobsGood, Good
<1>5. QED
  BY <1>1, <1>2, <1>4, OwnStep

(* create_local_records, which may fail.                                   *)
LEMMA LocalRecordsKeep ==
    ASSUME IInv, NEW w \in Workers, CreateLocalRecords(w)
    PROVE  IInv'
<1>1. job[w].phase = "created" /\ job[w] \in Jobs
  BY DEF CreateLocalRecords, At, IInv, Types
<1>2. job[w] \in [phase : {"checked", "created", "records", "undo", "verify", "alert"},
                  a : Registrations]
  BY <1>1, JobKinds
<1>3. PICK ph \in {"records", "undo"} : To(w, [job[w] EXCEPT !.phase = ph])
  BY DEF CreateLocalRecords
<1> DEFINE j == [job[w] EXCEPT !.phase = ph]
<1>4. /\ j \in [phase : {"checked", "created", "records", "undo", "verify", "alert"},
                a : Registrations]
      /\ j.phase \in {"records", "undo"} /\ j.a = job[w].a
  BY <1>2, <1>3
<1>5. j \in Jobs
  BY <1>4 DEF Jobs
<1>6. UNCHANGED <<accounts, records, mails, history, bounds>>
  BY DEF CreateLocalRecords
<1> HIDE DEF j
<1>7. QED
  BY <1>1, <1>3, <1>4, <1>5, <1>6, MoveOnKeeps DEF j

(* A request of the admin or of the tenant that has only read so far.      *)
LEMMA ReadKeeps ==
    ASSUME IInv, NEW w \in Workers, job[w] = IdleJob, NEW act, Step(act),
           NEW j \in Jobs, j.phase \in {"loaded", "config", "serving", "convert"}, Good(j),
           To(w, j),
           UNCHANGED <<accounts, records, mails, history, tried, scene, faults>>
    PROVE  IInv'
<1>1. /\ tried' \subseteq Registrations /\ faults' \in 0..MaxFaults /\ faults' = faults
      /\ UNCHANGED <<accounts, records, mails, history, scene>>
  BY DEF IInv, Types
<1>2. steps' \in 0..MaxSteps
  BY StepType DEF IInv, Types
<1>3. job[w].phase \notin InFlight /\ j.phase \notin InFlight /\ j.phase # "stored"
  BY DEF InFlight, IdleJob
<1>4. QED
  BY <1>1, <1>2, <1>3, OwnStep

(* approve, reject, request_more_information, suspend, reactivate: what    *)
(* they read.                                                              *)
LEMMA LoadTenantKeeps ==
    ASSUME IInv, NEW w \in Workers, NEW a \in Registrations, NEW d \in Decisions,
           LoadTenant(w, a, d)
    PROVE  IInv'
<1> DEFINE j == [phase |-> "loaded", a |-> a, d |-> d, status |-> tenant[a], review |-> review[a],
                 to |-> OwnersOf(a)]
<1>1. job[w] = IdleJob /\ Step(d) /\ To(w, j) /\ Exists(a)
  BY DEF LoadTenant
<1>2. UNCHANGED <<accounts, records, mails, history, tried, scene, faults>>
  BY DEF LoadTenant
<1>3. OwnersOf(a) \in SUBSET Emails
  BY DEF OwnersOf
<1>4. j \in [phase : {"loaded", "written"}, a : Registrations, d : Decisions,
             status : TenantStatus, review : ReviewStatus, to : SUBSET Emails]
  BY <1>3 DEF IInv, Types
<1>5. j \in Jobs
  BY <1>4 DEF Jobs
<1>6. j.phase = "loaded" /\ j.a = a
  OBVIOUS
<1> HIDE DEF j
<1>7. Good(j)
  BY <1>1, <1>6 DEF Good, InFlight
<1>8. QED
  BY <1>1, <1>2, <1>5, <1>6, <1>7, ReadKeeps

(* The UPDATE of a decision, whose rows are then locked.                   *)
LEMMA WriteDecisionKeeps ==
    ASSUME IInv, NEW w \in Workers, WriteDecision(w)
    PROVE  IInv'
<1> DEFINE j == [job[w] EXCEPT !.phase = "written"]
<1>1. job[w].phase = "loaded" /\ job[w] \in Jobs /\ To(w, j)
  BY DEF WriteDecision, At, IInv, Types
<1>2. job[w] \in [phase : {"loaded", "written"}, a : Registrations, d : Decisions,
                  status : TenantStatus, review : ReviewStatus, to : SUBSET Emails]
  BY <1>1, JobKinds
<1>3. /\ j \in [phase : {"loaded", "written"}, a : Registrations, d : Decisions,
                status : TenantStatus, review : ReviewStatus, to : SUBSET Emails]
      /\ j.phase = "written" /\ j.a = job[w].a
  BY <1>2
<1>4. j \in Jobs
  BY <1>3 DEF Jobs
<1>5. Exists(job[w].a)
  BY <1>1 DEF IInv, JobsGood, Good
<1> HIDE DEF j
<1>6. Good(j)
  BY <1>3, <1>5 DEF Good, InFlight
<1>7. /\ UNCHANGED <<accounts, records, mails, history, scene>> /\ faults' = faults
      /\ tried' \subseteq Registrations /\ steps' \in 0..MaxSteps /\ faults' \in 0..MaxFaults
  BY DEF WriteDecision, bounds, IInv, Types
<1>8. job[w].phase \notin InFlight /\ j.phase \notin InFlight /\ j.phase # "stored"
  BY <1>1, <1>3 DEF InFlight
<1>9. QED
  BY <1>1, <1>4, <1>6, <1>7, <1>8, OwnStep

(* set_mode and set_commission_rate read the active row.                   *)
LEMMA LoadConfigKeeps ==
    ASSUME IInv, NEW w \in Workers, NEW a \in Registrations, NEW kind \in ConfigKinds,
           NEW value \in Modes \cup Rates, LoadConfig(w, a, kind, value)
    PROVE  IInv'
<1> DEFINE c == [a |-> a, kind |-> kind, value |-> value, n |-> steps + 1]
           j == [phase |-> "config", a |-> a, old |-> GetActive(a, kind), new |-> c]
<1>1. job[w] = IdleJob /\ Step(kind) /\ To(w, j) /\ Exists(a)
  BY DEF LoadConfig
<1>2. UNCHANGED <<accounts, records, mails, history, tried, scene, faults>>
  BY DEF LoadConfig
<1>3. steps + 1 \in 1..MaxSteps
  BY <1>1, StepType DEF IInv, Types
<1>4. c \in Configs /\ c.a = a
  BY <1>3 DEF Configs
<1>5. GetActive(a, kind) \in SUBSET Configs
  BY DEF GetActive, IInv, Types
<1> HIDE DEF c
<1>6. j \in [phase : {"config", "stored"}, a : Registrations, new : Configs, old : SUBSET Configs]
  BY <1>4, <1>5
<1>7. j \in Jobs
  BY <1>6 DEF Jobs
<1>8. j.phase = "config" /\ j.a = a /\ j.new = c
  OBVIOUS
<1> HIDE DEF j
<1>9. Good(j)
  BY <1>1, <1>4, <1>8 DEF Good, InFlight
<1>10. QED
  BY <1>1, <1>2, <1>7, <1>8, <1>9, ReadKeeps

(* The INSERT of a configuration, which the unique index may refuse.       *)
LEMMA StoreConfigKeeps ==
    ASSUME IInv, NEW w \in Workers, StoreConfig(w)
    PROVE  IInv'
<1> DEFINE j == [job[w] EXCEPT !.phase = "stored"]
<1>1. job[w].phase = "config" /\ job[w] \in Jobs
  BY DEF StoreConfig, At, IInv, Types
<1>2. job[w].phase \notin InFlight
  BY <1>1 DEF InFlight
<1>3. /\ UNCHANGED <<accounts, records, mails, history, scene>>
      /\ faults' = faults /\ steps' = steps
      /\ tried' \subseteq Registrations /\ steps' \in 0..MaxSteps /\ faults' \in 0..MaxFaults
  BY DEF StoreConfig, bounds, IInv, Types
<1>4. CASE Taken(w)
  <2>1. To(w, IdleJob)
    BY <1>4 DEF StoreConfig
  <2>2. QED
    BY <1>2, <1>3, <2>1, EndKeeps
<1>5. CASE ~Taken(w)
  <2>1. To(w, j)
    BY <1>5 DEF StoreConfig
  <2>2. job[w] \in [phase : {"config", "stored"}, a : Registrations, new : Configs,
                    old : SUBSET Configs]
    BY <1>1, JobKinds
  <2>3. /\ j \in [phase : {"config", "stored"}, a : Registrations, new : Configs,
                  old : SUBSET Configs]
        /\ j.phase = "stored" /\ j.a = job[w].a /\ j.new = job[w].new /\ j.old = job[w].old
    BY <2>2
  <2>4. j \in Jobs
    BY <2>3 DEF Jobs
  <2>5. Exists(job[w].a) /\ job[w].new.a = job[w].a
    BY <1>1 DEF IInv, JobsGood, Good
  <2>6. GetActive(j.a, j.new.kind) \subseteq j.old
    BY <1>5, <2>3 DEF Taken
  <2>7. \A u \in Workers :
           (u # w /\ job[u].phase = "stored" /\ job[u].a = j.a) => job[u].new.kind # j.new.kind
    BY <2>3 DEF StoreConfig, Storing, At
  <2> HIDE DEF j
  <2>8. Good(j)
    BY <2>3, <2>5, <2>6 DEF Good, InFlight
  <2>9. j.phase \notin InFlight
    BY <2>3 DEF InFlight
  <2>10. QED
    BY <1>2, <1>3, <2>1, <2>4, <2>7, <2>8, <2>9, OwnStep
<1>6. QED
  BY <1>4, <1>5

(* get_current_user and the gates: the tenant was active when they looked. *)
LEMMA AdmitKeeps ==
    ASSUME IInv, NEW w \in Workers, NEW e \in Emails, Admit(w, e)
    PROVE  IInv'
<1> DEFINE j == [phase |-> "serving", a |-> owner[e]]
<1>1. /\ job[w] = IdleJob /\ Step("work") /\ To(w, j)
      /\ owner[e] # NoTenant /\ tenant[owner[e]] = "ACTIVE"
  BY DEF Admit
<1>2. UNCHANGED <<accounts, records, mails, history, tried, scene, faults>>
  BY DEF Admit
<1>3. owner[e] \in Registrations
  BY <1>1 DEF IInv, Types
<1>4. j \in Jobs /\ j.phase = "serving" /\ j.a = owner[e]
  BY <1>3 DEF Jobs
<1>5. owner[e] \in active
  BY <1>1, <1>3 DEF IInv, TenantsFit
<1> HIDE DEF j
<1>6. Good(j)
  BY <1>4, <1>5 DEF Good, InFlight
<1>7. QED
  BY <1>1, <1>2, <1>4, <1>6, ReadKeeps

(* What create_super_admin reads before it writes.                         *)
LEMMA ReadProfileKeeps ==
    ASSUME IInv, NEW w \in Workers, NEW e \in Emails, NEW force \in BOOLEAN,
           ReadProfile(w, e, force)
    PROVE  IInv'
<1> DEFINE j == [phase |-> "convert", e |-> e, was |-> owner[e], held |-> roles[e]]
<1>1. job[w] = IdleJob /\ To(w, j) /\ Step(IF force THEN "force" ELSE "convert")
  BY DEF ReadProfile
<1>2. PICK act : Step(act)
  BY <1>1
<1>3. UNCHANGED <<accounts, records, mails, history, tried, scene, faults>>
  BY DEF ReadProfile
<1>4. /\ j \in Jobs /\ j.phase = "convert"
      /\ j.was = owner[e] /\ j.held = roles[e]
  BY DEF Jobs, IInv, Types
<1>5. owner[e] = NoTenant <=> "TENANT_OWNER" \notin roles[e]
  BY DEF IInv, ProfilesFit
<1> HIDE DEF j
<1>6. Good(j)
  BY <1>4, <1>5 DEF Good, InFlight
<1>7. QED
  BY <1>1, <1>2, <1>3, <1>4, <1>6, ReadKeeps

----------------------------------------------------------------------------
(* Mails, and what tenants and admins set *)

Announced(a, what) == IF what \in Decisions THEN <<a, what>> \in decided ELSE Exists(a)

(* An e-mail about what was committed, with or without a request's job.    *)
LEMMA MailKeeps ==
    ASSUME IInv, NEW a \in Registrations, NEW what \in Decisions \cup {"verify", "alert"},
           Announced(a, what), Mail(<<a, what>>)
    PROVE  mails' \subseteq Mails /\ (UNCHANGED <<tenant, decided>> => MailOnlyCommitted')
<1> DEFINE m == <<a, what>>
<1>1. m \in Mails /\ m[1] = a /\ m[2] = what
  BY DEF Mails
<1>2. mails' = mails \/ mails' = mails \cup {m}
  BY DEF Mail
<1>3. IF m[2] \in Decisions THEN m \in decided ELSE Exists(m[1])
  BY <1>1 DEF Announced
<1> HIDE DEF m
<1>4. mails' \subseteq Mails
  BY <1>1, <1>2 DEF IInv, Types
<1>5. ASSUME UNCHANGED <<tenant, decided>> PROVE MailOnlyCommitted'
  BY <1>2, <1>3, <1>5 DEF IInv, MailOnlyCommitted, Exists
<1>6. QED
  BY <1>4, <1>5

(* A request that sends an e-mail after its commit.                        *)
LEMMA MailStep ==
    ASSUME IInv, NEW w \in Workers, job[w].phase \in {"verify", "alert", "notify"},
           NEW j \in Jobs, j.phase \in {"idle", "alert"}, Good(j), To(w, j),
           mails' \subseteq Mails,
           UNCHANGED <<tenant, decided>> => MailOnlyCommitted',
           UNCHANGED <<accounts, records, history, bounds>>
    PROVE  IInv'
<1>1. job' = [job EXCEPT ![w] = j] /\ job \in [Workers -> Jobs]
  BY DEF To, IInv, Types
<1>2. \A u \in Workers : job'[u] = IF u = w THEN j ELSE job[u]
  BY <1>1
<1>3. /\ UNCHANGED <<account, owner, roles, tenant, review, verified, flags, configs>>
      /\ UNCHANGED <<decided, active, worked, converted, lost, tried, steps, scene, faults>>
  BY DEF accounts, records, history, bounds
<1>4. j.phase \notin InFlight /\ job[w].phase \notin InFlight /\ j.phase # "stored"
  BY DEF InFlight
<1>5. Types'
  BY <1>1, <1>3 DEF IInv, Types
<1>6. ProfilesFit' /\ TenantsFit'
  BY <1>3 DEF IInv, ProfilesFit, TenantsFit, Exists
<1>7. JobsGood'
  BY <1>2, <1>3 DEF IInv, JobsGood, Good, OwnAccount, Exists, GetActive
<1>8. AccountsApart' /\ ConfigsApart'
  BY <1>2, <1>4 DEF IInv, AccountsApart, ConfigsApart
<1>9. OneTenantPerEmail' /\ TenantKeepsOwner'
  BY <1>3 DEF IInv, OneTenantPerEmail, TenantKeepsOwner, Exists
<1>10. NoOrphanUnlessFault'
  <2>1. \A e \in Emails : Registering(e) => Registering(e)'
    BY <1>2, <1>4 DEF Registering, InFlight
  <2>2. QED
    BY <1>3, <2>1 DEF IInv, NoOrphanUnlessFault
<1>11. MailOnlyCommitted' /\ OneActiveConfig' /\ OnlyActiveTenantsWork'
  BY <1>3 DEF IInv, OneActiveConfig, OnlyActiveTenantsWork
<1>12. QED
  BY <1>5, <1>6, <1>7, <1>8, <1>9, <1>10, <1>11 DEF IInv

(* No e-mail: what was announced stays committed.                          *)
LEMMA NoMailKeeps ==
    ASSUME IInv, mails' = mails
    PROVE  mails' \subseteq Mails /\ (UNCHANGED <<tenant, decided>> => MailOnlyCommitted')
BY DEF IInv, Types, MailOnlyCommitted, Exists

(* _send_verification, after the registration committed.                   *)
LEMMA SendVerificationKeeps ==
    ASSUME IInv, NEW w \in Workers, SendVerification(w)
    PROVE  IInv'
<1> DEFINE j == [job[w] EXCEPT !.phase = "alert"]
<1>1. job[w].phase = "verify" /\ job[w] \in Jobs
  BY DEF SendVerification, At, IInv, Types
<1>2. job[w] \in [phase : {"checked", "created", "records", "undo", "verify", "alert"},
                  a : Registrations]
  BY <1>1, JobKinds
<1>3. job[w].a \in Registrations /\ Exists(job[w].a)
  BY <1>1, <1>2 DEF IInv, JobsGood, Good
<1>4. Announced(job[w].a, "verify")
  BY <1>3 DEF Announced, Decisions
<1>5. UNCHANGED <<accounts, records, history, bounds>>
  BY DEF SendVerification
<1>6. CASE Mail(<<job[w].a, "verify">>) /\ To(w, j)
  <2>1. /\ j \in [phase : {"checked", "created", "records", "undo", "verify", "alert"},
                  a : Registrations]
        /\ j.phase = "alert" /\ j.a = job[w].a
    BY <1>2
  <2>2. j \in Jobs
    BY <2>1 DEF Jobs
  <2> HIDE DEF j
  <2>3. Good(j)
    BY <1>3, <2>1 DEF Good, InFlight
  <2>4. mails' \subseteq Mails /\ (UNCHANGED <<tenant, decided>> => MailOnlyCommitted')
    BY <1>3, <1>4, <1>6, MailKeeps
  <2>5. QED
    BY <1>1, <1>5, <1>6, <2>1, <2>2, <2>3, <2>4, MailStep
<1>7. CASE mails' = mails /\ To(w, IdleJob)
  <2>1. mails' \subseteq Mails /\ (UNCHANGED <<tenant, decided>> => MailOnlyCommitted')
    BY <1>7, NoMailKeeps
  <2>2. QED
    BY <1>1, <1>5, <1>7, <2>1, IdleIsGood, MailStep
<1>8. QED
  BY <1>6, <1>7 DEF SendVerification

(* _alert_admins.                                                          *)
LEMMA SendAdminAlertKeeps ==
    ASSUME IInv, NEW w \in Workers, SendAdminAlert(w)
    PROVE  IInv'
<1>1. job[w].phase = "alert" /\ job[w] \in Jobs
  BY DEF SendAdminAlert, At, IInv, Types
<1>2. job[w].a \in Registrations
  BY <1>1, JobKinds
<1>3. Announced(job[w].a, "alert")
  BY <1>1 DEF Announced, Decisions, IInv, JobsGood, Good
<1>4. To(w, IdleJob) /\ Mail(<<job[w].a, "alert">>) /\ UNCHANGED <<accounts, records, history, bounds>>
  BY DEF SendAdminAlert
<1>5. mails' \subseteq Mails /\ (UNCHANGED <<tenant, decided>> => MailOnlyCommitted')
  BY <1>2, <1>3, <1>4, MailKeeps
<1>6. QED
  BY <1>1, <1>4, <1>5, IdleIsGood, MailStep

(* The owner is told of a decision that was committed.                     *)
LEMMA NotifyOwnerKeeps ==
    ASSUME IInv, NEW w \in Workers, NotifyOwner(w)
    PROVE  IInv'
<1>1. job[w].phase = "notify" /\ job[w] \in Jobs
  BY DEF NotifyOwner, At, IInv, Types
<1>2. job[w].a \in Registrations /\ job[w].d \in Decisions
  BY <1>1, JobKinds
<1>3. Announced(job[w].a, job[w].d)
  BY <1>1, <1>2 DEF Announced, IInv, JobsGood, Good
<1>4. To(w, IdleJob) /\ UNCHANGED <<accounts, records, history, bounds>>
  BY DEF NotifyOwner
<1>5. mails' = mails \/ Mail(<<job[w].a, job[w].d>>)
  BY DEF NotifyOwner
<1>6. mails' \subseteq Mails /\ (UNCHANGED <<tenant, decided>> => MailOnlyCommitted')
  BY <1>2, <1>3, <1>5, MailKeeps, NoMailKeeps
<1>7. QED
  BY <1>1, <1>4, <1>6, IdleIsGood, MailStep

(***************************************************************************)
(* What touches no account's existence, no tenant and no job: a repeated   *)
(* e-mail, a confirmed address, a feature switched.                        *)
(***************************************************************************)
LEMMA AsideKeeps ==
    ASSUME IInv, NEW e \in Emails, NEW a \in Registrations, NEW f \in Features,
           NEW enabled \in BOOLEAN,
           \/ ResendVerification(e) \/ ConfirmEmail(e) \/ GetAccountStatus(e)
           \/ SetFeature(a, f, enabled)
    PROVE  IInv'
<1>1. UNCHANGED <<owner, roles, tenant, review, configs, job, decided, active, worked, converted,
                  lost, tried, scene, faults>>
  BY DEF ResendVerification, ConfirmEmail, GetAccountStatus, SetFeature, accounts, records,
         history, bounds
<1>2. steps' \in 0..MaxSteps
  BY StepType DEF ResendVerification, ConfirmEmail, GetAccountStatus, SetFeature, bounds, IInv, Types
<1>3. /\ account' \in [Emails -> AccountState]
      /\ \A x \in Emails : account[x] = "none" <=> account'[x] = "none"
  BY DEF ResendVerification, ConfirmEmail, GetAccountStatus, SetFeature, accounts, IInv, Types,
         AccountState
<1>4. verified' \subseteq Registrations /\ flags' \subseteq Registrations \X Features
  BY RegistrationAssumption
  DEF ResendVerification, ConfirmEmail, GetAccountStatus, SetFeature, records, IInv, Types
<1>5. mails' \subseteq Mails /\ MailOnlyCommitted'
  <2>1. CASE ResendVerification(e)
    <3>1. owner[e] \in Registrations /\ Exists(owner[e]) /\ Mail(<<owner[e], "verify">>)
      BY <2>1 DEF ResendVerification, IInv, Types, ProfilesFit
    <3>2. Announced(owner[e], "verify")
      BY <3>1 DEF Announced, Decisions
    <3>3. QED
      BY <1>1, <3>1, <3>2, MailKeeps
  <2>2. CASE ConfirmEmail(e) \/ GetAccountStatus(e) \/ SetFeature(a, f, enabled)
    <3>1. mails' = mails
      BY <2>2 DEF ConfirmEmail, GetAccountStatus, SetFeature
    <3>2. QED
      BY <1>1, <3>1, NoMailKeeps
  <2>3. QED
    BY <2>1, <2>2
<1>6. Types'
  BY <1>1, <1>2, <1>3, <1>4, <1>5 DEF IInv, Types
<1>7. ProfilesFit' /\ TenantsFit'
  BY <1>1, <1>3, EmailAssumption DEF IInv, Types, ProfilesFit, TenantsFit, Exists
<1>8. JobsGood'
  <2>1. \A w \in Workers : job[w].phase \in InFlight => EmailOf[job[w].a] \in Emails
    BY JobKinds, EmailAssumption DEF IInv, Types, InFlight
  <2>2. QED
    BY <1>1, <1>3, <2>1 DEF IInv, JobsGood, Good, OwnAccount, Exists, GetActive
<1>9. AccountsApart' /\ ConfigsApart' /\ OneTenantPerEmail'
  BY <1>1 DEF IInv, AccountsApart, ConfigsApart, OneTenantPerEmail, Exists
<1>10. TenantKeepsOwner'
  BY <1>1, <1>3, EmailAssumption DEF IInv, TenantKeepsOwner, Exists
<1>11. NoOrphanUnlessFault'
  BY <1>1, <1>3 DEF IInv, NoOrphanUnlessFault, Registering
<1>12. OneActiveConfig' /\ OnlyActiveTenantsWork'
  BY <1>1 DEF IInv, OneActiveConfig, OnlyActiveTenantsWork
<1>13. QED
  BY <1>5, <1>6, <1>7, <1>8, <1>9, <1>10, <1>11, <1>12 DEF IInv

----------------------------------------------------------------------------
(* Accounts *)

(***************************************************************************)
(* Supabase creates an account of an address that has none, and so has no  *)
(* registration in flight, nor a tenant whose attempt was told of it.      *)
(***************************************************************************)
LEMMA NewAccountKeeps ==
    ASSUME IInv, NEW e \in Emails, NewAccount(e),
           UNCHANGED <<tenant, review, active, lost>>
    PROVE  /\ account' \in [Emails -> AccountState]
           /\ owner' \in [Emails -> Registrations \cup {NoTenant}]
           /\ roles' \in [Emails -> SUBSET Roles]
           /\ ProfilesFit' /\ TenantsFit'
           /\ \A x \in Emails : x # e => UNCHANGED <<account[x], owner[x], roles[x]>>
           /\ account'[e] # "none" /\ owner'[e] = NoTenant
           /\ \A a \in Registrations : (EmailOf[a] = e /\ Exists(a)) => a \in lost
           /\ \A w \in Workers : job[w].phase \in InFlight => EmailOf[job[w].a] # e
<1>1. /\ account[e] = "none"
      /\ account' = [account EXCEPT ![e] = "unconfirmed"]
      /\ owner' = [owner EXCEPT ![e] = NoTenant]
      /\ roles' = [roles EXCEPT ![e] = {}]
  BY DEF NewAccount
<1>2. /\ account' \in [Emails -> AccountState]
      /\ owner' \in [Emails -> Registrations \cup {NoTenant}]
      /\ roles' \in [Emails -> SUBSET Roles]
  BY <1>1 DEF IInv, Types, AccountState
<1>3. \A x \in Emails :
         IF x = e THEN account'[x] = "unconfirmed" /\ owner'[x] = NoTenant /\ roles'[x] = {}
                  ELSE account'[x] = account[x] /\ owner'[x] = owner[x] /\ roles'[x] = roles[x]
  BY <1>1 DEF IInv, Types
<1>4. \A a \in Registrations : (EmailOf[a] = e /\ Exists(a)) => a \in lost
  BY <1>1 DEF IInv, TenantsFit
<1>5. \A w \in Workers : job[w].phase \in InFlight => EmailOf[job[w].a] # e
  BY <1>1 DEF IInv, JobsGood, Good, OwnAccount
<1>6. ProfilesFit'
  BY <1>3 DEF IInv, ProfilesFit, Exists
<1>7. TenantsFit'
  BY <1>3, EmailAssumption DEF IInv, TenantsFit, Exists
<1>8. QED
  BY <1>2, <1>3, <1>4, <1>5, <1>6, <1>7

(* create_user, whose answer may be lost.                                  *)
LEMMA CreateUserKeeps ==
    ASSUME IInv, NEW w \in Workers, CreateUser(w) \/ CreateUserTimesOut(w)
    PROVE  IInv'
<1>1. job[w].phase = "checked" /\ job[w] \in Jobs
  BY DEF CreateUser, CreateUserTimesOut, At, IInv, Types
<1>2. job[w] \in [phase : {"checked", "created", "records", "undo", "verify", "alert"},
                  a : Registrations]
  BY <1>1, JobKinds
<1>3. PICK e \in Emails : e = EmailOf[job[w].a] /\ NewAccount(e)
  BY <1>2, EmailAssumption DEF CreateUser, CreateUserTimesOut
<1>4. /\ UNCHANGED <<tenant, review, verified, flags, configs, mails, decided, active, worked,
                     converted, lost, tried, steps, scene>>
  BY DEF CreateUser, CreateUserTimesOut, records, history, bounds
<1>5. /\ account' \in [Emails -> AccountState]
      /\ owner' \in [Emails -> Registrations \cup {NoTenant}]
      /\ roles' \in [Emails -> SUBSET Roles]
      /\ ProfilesFit' /\ TenantsFit'
      /\ \A x \in Emails : x # e => UNCHANGED <<account[x], owner[x], roles[x]>>
      /\ account'[e] # "none" /\ owner'[e] = NoTenant
      /\ \A a \in Registrations : (EmailOf[a] = e /\ Exists(a)) => a \in lost
      /\ \A u \in Workers : job[u].phase \in InFlight => EmailOf[job[u].a] # e
  BY <1>3, <1>4, NewAccountKeeps
<1>6. PICK j \in Jobs :
         /\ job' = [job EXCEPT ![w] = j]
         /\ \/ j.phase = "created" /\ j.a = job[w].a /\ faults' = faults
            \/ j = IdleJob /\ faults < MaxFaults /\ faults' = faults + 1
  <2>1. CASE CreateUser(w)
    <3> DEFINE c == [job[w] EXCEPT !.phase = "created"]
    <3>1. /\ c \in [phase : {"checked", "created", "records", "undo", "verify", "alert"},
                    a : Registrations]
          /\ c.phase = "created" /\ c.a = job[w].a
      BY <1>2
    <3>2. c \in Jobs
      BY <3>1 DEF Jobs
    <3>3. job' = [job EXCEPT ![w] = c] /\ faults' = faults
      BY <2>1 DEF CreateUser, To, bounds
    <3> HIDE DEF c
    <3>4. QED
      BY <3>1, <3>2, <3>3
  <2>2. CASE CreateUserTimesOut(w)
    BY <2>2, IdleIsGood DEF CreateUserTimesOut, To
  <2>3. QED
    BY <2>1, <2>2
<1>7. \A u \in Workers : job'[u] = IF u = w THEN j ELSE job[u]
  BY <1>6 DEF IInv, Types
<1>8. faults' \in 0..MaxFaults /\ j.phase # "stored"
  BY <1>6, FaultAssumption DEF IInv, Types, IdleJob
<1>9. Types'
  BY <1>4, <1>5, <1>6, <1>8 DEF IInv, Types
<1>10. j.phase \in InFlight => EmailOf[j.a] = e
  BY <1>3, <1>6 DEF IdleJob, InFlight
<1>11. Good(j)'
  <2>1. CASE j.phase = "created"
    <3>1. OwnAccount(j.a)' /\ owner'[EmailOf[j.a]] = NoTenant
      BY <1>4, <1>5, <1>10, <2>1 DEF OwnAccount, Exists, InFlight
    <3>2. QED
      BY <2>1, <3>1 DEF Good
  <2>2. CASE j = IdleJob
    BY <2>2 DEF Good, InFlight, IdleJob
  <2>3. QED
    BY <1>6, <2>1, <2>2
<1>12. \A u \in Workers : job[u].phase \in InFlight => EmailOf[job[u].a] \in Emails
  BY JobKinds, EmailAssumption DEF IInv, Types, InFlight
<1>13. JobsGood'
  <2>1. ASSUME NEW u \in Workers, u # w, job[u].phase \in InFlight PROVE Good(job[u])'
    BY <1>4, <1>5, <1>7, <1>12, <2>1
    DEF IInv, JobsGood, Good, OwnAccount, Exists, InFlight
  <2>2. ASSUME NEW u \in Workers, u # w, job[u].phase \notin InFlight PROVE Good(job[u])'
    BY <1>4, <1>7, <2>2 DEF IInv, JobsGood, Good, Exists, GetActive, InFlight
  <2>3. QED
    BY <1>7, <1>11, <2>1, <2>2 DEF JobsGood
<1>14. AccountsApart'
  BY <1>5, <1>7, <1>10 DEF IInv, AccountsApart
<1>15. ConfigsApart'
  BY <1>7, <1>8 DEF IInv, ConfigsApart
<1>16. OneTenantPerEmail'
  BY <1>4 DEF IInv, OneTenantPerEmail, Exists
<1>17. TenantKeepsOwner'
  BY <1>4, <1>5, EmailAssumption DEF IInv, TenantKeepsOwner, Exists
<1>18. NoOrphanUnlessFault'
  <2>1. Registering(e)' \/ faults' > 0
    BY <1>3, <1>6, <1>7, FaultAssumption DEF Registering, IInv, Types
  <2>2. \A x \in Emails : Registering(x) => Registering(x)'
    BY <1>1, <1>7 DEF Registering
  <2>3. faults > 0 => faults' > 0
    BY <1>6 DEF IInv, Types
  <2>4. QED
    BY <1>4, <1>5, <2>1, <2>2, <2>3 DEF IInv, NoOrphanUnlessFault
<1>19. MailOnlyCommitted' /\ OneActiveConfig' /\ OnlyActiveTenantsWork'
  BY <1>4 DEF IInv, MailOnlyCommitted, OneActiveConfig, OnlyActiveTenantsWork, Exists
<1>20. QED
  BY <1>5, <1>9, <1>13, <1>14, <1>15, <1>16, <1>17, <1>18, <1>19 DEF IInv

(***************************************************************************)
(* The commit of register is carried out: its attempt is told so, or that  *)
(* it failed.                                                              *)
(***************************************************************************)
LEMMA RegisterTenantKeeps ==
    ASSUME IInv, NEW w \in Workers, job[w].phase = "records",
           NEW a \in Registrations, a = job[w].a, RegisterTenant(a),
           NEW j \in Jobs, j.a = a, To(w, j),
           UNCHANGED <<mails, decided, active, worked, converted, tried, steps, scene>>,
           \/ j.phase = "verify" /\ UNCHANGED <<lost, faults>>
           \/ /\ j.phase = "undo" /\ lost' = lost \cup {a}
              /\ faults < MaxFaults /\ faults' = faults + 1
    PROVE  IInv'
<1>1. job[w] \in Jobs
  BY DEF IInv, Types
<1>2. PICK e \in Emails : e = EmailOf[a]
  BY EmailAssumption
<1>3. /\ account[e] # "none" /\ owner[e] = NoTenant
      /\ \A b \in Registrations : (EmailOf[b] = e /\ Exists(b)) => b \in lost
  BY <1>2 DEF IInv, JobsGood, Good, OwnAccount, InFlight
<1>4. /\ tenant' = [tenant EXCEPT ![a] = "PENDING_VERIFICATION"]
      /\ review' = [review EXCEPT ![a] = "PENDING_VERIFICATION"]
      /\ owner' = [owner EXCEPT ![e] = a]
      /\ roles' = [roles EXCEPT ![e] = @ \cup {"TENANT_OWNER"}]
      /\ UNCHANGED <<account, verified, flags, configs>>
  BY <1>2 DEF RegisterTenant
<1>5. job' = [job EXCEPT ![w] = j]
  BY DEF To
<1>6. \A u \in Workers : job'[u] = IF u = w THEN j ELSE job[u]
  BY <1>5 DEF IInv, Types
<1>7. \A b \in Registrations :
         IF b = a THEN tenant'[b] = "PENDING_VERIFICATION" /\ review'[b] = "PENDING_VERIFICATION"
                  ELSE tenant'[b] = tenant[b] /\ review'[b] = review[b]
  BY <1>4 DEF IInv, Types
<1>8. \A x \in Emails :
         IF x = e THEN owner'[x] = a /\ roles'[x] = roles[x] \cup {"TENANT_OWNER"}
                  ELSE owner'[x] = owner[x] /\ roles'[x] = roles[x]
  BY <1>4 DEF IInv, Types
<1>9. Exists(a)' /\ \A b \in Registrations : Exists(b)' <=> (Exists(b) \/ b = a)
  BY <1>7 DEF Exists
<1>10. /\ lost \subseteq lost' /\ lost' \subseteq Registrations
       /\ faults' \in 0..MaxFaults /\ (faults > 0 => faults' > 0)
       /\ j.phase = "undo" => a \in lost' /\ faults' > 0
  BY FaultAssumption DEF IInv, Types
<1>11. Types'
  <2>1. tenant' \in [Registrations -> TenantStatus] /\ review' \in [Registrations -> ReviewStatus]
    BY <1>4 DEF IInv, Types, TenantStatus, ReviewStatus
  <2>2. owner' \in [Emails -> Registrations \cup {NoTenant}] /\ roles' \in [Emails -> SUBSET Roles]
    BY <1>4 DEF IInv, Types, Roles
  <2>3. QED
    BY <1>4, <1>5, <1>10, <2>1, <2>2 DEF IInv, Types
<1>12. ProfilesFit'
  BY <1>2, <1>3, <1>4, <1>8, <1>9, RegistrationAssumption DEF IInv, ProfilesFit, Types
<1>13. TenantsFit'
  BY <1>2, <1>3, <1>4, <1>7, <1>9, <1>10 DEF IInv, TenantsFit
<1>14. \A u \in Workers :
          (u # w /\ job[u].phase \in InFlight) =>
             EmailOf[job[u].a] # e /\ EmailOf[job[u].a] \in Emails
  <2>1. \A u \in Workers : job[u].phase \in InFlight => EmailOf[job[u].a] \in Emails
    BY JobKinds, EmailAssumption DEF IInv, Types, InFlight
  <2>2. QED
    BY <1>2, <2>1 DEF IInv, AccountsApart, InFlight
<1>15. \A u \in Workers :
          job[u].phase \in {"verify", "alert", "loaded", "written", "notify", "config", "stored"}
             => job[u].a \in Registrations
  BY JobKinds DEF IInv, Types
<1>16. JobsGood'
  <2>1. Good(j)'
    <3>1. OwnAccount(a)' \/ j.phase = "verify"
      BY <1>2, <1>3, <1>4, <1>9, <1>10 DEF OwnAccount
    <3>2. QED
      BY <1>9, <3>1 DEF Good, InFlight
  <2>2. ASSUME NEW u \in Workers, u # w, job[u].phase \in InFlight PROVE Good(job[u])'
    BY <1>2, <1>4, <1>6, <1>8, <1>9, <1>10, <1>14, <2>2
    DEF IInv, JobsGood, Good, OwnAccount, InFlight
  <2>3. ASSUME NEW u \in Workers, u # w, job[u].phase \notin InFlight PROVE Good(job[u])'
    BY <1>4, <1>6, <1>9, <1>15, <2>3 DEF IInv, JobsGood, Good, GetActive, InFlight
  <2>4. QED
    BY <1>6, <2>1, <2>2, <2>3 DEF JobsGood
<1>17. AccountsApart'
  BY <1>6 DEF IInv, AccountsApart, InFlight
<1>18. ConfigsApart'
  BY <1>6 DEF IInv, ConfigsApart
<1>19. OneTenantPerEmail'
  BY <1>2, <1>3, <1>9, <1>10 DEF IInv, OneTenantPerEmail
<1>20. TenantKeepsOwner'
  BY <1>2, <1>3, <1>4, <1>8, <1>9, <1>10, EmailAssumption DEF IInv, TenantKeepsOwner
<1>21. NoOrphanUnlessFault'
  <2>1. \A x \in Emails : x # e => (Registering(x) => Registering(x)')
    BY <1>2, <1>6 DEF Registering
  <2>2. owner'[e] # NoTenant
    BY <1>8, RegistrationAssumption
  <2>3. QED
    BY <1>4, <1>8, <1>10, <2>1, <2>2 DEF IInv, NoOrphanUnlessFault
<1>22. MailOnlyCommitted'
  <2>1. \A m \in mails : m[1] \in Registrations
    BY DEF IInv, Types, Mails
  <2>2. QED
    BY <1>9, <2>1 DEF IInv, MailOnlyCommitted
<1>23. OneActiveConfig' /\ OnlyActiveTenantsWork'
  BY <1>4 DEF IInv, OneActiveConfig, OnlyActiveTenantsWork
<1>24. QED
  BY <1>11, <1>12, <1>13, <1>16, <1>17, <1>18, <1>19, <1>20, <1>21, <1>22, <1>23 DEF IInv

(* The commit of register, which may fail, or be carried out and answered  *)
(* as if it had.                                                           *)
LEMMA CommitRegistrationKeeps ==
    ASSUME IInv, NEW w \in Workers, CommitRegistration(w) \/ CommitAnswerLost(w)
    PROVE  IInv'
<1>1. job[w].phase = "records" /\ job[w] \in Jobs
  BY DEF CommitRegistration, CommitAnswerLost, At, IInv, Types
<1>2. job[w] \in [phase : {"checked", "created", "records", "undo", "verify", "alert"},
                  a : Registrations]
  BY <1>1, JobKinds
<1>3. PICK a \in Registrations : a = job[w].a
  BY <1>2
<1>4. ASSUME NEW ph \in {"verify", "undo"}
      PROVE  LET j == [job[w] EXCEPT !.phase = ph] IN j \in Jobs /\ j.phase = ph /\ j.a = a
  <2> DEFINE j == [job[w] EXCEPT !.phase = ph]
  <2>1. /\ j \in [phase : {"checked", "created", "records", "undo", "verify", "alert"},
                  a : Registrations]
        /\ j.phase = ph /\ j.a = a
    BY <1>2, <1>3
  <2>2. QED
    BY <2>1 DEF Jobs
<1>5. CASE RegisterTenant(a) /\ CommitRegistration(w) /\ To(w, [job[w] EXCEPT !.phase = "verify"])
  <2>1. PICK j \in Jobs : j = [job[w] EXCEPT !.phase = "verify"] /\ j.phase = "verify" /\ j.a = a
    BY <1>4
  <2>2. To(w, j) /\ UNCHANGED <<mails, decided, active, worked, converted, tried, steps, scene>>
    BY <1>5, <2>1 DEF CommitRegistration, history, bounds
  <2>3. UNCHANGED <<lost, faults>>
    BY <1>5 DEF CommitRegistration, history, bounds
  <2>4. QED
    BY <1>1, <1>3, <1>5, <2>1, <2>2, <2>3, RegisterTenantKeeps
<1>6. CASE CommitAnswerLost(w)
  <2>1. PICK j \in Jobs : j = [job[w] EXCEPT !.phase = "undo"] /\ j.phase = "undo" /\ j.a = a
    BY <1>4
  <2>2. /\ To(w, j) /\ RegisterTenant(a)
        /\ UNCHANGED <<mails, decided, active, worked, converted, tried, steps, scene>>
        /\ lost' = lost \cup {a} /\ faults < MaxFaults /\ faults' = faults + 1
    BY <1>3, <1>6, <2>1 DEF CommitAnswerLost
  <2>3. QED
    BY <1>1, <1>3, <2>1, <2>2, RegisterTenantKeeps
<1>7. CASE UNCHANGED <<accounts, records, mails, history, bounds>>
           /\ To(w, [job[w] EXCEPT !.phase = "undo"])
  <2>1. PICK j \in Jobs : j = [job[w] EXCEPT !.phase = "undo"] /\ j.phase = "undo" /\ j.a = a
    BY <1>4
  <2>2. QED
    BY <1>1, <1>3, <1>7, <2>1, MoveOnKeeps
<1>8. QED
  BY <1>3, <1>5, <1>6, <1>7 DEF CommitRegistration

(* delete_user takes back an account that never got a tenant, or one whose *)
(* own attempt was told that it failed.                                    *)
LEMMA DeleteUserKeeps ==
    ASSUME IInv, NEW w \in Workers, DeleteUser(w)
    PROVE  IInv'
<1>1. job[w].phase = "undo" /\ job[w] \in Jobs
  BY DEF DeleteUser, At, IInv, Types
<1>2. job[w] \in [phase : {"checked", "created", "records", "undo", "verify", "alert"},
                  a : Registrations]
  BY <1>1, JobKinds
<1>3. PICK e \in Emails : e = EmailOf[job[w].a]
  BY <1>2, EmailAssumption
<1>4. UNCHANGED <<tenant, review, verified, flags, configs, mails, decided, active, worked,
                  converted, lost, tried, steps, scene, faults>>
  BY DEF DeleteUser, records, history, bounds
<1>5. \A b \in Registrations : (EmailOf[b] = e /\ Exists(b)) => b \in lost
  BY <1>1, <1>3 DEF IInv, JobsGood, Good, OwnAccount, InFlight
<1>6. /\ account' = [account EXCEPT ![e] = "none"]
      /\ owner' = [owner EXCEPT ![e] = NoTenant]
      /\ roles' = [roles EXCEPT ![e] = {}]
      /\ job' = [job EXCEPT ![w] = IdleJob]
  BY <1>3 DEF DeleteUser, To
<1>7. \A x \in Emails :
         IF x = e THEN account'[x] = "none" /\ owner'[x] = NoTenant /\ roles'[x] = {}
                  ELSE account'[x] = account[x] /\ owner'[x] = owner[x] /\ roles'[x] = roles[x]
  BY <1>6 DEF IInv, Types
<1>8. \A u \in Workers : job'[u] = IF u = w THEN IdleJob ELSE job[u]
  BY <1>6 DEF IInv, Types
<1>9. IdleJob.phase = "idle" /\ Good(IdleJob)' /\ IdleJob \in Jobs
  BY DEF IdleJob, Good, InFlight, Jobs
<1>10. Types'
  <2>1. account' \in [Emails -> AccountState]
    BY <1>6 DEF IInv, Types, AccountState
  <2>2. owner' \in [Emails -> Registrations \cup {NoTenant}] /\ roles' \in [Emails -> SUBSET Roles]
    BY <1>6 DEF IInv, Types
  <2>3. QED
    BY <1>4, <1>6, <1>9, <2>1, <2>2 DEF IInv, Types
<1>11. ProfilesFit'
  BY <1>4, <1>7 DEF IInv, ProfilesFit, Exists
<1>12. TenantsFit'
  BY <1>4, <1>5, <1>7, EmailAssumption DEF IInv, TenantsFit, Exists
<1>13. \A u \in Workers : (u # w /\ job[u].phase \in InFlight) =>
          EmailOf[job[u].a] # e /\ EmailOf[job[u].a] \in Emails
  <2>1. \A u \in Workers : job[u].phase \in InFlight => EmailOf[job[u].a] \in Emails
    BY JobKinds, EmailAssumption DEF IInv, Types, InFlight
  <2>2. QED
    BY <1>1, <1>3, <2>1 DEF IInv, AccountsApart, InFlight
<1>14. JobsGood'
  <2>1. ASSUME NEW u \in Workers, u # w PROVE Good(job[u])'
    BY <1>4, <1>7, <1>8, <1>13, <2>1
    DEF IInv, JobsGood, Good, OwnAccount, GetActive, InFlight, Exists
  <2>2. QED
    BY <1>8, <1>9, <2>1 DEF JobsGood
<1>15. AccountsApart' /\ ConfigsApart'
  BY <1>8, <1>9 DEF IInv, AccountsApart, ConfigsApart, InFlight
<1>16. OneTenantPerEmail' /\ TenantKeepsOwner'
  BY <1>4, <1>5, <1>7, EmailAssumption DEF IInv, OneTenantPerEmail, TenantKeepsOwner, Exists
<1>17. NoOrphanUnlessFault'
  <2>1. \A x \in Emails : x # e => (Registering(x) => Registering(x)')
    BY <1>3, <1>8 DEF Registering
  <2>2. QED
    BY <1>4, <1>7, <2>1 DEF IInv, NoOrphanUnlessFault
<1>18. MailOnlyCommitted' /\ OneActiveConfig' /\ OnlyActiveTenantsWork'
  BY <1>4 DEF IInv, MailOnlyCommitted, OneActiveConfig, OnlyActiveTenantsWork, Exists
<1>19. QED
  BY <1>10, <1>11, <1>12, <1>14, <1>15, <1>16, <1>17, <1>18 DEF IInv

----------------------------------------------------------------------------
(* Commits of super admins and of tenants *)

(* A decision is committed over whatever the tenant has become since.      *)
LEMMA CommitDecisionKeeps ==
    ASSUME IInv, NEW w \in Workers, CommitDecision(w)
    PROVE  IInv'
<1>1. job[w].phase = "written" /\ job[w] \in Jobs
  BY DEF CommitDecision, At, IInv, Types
<1>2. job[w] \in [phase : {"loaded", "written"}, a : Registrations, d : Decisions,
                  status : TenantStatus, review : ReviewStatus, to : SUBSET Emails]
  BY <1>1, JobKinds
<1>3. PICK a \in Registrations, d \in Decisions : a = job[w].a /\ d = job[w].d
  BY <1>2
<1>4. UNCHANGED <<account, owner, roles, verified, flags, configs, mails, worked, converted, lost,
                  tried, steps, scene, faults>>
  BY DEF CommitDecision, accounts, bounds
<1>5. StatusAfter[d] \in TenantStatus \ {"NONE"}
  BY DEF StatusAfter, Decisions, TenantStatus
<1>6. Exists(a)
  BY <1>1, <1>3 DEF IInv, JobsGood, Good
<1>7. PICK s \in TenantStatus \ {"NONE"} : tenant' = [tenant EXCEPT ![a] = s]
  BY <1>3, <1>5, <1>6 DEF CommitDecision, IInv, Types, Exists
<1>8. PICK v \in ReviewStatus \ {"NONE"} : review' = [review EXCEPT ![a] = v]
  <2>1. review' = [review EXCEPT ![a] = IF WritesReview(job[w])
                                         THEN ReviewAfter(d, job[w].review) ELSE @]
    BY <1>3 DEF CommitDecision
  <2>2. review[a] \in ReviewStatus \ {"NONE"}
    BY <1>6 DEF IInv, Types, TenantsFit, Exists
  <2>3. WritesReview(job[w]) => ReviewAfter(d, job[w].review) \in ReviewStatus \ {"NONE"}
    BY <1>3 DEF WritesReview, ReviewAfter, Decisions, ReviewStatus
  <2>4. QED
    BY <2>1, <2>2, <2>3
<1>9. decided' = decided \cup {<<a, d>>}
  BY <1>3 DEF CommitDecision
<1>10. active' = IF tenant'[a] = "ACTIVE" THEN active \cup {a} ELSE active
  BY <1>3 DEF CommitDecision
<1>11. PICK to \in SUBSET Emails :
          job' = [job EXCEPT ![w] = [phase |-> "notify", a |-> a, d |-> d, to |-> to]]
  <2>1. OwnersOf(a) \in SUBSET Emails /\ job[w].to \in SUBSET Emails
    BY <1>2 DEF OwnersOf
  <2>2. QED
    BY <1>3, <2>1 DEF CommitDecision, To
<1> DEFINE j == [phase |-> "notify", a |-> a, d |-> d, to |-> to]
<1>12. j \in Jobs /\ j.phase = "notify" /\ j.a = a /\ j.d = d
  BY DEF Jobs
<1>13. job' = [job EXCEPT ![w] = j]
  BY <1>11
<1> HIDE DEF j
<1>14. \A u \in Workers : job'[u] = IF u = w THEN j ELSE job[u]
  BY <1>13 DEF IInv, Types
<1>15. \A b \in Registrations :
          /\ tenant'[b] = IF b = a THEN s ELSE tenant[b]
          /\ review'[b] = IF b = a THEN v ELSE review[b]
  BY <1>7, <1>8 DEF IInv, Types
<1>16. \A b \in Registrations : Exists(b)' <=> Exists(b)
  BY <1>6, <1>7, <1>15 DEF Exists
<1>17. Types'
  <2>1. tenant' \in [Registrations -> TenantStatus] /\ review' \in [Registrations -> ReviewStatus]
    BY <1>7, <1>8 DEF IInv, Types
  <2>2. decided' \subseteq Registrations \X Decisions /\ active' \subseteq Registrations
    BY <1>9, <1>10 DEF IInv, Types
  <2>3. QED
    BY <1>4, <1>12, <1>13, <2>1, <2>2 DEF IInv, Types
<1>18. ProfilesFit'
  <2>1. \A e \in Emails : owner[e] # NoTenant => owner[e] \in Registrations
    BY DEF IInv, Types
  <2>2. QED
    BY <1>4, <1>16, <2>1 DEF IInv, ProfilesFit
<1>19. TenantsFit'
  BY <1>4, <1>10, <1>15, <1>16, <1>7, <1>8 DEF IInv, TenantsFit
<1>20. JobsGood'
  <2>1. Good(j)'
    BY <1>6, <1>9, <1>12, <1>16 DEF Good, InFlight
  <2>2. \A u \in Workers :
           job[u].phase \in {"verify", "alert", "loaded", "written", "notify", "config", "stored"}
              => job[u].a \in Registrations
    BY JobKinds DEF IInv, Types
  <2>3. ASSUME NEW u \in Workers, u # w PROVE Good(job[u])'
    BY <1>4, <1>9, <1>10, <1>14, <1>16, <2>2, <2>3
    DEF IInv, JobsGood, Good, OwnAccount, GetActive
  <2>4. QED
    BY <1>14, <2>1, <2>3 DEF JobsGood
<1>21. AccountsApart' /\ ConfigsApart'
  BY <1>12, <1>14 DEF IInv, AccountsApart, ConfigsApart, InFlight
<1>22. OneTenantPerEmail' /\ TenantKeepsOwner'
  BY <1>4, <1>16 DEF IInv, OneTenantPerEmail, TenantKeepsOwner
<1>23. NoOrphanUnlessFault'
  <2>1. \A e \in Emails : Registering(e) => Registering(e)'
    BY <1>1, <1>14 DEF Registering
  <2>2. QED
    BY <1>4, <2>1 DEF IInv, NoOrphanUnlessFault
<1>24. MailOnlyCommitted'
  <2>1. \A m \in mails : m[1] \in Registrations
    BY DEF IInv, Types, Mails
  <2>2. QED
    BY <1>4, <1>9, <1>16, <2>1 DEF IInv, MailOnlyCommitted
<1>25. OneActiveConfig' /\ OnlyActiveTenantsWork'
  BY <1>4, <1>10 DEF IInv, OneActiveConfig, OnlyActiveTenantsWork
<1>26. QED
  BY <1>17, <1>18, <1>19, <1>20, <1>21, <1>22, <1>23, <1>24, <1>25 DEF IInv

(* The commit of set_mode or set_commission_rate replaces the active row.  *)
LEMMA CommitConfigKeeps ==
    ASSUME IInv, NEW w \in Workers, CommitConfig(w)
    PROVE  IInv'
<1>1. job[w].phase = "stored" /\ job[w] \in Jobs
  BY DEF CommitConfig, At, IInv, Types
<1>2. job[w].a \in Registrations /\ job[w].new \in Configs /\ job[w].old \in SUBSET Configs
  BY <1>1, JobKinds
<1>3. PICK c \in Configs, old \in SUBSET Configs : c = job[w].new /\ old = job[w].old
  BY <1>2
<1>4. UNCHANGED <<account, owner, roles, tenant, review, verified, flags, mails, decided, active,
                  worked, converted, lost, tried, steps, scene, faults>>
  BY DEF CommitConfig, accounts, history, bounds
<1>5. configs' = (configs \ old) \cup {c} /\ job' = [job EXCEPT ![w] = IdleJob]
  BY <1>3 DEF CommitConfig, To
<1>6. c.a = job[w].a /\ GetActive(c.a, c.kind) \subseteq old
  BY <1>1, <1>3 DEF IInv, JobsGood, Good
<1>7. \A u \in Workers : job'[u] = IF u = w THEN IdleJob ELSE job[u]
  BY <1>5 DEF IInv, Types
<1>8. IdleJob.phase = "idle" /\ Good(IdleJob)' /\ IdleJob \in Jobs
  BY DEF IdleJob, Good, InFlight, Jobs
<1>9. Types'
  BY <1>4, <1>5, <1>8 DEF IInv, Types
<1>10. ProfilesFit' /\ TenantsFit'
  BY <1>4 DEF IInv, ProfilesFit, TenantsFit, Exists
<1>11. JobsGood'
  <2>1. ASSUME NEW u \in Workers, u # w, job[u].phase = "stored"
        PROVE  GetActive(job[u].a, job[u].new.kind)' \subseteq job[u].old
    <3>1. ~(c.a = job[u].a /\ c.kind = job[u].new.kind)
      BY <1>1, <1>3, <1>6, <2>1 DEF IInv, ConfigsApart
    <3>2. GetActive(job[u].a, job[u].new.kind) \subseteq job[u].old
      BY <2>1 DEF IInv, JobsGood, Good
    <3>3. job'[u] = job[u]
      BY <1>7, <2>1
    <3>4. QED
      BY <1>5, <3>1, <3>2, <3>3 DEF GetActive
  <2>2. ASSUME NEW u \in Workers, u # w PROVE Good(job[u])'
    <3>1. job'[u] = job[u]
      BY <1>7, <2>2
    <3>2. Good(job[u])
      BY DEF IInv, JobsGood
    <3>3. QED
      BY <1>4, <2>1, <2>2, <3>1, <3>2 DEF Good, OwnAccount, Exists
  <2>3. QED
    BY <1>7, <1>8, <2>2 DEF JobsGood
<1>12. AccountsApart' /\ ConfigsApart'
  BY <1>7, <1>8 DEF IInv, AccountsApart, ConfigsApart, InFlight
<1>13. OneTenantPerEmail' /\ TenantKeepsOwner' /\ MailOnlyCommitted' /\ OnlyActiveTenantsWork'
  BY <1>4
  DEF IInv, OneTenantPerEmail, TenantKeepsOwner, MailOnlyCommitted, OnlyActiveTenantsWork, Exists
<1>14. NoOrphanUnlessFault'
  <2>1. \A e \in Emails : Registering(e) => Registering(e)'
    BY <1>1, <1>7 DEF Registering
  <2>2. QED
    BY <1>4, <2>1 DEF IInv, NoOrphanUnlessFault
<1>15. OneActiveConfig'
  BY <1>5, <1>6 DEF IInv, OneActiveConfig, GetActive
<1>16. QED
  BY <1>9, <1>10, <1>11, <1>12, <1>13, <1>14, <1>15 DEF IInv

(* A request that passed the gate is carried out.                          *)
LEMMA ServeTenantKeeps ==
    ASSUME IInv, NEW w \in Workers, ServeTenant(w)
    PROVE  IInv'
<1>1. job[w].phase = "serving" /\ job[w] \in Jobs
  BY DEF ServeTenant, At, IInv, Types
<1>2. job[w].a \in active
  BY <1>1 DEF IInv, JobsGood, Good
<1>3. /\ UNCHANGED <<account, owner, roles, tenant, review, verified, flags, configs, mails>>
      /\ UNCHANGED <<decided, active, converted, lost, tried, steps, scene, faults>>
      /\ worked' = worked \cup {job[w].a} /\ job' = [job EXCEPT ![w] = IdleJob]
  BY DEF ServeTenant, accounts, records, bounds, To
<1>4. \A u \in Workers : job'[u] = IF u = w THEN IdleJob ELSE job[u]
  BY <1>3 DEF IInv, Types
<1>5. IdleJob.phase = "idle" /\ Good(IdleJob)' /\ IdleJob \in Jobs
  BY DEF IdleJob, Good, InFlight, Jobs
<1>6. Types'
  BY <1>2, <1>3, <1>5 DEF IInv, Types
<1>7. ProfilesFit' /\ TenantsFit'
  BY <1>3 DEF IInv, ProfilesFit, TenantsFit, Exists
<1>8. JobsGood'
  BY <1>3, <1>4, <1>5 DEF IInv, JobsGood, Good, OwnAccount, Exists, GetActive
<1>9. AccountsApart' /\ ConfigsApart'
  BY <1>4, <1>5 DEF IInv, AccountsApart, ConfigsApart, InFlight
<1>10. /\ OneTenantPerEmail' /\ TenantKeepsOwner' /\ MailOnlyCommitted' /\ OneActiveConfig'
       /\ OnlyActiveTenantsWork'
  BY <1>2, <1>3
  DEF IInv, OneTenantPerEmail, TenantKeepsOwner, MailOnlyCommitted, OneActiveConfig,
      OnlyActiveTenantsWork, Exists
<1>11. NoOrphanUnlessFault'
  <2>1. \A e \in Emails : Registering(e) => Registering(e)'
    BY <1>1, <1>4 DEF Registering
  <2>2. QED
    BY <1>3, <2>1 DEF IInv, NoOrphanUnlessFault
<1>12. QED
  BY <1>6, <1>7, <1>8, <1>9, <1>10, <1>11 DEF IInv

(***************************************************************************)
(* The script writes by what it read: an account that had no tenant keeps  *)
(* the one it got since, and one that had loses tenant and role together.  *)
(***************************************************************************)
LEMMA AssignSuperAdminKeeps ==
    ASSUME IInv, NEW w \in Workers, AssignSuperAdmin(w)
    PROVE  IInv'
<1>1. job[w].phase = "convert" /\ job[w] \in Jobs
  BY DEF AssignSuperAdmin, At, IInv, Types
<1>2. job[w] \in [phase : {"convert"}, e : Emails, was : Registrations \cup {NoTenant},
                  held : SUBSET Roles]
  BY <1>1, JobKinds
<1>3. PICK e \in Emails, was \in Registrations \cup {NoTenant}, held \in SUBSET Roles :
         e = job[w].e /\ was = job[w].was /\ held = job[w].held
  BY <1>2
<1>4. was = NoTenant <=> "TENANT_OWNER" \notin held
  BY <1>1, <1>3 DEF IInv, JobsGood, Good
<1>5. /\ UNCHANGED <<tenant, review, verified, flags, configs, mails>>
      /\ UNCHANGED <<decided, active, worked, lost, tried, steps, scene, faults>>
      /\ job' = [job EXCEPT ![w] = IdleJob]
  BY DEF AssignSuperAdmin, records, bounds, To
<1>6. CASE account[e] = "none"
  <2>1. UNCHANGED <<account, owner, roles, converted>>
    BY <1>3, <1>6 DEF AssignSuperAdmin, accounts
  <2>2. job[w].phase \notin InFlight /\ tried' \subseteq Registrations
    BY <1>1, <1>5 DEF InFlight, IInv, Types
  <2>3. QED
    BY <1>5, <2>1, <2>2, EndKeeps DEF To, accounts, records, history
<1>7. CASE account[e] # "none"
  <2>1. /\ account' = account
        /\ owner' = [owner EXCEPT ![e] = IF was = NoTenant THEN @ ELSE NoTenant]
        /\ roles' = [roles EXCEPT ![e] = (@ \ (held \ {"SUPER_ADMIN"})) \cup {"SUPER_ADMIN"}]
        /\ converted' = IF was = NoTenant THEN converted ELSE converted \cup {e}
    BY <1>3, <1>7 DEF AssignSuperAdmin
  <2>2. \A x \in Emails :
           /\ owner'[x] = IF x = e /\ was # NoTenant THEN NoTenant ELSE owner[x]
           /\ "TENANT_OWNER" \in roles'[x] <=>
                 ("TENANT_OWNER" \in roles[x] /\ ~(x = e /\ was # NoTenant))
           /\ x # e => roles'[x] = roles[x]
    BY <1>4, <2>1 DEF IInv, Types
  <2>3. \A u \in Workers : job'[u] = IF u = w THEN IdleJob ELSE job[u]
    BY <1>5 DEF IInv, Types
  <2>4. IdleJob.phase = "idle" /\ Good(IdleJob)' /\ IdleJob \in Jobs
    BY DEF IdleJob, Good, InFlight, Jobs
  <2>5. Types'
    <3>1. owner' \in [Emails -> Registrations \cup {NoTenant}]
      BY <2>1 DEF IInv, Types
    <3>2. roles' \in [Emails -> SUBSET Roles]
      BY <2>1 DEF IInv, Types, Roles
    <3>3. converted' \subseteq Emails
      BY <2>1 DEF IInv, Types
    <3>4. QED
      BY <1>5, <2>1, <2>4, <3>1, <3>2, <3>3 DEF IInv, Types
  <2>6. ProfilesFit'
    BY <1>5, <1>7, <2>1, <2>2 DEF IInv, ProfilesFit, Exists
  <2>7. TenantsFit'
    BY <1>5, <2>1 DEF IInv, TenantsFit, Exists
  <2>8. JobsGood'
    BY <1>5, <2>1, <2>3, <2>4 DEF IInv, JobsGood, Good, OwnAccount, Exists, GetActive
  <2>9. AccountsApart' /\ ConfigsApart'
    BY <2>3, <2>4 DEF IInv, AccountsApart, ConfigsApart, InFlight
  <2>10. OneTenantPerEmail' /\ MailOnlyCommitted' /\ OneActiveConfig' /\ OnlyActiveTenantsWork'
    BY <1>5
    DEF IInv, OneTenantPerEmail, MailOnlyCommitted, OneActiveConfig, OnlyActiveTenantsWork, Exists
  <2>11. converted \subseteq converted' /\ (was # NoTenant => e \in converted')
    BY <2>1
  <2>12. TenantKeepsOwner'
    BY <1>5, <2>1, <2>2, <2>11, EmailAssumption DEF IInv, TenantKeepsOwner, Exists
  <2>13. NoOrphanUnlessFault'
    <3>1. \A x \in Emails : Registering(x) => Registering(x)'
      BY <1>1, <2>3 DEF Registering
    <3>2. QED
      BY <1>5, <2>1, <2>2, <2>11, <3>1 DEF IInv, NoOrphanUnlessFault
  <2>14. QED
    BY <2>5, <2>6, <2>7, <2>8, <2>9, <2>10, <2>12, <2>13 DEF IInv
<1>8. QED
  BY <1>6, <1>7

----------------------------------------------------------------------------
(* The whole *)

(* Nobody has registered: the invariant holds at the start.                *)
LEMMA InitHolds == Init => IInv
<1> SUFFICES ASSUME Init PROVE IInv
  OBVIOUS
<1>1. \A w \in Workers : job[w] = IdleJob /\ job[w].phase = "idle"
  BY DEF Init, IdleJob
<1>2. \A a \in Registrations : ~Exists(a)
  BY DEF Init, Exists
<1>3. Types
  <2>1. job \in [Workers -> Jobs]
    BY IdleIsGood DEF Init
  <2>2. faults \in 0..MaxFaults /\ steps \in 0..MaxSteps
    BY FaultAssumption DEF Init, MaxSteps
  <2>3. QED
    BY <2>1, <2>2 DEF Init, Types, AccountState, TenantStatus, ReviewStatus
<1>4. ProfilesFit /\ TenantsFit
  BY DEF Init, ProfilesFit, TenantsFit, Exists
<1>5. JobsGood
  BY <1>1, IdleIsGood DEF JobsGood
<1>6. AccountsApart /\ ConfigsApart
  BY <1>1 DEF AccountsApart, ConfigsApart, InFlight
<1>7. OneTenantPerEmail /\ TenantKeepsOwner
  BY <1>2 DEF OneTenantPerEmail, TenantKeepsOwner
<1>8. NoOrphanUnlessFault /\ MailOnlyCommitted /\ OneActiveConfig /\ OnlyActiveTenantsWork
  BY DEF Init, NoOrphanUnlessFault, MailOnlyCommitted, OneActiveConfig, OnlyActiveTenantsWork
<1>9. QED
  BY <1>3, <1>4, <1>5, <1>6, <1>7, <1>8 DEF IInv

(* Every step keeps the invariant.                                         *)
LEMMA StepKeeps == IInv /\ [Next]_vars => IInv'
<1> SUFFICES ASSUME IInv, [Next]_vars PROVE IInv'
  OBVIOUS
<1>1. ASSUME NEW w \in Workers, Register(w) PROVE IInv'
  BY <1>1, CheckEmailKeeps, CreateUserKeeps, RefusedKeeps, LocalRecordsKeep,
     CommitRegistrationKeeps, DeleteUserKeeps, SendVerificationKeeps, SendAdminAlertKeeps
  DEF Register
<1>2. ASSUME NEW w \in Workers, Decide(w) PROVE IInv'
  <2>1. ASSUME NEW a \in Registrations, NEW d \in Decisions, LoadTenant(w, a, d) PROVE IInv'
    BY <2>1, LoadTenantKeeps
  <2>2. ASSUME NEW a \in Registrations, NEW m \in Modes, SetMode(w, a, m) PROVE IInv'
    <3>1. "mode" \in ConfigKinds /\ m \in Modes \cup Rates
      BY DEF ConfigKinds
    <3>2. QED
      BY <2>2, <3>1, LoadConfigKeeps DEF SetMode
  <2>3. ASSUME NEW a \in Registrations, NEW rate \in Rates, SetCommissionRate(w, a, rate)
        PROVE  IInv'
    <3>1. "terms" \in ConfigKinds /\ rate \in Modes \cup Rates
      BY DEF ConfigKinds
    <3>2. QED
      BY <2>3, <3>1, LoadConfigKeeps DEF SetCommissionRate
  <2>4. {"approve", "reject", "more", "suspend", "reactivate"} \subseteq Decisions
    BY DEF Decisions
  <2>5. QED
    BY <1>2, <2>1, <2>2, <2>3, <2>4, WriteDecisionKeeps, CommitDecisionKeeps, NotifyOwnerKeeps,
       StoreConfigKeeps, CommitConfigKeeps
    DEF Decide, Approve, Reject, RequestMoreInformation, Suspend, Reactivate
<1>3. ASSUME NEW w \in Workers, Use(w) PROVE IInv'
  BY <1>3, AdmitKeeps, ServeTenantKeeps, ReadProfileKeeps, AssignSuperAdminKeeps DEF Use
<1>4. ASSUME NEW e \in Emails,
             ResendVerification(e) \/ ConfirmEmail(e) \/ GetAccountStatus(e)
      PROVE  IInv'
  <2>1. CASE Registrations = {}
    <3>1. owner[e] = NoTenant
      BY <2>1 DEF IInv, Types
    <3>2. <<owner[e], "verify">> \notin mails
      BY <2>1 DEF IInv, Types, Mails
    <3>3. QED
      BY <1>4, <3>1, <3>2 DEF ResendVerification, ConfirmEmail, GetAccountStatus
  <2>2. CASE Registrations # {}
    <3>1. PICK a \in Registrations : TRUE
      BY <2>2
    <3>2. "payout_enabled" \in Features /\ TRUE \in BOOLEAN
      BY DEF Features
    <3>3. QED
      BY <1>4, <3>2, AsideKeeps
  <2>3. QED
    BY <2>1, <2>2
<1>5. ASSUME NEW a \in Registrations, NEW enabled \in BOOLEAN,
             SetCollectionEnabled(a, enabled) \/ SetPayoutEnabled(a, enabled)
      PROVE  IInv'
  <2>1. PICK f \in Features : SetFeature(a, f, enabled)
    BY <1>5 DEF SetCollectionEnabled, SetPayoutEnabled, Features
  <2>2. PICK e \in Emails : TRUE
    BY EmailAssumption
  <2>3. QED
    BY <2>1, <2>2, AsideKeeps
<1>6. ASSUME UNCHANGED vars PROVE IInv'
  <2>1. UNCHANGED <<account, owner, roles, tenant, review, verified, flags, configs, mails, job,
                    decided, active, worked, converted, lost, tried, steps, scene, faults>>
    BY <1>6 DEF vars, accounts, records, history, bounds
  <2>2. Types' /\ ProfilesFit' /\ TenantsFit' /\ AccountsApart' /\ ConfigsApart'
    BY <2>1 DEF IInv, Types, ProfilesFit, TenantsFit, AccountsApart, ConfigsApart, Exists
  <2>3. JobsGood'
    BY <2>1 DEF IInv, JobsGood, Good, OwnAccount, Exists, GetActive
  <2>4. OneTenantPerEmail' /\ TenantKeepsOwner' /\ NoOrphanUnlessFault'
    BY <2>1 DEF IInv, OneTenantPerEmail, TenantKeepsOwner, NoOrphanUnlessFault, Registering, Exists
  <2>5. MailOnlyCommitted' /\ OneActiveConfig' /\ OnlyActiveTenantsWork'
    BY <2>1 DEF IInv, MailOnlyCommitted, OneActiveConfig, OnlyActiveTenantsWork, Exists
  <2>6. QED
    BY <2>2, <2>3, <2>4, <2>5 DEF IInv
<1>7. QED
  <2>1. CASE Next
    BY <1>1, <1>2, <1>3, <1>4, <1>5, <2>1, CrashKeeps DEF Next
  <2>2. QED
    BY <1>6, <2>1

(* The inductive invariant holds throughout.                               *)
LEMMA Invariant == Spec => []IInv
BY InitHolds, StepKeeps, PTL DEF Spec

(* Every variable keeps its type; a profile has an account, and a tenant a *)
(* verification record, in every handler.                                  *)
THEOREM TypeCorrect == Spec => []TypeOK
<1>1. IInv => TypeOK
  BY DEF IInv, Types, ProfilesFit, TenantsFit, TypeOK
<1>2. QED
  BY <1>1, Invariant, PTL

(* However many registrations of an address run at once, fail, are undone  *)
(* or tried again, it gets at most one tenant, unless an attempt was       *)
(* committed and told that it failed (onboarding.register).                *)
THEOREM OneTenant == Spec => []OneTenantPerEmail
<1>1. IInv => OneTenantPerEmail
  BY DEF IInv
<1>2. QED
  BY <1>1, Invariant, PTL

(* A tenant keeps its owner's account but for --force, unless its own      *)
(* attempt was committed and told that it failed: no compensation takes    *)
(* the account of another attempt (onboarding.register: except Exception,  *)
(* delete_user).                                                           *)
THEOREM OwnerKept == Spec => []TenantKeepsOwner
<1>1. IInv => TenantKeepsOwner
  BY DEF IInv
<1>2. QED
  BY <1>1, Invariant, PTL

(* Without a fault no account is left without its tenant.                  *)
THEOREM NoOrphan == Spec => []NoOrphanUnlessFault
<1>1. IInv => NoOrphanUnlessFault
  BY DEF IInv
<1>2. QED
  BY <1>1, Invariant, PTL

(* No e-mail announces what was not committed (admin_tenants.py: the       *)
(* routes send after db.commit).                                           *)
THEOREM MailsTell == Spec => []MailOnlyCommitted
<1>1. IInv => MailOnlyCommitted
  BY DEF IInv
<1>2. QED
  BY <1>1, Invariant, PTL

(* The unique indexes leave a tenant one active configuration of each      *)
(* kind, however many changes overlap (set_mode, set_commission_rate).     *)
THEOREM OneConfig == Spec => []OneActiveConfig
<1>1. IInv => OneActiveConfig
  BY DEF IInv
<1>2. QED
  BY <1>1, Invariant, PTL

(* Only a tenant that was active is ever served (core/context.py).         *)
THEOREM GateHolds == Spec => []OnlyActiveTenantsWork
<1>1. IInv => OnlyActiveTenantsWork
  BY DEF IInv
<1>2. QED
  BY <1>1, Invariant, PTL

----------------------------------------------------------------------------
(* Registration implements TenantAccounts *)

Accounts == {e \in Emails : account[e] # "none"}
Tenants  == {a \in Registrations : Exists(a)}
Kept     == Accounts' = Accounts /\ owner' = owner /\ Tenants' = Tenants /\ lost' = lost

(* A new account is opened.                                                *)
LEMMA NewAccountOpens ==
    ASSUME IInv, NEW a \in Registrations, NewAccount(EmailOf[a]), UNCHANGED <<tenant, lost>>
    PROVE  Promise!Next
<1> DEFINE e == EmailOf[a]
<1>1. e \in Emails
  BY EmailAssumption
<1>2. /\ account[e] = "none" /\ account' = [account EXCEPT ![e] = "unconfirmed"]
      /\ owner' = [owner EXCEPT ![e] = NoTenant]
  BY DEF NewAccount
<1>3. owner[e] = NoTenant
  BY <1>1, <1>2 DEF IInv, ProfilesFit
<1>4. owner' = owner
  BY <1>2, <1>3 DEF IInv, Types
<1>5. Accounts' = Accounts \cup {e} /\ e \notin Accounts
  BY <1>1, <1>2 DEF Accounts, IInv, Types
<1>6. Tenants' = Tenants
  BY DEF Tenants, Exists
<1> HIDE DEF e
<1>7. Promise!Open(e)
  BY <1>4, <1>5, <1>6 DEF Promise!Open, Accounts, Tenants
<1>8. QED
  BY <1>1, <1>7 DEF Promise!Next

(* The account of a registration is there, and no attempt was told that it *)
(* registered its address; before the commit it belongs to no tenant.      *)
LEMMA OwnIsVacant ==
    ASSUME IInv, NEW w \in Workers, job[w].phase \in InFlight
    PROVE  /\ job[w].a \in Registrations
           /\ EmailOf[job[w].a] \in Emails
           /\ EmailOf[job[w].a] \in Accounts
           /\ Promise!Vacant(EmailOf[job[w].a])
           /\ job[w].phase = "records" => owner[EmailOf[job[w].a]] = NoTenant
<1>1. job[w] \in [phase : {"checked", "created", "records", "undo", "verify", "alert"},
                  a : Registrations]
  BY JobKinds DEF IInv, Types, InFlight
<1>2. PICK a \in Registrations : a = job[w].a
  BY <1>1
<1>3. EmailOf[a] \in Emails /\ OwnAccount(a)
  BY <1>2, EmailAssumption DEF IInv, JobsGood, Good
<1>4. job[w].phase = "records" => owner[EmailOf[a]] = NoTenant
  BY <1>2 DEF IInv, JobsGood, Good
<1>5. EmailOf[a] \in Accounts /\ Promise!Vacant(EmailOf[a])
  BY <1>3 DEF Accounts, OwnAccount, Promise!Vacant
<1>6. QED
  BY <1>2, <1>3, <1>4, <1>5

(* The commit of a registration makes a tenant, whatever its attempt is    *)
(* told, or nothing.                                                       *)
LEMMA CommitRegisters ==
    ASSUME IInv, NEW w \in Workers, CommitRegistration(w) \/ CommitAnswerLost(w)
    PROVE  Promise!Next \/ Kept
<1>1. job[w].phase = "records" /\ job[w].phase \in InFlight
  BY DEF CommitRegistration, CommitAnswerLost, At, InFlight
<1>2. PICK a \in Registrations : a = job[w].a
  BY <1>1, OwnIsVacant
<1> DEFINE e == EmailOf[a]
<1>3. /\ e \in Emails /\ e \in Accounts /\ Promise!Vacant(e) /\ owner[e] = NoTenant
  BY <1>1, <1>2, OwnIsVacant
<1>4. lost' = lost \/ lost' = lost \cup {a}
  BY <1>2 DEF CommitRegistration, CommitAnswerLost, history
<1>5. CASE RegisterTenant(a)
  <2>1. /\ tenant' = [tenant EXCEPT ![a] = "PENDING_VERIFICATION"]
        /\ owner' = [owner EXCEPT ![e] = a] /\ account' = account
    BY <1>5 DEF RegisterTenant
  <2>2. Tenants' = Tenants \cup {a} /\ Accounts' = Accounts
    BY <2>1 DEF Tenants, Accounts, Exists, IInv, Types
  <2> HIDE DEF e
  <2>3. Promise!Register(a)
    BY <1>3, <1>4, <2>1, <2>2 DEF e, Promise!Register, Tenants, Accounts
  <2>4. QED
    BY <2>3 DEF Promise!Next
<1>6. CASE UNCHANGED <<accounts, records, history>>
  BY <1>6 DEF accounts, records, history, Kept, Accounts, Tenants, Exists
<1>7. QED
  BY <1>2, <1>5, <1>6 DEF CommitRegistration, CommitAnswerLost

(* The compensation closes an account of an address that no attempt was    *)
(* told it registered.                                                     *)
LEMMA DeleteCloses ==
    ASSUME IInv, NEW w \in Workers, DeleteUser(w)
    PROVE  Promise!Next
<1>1. PICK e \in Emails : /\ e = EmailOf[job[w].a]
                          /\ e \in Accounts /\ Promise!Vacant(e)
  BY OwnIsVacant DEF DeleteUser, At, InFlight
<1>2. /\ account' = [account EXCEPT ![e] = "none"]
      /\ owner' = [owner EXCEPT ![e] = NoTenant]
      /\ UNCHANGED <<records, lost>>
  BY <1>1 DEF DeleteUser, history
<1>3. Accounts' = Accounts \ {e}
  BY <1>1, <1>2 DEF Accounts, IInv, Types
<1>4. Tenants' = Tenants
  BY <1>2 DEF records, Tenants, Exists
<1>5. Promise!Close(e)
  BY <1>1, <1>2, <1>3, <1>4 DEF Promise!Close, Accounts, Tenants
<1>6. QED
  BY <1>1, <1>5 DEF Promise!Next

(* The script takes an account from its tenant, or changes only roles.     *)
LEMMA AssignConverts ==
    ASSUME IInv, NEW w \in Workers, AssignSuperAdmin(w)
    PROVE  Promise!Next \/ Kept
<1>1. job[w] \in [phase : {"convert"}, e : Emails, was : Registrations \cup {NoTenant},
                  held : SUBSET Roles]
  BY JobKinds DEF AssignSuperAdmin, At, IInv, Types
<1>2. PICK e \in Emails : e = job[w].e
  BY <1>1
<1>3. account' = account /\ UNCHANGED <<records, lost>>
  BY DEF AssignSuperAdmin, accounts
<1>4. Accounts' = Accounts /\ Tenants' = Tenants /\ lost' = lost
  BY <1>3 DEF Accounts, records, Tenants, Exists
<1>5. owner' = owner \/ owner' = [owner EXCEPT ![e] = owner[e]]
                     \/ owner' = [owner EXCEPT ![e] = NoTenant]
  BY <1>2 DEF AssignSuperAdmin, accounts
<1>6. CASE owner' = owner
  BY <1>4, <1>6 DEF Kept
<1>7. CASE owner' = [owner EXCEPT ![e] = owner[e]]
  BY <1>4, <1>7 DEF Kept, IInv, Types
<1>8. CASE owner' = [owner EXCEPT ![e] = NoTenant]
  <2>1. CASE owner[e] = NoTenant
    BY <1>4, <1>8, <2>1 DEF Kept, IInv, Types
  <2>2. CASE owner[e] # NoTenant
    <3>1. Promise!Convert(e)
      BY <1>4, <1>8, <2>2 DEF Promise!Convert, Accounts, Tenants
    <3>2. QED
      BY <3>1 DEF Promise!Next
  <2>3. QED
    BY <2>1, <2>2
<1>9. QED
  BY <1>5, <1>6, <1>7, <1>8

(* Decisions change the status of a tenant there is.                       *)
LEMMA DecisionKeeps ==
    ASSUME IInv, NEW w \in Workers, CommitDecision(w)
    PROVE  Kept
<1>1. job[w] \in [phase : {"loaded", "written"}, a : Registrations, d : Decisions,
                  status : TenantStatus, review : ReviewStatus, to : SUBSET Emails]
  BY JobKinds DEF CommitDecision, At, IInv, Types
<1>2. PICK a \in Registrations, d \in Decisions : a = job[w].a /\ d = job[w].d
  BY <1>1
<1>3. Exists(a)
  BY <1>2 DEF CommitDecision, At, IInv, JobsGood, Good
<1>4. StatusAfter[d] # "NONE"
  BY DEF StatusAfter, Decisions
<1>5. /\ tenant' = [tenant EXCEPT ![a] =
                       IF WritesTenant(job[w]) THEN StatusAfter[d] ELSE tenant[a]]
      /\ UNCHANGED <<accounts, lost>>
  BY <1>2 DEF CommitDecision
<1>6. Tenants' = Tenants
  BY <1>3, <1>4, <1>5 DEF Tenants, Exists, IInv, Types
<1>7. QED
  BY <1>5, <1>6 DEF accounts, Kept, Accounts

(* Confirming an address leaves its account open.                          *)
LEMMA ConfirmKeeps ==
    ASSUME IInv, NEW e \in Emails, ConfirmEmail(e)
    PROVE  Kept
<1>1. account[e] = "unconfirmed" /\ account' = [account EXCEPT ![e] = "confirmed"]
  BY DEF ConfirmEmail
<1>2. Accounts' = Accounts
  BY <1>1 DEF Accounts, IInv, Types
<1>3. QED
  BY <1>2 DEF ConfirmEmail, records, history, Kept, Tenants, Exists

(* The steps that touch neither accounts nor tenants.                      *)
LEMMA OthersKeep ==
    ASSUME NEW w \in Workers,
           \/ \E a \in Registrations : CheckEmail(w, a)
           \/ CreateUserRefused(w) \/ CreateLocalRecords(w) \/ DeleteUserFails(w)
           \/ SendVerification(w) \/ SendAdminAlert(w)
           \/ Decide(w) /\ ~CommitDecision(w)
           \/ Use(w) /\ ~AssignSuperAdmin(w)
           \/ Crash(w)
    PROVE  UNCHANGED <<account, owner, tenant, lost>>
BY DEF CheckEmail, CreateUserRefused, CreateLocalRecords, DeleteUserFails, SendVerification,
       SendAdminAlert, Decide, Approve, Reject, RequestMoreInformation, Suspend, Reactivate,
       LoadTenant, SetMode, SetCommissionRate, LoadConfig, WriteDecision, NotifyOwner,
       StoreConfig, CommitConfig, Use, Admit, ServeTenant, ReadProfile, Crash,
       accounts, records, history

(* Every step is one of TenantAccounts or changes nothing it tells.        *)
LEMMA PromiseStep == ASSUME IInv, [Next]_vars PROVE Promise!Next \/ Kept
<1>1. ASSUME UNCHANGED <<account, owner, tenant, lost>> PROVE Kept
  BY <1>1 DEF Kept, Accounts, Tenants, Exists
<1>2. ASSUME NEW w \in Workers, CreateUser(w) \/ CreateUserTimesOut(w)
      PROVE  Promise!Next
  <2>1. job[w] \in [phase : {"checked", "created", "records", "undo", "verify", "alert"},
                    a : Registrations]
    BY <1>2, JobKinds DEF CreateUser, CreateUserTimesOut, At, IInv, Types
  <2>2. PICK a \in Registrations : a = job[w].a
    BY <2>1
  <2>3. NewAccount(EmailOf[a]) /\ UNCHANGED <<tenant, lost>>
    BY <1>2, <2>2 DEF CreateUser, CreateUserTimesOut, records, history
  <2>4. QED
    BY <2>3, NewAccountOpens
<1>3. ASSUME NEW w \in Workers, Register(w) \/ Decide(w) \/ Use(w) \/ Crash(w)
      PROVE  Promise!Next \/ Kept
  BY <1>1, <1>2, <1>3, OthersKeep, CommitRegisters, DeleteCloses, AssignConverts, DecisionKeeps
     DEF Register
<1>4. ASSUME NEW e \in Emails, ResendVerification(e) \/ ConfirmEmail(e) \/ GetAccountStatus(e)
      PROVE  Kept
  BY <1>1, <1>4, ConfirmKeeps DEF ResendVerification, GetAccountStatus, accounts, records, history
<1>5. ASSUME NEW a \in Registrations, NEW enabled \in BOOLEAN,
             SetCollectionEnabled(a, enabled) \/ SetPayoutEnabled(a, enabled)
      PROVE  Kept
  BY <1>1, <1>5 DEF SetCollectionEnabled, SetPayoutEnabled, SetFeature, accounts, history
<1>6. ASSUME UNCHANGED vars PROVE Kept
  BY <1>1, <1>6 DEF vars, accounts, records, history
<1>7. QED
  BY <1>3, <1>4, <1>5, <1>6 DEF Next

(***************************************************************************)
(* The registration saga implements TenantAccounts: for any number of      *)
(* attempts at the same time, wherever one dies and whatever Supabase and  *)
(* the commit answer, an attempt that was told it registered the address   *)
(* is its only one from then on, and no compensation closes its account.   *)
(***************************************************************************)
THEOREM RegistrationHolds == Spec => RegistrationKept
<1>1. Init => Promise!Init
  BY DEF Init, Promise!Init, Exists
<1>2. IInv /\ [Next]_vars =>
        [Promise!Next]_<<{e \in Emails : account[e] # "none"}, owner,
                         {a \in Registrations : Exists(a)}, lost>>
  BY PromiseStep DEF Kept, Accounts, Tenants
<1>3. QED
  BY <1>1, <1>2, Invariant, PTL DEF Spec, RegistrationKept, Promise!Spec
=============================================================================
