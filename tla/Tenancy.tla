------------------------------ MODULE Tenancy ------------------------------
(***************************************************************************)
(* Tenants: their registration (onboarding.py), their review and life      *)
(* (admin_tenants.py), their settlement mode and commercial terms          *)
(* (settlement_config.py, commercial_terms.py), the accounts of their      *)
(* owners, and the gate every request of a tenant passes (core/context.py).*)
(*                                                                         *)
(* A registration spans two systems: the account is created at Supabase,   *)
(* where a trigger inserts the profile, and the tenant's records in one    *)
(* transaction after it; a failure of the second is compensated by         *)
(* deleting the account.  A commit may be carried out and yet raise, its   *)
(* answer lost: then the account of a tenant there is gets deleted.        *)
(* E-mails follow the commit, best-effort, and are recorded by a commit of *)
(* their own.                                                              *)
(*                                                                         *)
(* Super admins decide with no lock on what they read.  An attribute set   *)
(* to the value it was loaded with is not written; a row that is written   *)
(* stays locked to the commit.                                             *)
(***************************************************************************)
EXTENDS Naturals, FiniteSets

CONSTANTS
    Registrations,  \* attempts to register, each with its tenant
    Emails,
    EmailOf,        \* the owner's e-mail address of each attempt
    Modes,          \* settlement modes
    Rates,          \* commission rates, in 0..100 percent
    Workers,        \* requests and scripts in progress at the same time
    Scenes,         \* bound: what is tried in one behaviour
    MaxFaults       \* bound on crashes, lost answers and failures of the account service

Decisions == {"approve", "reject", "more", "suspend", "reactivate"}
Acts      == Decisions \cup {"flags", "mode", "terms", "convert", "force", "work"}

ASSUME EmailAssumption == EmailOf \in [Registrations -> Emails]
ASSUME SceneAssumption ==
    Scenes \subseteq [who : SUBSET Registrations, acts : SUBSET Acts, steps : Nat]
ASSUME FaultAssumption == MaxFaults \in Nat

VARIABLES
    account,    \* the account of each e-mail address at Supabase
    owner,      \* the tenant of its profile
    roles,      \* the roles of its profile
    tenant,     \* the status of each tenant
    review,     \* the status of its verification record
    verified,   \* tenants whose owner's address was seen confirmed
    flags,      \* what each tenant is allowed to use
    configs,    \* the active settlement configurations and terms, numbered
    mails,      \* the e-mails recorded as sent
    job,        \* what each request is doing
    tried,      \* attempts to register so far
    steps,      \* administrative requests so far
    scene,      \* what is tried in this behaviour
    decided,    \* decisions ever committed (history)
    active,     \* tenants that have been active (history)
    worked,     \* tenants for which a request was carried out (history)
    converted,  \* addresses whose account was taken from its tenant (history)
    lost,       \* attempts committed, and told that they failed (history)
    faults      \* crashes, lost answers and failures of the account service so far

accounts == <<account, owner, roles>>
records  == <<tenant, review, verified, flags, configs>>
history  == <<decided, active, worked, converted, lost>>
bounds   == <<tried, steps, scene, faults>>
vars     == <<accounts, records, mails, job, history, bounds>>

----------------------------------------------------------------------------
(* State *)

NoTenant     == "no tenant"
ASSUME RegistrationAssumption == NoTenant \notin Registrations
AccountState == {"none", "unconfirmed", "confirmed"}
Roles        == {"TENANT_OWNER", "SUPER_ADMIN"}
TenantStatus == {"NONE", "PENDING_VERIFICATION", "ACTIVE", "REJECTED",
                 "MORE_INFORMATION_REQUIRED", "SUSPENDED"}
ReviewStatus == {"NONE", "PENDING_VERIFICATION", "APPROVED", "REJECTED",
                 "MORE_INFORMATION_REQUIRED"}
Features     == {"collection_enabled", "payout_enabled"}
MaxSteps     == 8 \* bound on the administrative requests of any scene
ConfigKinds  == {"mode", "terms"}
Configs      == [a : Registrations, kind : ConfigKinds, value : Modes \cup Rates, n : 1..MaxSteps]
Mails        == Registrations \X (Decisions \cup {"verify", "alert"})

(***************************************************************************)
(* What a request is doing.                                                *)
(*   checked, created, records: a registration, before and after the       *)
(*     account exists and the records are written                          *)
(*   undo: rolled back, the account is yet to be deleted                   *)
(*   verify, alert: committed, the e-mails are yet to be sent              *)
(*   loaded, written, notify: a decision on what was read                  *)
(*   config, stored: a new mode or rate, and the active one that was read  *)
(*   serving: a tenant's request that passed the gate                      *)
(*   convert: the script that makes a super admin                          *)
(***************************************************************************)
IdleJob == [phase |-> "idle"]
Jobs ==
    {IdleJob}
        \cup [phase : {"checked", "created", "records", "undo", "verify", "alert"}, a : Registrations]
        \cup [phase : {"loaded", "written"}, a : Registrations, d : Decisions,
              status : TenantStatus, review : ReviewStatus, to : SUBSET Emails]
        \cup [phase : {"notify"}, a : Registrations, d : Decisions, to : SUBSET Emails]
        \cup [phase : {"config", "stored"}, a : Registrations, new : Configs, old : SUBSET Configs]
        \cup [phase : {"serving"}, a : Registrations]
        \cup [phase : {"convert"}, e : Emails, was : Registrations \cup {NoTenant},
              held : SUBSET Roles]

To(w, j) == job' = [job EXCEPT ![w] = j]
At(w, phase) == job[w].phase = phase
Exists(a) == tenant[a] # "NONE"

Init ==
    /\ account = [e \in Emails |-> "none"]
    /\ owner = [e \in Emails |-> NoTenant]
    /\ roles = [e \in Emails |-> {}]
    /\ tenant = [a \in Registrations |-> "NONE"]
    /\ review = [a \in Registrations |-> "NONE"]
    /\ verified = {} /\ flags = {} /\ configs = {} /\ mails = {}
    /\ job = [w \in Workers |-> IdleJob]
    /\ tried = {} /\ steps = 0 /\ faults = 0
    /\ scene \in Scenes
    /\ decided = {} /\ active = {} /\ worked = {} /\ converted = {} /\ lost = {}

----------------------------------------------------------------------------
(* Registration *)

EmailInUse(e) == account[e] # "none"

CheckEmail(w, a) ==
    /\ job[w] = IdleJob
    /\ a \in scene.who \ tried
    /\ tried' = tried \cup {a}
    /\ IF EmailInUse(EmailOf[a]) THEN job' = job      \* ConflictError
                                 ELSE To(w, [phase |-> "checked", a |-> a])
    /\ UNCHANGED <<accounts, records, mails, history, steps, scene, faults>>

(* The trigger inserts a profile with neither tenant nor role.             *)
NewAccount(e) ==
    /\ account[e] = "none"
    /\ account' = [account EXCEPT ![e] = "unconfirmed"]
    /\ owner' = [owner EXCEPT ![e] = NoTenant]
    /\ roles' = [roles EXCEPT ![e] = {}]

CreateUserOrReuse(w) == \* an account that exists already is taken for a new one
    /\ At(w, "checked")
    /\ NewAccount(EmailOf[job[w].a]) \/ (EmailInUse(EmailOf[job[w].a]) /\ UNCHANGED accounts)
    /\ To(w, [job[w] EXCEPT !.phase = "created"])
    /\ UNCHANGED <<records, mails, history, bounds>>
CreateUser(w) ==
    /\ At(w, "checked")
    /\ NewAccount(EmailOf[job[w].a])
    /\ To(w, [job[w] EXCEPT !.phase = "created"])
    /\ UNCHANGED <<records, mails, history, bounds>>

(* The address is taken by now, or Supabase refuses: nothing was created.  *)
CreateUserRefused(w) ==
    /\ At(w, "checked")
    /\ To(w, IdleJob)
    /\ UNCHANGED <<accounts, records, mails, history, bounds>>

(* The account is created and the answer lost: nothing undoes it.          *)
CreateUserTimesOut(w) ==
    /\ At(w, "checked")
    /\ faults < MaxFaults
    /\ faults' = faults + 1
    /\ NewAccount(EmailOf[job[w].a])
    /\ To(w, IdleJob)
    /\ UNCHANGED <<records, mails, history, tried, steps, scene>>

(* The records are written, or something fails and all is rolled back.     *)
CreateLocalRecordsOnly(w) == \* a failure is not compensated
    /\ At(w, "created")
    /\ \/ account[EmailOf[job[w].a]] # "none" /\ To(w, [job[w] EXCEPT !.phase = "records"])
       \/ To(w, IdleJob)
    /\ UNCHANGED <<accounts, records, mails, history, bounds>>
CreateLocalRecords(w) ==
    /\ At(w, "created")
    /\ \/ account[EmailOf[job[w].a]] # "none" /\ To(w, [job[w] EXCEPT !.phase = "records"])
       \/ To(w, [job[w] EXCEPT !.phase = "undo"])
    /\ UNCHANGED <<accounts, records, mails, history, bounds>>

RegisterTenant(a) ==
    /\ account[EmailOf[a]] # "none"
    /\ tenant' = [tenant EXCEPT ![a] = "PENDING_VERIFICATION"]
    /\ review' = [review EXCEPT ![a] = "PENDING_VERIFICATION"]
    /\ owner' = [owner EXCEPT ![EmailOf[a]] = a]
    /\ roles' = [roles EXCEPT ![EmailOf[a]] = @ \cup {"TENANT_OWNER"}]
    /\ UNCHANGED <<account, verified, flags, configs>>

CommitRegistration(w) ==
    /\ At(w, "records")
    /\ \/ RegisterTenant(job[w].a) /\ To(w, [job[w] EXCEPT !.phase = "verify"])
       \/ UNCHANGED <<accounts, records>> /\ To(w, [job[w] EXCEPT !.phase = "undo"])
    /\ UNCHANGED <<mails, history, bounds>>

(* The commit is carried out and its answer lost: what commit() raises is  *)
(* taken for a failure, and the rollback finds nothing to roll back.       *)
CommitAnswerLost(w) ==
    /\ At(w, "records")
    /\ faults < MaxFaults
    /\ faults' = faults + 1
    /\ RegisterTenant(job[w].a)
    /\ lost' = lost \cup {job[w].a}
    /\ To(w, [job[w] EXCEPT !.phase = "undo"])
    /\ UNCHANGED <<mails, decided, active, worked, converted, tried, steps, scene>>

(* The profile and its roles go with the account, a tenant stays.          *)
DeleteUserOnly(w) == \* the profile and its roles are left behind
    /\ At(w, "undo")
    /\ account' = [account EXCEPT ![EmailOf[job[w].a]] = "none"]
    /\ To(w, IdleJob)
    /\ UNCHANGED <<owner, roles, records, mails, history, bounds>>
DeleteUser(w) ==
    /\ At(w, "undo")
    /\ account' = [account EXCEPT ![EmailOf[job[w].a]] = "none"]
    /\ owner' = [owner EXCEPT ![EmailOf[job[w].a]] = NoTenant]
    /\ roles' = [roles EXCEPT ![EmailOf[job[w].a]] = {}]
    /\ To(w, IdleJob)
    /\ UNCHANGED <<records, mails, history, bounds>>

(* An error answer is not even looked at.                                  *)
DeleteUserFails(w) ==
    /\ At(w, "undo")
    /\ faults < MaxFaults
    /\ faults' = faults + 1
    /\ To(w, IdleJob)
    /\ UNCHANGED <<accounts, records, mails, history, tried, steps, scene>>

(***************************************************************************)
(* An e-mail is sent and recorded, or recorded as failed.  A transport     *)
(* error from Supabase, asked for the link, ends the request; the tenant   *)
(* is committed all the same.                                              *)
(***************************************************************************)
Mail(m) == mails' = mails \cup {m} \/ mails' = mails

SendVerificationInside(w) == \* within the try whose failure deletes the account
    /\ At(w, "verify")
    /\ \/ Mail(<<job[w].a, "verify">>) /\ To(w, [job[w] EXCEPT !.phase = "alert"])
       \/ mails' = mails /\ To(w, [job[w] EXCEPT !.phase = "undo"])
    /\ UNCHANGED <<accounts, records, history, bounds>>
SendVerification(w) ==
    /\ At(w, "verify")
    /\ \/ Mail(<<job[w].a, "verify">>) /\ To(w, [job[w] EXCEPT !.phase = "alert"])
       \/ mails' = mails /\ To(w, IdleJob)
    /\ UNCHANGED <<accounts, records, history, bounds>>

SendAdminAlert(w) ==
    /\ At(w, "alert")
    /\ Mail(<<job[w].a, "alert">>)
    /\ To(w, IdleJob)
    /\ UNCHANGED <<accounts, records, history, bounds>>

(* An account without a tenant is told the same and sent nothing.          *)
ResendVerification(e) ==
    /\ owner[e] # NoTenant
    /\ Mail(<<owner[e], "verify">>)
    /\ UNCHANGED <<accounts, records, job, history, bounds>>

(* The owner follows the link; Supabase confirms the address.              *)
ConfirmEmail(e) ==
    /\ account[e] = "unconfirmed"
    /\ <<owner[e], "verify">> \in mails
    /\ account' = [account EXCEPT ![e] = "confirmed"]
    /\ UNCHANGED <<owner, roles, records, mails, job, history, bounds>>

GetAccountStatus(e) ==
    /\ owner[e] # NoTenant
    /\ account[e] = "confirmed"
    /\ verified' = verified \cup {owner[e]}
    /\ UNCHANGED <<accounts, tenant, review, flags, configs, mails, job, history, bounds>>

----------------------------------------------------------------------------
(* Super admins *)

Step(act) == act \in scene.acts /\ steps < scene.steps /\ steps < MaxSteps /\ steps' = steps + 1

StatusAfter == [d \in Decisions |->
    CASE d \in {"approve", "reactivate"} -> "ACTIVE"
      [] d = "reject"  -> "REJECTED"
      [] d = "more"    -> "MORE_INFORMATION_REQUIRED"
      [] d = "suspend" -> "SUSPENDED"]
(* A suspension or reactivation does not touch the verification record.    *)
ReviewAfter(d, seen) ==
    CASE d = "approve" -> "APPROVED"
      [] d = "reject"  -> "REJECTED"
      [] d = "more"    -> "MORE_INFORMATION_REQUIRED"
      [] d \in {"suspend", "reactivate"} -> seen

OwnersOf(a) == {e \in Emails : owner[e] = a}

(* No status is required: any decision may be taken at any time.           *)
LoadTenant(w, a, d) ==
    /\ job[w] = IdleJob
    /\ Exists(a)
    /\ Step(d)
    /\ To(w, [phase |-> "loaded", a |-> a, d |-> d, status |-> tenant[a], review |-> review[a],
              to |-> OwnersOf(a)])
    /\ UNCHANGED <<accounts, records, mails, history, tried, scene, faults>>

Approve(w, a)                == LoadTenant(w, a, "approve")
Reject(w, a)                 == LoadTenant(w, a, "reject")
RequestMoreInformation(w, a) == LoadTenant(w, a, "more")
Suspend(w, a)                == LoadTenant(w, a, "suspend")
Reactivate(w, a)             == LoadTenant(w, a, "reactivate")

(***************************************************************************)
(* The rows a decision writes: the tenant's if its status changes, and the *)
(* verification record, which always gets the time of a review.  The       *)
(* UPDATE waits for a decision that wrote one of them.                     *)
(***************************************************************************)
Reviews        == {"approve", "reject", "more"}
WritesTenant(j) == StatusAfter[j.d] # j.status
WritesReview(j) == ReviewAfter(j.d, j.review) # j.review
Rows(j) == {r \in {"tenant", "review"} :
              IF r = "tenant" THEN WritesTenant(j) ELSE j.d \in Reviews}
Locked(a) == UNION {Rows(job[w]) : w \in {u \in Workers : At(u, "written") /\ job[u].a = a}}
WriteDecision(w) ==
    /\ At(w, "loaded")
    /\ Rows(job[w]) \cap Locked(job[w].a) = {}
    /\ To(w, [job[w] EXCEPT !.phase = "written"])
    /\ UNCHANGED <<accounts, records, mails, history, bounds>>

CommitDecisionOrNot(w) == \* the e-mail is sent even if the commit fails
    /\ At(w, "written")
    /\ To(w, [phase |-> "notify", a |-> job[w].a, d |-> job[w].d, to |-> job[w].to])
    /\ UNCHANGED <<accounts, records, mails, history, bounds>>
CommitDecision(w) ==
    /\ At(w, "written")
    /\ LET j == job[w] IN
       /\ tenant' = [tenant EXCEPT ![j.a] = IF WritesTenant(j) THEN StatusAfter[j.d] ELSE @]
       /\ review' = [review EXCEPT ![j.a] = IF WritesReview(j) THEN ReviewAfter(j.d, j.review) ELSE @]
       /\ decided' = decided \cup {<<j.a, j.d>>}
       /\ active' = IF tenant'[j.a] = "ACTIVE" THEN active \cup {j.a} ELSE active
       /\ To(w, [phase |-> "notify", a |-> j.a, d |-> j.d,
                 to |-> IF j.d \in Reviews THEN j.to ELSE OwnersOf(j.a)])
    /\ UNCHANGED <<accounts, verified, flags, configs, mails, worked, converted, lost, bounds>>

(* To the owner read before the review, or after a suspension, if any.     *)
NotifyOwner(w) ==
    /\ At(w, "notify")
    /\ IF job[w].to = {} THEN mails' = mails ELSE Mail(<<job[w].a, job[w].d>>)
    /\ To(w, IdleJob)
    /\ UNCHANGED <<accounts, records, history, bounds>>

SetFeature(a, f, enabled) ==
    /\ Exists(a)
    /\ Step("flags")
    /\ flags' = IF enabled THEN flags \cup {<<a, f>>} ELSE flags \ {<<a, f>>}
    /\ UNCHANGED <<accounts, tenant, review, verified, configs, mails, job, history,
                   tried, scene, faults>>

SetCollectionEnabled(a, enabled) == SetFeature(a, "collection_enabled", enabled)
SetPayoutEnabled(a, enabled)     == SetFeature(a, "payout_enabled", enabled)

GetActive(a, kind) == {c \in configs : c.a = a /\ c.kind = kind}

LoadConfig(w, a, kind, value) ==
    /\ job[w] = IdleJob
    /\ Exists(a)
    /\ Step(kind)
    /\ To(w, [phase |-> "config", a |-> a, old |-> GetActive(a, kind),
              new |-> [a |-> a, kind |-> kind, value |-> value, n |-> steps + 1]])
    /\ UNCHANGED <<accounts, records, mails, history, tried, scene, faults>>

(* The mode there is already is refused; a rate may be set anew.           *)
SetMode(w, a, m) ==
    /\ \A c \in GetActive(a, "mode") : c.value # m
    /\ LoadConfig(w, a, "mode", m)
SetCommissionRate(w, a, rate) == LoadConfig(w, a, "terms", rate)

(* One active row of each kind for a tenant: two unique indexes, which     *)
(* also make an insert wait for another that is about to commit.           *)
TakenNever(w) == FALSE \* without uq_tenant_settlement_config_active
Taken(w)   == GetActive(job[w].a, job[w].new.kind) \ job[w].old # {}
Storing(w) ==
    \E u \in Workers : /\ At(u, "stored")
                       /\ job[u].a = job[w].a
                       /\ job[u].new.kind = job[w].new.kind
StoreConfig(w) ==
    /\ At(w, "config")
    /\ ~Storing(w)
    /\ IF Taken(w) THEN To(w, IdleJob)      \* IntegrityError
                   ELSE To(w, [job[w] EXCEPT !.phase = "stored"])
    /\ UNCHANGED <<accounts, records, mails, history, bounds>>
CommitConfig(w) ==
    /\ At(w, "stored")
    /\ configs' = (configs \ job[w].old) \cup {job[w].new}
    /\ To(w, IdleJob)
    /\ UNCHANGED <<accounts, tenant, review, verified, flags, mails, history, bounds>>

----------------------------------------------------------------------------
(* A tenant's requests, and the super-admin script *)

CurrentUser(e) == account[e] # "none"
Permitted(e)   == "TENANT_OWNER" \in roles[e]
AdmitAny(w, e) == \* the tenant's status is not looked at
    /\ job[w] = IdleJob
    /\ CurrentUser(e) /\ owner[e] # NoTenant
    /\ Permitted(e)
    /\ Step("work")
    /\ To(w, [phase |-> "serving", a |-> owner[e]])
    /\ UNCHANGED <<accounts, records, mails, history, tried, scene, faults>>
Admit(w, e) ==
    /\ job[w] = IdleJob
    /\ CurrentUser(e) /\ owner[e] # NoTenant
    /\ tenant[owner[e]] = "ACTIVE"
    /\ Permitted(e)
    /\ Step("work")
    /\ To(w, [phase |-> "serving", a |-> owner[e]])
    /\ UNCHANGED <<accounts, records, mails, history, tried, scene, faults>>

(* The tenant may have been suspended since.                               *)
ServeTenant(w) ==
    /\ At(w, "serving")
    /\ worked' = worked \cup {job[w].a}
    /\ To(w, IdleJob)
    /\ UNCHANGED <<accounts, records, mails, decided, active, converted, lost, bounds>>

(* Refused without --force while the account belongs to a tenant.          *)
ReadProfile(w, e, force) ==
    /\ job[w] = IdleJob
    /\ CurrentUser(e)
    /\ Step(IF force THEN "force" ELSE "convert")
    /\ (owner[e] # NoTenant \/ "TENANT_OWNER" \in roles[e]) => force
    /\ To(w, [phase |-> "convert", e |-> e, was |-> owner[e], held |-> roles[e]])
    /\ UNCHANGED <<accounts, records, mails, history, tried, scene, faults>>

AssignSuperAdmin(w) ==
    /\ At(w, "convert")
    /\ LET j == job[w] IN
       IF account[j.e] = "none"
         THEN UNCHANGED <<accounts, converted>>      \* the profile is gone
         ELSE /\ owner' = [owner EXCEPT ![j.e] = IF j.was = NoTenant THEN @ ELSE NoTenant]
              /\ roles' = [roles EXCEPT ![j.e] = (@ \ (j.held \ {"SUPER_ADMIN"})) \cup {"SUPER_ADMIN"}]
              /\ converted' = IF j.was = NoTenant THEN converted ELSE converted \cup {j.e}
              /\ UNCHANGED account
    /\ To(w, IdleJob)
    /\ UNCHANGED <<records, mails, decided, active, worked, lost, bounds>>

Crash(w) ==
    /\ faults < MaxFaults
    /\ job[w] # IdleJob
    /\ faults' = faults + 1
    /\ To(w, IdleJob)
    /\ UNCHANGED <<accounts, records, mails, history, tried, steps, scene>>

----------------------------------------------------------------------------

Register(w) ==
    \/ \E a \in Registrations : CheckEmail(w, a)
    \/ CreateUser(w) \/ CreateUserRefused(w) \/ CreateUserTimesOut(w)
    \/ CreateLocalRecords(w) \/ CommitRegistration(w) \/ CommitAnswerLost(w)
    \/ DeleteUser(w) \/ DeleteUserFails(w)
    \/ SendVerification(w) \/ SendAdminAlert(w)
Decide(w) ==
    \/ \E a \in Registrations :
         \/ Approve(w, a) \/ Reject(w, a) \/ RequestMoreInformation(w, a)
         \/ Suspend(w, a) \/ Reactivate(w, a)
         \/ \E m \in Modes : SetMode(w, a, m)
         \/ \E rate \in Rates : SetCommissionRate(w, a, rate)
    \/ WriteDecision(w) \/ CommitDecision(w) \/ NotifyOwner(w)
    \/ StoreConfig(w) \/ CommitConfig(w)
Use(w) ==
    \/ \E e \in Emails : Admit(w, e)
    \/ ServeTenant(w)
    \/ \E e \in Emails, force \in BOOLEAN : ReadProfile(w, e, force)
    \/ AssignSuperAdmin(w)

Next ==
    \/ \E w \in Workers : Register(w) \/ Decide(w) \/ Use(w) \/ Crash(w)
    \/ \E e \in Emails : ResendVerification(e) \/ ConfirmEmail(e) \/ GetAccountStatus(e)
    \/ \E a \in Registrations, enabled \in BOOLEAN :
         SetCollectionEnabled(a, enabled) \/ SetPayoutEnabled(a, enabled)

Spec == Init /\ [][Next]_vars

----------------------------------------------------------------------------
(* Properties *)

(* Every variable has its type; a profile has an account, and a tenant a   *)
(* verification record.                                                    *)
TypeOK ==
    /\ account \in [Emails -> AccountState]
    /\ owner \in [Emails -> Registrations \cup {NoTenant}]
    /\ roles \in [Emails -> SUBSET Roles]
    /\ \A e \in Emails : account[e] = "none" => owner[e] = NoTenant /\ roles[e] = {}
    /\ tenant \in [Registrations -> TenantStatus]
    /\ review \in [Registrations -> ReviewStatus]
    /\ \A a \in Registrations : tenant[a] = "NONE" <=> review[a] = "NONE"
    /\ verified \subseteq Registrations
    /\ flags \subseteq Registrations \X Features
    /\ configs \subseteq Configs
    /\ mails \subseteq Mails
    /\ job \in [Workers -> Jobs]
    /\ tried \subseteq Registrations
    /\ steps \in 0..MaxSteps
    /\ scene \in Scenes
    /\ decided \subseteq Registrations \X Decisions
    /\ active \subseteq Registrations /\ worked \subseteq Registrations
    /\ converted \subseteq Emails /\ lost \subseteq Registrations
    /\ faults \in 0..MaxFaults

(***************************************************************************)
(* A tenant keeps its owner, whatever other attempts at its address do:    *)
(* the compensation of one never deletes the account of another.  Two ways *)
(* to lose it are left: the script's --force, and an attempt that was      *)
(* committed and told it failed, which deletes its own account             *)
(* (onboarding.register: except Exception around commit()).                *)
(***************************************************************************)
TenantKeepsOwner ==
    \A a \in Registrations : Exists(a) =>
        \/ /\ owner[EmailOf[a]] = a
           /\ account[EmailOf[a]] # "none"
           /\ "TENANT_OWNER" \in roles[EmailOf[a]]
        \/ EmailOf[a] \in converted
        \/ a \in lost

(***************************************************************************)
(* Without a crash, a lost answer or a failure of the account service, a   *)
(* registration that failed leaves no account behind (onboarding.py:       *)
(* "never leave an auth user with no tenant").                             *)
(***************************************************************************)
Registering(e) ==
    \E w \in Workers : /\ job[w].phase \in {"created", "records", "undo"}
                       /\ EmailOf[job[w].a] = e
NoOrphanUnlessFault ==
    \A e \in Emails : (account[e] # "none" /\ owner[e] = NoTenant) =>
        Registering(e) \/ faults > 0 \/ e \in converted

(***************************************************************************)
(* An e-mail never announces what was not committed: a decision, or a      *)
(* tenant to verify or to review.                                          *)
(***************************************************************************)
MailOnlyCommitted ==
    \A m \in mails : IF m[2] \in Decisions THEN m \in decided ELSE Exists(m[1])

(***************************************************************************)
(* A tenant has one active settlement configuration and one commission     *)
(* rate, although two changes may both have read the same one              *)
(* (settlement_config.set_mode, commercial_terms.set_commission_rate).     *)
(***************************************************************************)
OneActiveConfig == \A c, d \in configs : (c.a = d.a /\ c.kind = d.kind) => c = d

(***************************************************************************)
(* Nothing is done for a tenant that was never active: the gate's check of *)
(* the status and the request's work are two steps, and the status may     *)
(* change between them (core/context.py).                                  *)
(***************************************************************************)
OnlyActiveTenantsWork == worked \subseteq active

(***************************************************************************)
(* Registration as module TenantAccounts states it: whatever overlaps,     *)
(* fails or is compensated, an address gets one tenant, on an account of   *)
(* its own that the compensation of another attempt never deletes; a       *)
(* second only after the first one's attempt was told that it failed.      *)
(***************************************************************************)
Promise == INSTANCE TenantAccounts WITH
              open    <- {e \in Emails : account[e] # "none"},
              tenants <- {a \in Registrations : Exists(a)}

RegistrationKept == Promise!Spec
=============================================================================
