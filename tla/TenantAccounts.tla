--------------------------- MODULE TenantAccounts ---------------------------
(***************************************************************************)
(* What registration promises about accounts and tenants, without Supabase *)
(* and the database apart, requests, failures or e-mails.                  *)
(*                                                                         *)
(* An account may be opened and closed again any number of times before it *)
(* gets a tenant.  An attempt told that it registered its tenant is its    *)
(* address's only one from then on: the account is not closed any more and *)
(* no other tenant's.  An attempt may also make its tenant and be told     *)
(* that it failed; its account may then be closed, the tenant left without *)
(* an owner, and the address may register once more.                       *)
(* Tenancy implements it.                                                  *)
(***************************************************************************)
CONSTANTS Registrations, Emails, EmailOf, NoTenant

VARIABLES
    open,     \* the addresses that have an account
    owner,    \* the tenant each account belongs to
    tenants,  \* the attempts to register that made a tenant
    lost      \* those of them that were told they failed

(* No attempt was told that it registered this address.                    *)
Vacant(e) == \A a \in tenants \ lost : EmailOf[a] # e

Init ==
    /\ open = {}
    /\ owner = [e \in Emails |-> NoTenant]
    /\ tenants = {}
    /\ lost = {}

Open(e) ==
    /\ e \notin open
    /\ open' = open \cup {e}
    /\ UNCHANGED <<owner, tenants, lost>>

Close(e) ==
    /\ e \in open /\ Vacant(e)
    /\ open' = open \ {e}
    /\ owner' = [owner EXCEPT ![e] = NoTenant]
    /\ UNCHANGED <<tenants, lost>>

Register(a) ==
    /\ EmailOf[a] \in open /\ Vacant(EmailOf[a])
    /\ owner[EmailOf[a]] = NoTenant
    /\ owner' = [owner EXCEPT ![EmailOf[a]] = a]
    /\ tenants' = tenants \cup {a}
    /\ lost' = lost \/ lost' = lost \cup {a}
    /\ UNCHANGED open

(* The owner's account is made a super admin's; the tenant has none left.  *)
Convert(e) ==
    /\ owner[e] # NoTenant
    /\ owner' = [owner EXCEPT ![e] = NoTenant]
    /\ UNCHANGED <<open, tenants, lost>>

Next ==
    \/ \E e \in Emails : Open(e) \/ Close(e) \/ Convert(e)
    \/ \E a \in Registrations : Register(a)

Spec == Init /\ [][Next]_<<open, owner, tenants, lost>>

=============================================================================
