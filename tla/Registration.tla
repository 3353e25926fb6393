----------------------------- MODULE Registration -----------------------------
(***************************************************************************)
(* POST auth/register (go-api/handlers/auth.go): one transaction under an  *)
(* advisory lock checks the e-mail address, counts the users to choose the *)
(* role, inserts the tenant and the user and commits; then the permissions *)
(* are read and the tokens signed.  Statements read what is committed, so  *)
(* each is a step of its own.  The same table is changed by hand with      *)
(* database/maintenance/promote_super_admin.sql.                           *)
(***************************************************************************)

CONSTANTS
  Email,    \* normalised e-mail addresses
  Tenant,   \* tenant_id values that can be generated
  Default,  \* the tenant of migration 002
  Request,  \* goroutines serving POST auth/register
  None      \* NULL, no request

ASSUME TenantAssumption == Default \in Tenant /\ None \notin Tenant
ASSUME RequestAssumption == None \notin Request \cup Email

VARIABLES
  role,      \* users: role[e], "none": no row with that e-mail
  tenantOf,  \* users: tenantOf[e]
  tenants,   \* rows of tenants
  lock,      \* the request that holds pg_advisory_xact_lock(1001)
  reg,       \* reg[r]: local state of a request
  created    \* created[e]: the request of e was answered 201 (history)

store == <<role, tenantOf, tenants>>
vars == <<role, tenantOf, tenants, lock, reg, created>>

Promise == INSTANCE Accounts

Registered(e) == role[e] # "none"

RegState == [pc: {"idle", "lock", "check", "count", "tenant", "user", "commit",
                  "reply"},
             email: Email \cup {None}, first: BOOLEAN,
             tenant: Tenant \cup {None}]

NoReg == [pc |-> "idle", email |-> None, first |-> FALSE, tenant |-> None]

Init ==
  /\ role \in [Email -> {"none", "tenant_admin"}]
  /\ tenantOf = [e \in Email |-> IF Registered(e) THEN Default ELSE None]
  /\ tenants = {Default}
  /\ lock = None
  /\ reg = [r \in Request |-> NoReg]
  /\ created = {}

(* The request is valid; BEGIN. *)
Begin(r, e) ==
  /\ reg[r].pc = "idle"
  /\ reg' = [reg EXCEPT ![r] = [NoReg EXCEPT !.pc = "lock", !.email = e]]
  /\ UNCHANGED <<store, lock, created>>

(* Mutant of TakeLock: pg_advisory_xact_lock_shared, which nobody waits for. *)
TakeLockShared(r) ==
  /\ reg[r].pc = "lock"
  /\ lock' = r
  /\ reg' = [reg EXCEPT ![r].pc = "check"]
  /\ UNCHANGED <<store, created>>

(* SELECT pg_advisory_xact_lock(1001) waits for the end of the transaction  *)
(* that has the lock.                                                       *)
TakeLock(r) ==
  /\ reg[r].pc = "lock"
  /\ lock = None
  /\ lock' = r
  /\ reg' = [reg EXCEPT ![r].pc = "check"]
  /\ UNCHANGED <<store, created>>

(* SELECT EXISTS; the password is hashed with the lock in hand. *)
CheckEmail(r) ==
  /\ reg[r].pc = "check"
  /\ ~Registered(reg[r].email)
  /\ reg' = [reg EXCEPT ![r].pc = "count"]
  /\ UNCHANGED <<store, lock, created>>

(* SELECT COUNT( * ): the first user needs no tenant. *)
CountUsers(r) ==
  LET none == \A e \in Email : ~Registered(e)
  IN  /\ reg[r].pc = "count"
      /\ reg' = [reg EXCEPT ![r].first = none,
                            ![r].pc = IF none THEN "user" ELSE "tenant"]
      /\ UNCHANGED <<store, lock, created>>

(* INSERT INTO tenants, under a fresh id, in the transaction. *)
InsertTenant(r, t) ==
  /\ reg[r].pc = "tenant"
  /\ t \notin tenants
  /\ \A q \in Request : reg[q].tenant # t
  /\ reg' = [reg EXCEPT ![r].tenant = t, ![r].pc = "user"]
  /\ UNCHANGED <<store, lock, created>>

(* INSERT INTO users; the UNIQUE constraint on the e-mail address waits for *)
(* a transaction that inserted the same one.                                *)
InsertUser(r) ==
  /\ reg[r].pc = "user"
  /\ ~Registered(reg[r].email)
  /\ \A q \in Request : reg[q].pc = "commit" => reg[q].email # reg[r].email
  /\ reg' = [reg EXCEPT ![r].pc = "commit"]
  /\ UNCHANGED <<store, lock, created>>

Write(r) ==
  LET e == reg[r].email
  IN  /\ role' = [role EXCEPT ![e] =
                    IF reg[r].first THEN "super_admin" ELSE "tenant_admin"]
      /\ tenantOf' = [tenantOf EXCEPT ![e] = reg[r].tenant]
      /\ tenants' = tenants \cup ({reg[r].tenant} \ {None})

Unlock(r) == lock' = IF lock = r THEN None ELSE lock

(* Mutant of Commit: the tenant is committed on its own, without the user. *)
CommitTenantFirst(r) ==
  /\ reg[r].pc = "commit"
  /\ tenants' = tenants \cup ({reg[r].tenant} \ {None})
  /\ Unlock(r)
  /\ reg' = [reg EXCEPT ![r].pc = "reply"]
  /\ UNCHANGED <<role, tenantOf, created>>

(* COMMIT *)
Commit(r) ==
  /\ reg[r].pc = "commit"
  /\ Write(r)
  /\ Unlock(r)
  /\ reg' = [reg EXCEPT ![r].pc = "reply"]
  /\ UNCHANGED created

(* COMMIT took place and its answer was lost: 500. *)
CommitUnconfirmed(r) ==
  /\ reg[r].pc = "commit"
  /\ Write(r)
  /\ Unlock(r)
  /\ reg' = [reg EXCEPT ![r] = NoReg]
  /\ UNCHANGED created

(* getPermissions and GenerateJWT succeeded: 201 with the tokens. *)
Reply(r) ==
  /\ reg[r].pc = "reply"
  /\ created' = created \cup {reg[r].email}
  /\ reg' = [reg EXCEPT ![r] = NoReg]
  /\ UNCHANGED <<store, lock>>

(* Mutant of Fail: no deferred Rollback, the transaction stays open. *)
FailOpen(r) ==
  /\ reg[r].pc # "idle"
  /\ reg' = [reg EXCEPT ![r] = NoReg]
  /\ UNCHANGED <<store, lock, created>>

(* 409 for an address that exists, 500 for any failing statement: the       *)
(* deferred Rollback.  After the COMMIT it undoes nothing, and the answer   *)
(* is 500 all the same.                                                     *)
Fail(r) ==
  /\ reg[r].pc # "idle"
  /\ Unlock(r)
  /\ reg' = [reg EXCEPT ![r] = NoReg]
  /\ UNCHANGED <<store, created>>

(* The API process stops, and PostgreSQL rolls its transactions back. *)
Crash ==
  /\ reg' = [r \in Request |-> NoReg]
  /\ lock' = None
  /\ UNCHANGED <<store, created>>

(* promote_super_admin.sql *)
PromoteSuperAdmin(e) ==
  /\ Registered(e)
  /\ role' = [role EXCEPT ![e] = "super_admin"]
  /\ tenantOf' = [tenantOf EXCEPT ![e] = None]
  /\ UNCHANGED <<tenants, lock, reg, created>>

Go(r) ==
  \/ CheckEmail(r)
  \/ CountUsers(r)
  \/ \E t \in Tenant : InsertTenant(r, t)
  \/ InsertUser(r)
  \/ Commit(r)
  \/ CommitUnconfirmed(r)
  \/ Reply(r)

Next ==
  \/ \E r \in Request, e \in Email : Begin(r, e)
  \/ \E r \in Request : TakeLock(r)
  \/ \E r \in Request : Go(r)
  \/ \E r \in Request : Fail(r)
  \/ Crash
  \/ \E e \in Email : PromoteSuperAdmin(e)

Spec == Init /\ [][Next]_vars

(* A statement returns or fails, and PostgreSQL serves the waiters of the   *)
(* lock in turn.                                                            *)
Fairness ==
  \A r \in Request :
    /\ SF_vars(TakeLock(r))
    /\ WF_vars(Go(r) \/ (reg[r].pc # "lock" /\ Fail(r)))

LiveSpec == Spec /\ Fairness

-----------------------------------------------------------------------------
(* Properties *)

(* The types, and what a request has at each point. *)
TypeOK ==
  /\ role \in [Email -> Promise!Role]
  /\ tenantOf \in [Email -> Tenant \cup {None}]
  /\ tenants \subseteq Tenant
  /\ lock \in Request \cup {None}
  /\ reg \in [Request -> RegState]
  /\ created \subseteq Email
  /\ \A r \in Request :
       /\ reg[r].pc = "idle" <=> reg[r].email = None
       /\ reg[r].pc \in {"user", "commit"} =>
            (reg[r].first <=> reg[r].tenant = None)

InTransaction == {"check", "count", "tenant", "user", "commit"}

(* What a transaction has read still holds when it writes: it has the lock, *)
(* the address is free, so that a repeated registration is told 409 and     *)
(* never runs into the UNIQUE constraint, and the choice of the role stands.*)
ReadsHold ==
  \A r \in Request :
    /\ reg[r].pc \in InTransaction => lock = r
    /\ reg[r].pc \in {"count", "tenant", "user", "commit"} =>
         ~Registered(reg[r].email)
    /\ reg[r].pc \in {"user", "commit"} /\ reg[r].first =>
         \A e \in Email : ~Registered(e)
    /\ reg[r].pc \in {"tenant", "user", "commit"} /\ ~reg[r].first =>
         \E e \in Email : Registered(e)
    /\ reg[r].pc \in {"user", "commit"} => reg[r].tenant \notin tenants

(* Whoever is told that the account was created has one, and everybody has  *)
(* either a tenant that exists or the role that needs none                  *)
(* (chk_super_admin_no_tenant).                                             *)
AccountsComplete ==
  /\ \A e \in created : Registered(e)
  /\ \A r \in Request : reg[r].pc = "reply" => Registered(reg[r].email)
  /\ \A e \in Email :
       /\ role[e] = "tenant_admin" <=> tenantOf[e] # None
       /\ tenantOf[e] # None => tenantOf[e] \in tenants

IInv == TypeOK /\ ReadsHold /\ AccountsComplete

(* "First user becomes super_admin. Subsequent users get their own tenant   *)
(* as tenant_admin." (docs/openapi.yaml:281), with any number of concurrent *)
(* registrations, failures and crashes.                                     *)
AccountsSpec == Promise!Spec

(* A registration ends, also when it waits for the lock, and whatever       *)
(* happens to the requests before it.                                       *)
RegisterEnds == \A r \in Request : reg[r].pc # "idle" ~> reg[r].pc = "idle"

=============================================================================
