-------------------------- MODULE RegistrationProofs --------------------------
(***************************************************************************)
(* Registration keeps its promise for any e-mail addresses, tenants and    *)
(* concurrent requests: it implements Accounts.  The watcher that runs     *)
(* beside it (EntityWatcher) misses no user but the overtaken ones.        *)
(***************************************************************************)
EXTENDS EntityWatcher, FiniteSetTheorems, TLAPS

LEMMA InitIInv == Init => IInv
<1> USE TenantAssumption, RequestAssumption
<1>1. Init => TypeOK
  BY DEF Init, TypeOK, NoReg, RegState, Registered, Promise!Role
<1>2. Init => ReadsHold
  BY DEF Init, ReadsHold, NoReg, InTransaction
<1>3. Init => AccountsComplete
  BY DEF Init, AccountsComplete, NoReg, Registered
<1> QED BY <1>1, <1>2, <1>3 DEF IInv

LEMMA NextTypeOK == TypeOK /\ [Next]_vars => TypeOK'
<1> SUFFICES ASSUME TypeOK, [Next]_vars PROVE TypeOK'
  OBVIOUS
<1> USE TenantAssumption, RequestAssumption
    DEF TypeOK, RegState, NoReg, Promise!Role, store
<1>1. ASSUME NEW r \in Request, NEW e \in Email, Begin(r, e) PROVE TypeOK'
  BY <1>1 DEF Begin
<1>2. ASSUME NEW r \in Request, TakeLock(r) PROVE TypeOK'
  BY <1>2 DEF TakeLock
<1>3. ASSUME NEW r \in Request, CheckEmail(r) PROVE TypeOK'
  BY <1>3 DEF CheckEmail
<1>4. ASSUME NEW r \in Request, CountUsers(r) PROVE TypeOK'
  BY <1>4 DEF CountUsers
<1>5. ASSUME NEW r \in Request, NEW t \in Tenant, InsertTenant(r, t)
      PROVE  TypeOK'
  BY <1>5 DEF InsertTenant
<1>6. ASSUME NEW r \in Request, InsertUser(r) PROVE TypeOK'
  BY <1>6 DEF InsertUser
<1>7. ASSUME NEW r \in Request, Commit(r) PROVE TypeOK'
  BY <1>7 DEF Commit, Write, Unlock
<1>8. ASSUME NEW r \in Request, CommitUnconfirmed(r) PROVE TypeOK'
  BY <1>8 DEF CommitUnconfirmed, Write, Unlock
<1>9. ASSUME NEW r \in Request, Reply(r) PROVE TypeOK'
  BY <1>9 DEF Reply
<1>10. ASSUME NEW r \in Request, Fail(r) PROVE TypeOK'
  BY <1>10 DEF Fail, Unlock
<1>11. CASE Crash
  BY <1>11 DEF Crash
<1>12. ASSUME NEW e \in Email, PromoteSuperAdmin(e) PROVE TypeOK'
  BY <1>12 DEF PromoteSuperAdmin
<1>13. CASE UNCHANGED vars
  BY <1>13 DEF vars
<1> QED BY <1>1, <1>2, <1>3, <1>4, <1>5, <1>6, <1>7, <1>8, <1>9, <1>10, <1>11,
           <1>12, <1>13 DEF Next, Go

(* The registrations before the COMMIT of r change the store only if they   *)
(* are r: every other one waits for the lock of r.                          *)
LEMMA NextReadsHold == IInv /\ [Next]_vars => ReadsHold'
<1> SUFFICES ASSUME IInv, [Next]_vars PROVE ReadsHold'
  OBVIOUS
<1> USE TenantAssumption, RequestAssumption
    DEF IInv, TypeOK, RegState, NoReg, store, ReadsHold, InTransaction
<1>1. ASSUME NEW r \in Request, NEW e \in Email, Begin(r, e)
      PROVE  ReadsHold'
  BY <1>1 DEF Begin, Registered
<1>2. ASSUME NEW r \in Request, TakeLock(r) PROVE ReadsHold'
  BY <1>2 DEF TakeLock, Registered
<1>3. ASSUME NEW r \in Request, CheckEmail(r) PROVE ReadsHold'
  BY <1>3 DEF CheckEmail, Registered
<1>4. ASSUME NEW r \in Request, CountUsers(r) PROVE ReadsHold'
  BY <1>4 DEF CountUsers, Registered
<1>5. ASSUME NEW r \in Request, NEW t \in Tenant, InsertTenant(r, t)
      PROVE  ReadsHold'
  BY <1>5 DEF InsertTenant, Registered
<1>6. ASSUME NEW r \in Request, InsertUser(r) PROVE ReadsHold'
  BY <1>6 DEF InsertUser, Registered
<1>7. ASSUME NEW r \in Request, Commit(r) PROVE ReadsHold'
  <2>1. \A q \in Request : q # r =>
          reg'[q] = reg[q] /\ reg[q].pc \notin InTransaction
    BY <1>7 DEF Commit
  <2>2. reg'[r].pc = "reply"
    BY <1>7 DEF Commit
  <2> QED BY <2>1, <2>2
<1>8. ASSUME NEW r \in Request, CommitUnconfirmed(r) PROVE ReadsHold'
  <2>1. \A q \in Request : q # r =>
          reg'[q] = reg[q] /\ reg[q].pc \notin InTransaction
    BY <1>8 DEF CommitUnconfirmed
  <2>2. reg'[r].pc = "idle"
    BY <1>8 DEF CommitUnconfirmed
  <2> QED BY <2>1, <2>2
<1>9. ASSUME NEW r \in Request, Reply(r) PROVE ReadsHold'
  BY <1>9 DEF Reply, Registered
<1>10. ASSUME NEW r \in Request, Fail(r) PROVE ReadsHold'
  BY <1>10 DEF Fail, Unlock, Registered
<1>11. CASE Crash
  BY <1>11 DEF Crash, Registered
<1>12. ASSUME NEW e \in Email, PromoteSuperAdmin(e) PROVE ReadsHold'
  <2>1. \A f \in Email : Registered(f)' <=> Registered(f)
    BY <1>12 DEF PromoteSuperAdmin, Registered
  <2> QED BY <1>12, <2>1 DEF PromoteSuperAdmin
<1>13. CASE UNCHANGED vars
  BY <1>13 DEF vars, Registered
<1> QED BY <1>1, <1>2, <1>3, <1>4, <1>5, <1>6, <1>7, <1>8, <1>9, <1>10, <1>11,
           <1>12, <1>13 DEF Next, Go

(* What a COMMIT writes, confirmed or not, is a complete account.           *)
LEMMA WriteComplete ==
  ASSUME IInv, NEW r \in Request, reg[r].pc = "commit", Write(r)
  PROVE  /\ \A e \in Email :
              /\ role'[e] = "tenant_admin" <=> tenantOf'[e] # None
              /\ tenantOf'[e] # None => tenantOf'[e] \in tenants'
         /\ \A e \in Email : Registered(e) => Registered(e)'
         /\ role'[reg[r].email] # "none"
<1> USE TenantAssumption, RequestAssumption
    DEF IInv, TypeOK, RegState, Registered, AccountsComplete, Write
<1>1. /\ reg[r].email \in Email
      /\ reg[r].first <=> reg[r].tenant = None
  OBVIOUS
<1>2. /\ role'[reg[r].email] =
            IF reg[r].first THEN "super_admin" ELSE "tenant_admin"
      /\ tenantOf'[reg[r].email] = reg[r].tenant
      /\ \A e \in Email : e # reg[r].email =>
            role'[e] = role[e] /\ tenantOf'[e] = tenantOf[e]
  BY <1>1
<1>3. /\ tenants \subseteq tenants'
      /\ reg[r].tenant # None => reg[r].tenant \in tenants'
  OBVIOUS
<1>4. role'[reg[r].email] # "none"
  BY <1>2
<1>5. \A e \in Email : Registered(e) => Registered(e)'
  BY <1>2, <1>4
<1>6. ASSUME NEW e \in Email
      PROVE  /\ role'[e] = "tenant_admin" <=> tenantOf'[e] # None
             /\ tenantOf'[e] # None => tenantOf'[e] \in tenants'
  <2>1. CASE e = reg[r].email
    BY <1>1, <1>2, <1>3, <2>1
  <2>2. CASE e # reg[r].email
    BY <1>2, <1>3, <2>2
  <2> QED BY <2>1, <2>2
<1> QED BY <1>4, <1>5, <1>6

LEMMA NextAccountsComplete == IInv /\ [Next]_vars => AccountsComplete'
<1> SUFFICES ASSUME IInv, [Next]_vars PROVE AccountsComplete'
  OBVIOUS
<1> USE TenantAssumption, RequestAssumption
    DEF IInv, TypeOK, RegState, NoReg, store, AccountsComplete, Registered
<1>1. ASSUME NEW r \in Request, NEW e \in Email, Begin(r, e)
      PROVE  AccountsComplete'
  BY <1>1 DEF Begin
<1>2. ASSUME NEW r \in Request, TakeLock(r) PROVE AccountsComplete'
  BY <1>2 DEF TakeLock
<1>3. ASSUME NEW r \in Request, CheckEmail(r) PROVE AccountsComplete'
  BY <1>3 DEF CheckEmail
<1>4. ASSUME NEW r \in Request, CountUsers(r) PROVE AccountsComplete'
  BY <1>4 DEF CountUsers
<1>5. ASSUME NEW r \in Request, NEW t \in Tenant, InsertTenant(r, t)
      PROVE  AccountsComplete'
  BY <1>5 DEF InsertTenant
<1>6. ASSUME NEW r \in Request, InsertUser(r) PROVE AccountsComplete'
  BY <1>6 DEF InsertUser
<1>7. ASSUME NEW r \in Request, Commit(r) PROVE AccountsComplete'
  <2>1. /\ reg[r].pc = "commit" /\ Write(r) /\ created' = created
        /\ reg' = [reg EXCEPT ![r].pc = "reply"]
    BY <1>7 DEF Commit
  <2> HIDE DEF IInv
  <2>2. /\ \A e \in Email :
             /\ role'[e] = "tenant_admin" <=> tenantOf'[e] # None
             /\ tenantOf'[e] # None => tenantOf'[e] \in tenants'
        /\ \A e \in Email : Registered(e) => Registered(e)'
        /\ role'[reg[r].email] # "none"
    BY <2>1, WriteComplete
  <2> USE DEF IInv
  <2> QED BY <2>1, <2>2
<1>8. ASSUME NEW r \in Request, CommitUnconfirmed(r) PROVE AccountsComplete'
  <2>1. /\ reg[r].pc = "commit" /\ Write(r) /\ created' = created
        /\ reg' = [reg EXCEPT ![r] = NoReg]
    BY <1>8 DEF CommitUnconfirmed
  <2> HIDE DEF IInv
  <2>2. /\ \A e \in Email :
             /\ role'[e] = "tenant_admin" <=> tenantOf'[e] # None
             /\ tenantOf'[e] # None => tenantOf'[e] \in tenants'
        /\ \A e \in Email : Registered(e) => Registered(e)'
    BY <2>1, WriteComplete
  <2> USE DEF IInv
  <2> QED BY <2>1, <2>2
<1>9. ASSUME NEW r \in Request, Reply(r) PROVE AccountsComplete'
  BY <1>9 DEF Reply
<1>10. ASSUME NEW r \in Request, Fail(r) PROVE AccountsComplete'
  BY <1>10 DEF Fail
<1>11. CASE Crash
  BY <1>11 DEF Crash
<1>12. ASSUME NEW e \in Email, PromoteSuperAdmin(e) PROVE AccountsComplete'
  BY <1>12 DEF PromoteSuperAdmin
<1>13. CASE UNCHANGED vars
  BY <1>13 DEF vars
<1> QED BY <1>1, <1>2, <1>3, <1>4, <1>5, <1>6, <1>7, <1>8, <1>9, <1>10, <1>11,
           <1>12, <1>13 DEF Next, Go

(* The types, what a transaction has read and the completeness of accounts *)
(* are inductive together.                                                  *)
THEOREM Invariance == Spec => []IInv
<1>1. IInv /\ [Next]_vars => IInv'
  BY NextTypeOK, NextReadsHold, NextAccountsComplete DEF IInv
<1> QED BY <1>1, InitIInv, PTL DEF Spec

(* ReadsHold: what a transaction has read still holds when it writes.       *)
THEOREM ReadsStand == Spec => []ReadsHold
<1>1. IInv => ReadsHold
  BY DEF IInv
<1> QED BY <1>1, Invariance, PTL

(* AccountsComplete: created accounts exist, with a tenant of their own or  *)
(* the role that needs none.                                                *)
THEOREM Complete == Spec => []AccountsComplete
<1>1. IInv => AccountsComplete
  BY DEF IInv
<1> QED BY <1>1, Invariance, PTL

-----------------------------------------------------------------------------
(* A COMMIT registers the first user, or the next one with a fresh tenant.  *)
LEMMA WritePromised ==
  ASSUME IInv, NEW r \in Request, reg[r].pc = "commit", Write(r)
  PROVE  Promise!Next
<1> USE DEF IInv, TypeOK, RegState
<1>1. reg[r].email \in Email /\ ~Registered(reg[r].email)
  BY DEF ReadsHold, Registered
<1>2. reg[r].first <=> reg[r].tenant = None
  OBVIOUS
<1>3. CASE reg[r].first
  <2>1. tenantOf[reg[r].email] = None
    BY <1>1 DEF AccountsComplete, Registered
  <2>2. tenantOf' = tenantOf /\ tenants' = tenants
    BY <1>2, <1>3, <2>1 DEF Write
  <2>3. \A e \in Email : ~Registered(e)
    BY <1>3 DEF ReadsHold
  <2>4. Promise!RegisterFirst(reg[r].email)
    BY <1>3, <2>2, <2>3
       DEF Write, Promise!RegisterFirst, Promise!Registered, Registered
  <2> QED BY <1>1, <2>4 DEF Promise!Next
<1>4. CASE ~reg[r].first
  <2>1. reg[r].tenant \in Tenant /\ reg[r].tenant # None
    BY <1>2, <1>4
  <2>2. reg[r].tenant \notin tenants
    BY DEF ReadsHold
  <2>3. \E e \in Email : Registered(e)
    BY <1>4 DEF ReadsHold
  <2>4. Promise!RegisterNext(reg[r].email, reg[r].tenant)
    BY <1>1, <1>4, <2>1, <2>2, <2>3
       DEF Write, Promise!RegisterNext, Promise!Registered, Registered
  <2> QED BY <1>1, <2>1, <2>4 DEF Promise!Next
<1> QED BY <1>3, <1>4

(* AccountsSpec: the first user becomes super_admin, every later one the    *)
(* admin of a tenant of their own, with any number of concurrent            *)
(* registrations, failures and crashes.                                     *)
THEOREM Implements == Spec => AccountsSpec
<1>1. Init => Promise!Init
  BY DEF Init, Promise!Init, Promise!Registered, Registered
<1>2. ASSUME IInv, [Next]_vars PROVE [Promise!Next]_(Promise!vars)
  <2>1. CASE \E r \in Request : Commit(r) \/ CommitUnconfirmed(r)
    BY <1>2, <2>1, WritePromised DEF Commit, CommitUnconfirmed
  <2>2. CASE \E e \in Email : PromoteSuperAdmin(e)
    BY <2>2 DEF PromoteSuperAdmin, Promise!Next, Promise!Promote,
                Promise!Registered, Registered
  <2>3. CASE UNCHANGED store
    BY <2>3 DEF store, Promise!vars
  <2>4. \/ \E r \in Request : Commit(r) \/ CommitUnconfirmed(r)
        \/ \E e \in Email : PromoteSuperAdmin(e)
        \/ UNCHANGED store
    BY <1>2 DEF Next, Go, Begin, TakeLock, CheckEmail, CountUsers,
                InsertTenant, InsertUser, Reply, Fail, Crash, vars, store
  <2> QED BY <2>1, <2>2, <2>3, <2>4
<1> QED BY <1>1, <1>2, Invariance, PTL DEF Spec, AccountsSpec, Promise!Spec

-----------------------------------------------------------------------------
(* The watcher *)

(* A step of the watcher is none of the registrations, and theirs are steps *)
(* of Registration.                                                         *)
LEMMA WNextIsNext == [WNext]_allvars => [Next]_vars
<1> SUFFICES ASSUME [WNext]_allvars PROVE [Next]_vars
  OBVIOUS
<1>1. CASE Register
  BY <1>1 DEF Register, BeginAt, CommitAt, Next, Go
<1>2. CASE Poll \/ Fetch \/ Send \/ Raise \/ Restart
  BY <1>2 DEF Poll, Fetch, Send, Raise, Restart
<1>3. CASE UNCHANGED allvars
  BY <1>3 DEF allvars
<1> QED BY <1>1, <1>2, <1>3 DEF WNext

(* Registration with the watcher beside it: what is proved of Spec and, of  *)
(* liveness, checked of LiveSpec holds with the watcher too.                *)
THEOREM WatcherReadsOnly == WSpec => LiveSpec
<1>1. WInit => Init
  BY DEF WInit
<1> QED BY <1>1, WNextIsNext, PTL DEF WSpec, LiveSpec, Spec

LEMMA InitWatch == WInit => WatchIInv
<1> SUFFICES ASSUME WInit PROVE WatchIInv
  OBVIOUS
<1> USE WatchAssumption DEF WInit, NoCount
<1>1. WTypeOK
  BY DEF WTypeOK, Count
<1>2. CountedWereTold
  BY DEF CountedWereTold
<1>3. \A r \in Request : reg[r].pc = "idle"
  BY DEF Init, NoReg
<1> QED BY <1>1, <1>2, <1>3 DEF WatchIInv, InTime

LEMMA RegisterTypes ==
  ASSUME IInv, WTypeOK, Register
  PROVE  WTypeOK'
<1> USE WatchAssumption DEF WTypeOK, Count, NoCount, wvars
<1>1. ASSUME NEW r \in Request, NEW e \in Email, BeginAt(r, e) PROVE WTypeOK'
  BY <1>1 DEF BeginAt
<1>2. ASSUME NEW r \in Request, CommitAt(r) PROVE WTypeOK'
  <2>1. reg[r].email \in Email
    BY <1>2 DEF CommitAt, Commit, CommitUnconfirmed, IInv, TypeOK, RegState
  <2>2. begun' \in [Request -> 0..MaxTime]
    BY <1>2 DEF CommitAt, ForgetTimes
  <2>3. stamp' \in [Email -> 0..MaxTime] /\ late' \subseteq Email
    BY <1>2, <2>1 DEF CommitAt
  <2> QED BY <1>2, <2>2, <2>3 DEF CommitAt
<1>3. CASE ForgetTimes /\ UNCHANGED <<now, stamp, late, wvars>>
  BY <1>3 DEF ForgetTimes
<1> QED BY <1>1, <1>2, <1>3 DEF Register

(* No transaction begins in the step. *)
NoneBegins ==
  \A r \in Request : reg'[r].pc \notin {"idle", "reply"} =>
                       reg[r].pc \notin {"idle", "reply"}

LEMMA RegisterInTime ==
  ASSUME IInv, WTypeOK, InTime, Register
  PROVE  InTime'
<1> USE WatchAssumption DEF InTime, IInv, TypeOK, WTypeOK
<1>1. ASSUME NEW r \in Request, NEW e \in Email, BeginAt(r, e) PROVE InTime'
  <2>1. now' > 0
    BY <1>1 DEF BeginAt
  <2> QED BY <1>1, <2>1 DEF BeginAt, Begin
<1>2. ASSUME ForgetTimes, NoneBegins PROVE InTime'
  BY <1>2 DEF ForgetTimes, NoneBegins
<1>3. CASE ~\E r \in Request, e \in Email : BeginAt(r, e)
  <2>1. ForgetTimes
    BY <1>3 DEF Register, CommitAt
  <2>2. ASSUME NEW r \in Request, Commit(r) \/ CommitUnconfirmed(r) PROVE NoneBegins
    BY <2>2 DEF Commit, CommitUnconfirmed, NoReg, NoneBegins
  <2>3. ASSUME NEW r \in Request, TakeLock(r) \/ CheckEmail(r) \/ InsertUser(r)
        PROVE  NoneBegins
    BY <2>3 DEF TakeLock, CheckEmail, InsertUser, NoneBegins
  <2>4. ASSUME NEW r \in Request, CountUsers(r) PROVE NoneBegins
    BY <2>4 DEF CountUsers, NoneBegins
  <2>5. ASSUME NEW r \in Request, NEW t \in Tenant, InsertTenant(r, t) PROVE NoneBegins
    BY <2>5 DEF InsertTenant, NoneBegins
  <2>6. ASSUME NEW r \in Request, Reply(r) \/ Fail(r) PROVE NoneBegins
    BY <2>6 DEF Reply, Fail, NoReg, NoneBegins
  <2>7. Crash => NoneBegins
    BY DEF Crash, NoReg, NoneBegins
  <2>8. ASSUME NEW e \in Email, PromoteSuperAdmin(e) PROVE NoneBegins
    BY <2>8 DEF PromoteSuperAdmin, NoneBegins
  <2> HIDE DEF InTime, IInv, TypeOK, WTypeOK
  <2>9. NoneBegins
    BY <1>3, <2>2, <2>3, <2>4, <2>5, <2>6, <2>7, <2>8 DEF Register, CommitAt
  <2>10. NoneBegins => InTime'
    BY <1>2, <2>1 DEF NoneBegins
  <2> QED BY <2>9, <2>10
<1> QED BY <1>1, <1>3

(* What the watcher sees of a step of the registrations: the rows stay, and *)
(* a new one is younger than all of them, or late.                          *)
Grows ==
  /\ \A e \in Users : e \in Users' /\ stamp'[e] = stamp[e]
  /\ late \subseteq late'
  /\ \A e \in Users' \ Users :
       stamp'[e] > 0 /\ (e \in late' \/ \A f \in Users : stamp'[e] > stamp[f])

LEMMA RegisterGrows ==
  ASSUME IInv, WTypeOK, InTime, Register
  PROVE  Grows
<1> USE DEF Users, Registered
<1>1. ASSUME NEW r \in Request, CommitAt(r) PROVE Grows
  <2> DEFINE new == reg[r].email
  <2>1. new \in Email /\ reg[r].pc = "commit" /\ ~Registered(new)
    BY <1>1 DEF CommitAt, Commit, CommitUnconfirmed, IInv, TypeOK, RegState,
                ReadsHold
  <2>2. \A e \in Email : e # new => role'[e] = role[e]
    BY <1>1, <2>1 DEF CommitAt, Commit, CommitUnconfirmed, Write, IInv, TypeOK
  <2>3. /\ stamp'[new] = begun[r]
        /\ \A e \in Email : e # new => stamp'[e] = stamp[e]
    BY <1>1, <2>1 DEF CommitAt, WTypeOK
  <2>4. begun[r] > 0
    BY <2>1 DEF InTime
  <2>5. late' = IF \E e \in Users : begun[r] <= stamp[e]
                THEN late \cup {new} ELSE late
    BY <1>1 DEF CommitAt
  <2> HIDE DEF new
  <2>6. \A f \in Users : f \in Email /\ f # new
    BY <2>1
  <2>7. new \in late' \/ \A f \in Users : begun[r] > stamp[f]
    BY <2>5, <2>6 DEF WTypeOK
  <2> QED BY <2>1, <2>2, <2>3, <2>4, <2>5, <2>6, <2>7 DEF Grows
<1>2. CASE UNCHANGED <<stamp, late>> /\ Users' = Users
  BY <1>2 DEF Grows
<1>3. ASSUME NEW e \in Email, PromoteSuperAdmin(e) PROVE Users' = Users
  BY <1>3 DEF PromoteSuperAdmin, IInv, TypeOK
<1>4. (\E r \in Request : CommitAt(r)) \/ (UNCHANGED <<stamp, late>> /\ Users' = Users)
  BY <1>3 DEF Register, BeginAt, Begin, TakeLock, CheckEmail, CountUsers,
     InsertTenant, InsertUser, Reply, Fail, Crash, store
<1> QED BY <1>1, <1>2, <1>4

LEMMA GrowsKeepsCount ==
  ASSUME IInv, WTypeOK, WTypeOK', Grows, NEW c \in Count, CountStands(c)
  PROVE  CountStands(c)'
<1> USE DEF CountStands, Grows
<1>1. c.users \subseteq Users' /\ (c.max = 0 \/ \E e \in c.users : stamp'[e] = c.max)
  OBVIOUS
<1>2. ASSUME NEW e \in Users', e \notin c.users
      PROVE  stamp'[e] > c.max \/ e \in late'
  <2>1. CASE e \in Users
    BY <1>2, <2>1
  <2>2. CASE e \notin Users
    <3>1. CASE c.max = 0
      BY <1>2, <2>2, <3>1
    <3>2. CASE \E f \in c.users : stamp[f] = c.max
      BY <1>2, <2>2, <3>2
    <3> QED BY <3>1, <3>2
  <2> QED BY <2>1, <2>2
<1> QED BY <1>1, <1>2

LEMMA RegisterWatch ==
  ASSUME IInv, WatchIInv, Register
  PROVE  WatchIInv'
<1>1. WTypeOK' /\ InTime' /\ Grows
  BY RegisterTypes, RegisterInTime, RegisterGrows DEF WatchIInv
<1>2. UNCHANGED wvars
  BY DEF Register, BeginAt, CommitAt
<1>3. \A c \in Count : CountStands(c) => CountStands(c)'
  BY <1>1, GrowsKeepsCount DEF WatchIInv
<1>4. known # None => CountStands(known)'
  BY <1>2, <1>3 DEF WatchIInv, WTypeOK, CountStands, wvars
<1>5. wpc # "idle" => CountStands(counted)'
  BY <1>2, <1>3 DEF WatchIInv, WTypeOK, CountStands, wvars
<1>6. CountedWereTold'
  BY <1>1, <1>2 DEF WatchIInv, Grows, CountedWereTold, wvars
<1>7. ASSUME wpc = "send"
      PROVE  /\ (rows \subseteq Younger)'
             /\ \A e \in (counted.users \ (first \cup told \cup unlisted \cup late \cup rows))' :
                  e \in Younger' /\ Cardinality(rows)' = Fetched
  <2>1. Younger \subseteq Younger'
    BY <1>1, <1>2 DEF Grows, Younger, wvars
  <2>2. /\ rows \subseteq Younger
        /\ \A e \in counted.users \ (first \cup told \cup unlisted \cup late \cup rows) :
             e \in Younger /\ Cardinality(rows) = Fetched
    BY <1>7 DEF WatchIInv
  <2> HIDE DEF Younger
  <2> QED BY <1>1, <1>2, <2>1, <2>2 DEF Grows, wvars
<1>8. wpc' = wpc /\ known' = known
  BY <1>2 DEF wvars
<1>9. wpc # "idle" => known # None
  BY DEF WatchIInv
<1> HIDE DEF CountedWereTold, CountStands
<1> QED BY <1>1, <1>4, <1>5, <1>6, <1>7, <1>8, <1>9 DEF WatchIInv

LEMMA PollWatch ==
  ASSUME IInv, WatchIInv, Poll
  PROVE  WatchIInv'
<1> USE DEF WatchIInv, WTypeOK, InTime
<1> PICK m \in 0..MaxTime :
      LET c == [users |-> Users, max |-> m]
      IN  /\ Counters(c)
          /\ IF known = None \/ Cardinality(Users) <= Cardinality(known.users)
             THEN Remember(c)
             ELSE wpc' = "fetch" /\ counted' = c /\ UNCHANGED <<known, rows>>
  BY DEF Poll
<1> DEFINE c == [users |-> Users, max |-> m]
<1>1. c \in Count /\ c.users = Users /\ c.max = m /\ NoCount \in Count
  BY WatchAssumption DEF Count, NoCount, Users
<1>2. CountStands(c)
  BY <1>1 DEF CountStands, Counters
<1>3. UNCHANGED <<vars, clock, told, unlisted>> /\ Users' = Users
  BY DEF Poll, vars, Users, Registered
<1>4. first' = IF known = None THEN Users ELSE first
  BY DEF Poll
<1> HIDE DEF c
<1>5. CASE known = None
  <2>1. Remember(c) /\ first' = Users
    BY <1>4, <1>5 DEF c
  <2> QED BY <1>1, <1>2, <1>3, <2>1
          DEF Remember, CountedWereTold, CountStands, vars, clock, Users
<1>6. CASE known # None /\ Cardinality(Users) <= Cardinality(known.users)
  <2>1. Remember(c) /\ first' = first
    BY <1>4, <1>6 DEF c
  <2>2. known.users \subseteq Users /\ IsFiniteSet(Users)
    BY <1>6, WatchAssumption, FS_Subset DEF CountStands, Users
  <2>3. known.users = Users
    BY <1>6, <2>2, FS_Subset, FS_CardinalityType
  <2> QED BY <1>1, <1>2, <1>3, <1>6, <2>1, <2>3
          DEF Remember, CountedWereTold, CountStands, vars, clock
<1>7. CASE known # None /\ ~(Cardinality(Users) <= Cardinality(known.users))
  <2>1. /\ wpc' = "fetch" /\ counted' = c /\ known' = known /\ rows' = rows
        /\ first' = first
    BY <1>4, <1>7 DEF c
  <2> QED BY <1>1, <1>2, <1>3, <1>7, <2>1
          DEF CountedWereTold, CountStands, vars, clock
<1> QED BY <1>5, <1>6, <1>7

(* The users of the count that were not announced are fetched, but for      *)
(* those beyond a limit that was reached.                                   *)
LEMMA FetchWatch ==
  ASSUME IInv, WatchIInv, Fetch
  PROVE  WatchIInv'
<1>1. /\ UNCHANGED <<vars, clock, known, counted, told, unlisted, first>>
      /\ Users' = Users /\ Younger' = Younger
  BY DEF Fetch, vars, clock, Users, Registered, Younger
<1>2. /\ wpc' = "send" /\ rows' \subseteq Younger
      /\ rows' # Younger => Cardinality(rows') = Fetched
  BY DEF Fetch, Oldest
<1>3. known # None /\ CountStands(known) /\ CountStands(counted)
  BY DEF Fetch, WatchIInv
<1>4. \A e \in counted.users \ (first \cup told \cup unlisted \cup late) : e \in Younger
  BY <1>3 DEF CountStands, WatchIInv, CountedWereTold, Younger
<1>5. WTypeOK'
  BY <1>1, <1>2 DEF WatchIInv, WTypeOK, clock, Younger, Users
<1>6. CountedWereTold' /\ InTime'
  BY <1>1 DEF WatchIInv, CountedWereTold, InTime, vars, clock
<1>7. CountStands(known)' /\ CountStands(counted)'
  BY <1>1, <1>3 DEF CountStands, clock
<1> HIDE DEF Younger
<1>8. \A e \in (counted.users \ (first \cup told \cup unlisted \cup late \cup rows))' :
         e \in Younger' /\ Cardinality(rows)' = Fetched
  BY <1>1, <1>2, <1>4 DEF clock
<1> QED BY <1>1, <1>2, <1>3, <1>5, <1>6, <1>7, <1>8 DEF WatchIInv

(* A message that is full lists Listed rows, and one that is not all of     *)
(* them; the fetch was not shorter.                                         *)
LEMMA MessageTells ==
  ASSUME IInv, WatchIInv, wpc = "send", Message
  PROVE  /\ counted.users \subseteq first \cup told' \cup unlisted' \cup late
         /\ told \subseteq told' /\ unlisted \subseteq unlisted'
         /\ told' \subseteq Email /\ unlisted' \subseteq Email
<1> PICK s \in SUBSET rows :
      /\ Cardinality(s) <= Listed
      /\ s # rows => Cardinality(s) = Listed
      /\ told' = told \cup s
      /\ unlisted' = IF Cardinality(s) = Listed
                     THEN unlisted \cup ((counted.users \cap Younger) \ s)
                     ELSE unlisted
  BY DEF Message, Oldest
<1>1. /\ rows \subseteq Younger /\ rows \subseteq Email
      /\ told \subseteq Email /\ unlisted \subseteq Email /\ Younger \subseteq Email
  BY DEF WatchIInv, WTypeOK, Younger, Users
<1>2. ASSUME NEW e \in counted.users,
             e \notin first \cup told \cup unlisted \cup late, e \notin s
      PROVE  e \in unlisted'
  <2>1. e \in Younger
    BY <1>1, <1>2 DEF WatchIInv
  <2>2. CASE s # rows
    BY <1>2, <2>1, <2>2
  <2>3. CASE s = rows
    <3>1. Cardinality(s) = Fetched
      BY <1>2, <2>3 DEF WatchIInv
    <3>2. Cardinality(s) = Listed
      BY <3>1, ListAssumption
    <3> QED BY <1>2, <2>1, <3>2
  <2> QED BY <2>2, <2>3
<1> QED BY <1>1, <1>2

LEMMA WatcherWatch ==
  ASSUME IInv, WatchIInv, Send \/ Raise \/ Restart
  PROVE  WatchIInv'
<1>1. UNCHANGED <<vars, clock>> /\ Users' = Users
  BY DEF Send, Raise, Restart, vars, Users, Registered
<1>2. NoCount \in Count
  BY WatchAssumption DEF Count, NoCount
<1>3. CASE Send
  <2>1. /\ wpc = "send" /\ Message /\ Remember(counted) /\ first' = first
    BY <1>3 DEF Send
  <2>2. /\ counted.users \subseteq first \cup told' \cup unlisted' \cup late
        /\ told' \subseteq Email /\ unlisted' \subseteq Email
    BY <2>1, MessageTells
  <2> QED BY <1>1, <1>2, <2>1, <2>2
       DEF Remember, WatchIInv, WTypeOK, InTime, CountedWereTold, CountStands,
           vars, clock
<1>4. CASE Raise
  <2>1. /\ told \subseteq told' /\ unlisted \subseteq unlisted'
        /\ told' \subseteq Email /\ unlisted' \subseteq Email
    BY <1>4, MessageTells DEF Raise, WatchIInv, WTypeOK
  <2>2. /\ wpc' = "idle" /\ counted' = NoCount /\ rows' = {}
        /\ UNCHANGED <<known, first>>
    BY <1>4 DEF Raise
  <2> QED BY <1>1, <1>2, <2>1, <2>2
       DEF WatchIInv, WTypeOK, InTime, CountedWereTold, CountStands, vars, clock
<1>5. CASE Restart
  BY <1>1, <1>2, <1>5
     DEF Restart, WatchIInv, WTypeOK, InTime, CountedWereTold, CountStands,
          vars, clock
<1> QED BY <1>3, <1>4, <1>5

(* The invariant of the watcher rests on that of the registrations: a new   *)
(* row was not there before.                                                *)
LEMMA WatchInvariance == WSpec => []WatchIInv
<1>1. IInv /\ WatchIInv /\ [WNext]_allvars => WatchIInv'
  <2> SUFFICES ASSUME IInv, WatchIInv, [WNext]_allvars PROVE WatchIInv'
    OBVIOUS
  <2>1. CASE UNCHANGED allvars
    BY <2>1 DEF allvars, vars, clock, wvars, WatchIInv, WTypeOK, CountedWereTold,
                CountStands, InTime, Users, Registered, Younger
  <2> QED BY <2>1, RegisterWatch, PollWatch, FetchWatch, WatcherWatch DEF WNext
<1>2. WSpec => []IInv
  BY Invariance, WatcherReadsOnly, PTL DEF LiveSpec
<1> QED BY <1>1, <1>2, InitWatch, PTL DEF WSpec

(* CountedWereTold: a user the bot has counted was listed or was there when *)
(* the process began to count, unless the message was full with others or a *)
(* younger transaction ended before, for any limits of fetch and message.   *)
THEOREM NoUserMissed == WSpec => []CountedWereTold
<1>1. WatchIInv => CountedWereTold
  BY DEF WatchIInv
<1> QED BY <1>1, WatchInvariance, PTL

=============================================================================
