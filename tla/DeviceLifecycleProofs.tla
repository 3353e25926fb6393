------------------------ MODULE DeviceLifecycleProofs ------------------------
(***************************************************************************)
(* Theorems about DeviceLifecycle, for any sets of devices, users, secrets *)
(* and concurrent requests.  All of them rest on the inductive invariant   *)
(* IInv; each step lemma below takes one conjunct of it.                   *)
(***************************************************************************)
EXTENDS DeviceLifecycle, TLAPS

(* One conjunct of IInv per lemma: the initial states satisfy all of them. *)
LEMMA InitIInv == Init => IInv
<1> SUFFICES ASSUME Init PROVE IInv
  OBVIOUS
<1> USE NoneAssumption, TenantOfAssumption
<1>a. FreshRow("absent") \in Row /\ FreshRow("unclaimed") \in Row
  BY DEF FreshRow, Row, Status
<1>b. NoClaim \in ClaimState /\ NoFetch \in FetchState
  BY DEF NoClaim, NoFetch, ClaimState, FetchState
<1>1. TypeOK
  <2>1. row \in [Device -> Row]
    BY <1>a DEF Init
  <2>2. /\ \A c \in Claimer : claim[c] = NoClaim
        /\ \A g \in Getter : fetch[g] = NoFetch
    BY DEF Init
  <2> QED
    BY <2>1, <2>2, <1>b DEF Init, TypeOK, NoClaim, NoFetch
<1>2. RowConsistent
  <2> SUFFICES ASSUME NEW d \in Device
               PROVE  /\ row[d].status \in {"absent", "unclaimed"}
                      /\ row[d].tenant = None
                      /\ row[d].owner = None
                      /\ row[d].hash = None
    BY DEF RowConsistent, Coherent
  <2>1. row[d] = FreshRow("absent") \/ row[d] = FreshRow("unclaimed")
    BY DEF Init
  <2> QED BY <2>1 DEF FreshRow
<1>3. LockInv /\ PlaceInv /\ OneTimeDelivery
  BY DEF Init, LockInv, PlaceInv, OneTimeDelivery, Taken, NoClaim, NoFetch
<1>5. CodeInv
  <2>1. \A d \in Device : \/ row[d] = FreshRow("absent")
                         \/ row[d] = FreshRow("unclaimed")
    BY DEF Init
  <2>3. /\ FreshRow("absent").status = "absent"
        /\ FreshRow("unclaimed").status = "unclaimed"
        /\ FreshRow("unclaimed").code
    BY DEF FreshRow
  <2>2. \A d \in Device : row[d].status # "absent" => row[d].code
    BY <2>1, <2>3
  <2> QED BY <2>2 DEF Init, CodeInv, ClaimableAgain, NoClaim
<1>4. IssueInv /\ StaleInv
  BY DEF Init, IssueInv, SecretWasCommitted, StaleInv, StaleOnlyAfterReset,
         NoClaim, NoFetch
<1> QED BY <1>1, <1>2, <1>3, <1>4, <1>5 DEF IInv

(* Every step keeps the types and the shape of the requests' local state. *)
LEMMA NextTypeOK == TypeOK /\ [Next]_vars => TypeOK'
<1> SUFFICES ASSUME TypeOK, [Next]_vars PROVE TypeOK'
  OBVIOUS
<1> USE NoneAssumption, TenantOfAssumption DEF TypeOK, Row, Status,
        ClaimState, FetchState, NoClaim, NoFetch, history
<1>1. ASSUME NEW u \in User, NEW d \in Device, NEW s \in Secret,
             Provision(u, d, s)
      PROVE TypeOK'
  <2>1. row' \in [Device -> Row]
    BY <1>1 DEF Provision
  <2>2. /\ generated' \subseteq Secret
        /\ issued' \in [Secret -> Device \cup {None}]
        /\ handed' \in [Secret -> Nat]
        /\ provisioned' \subseteq Device
        /\ UNCHANGED <<lock, cache, claim, fetch, hook, lost, restored, wasReset>>
    BY <1>1 DEF Provision
  <2> HIDE DEF Row, Status, ClaimState, FetchState, NoClaim, NoFetch
  <2> QED BY <2>1, <2>2
<1>2. ASSUME NEW c \in Claimer, NEW u \in User, NEW d \in Device,
             ClaimLock(c, u, d)
      PROVE TypeOK'
  BY <1>2 DEF ClaimLock
<1>3. ASSUME NEW c \in Claimer, NEW s \in Secret, ClaimUpdate(c, s)
      PROVE TypeOK'
  BY <1>3 DEF ClaimUpdate
<1>4. ASSUME NEW c \in Claimer, ClaimCommit(c) PROVE TypeOK'
  <2> DEFINE d == claim[c].dev
  <2>1. d \in Device /\ claim[c].user \in User /\ claim[c].secret \in Secret
    BY <1>4 DEF ClaimCommit
  <2>2. row' \in [Device -> Row]
    <3> DEFINE r == [row[d] EXCEPT !.status = "claimed",
                       !.tenant = TenantOf[claim[c].user],
                       !.owner = claim[c].user, !.hash = claim[c].secret,
                       !.delivered = FALSE]
    <3>1. row[d] \in Row
      BY <2>1
    <3>2. TenantOf[claim[c].user] \in Tenant
      BY <2>1
    <3>3. r \in Row
      BY <2>1, <3>1, <3>2
    <3>4. row' = [row EXCEPT ![d] = r]
      BY <1>4 DEF ClaimCommit
    <3> HIDE DEF Row, r, d
    <3> QED BY <3>3, <3>4, <2>1
  <2> DEFINE q == [claim[c] EXCEPT !.pc = "cache"]
  <2>0. claim[c] \in ClaimState
    OBVIOUS
  <2>3. q \in ClaimState /\ q.pc = "cache" /\ q.secret # None
        /\ q.dev # None /\ q.user # None
    <3>1. q \in ClaimState /\ q.pc = "cache"
          /\ q.dev = d /\ q.user = claim[c].user /\ q.secret = claim[c].secret
      BY <2>0
    <3> HIDE DEF q
    <3> QED BY <2>1, <3>1
  <2>4. claim' = [claim EXCEPT ![c] = q]
    BY <1>4 DEF ClaimCommit
  <2>5. lock' \in [Device -> Claimer \cup {None}]
        /\ issued' \in [Secret -> Device \cup {None}]
    BY <1>4, <2>1 DEF ClaimCommit
  <2> HIDE DEF q, Row, Status, ClaimState, FetchState, d
  <2>6. UNCHANGED <<cache, fetch, hook, generated, handed, lost, restored,
                   provisioned, wasReset>>
    BY <1>4 DEF ClaimCommit
  <2> QED
    BY <2>2, <2>3, <2>4, <2>5, <2>6
<1>5. ASSUME NEW c \in Claimer, ClaimRollback(c) PROVE TypeOK'
  BY <1>5 DEF ClaimRollback
<1>6. ASSUME NEW c \in Claimer, ClaimCache(c) PROVE TypeOK'
  <2>1. claim[c].dev \in Device \cup {None} /\ claim[c].secret \in Secret \cup {None}
    OBVIOUS
  <2>2. NoClaim \in ClaimState /\ NoClaim.pc = "idle" /\ NoClaim.secret = None
    OBVIOUS
  <2>3. /\ claim' = [claim EXCEPT ![c] = NoClaim]
        /\ UNCHANGED <<row, lock, fetch, hook, generated, issued, handed, lost,
                       provisioned, wasReset>>
    BY <1>6 DEF ClaimCache
  <2>4. cache' \in [Device -> Secret \cup {None}] /\ restored' \subseteq Secret
    BY <1>6, <2>1 DEF ClaimCache, SetSecret, Taken
  <2> HIDE DEF Row, Status, ClaimState, FetchState, NoClaim, NoFetch
  <2> QED BY <2>2, <2>3, <2>4
<1>18. ASSUME NEW c \in Claimer, ClaimCacheUnanswered(c) PROVE TypeOK'
  BY <1>18 DEF ClaimCacheUnanswered, SetSecret, Taken
<1>19. ASSUME NEW g \in Getter, SecretTakeUnanswered(g) PROVE TypeOK'
  BY <1>19 DEF SecretTakeUnanswered
<1>7. ASSUME NEW g \in Getter, NEW d \in Device, SecretRead(g, d)
      PROVE TypeOK'
  BY <1>7 DEF SecretRead
<1>8. ASSUME NEW g \in Getter, SecretTake(g) PROVE TypeOK'
  <2>1. fetch[g].dev \in Device
    BY <1>8 DEF SecretTake
  <2>4. cache' \in [Device -> Secret \cup {None}]
        /\ UNCHANGED <<row, lock, claim, hook, history>>
    BY <1>8, <2>1 DEF SecretTake
  <2>2. CASE cache[fetch[g].dev] = None
    <3>1. fetch' = [fetch EXCEPT ![g] = NoFetch]
      BY <1>8, <2>2 DEF SecretTake
    <3>2. NoFetch \in FetchState /\ NoFetch.pc = "idle" /\ NoFetch.secret = None
      OBVIOUS
    <3> HIDE DEF Row, Status, ClaimState, FetchState, NoClaim, NoFetch
    <3> QED BY <2>4, <3>1, <3>2
  <2>3. CASE cache[fetch[g].dev] # None
    <3>1. cache[fetch[g].dev] \in Secret
      BY <2>1, <2>3
    <3>2. fetch' = [fetch EXCEPT ![g] = [pc |-> "mark", dev |-> fetch[g].dev,
                                         secret |-> cache[fetch[g].dev]]]
      BY <1>8, <2>3 DEF SecretTake
    <3> QED
      BY <1>8, <2>1, <3>1, <3>2 DEF SecretTake
  <2> QED BY <2>2, <2>3
<1>9. ASSUME NEW g \in Getter, SecretMark(g) PROVE TypeOK'
  <2> DEFINE d == fetch[g].dev
             r == [row[d] EXCEPT !.delivered = TRUE]
  <2>1. d \in Device
    BY <1>9 DEF SecretMark
  <2>2. row[d] \in Row
    BY <2>1
  <2>3. r \in Row
    BY <2>2
  <2>4. row' = [row EXCEPT ![d] = r]
    BY <1>9 DEF SecretMark
  <2>5. row' \in [Device -> Row]
    <3> HIDE DEF Row, r, d
    <3> QED BY <2>1, <2>3, <2>4
  <2> QED
    BY <1>9, <2>1, <2>5 DEF SecretMark
<1>10. ASSUME NEW g \in Getter, SecretReply(g) PROVE TypeOK'
  BY <1>10 DEF SecretReply
<1>11. ASSUME NEW g \in Getter, SecretFail(g) PROVE TypeOK'
  BY <1>11 DEF SecretFail
<1>12. ASSUME NEW u \in User, NEW d \in Device, Reset(u, d) PROVE TypeOK'
  <2> DEFINE r == [row[d] EXCEPT !.tenant = None, !.owner = None,
                     !.status = "unclaimed", !.hash = None,
                     !.delivered = FALSE]
  <2>1. row[d] \in Row
    OBVIOUS
  <2>2. r \in Row
    BY <2>1
  <2>3. row' = [row EXCEPT ![d] = r]
    BY <1>12 DEF Reset
  <2>4. row' \in [Device -> Row]
    <3> HIDE DEF Row, r
    <3> QED BY <2>2, <2>3
  <2> QED
    BY <1>12, <2>4 DEF Reset
<1>13. ASSUME NEW h \in Hook, NEW d \in Device, HookRead(h, d) PROVE TypeOK'
  BY <1>13 DEF HookRead
<1>14. ASSUME NEW h \in Hook, HookTouch(h) PROVE TypeOK'
  <2> DEFINE d == hook[h]
             r == [row[d] EXCEPT !.status = "active"]
  <2>1. d \in Device
    BY <1>14 DEF HookTouch
  <2>2. row[d] \in Row
    BY <2>1
  <2>3. r \in Row
    BY <2>2
  <2>4. row' = [row EXCEPT ![d] = r] \/ row' = row
    BY <1>14 DEF HookTouch
  <2>5. row' \in [Device -> Row]
    <3> HIDE DEF Row, r, d
    <3> QED BY <2>1, <2>3, <2>4
  <2> QED
    BY <1>14, <2>1, <2>5 DEF HookTouch
<1>15. ASSUME NEW d \in Device, Expire(d) PROVE TypeOK'
  BY <1>15 DEF Expire
<1>16. CASE Crash
  BY <1>16 DEF Crash
<1>17. CASE UNCHANGED vars
  BY <1>17 DEF vars
<1> QED
  BY <1>1, <1>2, <1>3, <1>4, <1>5, <1>6, <1>7, <1>8, <1>9, <1>10, <1>11,
     <1>12, <1>13, <1>14, <1>15, <1>16, <1>17, <1>18, <1>19 DEF Next

(* TypeOK holds in every reachable state. *)
THEOREM TypeCorrect == Spec => []TypeOK
<1>1. Init => TypeOK
  BY InitIInv DEF IInv
<1> QED BY <1>1, NextTypeOK, PTL DEF Spec

-----------------------------------------------------------------------------
(* Which steps write the devices table; the others leave it alone. *)
RowWriter ==
  \/ \E u \in User, d \in Device, s \in Secret : Provision(u, d, s)
  \/ \E c \in Claimer : ClaimCommit(c)
  \/ \E g \in Getter : SecretMark(g)
  \/ \E u \in User, d \in Device : Reset(u, d)
  \/ \E h \in Hook : HookTouch(h)

LEMMA RowFrame == [Next]_vars => RowWriter \/ UNCHANGED row
BY DEF Next, vars, history, RowWriter, ClaimLock, ClaimUpdate, ClaimRollback,
       ClaimCache, ClaimCacheUnanswered, SecretRead, SecretTake,
       SecretTakeUnanswered, SecretReply, SecretFail, HookRead, Expire, Crash

(* Tenant, owner and hash stay in step with the status. *)
LEMMA NextRowConsistent == IInv /\ [Next]_vars => RowConsistent'
<1> SUFFICES ASSUME IInv, [Next]_vars PROVE RowConsistent'
  OBVIOUS
<1> USE NoneAssumption, TenantOfAssumption
<1>t. /\ TypeOK
      /\ \A e \in Device : row[e] \in Row /\ Coherent(row[e])
  BY DEF IInv, TypeOK, RowConsistent
<1>w. ASSUME NEW d \in Device, NEW r, Coherent(r), row' = [row EXCEPT ![d] = r]
      PROVE  RowConsistent'
  BY <1>w, <1>t DEF RowConsistent, TypeOK
<1>1. ASSUME NEW u \in User, NEW d \in Device, NEW s \in Secret,
             Provision(u, d, s)
      PROVE RowConsistent'
  <2>1. TenantOf[u] \in Tenant
    OBVIOUS
  <2> QED BY <1>1, <1>w, <2>1 DEF Provision, Coherent
<1>2. ASSUME NEW c \in Claimer, ClaimCommit(c) PROVE RowConsistent'
  <2> DEFINE d == claim[c].dev
             r == [row[d] EXCEPT !.status = "claimed",
                     !.tenant = TenantOf[claim[c].user],
                     !.owner = claim[c].user, !.hash = claim[c].secret,
                     !.delivered = FALSE]
  <2>1. d \in Device /\ claim[c].user \in User /\ claim[c].secret \in Secret
    BY <1>2, <1>t DEF ClaimCommit, TypeOK, ClaimState
  <2>2. TenantOf[claim[c].user] \in Tenant
    BY <2>1
  <2>3. Coherent(r)
    BY <2>1, <2>2, <1>t DEF Coherent, Row
  <2>4. row' = [row EXCEPT ![d] = r]
    BY <1>2 DEF ClaimCommit
  <2> QED BY <1>w, <2>1, <2>3, <2>4
<1>3. ASSUME NEW g \in Getter, SecretMark(g) PROVE RowConsistent'
  <2> DEFINE d == fetch[g].dev
             r == [row[d] EXCEPT !.delivered = TRUE]
  <2>1. d \in Device
    BY <1>3, <1>t DEF SecretMark, TypeOK, FetchState
  <2>2. Coherent(r)
    BY <2>1, <1>t DEF Coherent, Row
  <2>3. row' = [row EXCEPT ![d] = r]
    BY <1>3 DEF SecretMark
  <2> QED BY <1>w, <2>1, <2>2, <2>3
<1>4. ASSUME NEW u \in User, NEW d \in Device, Reset(u, d)
      PROVE RowConsistent'
  <2> DEFINE r == [row[d] EXCEPT !.tenant = None, !.owner = None,
                     !.status = "unclaimed", !.hash = None,
                     !.delivered = FALSE]
  <2>1. Coherent(r)
    BY <1>t DEF Coherent, Row
  <2>2. row' = [row EXCEPT ![d] = r]
    BY <1>4 DEF Reset
  <2> QED BY <1>w, <2>1, <2>2
<1>5. ASSUME NEW h \in Hook, HookTouch(h) PROVE RowConsistent'
  <2> DEFINE d == hook[h]
             r == [row[d] EXCEPT !.status = "active"]
  <2>1. d \in Device
    BY <1>5, <1>t DEF HookTouch, TypeOK
  <2>2. CASE RowCheck(r)
    <3>1. Coherent(r)
      BY <2>1, <2>2, <1>t DEF Coherent, RowCheck, Row
    <3>2. row' = [row EXCEPT ![d] = r]
      BY <1>5, <2>2 DEF HookTouch
    <3> QED BY <1>w, <2>1, <3>1, <3>2
  <2>3. CASE ~RowCheck(r)
    BY <1>5, <2>3, <1>t DEF HookTouch, RowConsistent
  <2> QED BY <2>2, <2>3
<1>6. CASE UNCHANGED row
  BY <1>6, <1>t DEF RowConsistent
<1> QED BY <1>1, <1>2, <1>3, <1>4, <1>5, <1>6, RowFrame DEF RowWriter

-----------------------------------------------------------------------------
(* The row lock excludes: what a claim read of its row stays true until it  *)
(* commits or rolls back.                                                   *)
LEMMA NextLockInv == IInv /\ [Next]_vars => LockInv'
<1> SUFFICES ASSUME IInv, [Next]_vars PROVE LockInv'
  OBVIOUS
<1> USE NoneAssumption DEF history
<1>t. TypeOK /\ LockInv
  BY DEF IInv
\* A step that leaves lock and claim alone, and no locked row's status.
<1>f. ASSUME UNCHANGED <<lock, claim>>,
             \A d \in Device : row[d].status = "absent" \/ lock[d] # None =>
               row'[d].status = row[d].status \/ lock[d] = None
      PROVE  LockInv'
  BY <1>f, <1>t DEF LockInv, TypeOK, ClaimState
<1>1. ASSUME NEW u \in User, NEW d \in Device, NEW s \in Secret,
             Provision(u, d, s)
      PROVE LockInv'
  <2>1. lock[d] = None
    BY <1>1, <1>t DEF Provision, LockInv, TypeOK
  <2>2. \A e \in Device : e # d => row'[e] = row[e]
    BY <1>1, <1>t DEF Provision, TypeOK
  <2> QED BY <1>1, <1>f, <2>1, <2>2 DEF Provision
<1>2. ASSUME NEW c \in Claimer, NEW u \in User, NEW d \in Device,
             ClaimLock(c, u, d)
      PROVE LockInv'
  <2>1. /\ lock'[d] = c
        /\ \A e \in Device : e # d => lock'[e] = lock[e]
        /\ claim'[c] = [pc |-> "locked", dev |-> d, user |-> u,
                        secret |-> None,
                        free |-> row[d].status = "unclaimed" /\ row[d].code]
        /\ \A b \in Claimer : b # c => claim'[b] = claim[b]
        /\ row' = row
        /\ lock[d] = None
        /\ row[d].status # "absent"
        /\ claim[c].pc = "idle"
    BY <1>2, <1>t DEF ClaimLock, TypeOK
  <2>2. ASSUME NEW b \in Claimer, b # c, claim[b].pc \in {"locked", "updated"}
        PROVE  claim[b].dev \in Device /\ claim[b].dev # d
    BY <2>1, <2>2, <1>t DEF LockInv, TypeOK, ClaimState
  <2>3. claim'[c].pc = "locked" /\ claim'[c].dev = d
    BY <2>1
  <2> DEFINE ok == row[d].status = "unclaimed" /\ row[d].code
  <2>5. claim'[c].free => row[d].status = "unclaimed"
    <3>1. CASE ok
      BY <3>1
    <3>2. CASE ~ok
      <4>1. ok = FALSE
        BY <3>2
      <4>2. claim'[c] = [pc |-> "locked", dev |-> d, user |-> u,
                         secret |-> None, free |-> ok]
        BY <2>1
      <4> HIDE DEF ok
      <4>3. claim'[c] = [pc |-> "locked", dev |-> d, user |-> u,
                         secret |-> None, free |-> FALSE]
        BY <4>1, <4>2
      <4> QED BY <4>3
    <3> QED BY <3>1, <3>2
  <2> QED BY <2>1, <2>2, <2>3, <2>5, <1>t DEF LockInv, TypeOK
<1>3. ASSUME NEW c \in Claimer, NEW s \in Secret, ClaimUpdate(c, s)
      PROVE LockInv'
  BY <1>3, <1>t DEF ClaimUpdate, LockInv, TypeOK, ClaimState
<1>4. ASSUME NEW c \in Claimer, ClaimCommit(c) \/ ClaimRollback(c)
      PROVE LockInv'
  <2> DEFINE d == claim[c].dev
  <2>1. /\ d \in Device
        /\ lock[d] = c
        /\ lock' = [lock EXCEPT ![d] = None]
        /\ claim'[c].pc \in {"idle", "cache"}
        /\ \A b \in Claimer : b # c => claim'[b] = claim[b]
        /\ \A e \in Device : e # d => row'[e] = row[e]
    BY <1>4, <1>t DEF ClaimCommit, ClaimRollback, LockInv, TypeOK, ClaimState,
                      NoClaim
  <2>2. ASSUME NEW b \in Claimer, b # c, claim[b].pc \in {"locked", "updated"}
        PROVE  claim[b].dev \in Device /\ claim[b].dev # d
    BY <2>1, <2>2, <1>t DEF LockInv, TypeOK, ClaimState
  <2>3. ASSUME NEW e \in Device, e # d, lock[e] # None
        PROVE  lock[e] \in Claimer /\ lock[e] # c
    BY <2>1, <2>3, <1>t DEF LockInv, TypeOK
  <2> QED BY <2>1, <2>2, <2>3, <1>t DEF LockInv, TypeOK
<1>5. ASSUME NEW c \in Claimer, ClaimCache(c) PROVE LockInv'
  BY <1>5, <1>t DEF ClaimCache, LockInv, TypeOK, NoClaim
<1>11. ASSUME NEW c \in Claimer, ClaimCacheUnanswered(c) PROVE LockInv'
  BY <1>11, <1>t DEF ClaimCacheUnanswered, LockInv
<1>6. ASSUME NEW g \in Getter, SecretMark(g) PROVE LockInv'
  <2>1. \A d \in Device : row'[d].status = row[d].status
    BY <1>6, <1>t DEF SecretMark, TypeOK, Row
  <2> QED BY <1>6, <1>f, <2>1 DEF SecretMark
<1>7. ASSUME NEW u \in User, NEW d \in Device, Reset(u, d) PROVE LockInv'
  <2>1. \A e \in Device : e # d => row'[e] = row[e]
    BY <1>7, <1>t DEF Reset, TypeOK
  <2> QED BY <1>7, <1>f, <2>1 DEF Reset
<1>8. ASSUME NEW h \in Hook, HookTouch(h) PROVE LockInv'
  <2>1. \A e \in Device : e # hook[h] => row'[e] = row[e]
    BY <1>8, <1>t DEF HookTouch, TypeOK
  <2> QED BY <1>8, <1>f, <2>1 DEF HookTouch
<1>9. CASE Crash
  BY <1>9, <1>t DEF Crash, LockInv, NoClaim
<1>10. CASE UNCHANGED <<row, lock, claim>>
  BY <1>10, <1>t DEF LockInv
<1> QED
  BY <1>1, <1>2, <1>3, <1>4, <1>5, <1>6, <1>7, <1>8, <1>9, <1>10, <1>11
  DEF Next, vars, SecretRead, SecretTake, SecretTakeUnanswered, SecretReply,
      SecretFail, HookRead, Expire

-----------------------------------------------------------------------------
(* A secret moves from a claim to Redis, to one secret request, to one      *)
(* response; only a repeated SET copies it on the way, and is recorded.     *)
LEMMA NextPlaceInv ==
  IInv /\ [Next]_vars => PlaceInv' /\ OneTimeDelivery'
<1> SUFFICES ASSUME IInv, [Next]_vars PROVE PlaceInv' /\ OneTimeDelivery'
  OBVIOUS
<1> USE NoneAssumption DEF history
<1>t. TypeOK /\ PlaceInv /\ OneTimeDelivery /\ IssueInv /\ SecretWasCommitted
  BY DEF IInv, IssueInv
\* What Taken says of one secret.
<1>k. ASSUME NEW s \in Secret
      PROVE  /\ s \notin Taken <=>
                  handed[s] = 0 /\ \A g \in Getter : fetch[g].secret # s
             /\ s \notin Taken' <=>
                  handed'[s] <= 0 /\ \A g \in Getter : fetch'[g].secret # s
  BY <1>t, NextTypeOK DEF Taken, TypeOK, IInv
<1>1. ASSUME NEW u \in User, NEW d \in Device, NEW s \in Secret,
             Provision(u, d, s)
      PROVE PlaceInv' /\ OneTimeDelivery'
  <2>1. /\ s \notin generated
        /\ generated' = generated \cup {s}
        /\ handed[s] = 0
        /\ handed'[s] \in {0, 1}
        /\ \A t \in Secret : t # s => handed'[t] = handed[t]
        /\ \A t \in Secret : t # s => issued'[t] = issued[t]
        /\ UNCHANGED <<claim, cache, fetch, restored>>
    BY <1>1, <1>t DEF Provision, PlaceInv, TypeOK
  <2>2. \A t \in Secret : t # s /\ t \in Taken' => t \in Taken
    BY <2>1 DEF Taken
  <2> QED BY <2>1, <2>2, <1>t DEF PlaceInv, OneTimeDelivery, TypeOK,
                                  ClaimState, FetchState
<1>2. ASSUME NEW c \in Claimer, NEW u \in User, NEW d \in Device,
             ClaimLock(c, u, d)
      PROVE PlaceInv' /\ OneTimeDelivery'
  <2>1. /\ claim'[c].secret = None
        /\ \A b \in Claimer : b # c => claim'[b] = claim[b]
    BY <1>2, <1>t DEF ClaimLock, TypeOK
  <2> QED BY <1>2, <2>1, <1>t DEF ClaimLock, PlaceInv, OneTimeDelivery, Taken
<1>3. ASSUME NEW c \in Claimer, NEW s \in Secret, ClaimUpdate(c, s)
      PROVE PlaceInv' /\ OneTimeDelivery'
  <2>1. /\ claim'[c].secret = s
        /\ \A b \in Claimer : b # c => claim'[b] = claim[b]
        /\ s \notin generated
        /\ handed[s] = 0
        /\ \A g \in Getter : fetch[g].secret # s
    BY <1>3, <1>t DEF ClaimUpdate, TypeOK, ClaimState, FetchState, PlaceInv
  <2>2. s \notin Taken'
    BY <1>3, <2>1 DEF ClaimUpdate, Taken
  <2>3. Taken' = Taken
    BY <1>3 DEF ClaimUpdate, Taken
  <2> QED BY <1>3, <2>1, <2>2, <2>3, <1>t
          DEF ClaimUpdate, PlaceInv, OneTimeDelivery, TypeOK, ClaimState
<1>4. ASSUME NEW c \in Claimer, ClaimCommit(c)
      PROVE PlaceInv' /\ OneTimeDelivery'
  <2>1. /\ claim[c].secret \in Secret
        /\ claim[c].secret \in generated
        /\ \A b \in Claimer : claim'[b].secret = claim[b].secret
        /\ \A b \in Claimer : b # c => claim'[b] = claim[b]
        /\ claim'[c].pc = "cache"
        /\ \A s \in Secret : s # claim[c].secret => issued'[s] = issued[s]
    BY <1>4, <1>t DEF ClaimCommit, TypeOK, ClaimState, PlaceInv
  <2>2. Taken' = Taken
    BY <1>4 DEF ClaimCommit, Taken
  <2> QED BY <1>4, <2>1, <2>2, <1>t DEF ClaimCommit, PlaceInv, OneTimeDelivery
<1>5. ASSUME NEW c \in Claimer, ClaimRollback(c)
      PROVE PlaceInv' /\ OneTimeDelivery'
  <2>1. /\ claim'[c].secret = None
        /\ \A b \in Claimer : b # c => claim'[b] = claim[b]
    BY <1>5, <1>t DEF ClaimRollback, TypeOK, NoClaim
  <2> QED BY <1>5, <2>1, <1>t DEF ClaimRollback, PlaceInv, OneTimeDelivery,
                                  Taken
\* The SET, answered or not: a secret that was taken is noted as restored.
<1>6. ASSUME NEW c \in Claimer, ClaimCache(c) \/ ClaimCacheUnanswered(c)
      PROVE PlaceInv' /\ OneTimeDelivery'
  <2>1. /\ claim'[c] = claim[c] \/ claim'[c].secret = None
        /\ \A b \in Claimer : b # c => claim'[b] = claim[b]
        /\ claim[c].secret # None
        /\ claim[c].secret \in Secret
        /\ UNCHANGED <<fetch, handed, issued, generated>>
    BY <1>6, <1>t DEF ClaimCache, ClaimCacheUnanswered, TypeOK, ClaimState,
                      NoClaim
  <2>2. /\ restored \subseteq restored'
        /\ \A d \in Device :
             \/ cache'[d] = cache[d]
             \/ /\ cache'[d] = claim[c].secret
                /\ claim[c].secret \in Taken => claim[c].secret \in restored'
    BY <1>6, <2>1, <1>t DEF ClaimCache, ClaimCacheUnanswered, SetSecret, TypeOK
  <2>3. Taken' = Taken
    BY <2>1 DEF Taken
  <2> QED BY <2>1, <2>2, <2>3, <1>t DEF PlaceInv, OneTimeDelivery
<1>7. ASSUME NEW g \in Getter, NEW d \in Device, SecretRead(g, d)
      PROVE PlaceInv' /\ OneTimeDelivery'
  <2>1. /\ fetch'[g].secret = None
        /\ \A f \in Getter : f # g => fetch'[f] = fetch[f]
        /\ Taken' \subseteq Taken
    BY <1>7, <1>t DEF SecretRead, TypeOK, Taken
  <2> QED BY <1>7, <2>1, <1>t DEF SecretRead, PlaceInv, OneTimeDelivery
<1>8. ASSUME NEW g \in Getter, SecretTake(g)
      PROVE PlaceInv' /\ OneTimeDelivery'
  <2> DEFINE d == fetch[g].dev
  <2>1. d \in Device
    BY <1>8, <1>t DEF SecretTake, TypeOK, FetchState
  <2>2. /\ fetch'[g].secret = cache[d]
        /\ \A f \in Getter : f # g => fetch'[f] = fetch[f]
        /\ cache'[d] = None
        /\ \A e \in Device : e # d => cache'[e] = cache[e]
        /\ UNCHANGED <<claim, generated, issued, handed, restored>>
    BY <1>8, <2>1, <1>t DEF SecretTake, TypeOK, FetchState, NoFetch
  <2>3. \A s \in Taken' : s \in Taken \/ s = cache[d]
    BY <2>2 DEF Taken
  \* The key of d is the only one that held the secret.
  <2>4. \A e \in Device : e # d /\ cache[e] # None => cache[e] # cache[d]
    BY <2>1, <1>t DEF SecretWasCommitted
  <2>5. \A c \in Claimer : claim[c].pc = "updated" =>
          claim[c].secret # cache[d] /\ claim[c].secret # None
    BY <2>1, <1>t DEF SecretWasCommitted, IssueInv, TypeOK
  <2>6. cache[d] # None /\ cache[d] \notin restored =>
          /\ handed[cache[d]] = 0
          /\ \A f \in Getter : fetch[f].secret # cache[d]
    BY <2>1, <1>t, <1>k DEF PlaceInv, TypeOK
  <2> QED BY <2>1, <2>2, <2>3, <2>4, <2>5, <2>6, <1>t
          DEF PlaceInv, OneTimeDelivery
<1>9. ASSUME NEW g \in Getter, SecretMark(g)
      PROVE PlaceInv' /\ OneTimeDelivery'
  <2>1. \A f \in Getter : fetch'[f].secret = fetch[f].secret
    BY <1>9, <1>t DEF SecretMark, TypeOK, FetchState
  <2>2. Taken' = Taken
    BY <1>9, <2>1 DEF SecretMark, Taken
  <2> QED BY <1>9, <2>1, <2>2, <1>t DEF SecretMark, PlaceInv, OneTimeDelivery
<1>10. ASSUME NEW g \in Getter, SecretReply(g)
       PROVE PlaceInv' /\ OneTimeDelivery'
  <2> DEFINE s == fetch[g].secret
  <2>1. s \in Secret /\ s \in generated /\ (s \notin restored => handed[s] = 0)
    BY <1>10, <1>t DEF SecretReply, TypeOK, FetchState, PlaceInv
  <2>2. /\ fetch'[g].secret = None
        /\ \A f \in Getter : f # g => fetch'[f] = fetch[f]
        /\ handed[s] \in Nat
        /\ handed'[s] = handed[s] + 1
        /\ \A t \in Secret : t # s => handed'[t] = handed[t]
        /\ UNCHANGED <<claim, cache, generated, issued, restored>>
    BY <1>10, <2>1, <1>t DEF SecretReply, TypeOK, NoFetch
  <2>3. s \in Taken
    BY <2>1 DEF Taken
  <2>4. Taken' \subseteq Taken
    BY <2>2, <2>3 DEF Taken
  <2>5. \A f \in Getter : f # g /\ fetch[f].secret = s => s \in restored
    BY <2>1, <1>t, NoneAssumption DEF PlaceInv
  <2> QED BY <2>1, <2>2, <2>4, <2>5, <1>t DEF PlaceInv, OneTimeDelivery,
                                              TypeOK, FetchState
<1>11. ASSUME NEW g \in Getter, SecretFail(g)
       PROVE PlaceInv' /\ OneTimeDelivery'
  <2>1. /\ fetch'[g].secret = None
        /\ \A f \in Getter : f # g => fetch'[f] = fetch[f]
    BY <1>11, <1>t DEF SecretFail, TypeOK, NoFetch
  <2>2. Taken' \subseteq Taken
    BY <1>11, <2>1 DEF SecretFail, Taken
  <2> QED BY <1>11, <2>1, <2>2, <1>t DEF SecretFail, PlaceInv, OneTimeDelivery
<1>12. ASSUME \/ \E d \in Device : Expire(d)
              \/ \E g \in Getter : SecretTakeUnanswered(g)
       PROVE PlaceInv' /\ OneTimeDelivery'
  <2>1. /\ \A e \in Device : cache'[e] # None => cache'[e] = cache[e]
        /\ UNCHANGED <<claim, fetch, generated, issued, handed, restored>>
    BY <1>12, <1>t DEF Expire, SecretTakeUnanswered, TypeOK
  <2>2. Taken' = Taken
    BY <2>1 DEF Taken
  <2> QED BY <2>1, <2>2, <1>t DEF PlaceInv, OneTimeDelivery
<1>13. CASE Crash
  <2>1. Taken' \subseteq Taken
    BY <1>13 DEF Crash, Taken, NoFetch
  <2> QED BY <1>13, <2>1, <1>t DEF Crash, PlaceInv, OneTimeDelivery, NoClaim,
                                   NoFetch
<1>14. CASE UNCHANGED <<generated, handed, issued, claim, cache, fetch, restored>>
  BY <1>14, <1>t DEF PlaceInv, OneTimeDelivery, Taken
<1> QED
  BY <1>1, <1>2, <1>3, <1>4, <1>5, <1>6, <1>7, <1>8, <1>9, <1>10, <1>11,
     <1>12, <1>13, <1>14 DEF Next, vars, Reset, HookRead, HookTouch

-----------------------------------------------------------------------------
(* What a claim caches, and all that follows from it, was issued by its     *)
(* COMMIT to the device of the claim.                                       *)
LEMMA NextIssueInv == IInv /\ [Next]_vars => IssueInv'
<1> SUFFICES ASSUME IInv, [Next]_vars PROVE IssueInv'
  OBVIOUS
<1> USE NoneAssumption DEF history
<1>t. TypeOK /\ PlaceInv /\ IssueInv /\ SecretWasCommitted
  BY DEF IInv, IssueInv
<1>1. ASSUME NEW u \in User, NEW d \in Device, NEW s \in Secret,
             Provision(u, d, s)
      PROVE IssueInv'
  <2>1. /\ s \notin generated
        /\ handed[s] = 0
        /\ issued'[s] = d
        /\ \A t \in Secret : t # s => issued'[t] = issued[t]
        /\ \A t \in Secret : t # s => handed'[t] = handed[t]
        /\ UNCHANGED <<claim, cache, fetch>>
    BY <1>1, <1>t DEF Provision, PlaceInv, TypeOK
  <2> QED BY <2>1, <1>t DEF IssueInv, SecretWasCommitted, PlaceInv, TypeOK,
                            ClaimState, FetchState
<1>2. ASSUME NEW c \in Claimer, NEW u \in User, NEW d \in Device,
             ClaimLock(c, u, d)
      PROVE IssueInv'
  <2>1. /\ claim'[c].pc = "locked"
        /\ \A b \in Claimer : b # c => claim'[b] = claim[b]
    BY <1>2, <1>t DEF ClaimLock, TypeOK
  <2> QED BY <1>2, <2>1, <1>t DEF ClaimLock, IssueInv, SecretWasCommitted
<1>3. ASSUME NEW c \in Claimer, NEW s \in Secret, ClaimUpdate(c, s)
      PROVE IssueInv'
  <2>1. /\ claim'[c].pc = "updated" /\ claim'[c].secret = s
        /\ \A b \in Claimer : b # c => claim'[b] = claim[b]
        /\ issued[s] = None
    BY <1>3, <1>t DEF ClaimUpdate, TypeOK, ClaimState, PlaceInv
  <2>2. UNCHANGED <<cache, fetch, issued, handed, row>>
    BY <1>3 DEF ClaimUpdate
  <2>3. SecretWasCommitted'
    BY <1>t, <2>2 DEF SecretWasCommitted
  <2> QED BY <1>t, <2>1, <2>2, <2>3 DEF IssueInv
<1>4. ASSUME NEW c \in Claimer, ClaimCommit(c) PROVE IssueInv'
  <2> DEFINE s == claim[c].secret
  <2>1. /\ s \in Secret
        /\ issued[s] = None
        /\ claim'[c] = [claim[c] EXCEPT !.pc = "cache"]
        /\ \A b \in Claimer : b # c => claim'[b] = claim[b]
        /\ claim[c].dev \in Device
        /\ issued'[s] = claim[c].dev
        /\ \A t \in Secret : t # s => issued'[t] = issued[t]
        /\ UNCHANGED <<cache, fetch, handed>>
    BY <1>4, <1>t DEF ClaimCommit, IssueInv, PlaceInv, TypeOK, ClaimState
  <2>2. /\ claim'[c].pc = "cache"
        /\ claim'[c].secret = s
        /\ claim'[c].dev = claim[c].dev
    BY <2>1, <1>t DEF TypeOK, ClaimState
  <2>3. SecretWasCommitted'
    BY <2>1, <1>t DEF SecretWasCommitted, TypeOK, FetchState
  <2>4. \A b \in Claimer : b # c /\ claim[b].secret # None =>
          claim[b].secret \in Secret /\ claim[b].secret # s
    BY <2>1, <1>t DEF PlaceInv, TypeOK, ClaimState
  <2>5. ASSUME NEW b \in Claimer
        PROVE  /\ claim'[b].pc = "updated" => issued'[claim'[b].secret] = None
               /\ claim'[b].pc = "cache" =>
                    issued'[claim'[b].secret] = claim'[b].dev
    <3>1. CASE b = c
      BY <3>1, <2>1, <2>2
    <3>2. CASE b # c
      <4>1. claim'[b] = claim[b]
        BY <3>2, <2>1
      <4>2. claim[b].pc \in {"updated", "cache"} =>
              issued'[claim[b].secret] = issued[claim[b].secret]
        BY <3>2, <2>1, <2>4, <1>t DEF TypeOK
      <4> QED BY <4>1, <4>2, <1>t DEF IssueInv
    <3> QED BY <3>1, <3>2
  <2> QED BY <2>3, <2>5 DEF IssueInv
<1>5. ASSUME NEW c \in Claimer, ClaimRollback(c) PROVE IssueInv'
  <2>1. /\ claim'[c].pc = "idle"
        /\ \A b \in Claimer : b # c => claim'[b] = claim[b]
    BY <1>5, <1>t DEF ClaimRollback, TypeOK, NoClaim
  <2> QED BY <1>5, <2>1, <1>t DEF ClaimRollback, IssueInv, SecretWasCommitted
<1>6. ASSUME NEW c \in Claimer, ClaimCache(c) \/ ClaimCacheUnanswered(c)
      PROVE IssueInv'
  <2>1. /\ claim'[c].pc = "idle" \/ claim'[c] = claim[c]
        /\ \A b \in Claimer : b # c => claim'[b] = claim[b]
        /\ issued[claim[c].secret] = claim[c].dev
        /\ \A d \in Device : \/ cache'[d] = cache[d]
                             \/ cache'[d] = claim[c].secret /\ d = claim[c].dev
        /\ UNCHANGED <<fetch, issued, handed>>
    BY <1>6, <1>t DEF ClaimCache, ClaimCacheUnanswered, SetSecret, TypeOK,
                      NoClaim, IssueInv
  <2> QED BY <2>1, <1>t DEF IssueInv, SecretWasCommitted
<1>7. ASSUME NEW g \in Getter,
             (\E d \in Device : SecretRead(g, d)) \/ SecretFail(g)
      PROVE IssueInv'
  <2>1. /\ fetch'[g].secret = None
        /\ \A f \in Getter : f # g => fetch'[f] = fetch[f]
        /\ UNCHANGED <<claim, cache, issued, handed>>
    BY <1>7, <1>t DEF SecretRead, SecretFail, TypeOK, NoFetch
  <2> QED BY <2>1, <1>t DEF IssueInv, SecretWasCommitted
<1>8. ASSUME NEW g \in Getter, SecretTake(g) PROVE IssueInv'
  <2> DEFINE d == fetch[g].dev
  <2>1. d \in Device
    BY <1>8, <1>t DEF SecretTake, TypeOK, FetchState
  <2>2. /\ fetch'[g].secret # None =>
             fetch'[g].secret = cache[d] /\ fetch'[g].dev = d
        /\ \A f \in Getter : f # g => fetch'[f] = fetch[f]
        /\ cache'[d] = None
        /\ \A e \in Device : e # d => cache'[e] = cache[e]
    BY <1>8, <2>1, <1>t DEF SecretTake, TypeOK, FetchState, NoFetch
  <2> QED BY <1>8, <2>1, <2>2, <1>t DEF SecretTake, IssueInv,
                                        SecretWasCommitted
<1>9. ASSUME NEW g \in Getter, SecretMark(g) PROVE IssueInv'
  <2>1. \A f \in Getter : /\ fetch'[f].secret = fetch[f].secret
                          /\ fetch'[f].dev = fetch[f].dev
    BY <1>9, <1>t DEF SecretMark, TypeOK, FetchState
  <2> QED BY <1>9, <2>1, <1>t DEF SecretMark, IssueInv, SecretWasCommitted
<1>10. ASSUME NEW g \in Getter, SecretReply(g) PROVE IssueInv'
  <2> DEFINE s == fetch[g].secret
  <2>1. /\ s \in Secret
        /\ fetch[g].dev \in Device
        /\ issued[s] # None
    BY <1>10, <1>t DEF SecretReply, TypeOK, FetchState, SecretWasCommitted
  <2>2. /\ fetch'[g].secret = None
        /\ \A f \in Getter : f # g => fetch'[f] = fetch[f]
        /\ \A t \in Secret : t # s => handed'[t] = handed[t]
    BY <1>10, <2>1, <1>t DEF SecretReply, TypeOK, NoFetch
  <2> QED BY <1>10, <2>1, <2>2, <1>t DEF SecretReply, IssueInv,
                                         SecretWasCommitted
<1>11. ASSUME \/ \E d \in Device : Expire(d)
              \/ \E g \in Getter : SecretTakeUnanswered(g)
       PROVE IssueInv'
  <2>1. /\ \A e \in Device : cache'[e] # None => cache'[e] = cache[e]
        /\ UNCHANGED <<claim, fetch, issued, handed>>
    BY <1>11, <1>t DEF Expire, SecretTakeUnanswered, TypeOK
  <2> QED BY <2>1, <1>t DEF IssueInv, SecretWasCommitted
<1>12. CASE Crash
  BY <1>12, <1>t DEF Crash, IssueInv, SecretWasCommitted, NoClaim, NoFetch
<1>13. CASE UNCHANGED <<handed, issued, claim, cache, fetch>>
  BY <1>13, <1>t DEF IssueInv, SecretWasCommitted
<1> QED
  BY <1>1, <1>2, <1>3, <1>4, <1>5, <1>6, <1>7, <1>8, <1>9, <1>10, <1>11,
     <1>12, <1>13 DEF Next, vars, Reset, HookRead, HookTouch

-----------------------------------------------------------------------------
(* What one step can do to a row's tenant, owner and hash: keep them, set   *)
(* them on a free device, or clear them by a reset.                         *)
LEMMA RowStep ==
  ASSUME IInv, [Next]_vars, NEW d \in Device
  PROVE  \/ /\ row'[d].tenant = row[d].tenant
            /\ row'[d].owner = row[d].owner
            /\ row'[d].hash = row[d].hash
         \/ row[d].owner = None /\ row[d].hash = None
         \/ row'[d].owner = None /\ row'[d].hash = None /\ d \in wasReset'
<1> USE NoneAssumption
<1>t. TypeOK /\ RowConsistent /\ LockInv /\ row[d] \in Row
  BY DEF IInv, TypeOK
<1>1. ASSUME NEW u \in User, NEW e \in Device, NEW s \in Secret,
             Provision(u, e, s)
      PROVE \/ row'[d] = row[d]
            \/ row[d].owner = None /\ row[d].hash = None
  BY <1>1, <1>t DEF Provision, TypeOK, RowConsistent, Coherent
<1>2. ASSUME NEW c \in Claimer, ClaimCommit(c)
      PROVE \/ row'[d] = row[d]
            \/ row[d].owner = None /\ row[d].hash = None
  <2>1. /\ claim[c].dev \in Device
        /\ row[claim[c].dev].status = "unclaimed"
    BY <1>2, <1>t DEF ClaimCommit, TypeOK, ClaimState, LockInv
  <2> QED BY <1>2, <2>1, <1>t DEF ClaimCommit, TypeOK, RowConsistent, Coherent
<1>3. ASSUME NEW g \in Getter, SecretMark(g)
      PROVE  /\ row'[d].tenant = row[d].tenant
             /\ row'[d].owner = row[d].owner
             /\ row'[d].hash = row[d].hash
  BY <1>3, <1>t DEF SecretMark, TypeOK, Row
<1>4. ASSUME NEW u \in User, NEW e \in Device, Reset(u, e)
      PROVE \/ row'[d] = row[d]
            \/ row'[d].owner = None /\ row'[d].hash = None /\ d \in wasReset'
  <2>1. CASE d # e
    BY <1>4, <2>1, <1>t DEF Reset, TypeOK
  <2>2. CASE d = e
    BY <1>4, <2>2, <1>t DEF Reset, TypeOK, Row
  <2> QED BY <2>1, <2>2
<1>5. ASSUME NEW h \in Hook, HookTouch(h)
      PROVE  /\ row'[d].tenant = row[d].tenant
             /\ row'[d].owner = row[d].owner
             /\ row'[d].hash = row[d].hash
  BY <1>5, <1>t DEF HookTouch, TypeOK, Row
<1>6. CASE UNCHANGED row
  BY <1>6
<1> QED BY <1>1, <1>2, <1>3, <1>4, <1>5, <1>6, RowFrame DEF RowWriter

(* Secrets that are out of step with the row come from a reset. *)
LEMMA NextStaleInv == IInv /\ [Next]_vars => StaleInv'
<1> SUFFICES ASSUME IInv, [Next]_vars PROVE StaleInv'
  OBVIOUS
<1> SUFFICES ASSUME NEW d \in Device, d \notin wasReset'
             PROVE  /\ cache'[d] # None => cache'[d] = row'[d].hash
                    /\ \A g \in Getter :
                         fetch'[g].dev = d /\ fetch'[g].secret # None =>
                           fetch'[g].secret = row'[d].hash
                    /\ \A c \in Claimer :
                         claim'[c].pc = "cache" /\ claim'[c].dev = d =>
                           claim'[c].secret = row'[d].hash
  <2>1. TypeOK'
    BY NextTypeOK DEF IInv
  <2>2. \A c \in Claimer : claim'[c].pc = "cache" => claim'[c].dev \in Device
    BY <2>1, NoneAssumption DEF TypeOK, ClaimState
  <2> QED BY <2>2 DEF StaleInv, StaleOnlyAfterReset
<1> USE NoneAssumption DEF history
<1>t. TypeOK /\ RowConsistent /\ StaleInv /\ LockInv /\ StaleOnlyAfterReset
  BY DEF IInv, StaleInv
<1>r. d \notin wasReset
  BY DEF Next, vars, history, Provision, ClaimLock, ClaimUpdate, ClaimCommit,
         ClaimRollback, ClaimCache, ClaimCacheUnanswered, SecretRead,
         SecretTake, SecretTakeUnanswered, SecretMark, SecretReply,
         SecretFail, Reset, HookRead, HookTouch, Expire, Crash
<1>o. /\ cache[d] # None => cache[d] = row[d].hash
      /\ \A g \in Getter : fetch[g].dev = d /\ fetch[g].secret # None =>
                              fetch[g].secret = row[d].hash
      /\ \A c \in Claimer : claim[c].pc = "cache" /\ claim[c].dev = d =>
                              claim[c].secret = row[d].hash
  BY <1>t, <1>r DEF StaleInv, StaleOnlyAfterReset
\* As long as a secret of d is around, its row has a hash, which stays.
<1>h. row[d].hash # None => row'[d].hash = row[d].hash
  <2>1. row'[d].owner = None => row'[d].hash = None
    BY NextRowConsistent DEF RowConsistent, Coherent
  <2> QED BY RowStep, <2>1
<1>s. /\ cache[d] # None => cache[d] = row'[d].hash
      /\ \A g \in Getter : fetch[g].dev = d /\ fetch[g].secret # None =>
                              fetch[g].secret = row'[d].hash
      /\ \A c \in Claimer : claim[c].pc = "cache" /\ claim[c].dev = d =>
                              claim[c].secret = row'[d].hash
  <2>1. \A c \in Claimer : claim[c].pc = "cache" => claim[c].secret # None
    BY <1>t DEF TypeOK
  <2> QED BY <1>o, <1>h, <2>1
<1>1. ASSUME NEW c \in Claimer, NEW u \in User, NEW e \in Device,
             ClaimLock(c, u, e)
      PROVE  \A b \in Claimer : claim'[b].pc = "cache" => claim'[b] = claim[b]
  BY <1>1, <1>t DEF ClaimLock, TypeOK
<1>2. ASSUME NEW c \in Claimer, NEW s \in Secret, ClaimUpdate(c, s)
      PROVE  \A b \in Claimer : claim'[b].pc = "cache" => claim'[b] = claim[b]
  BY <1>2, <1>t DEF ClaimUpdate, TypeOK, ClaimState
<1>3. ASSUME NEW c \in Claimer, ClaimCommit(c)
      PROVE  /\ UNCHANGED <<cache, fetch>>
             /\ \A b \in Claimer :
                  claim'[b].pc = "cache" /\ claim'[b].dev = d =>
                    claim'[b].secret = row'[d].hash
  <2>1. /\ \A b \in Claimer : b # c => claim'[b] = claim[b]
        /\ claim'[c].dev = claim[c].dev
        /\ claim'[c].secret = claim[c].secret
        /\ claim[c].dev \in Device
    BY <1>3, <1>t DEF ClaimCommit, TypeOK, ClaimState
  <2>2. row'[claim[c].dev].hash = claim[c].secret
    <3>1. row[claim[c].dev] \in Row
      BY <2>1, <1>t DEF TypeOK
    <3> QED BY <1>3, <2>1, <3>1, <1>t DEF ClaimCommit, TypeOK, Row
  <2>3. UNCHANGED <<cache, fetch>>
    BY <1>3 DEF ClaimCommit
  <2> QED BY <2>1, <2>2, <2>3, <1>s
<1>4. ASSUME NEW c \in Claimer, ClaimRollback(c)
      PROVE  \A b \in Claimer : claim'[b].pc = "cache" => claim'[b] = claim[b]
  BY <1>4, <1>t DEF ClaimRollback, TypeOK, NoClaim
<1>5. ASSUME NEW c \in Claimer, ClaimCache(c) \/ ClaimCacheUnanswered(c)
      PROVE  /\ fetch' = fetch
             /\ \A b \in Claimer : claim'[b].pc = "cache" => claim'[b] = claim[b]
             /\ cache'[d] # cache[d] => cache'[d] = row'[d].hash
  <2>1. \/ cache'[d] = cache[d]
        \/ d = claim[c].dev /\ cache'[d] = claim[c].secret
    BY <1>5, <1>t DEF ClaimCache, ClaimCacheUnanswered, SetSecret, TypeOK
  <2>2. claim[c].pc = "cache" /\ fetch' = fetch
    BY <1>5 DEF ClaimCache, ClaimCacheUnanswered
  <2>3. \A b \in Claimer : b # c => claim'[b] = claim[b]
    BY <1>5, <1>t DEF ClaimCache, ClaimCacheUnanswered, TypeOK
  <2>4. claim'[c].pc = "idle" \/ claim'[c] = claim[c]
    BY <1>5, <1>t DEF ClaimCache, ClaimCacheUnanswered, TypeOK, NoClaim
  <2> QED BY <2>1, <2>2, <2>3, <2>4, <1>s
<1>6. ASSUME NEW g \in Getter,
             \/ \E e \in Device : SecretRead(g, e)
             \/ SecretReply(g)
             \/ SecretFail(g)
      PROVE  \A f \in Getter : fetch'[f].secret # None => fetch'[f] = fetch[f]
  BY <1>6, <1>t DEF SecretRead, SecretReply, SecretFail, TypeOK, NoFetch
<1>7. ASSUME NEW g \in Getter, SecretTake(g)
      PROVE  /\ claim' = claim
             /\ cache'[d] # None => cache'[d] = cache[d]
             /\ \A f \in Getter : fetch'[f].dev = d /\ fetch'[f].secret # None =>
                                    fetch'[f].secret = row'[d].hash
  <2>1. /\ fetch[g].dev \in Device
        /\ \A f \in Getter : f # g => fetch'[f] = fetch[f]
        /\ fetch'[g].secret # None =>
             fetch'[g].secret = cache[fetch[g].dev] /\ fetch'[g].dev = fetch[g].dev
        /\ cache' = [cache EXCEPT ![fetch[g].dev] = None]
        /\ claim' = claim
    BY <1>7, <1>t DEF SecretTake, TypeOK, FetchState, NoFetch
  <2> QED BY <2>1, <1>s, <1>t DEF TypeOK
<1>8. ASSUME NEW g \in Getter, SecretMark(g)
      PROVE  \A f \in Getter : /\ fetch'[f].secret = fetch[f].secret
                               /\ fetch'[f].dev = fetch[f].dev
  BY <1>8, <1>t DEF SecretMark, TypeOK, FetchState
<1>9. ASSUME \/ \E e \in Device : Expire(e)
             \/ \E g \in Getter : SecretTakeUnanswered(g)
      PROVE  /\ cache'[d] # None => cache'[d] = cache[d]
             /\ UNCHANGED <<claim, fetch>>
  BY <1>9, <1>t DEF Expire, SecretTakeUnanswered, TypeOK
<1>10. CASE Crash
  BY <1>10, <1>s DEF Crash, NoClaim, NoFetch
<1>11. CASE UNCHANGED <<claim, cache, fetch>>
  BY <1>11, <1>s
<1>12. ASSUME UNCHANGED <<cache, fetch>>,
              \A b \in Claimer : claim'[b].pc = "cache" => claim'[b] = claim[b]
       PROVE  /\ cache'[d] # None => cache'[d] = row'[d].hash
              /\ \A g \in Getter :
                   fetch'[g].dev = d /\ fetch'[g].secret # None =>
                     fetch'[g].secret = row'[d].hash
              /\ \A c \in Claimer :
                   claim'[c].pc = "cache" /\ claim'[c].dev = d =>
                     claim'[c].secret = row'[d].hash
  BY <1>12, <1>s
<1>13. CASE \/ \E c \in Claimer, u \in User, e \in Device : ClaimLock(c, u, e)
            \/ \E c \in Claimer, s \in Secret : ClaimUpdate(c, s)
            \/ \E c \in Claimer : ClaimRollback(c)
  <2>1. UNCHANGED <<cache, fetch>>
    BY <1>13 DEF ClaimLock, ClaimUpdate, ClaimRollback
  <2>2. \A b \in Claimer : claim'[b].pc = "cache" => claim'[b] = claim[b]
    BY <1>13, <1>1, <1>2, <1>4
  <2> QED BY <2>1, <2>2, <1>12
<1>14. CASE \E c \in Claimer : \/ ClaimCommit(c)
                              \/ ClaimCache(c)
                              \/ ClaimCacheUnanswered(c)
  BY <1>14, <1>3, <1>5, <1>s
<1>15. CASE \E g \in Getter : \/ \E e \in Device : SecretRead(g, e)
                             \/ SecretTake(g)
                             \/ SecretMark(g)
                             \/ SecretReply(g)
                             \/ SecretFail(g)
  <2>1. PICK g \in Getter : \/ \E e \in Device : SecretRead(g, e)
                            \/ SecretTake(g)
                            \/ SecretMark(g)
                            \/ SecretReply(g)
                            \/ SecretFail(g)
    BY <1>15
  <2>2. CASE SecretTake(g)
    BY <2>2, <1>7, <1>s
  <2>3. CASE SecretMark(g)
    BY <2>3, <1>8, <1>s DEF SecretMark
  <2>4. CASE (\E e \in Device : SecretRead(g, e)) \/ SecretReply(g) \/ SecretFail(g)
    BY <2>4, <1>6, <1>s DEF SecretRead, SecretReply, SecretFail
  <2> QED BY <2>1, <2>2, <2>3, <2>4
<1>16. CASE \/ \E e \in Device : Expire(e)
            \/ \E g \in Getter : SecretTakeUnanswered(g)
  BY <1>16, <1>9, <1>s
<1> QED
  BY <1>10, <1>11, <1>13, <1>14, <1>15, <1>16
  DEF Next, vars, Provision, Reset, HookRead, HookTouch

-----------------------------------------------------------------------------
(* No handler writes a claim code but ProvisionDevice, which writes none;   *)
(* and a claim only takes a row that has one.                               *)
LEMMA NextCodeInv == IInv /\ [Next]_vars => CodeInv'
<1> SUFFICES ASSUME IInv, [Next]_vars PROVE CodeInv'
  OBVIOUS
<1> USE NoneAssumption DEF history
<1>t. TypeOK /\ RowConsistent /\ LockInv /\ CodeInv /\ ClaimableAgain
  BY DEF IInv, CodeInv
\* One row at a time: d is the row a step writes.
<1>w. ASSUME NEW d \in Device, NEW r,
             row' = [row EXCEPT ![d] = r],
             row[d].status # "absent",
             r.status # "absent",
             r.code = row[d].code,
             provisioned' = provisioned,
             wasReset' \in {wasReset, wasReset \cup {d}},
             d \in provisioned \cap wasReset' => r.owner = None,
             \A c \in Claimer : claim'[c].pc \in {"locked", "updated"} =>
               claim'[c] = claim[c]
      PROVE  CodeInv'
  <2>1. /\ row'[d] = r
        /\ \A e \in Device : e # d => row'[e] = row[e]
        /\ \A e \in Device : e # d => (e \in wasReset' <=> e \in wasReset)
    BY <1>w, <1>t DEF TypeOK
  <2>2. d \in provisioned <=> ~r.code
    BY <1>w, <1>t DEF CodeInv, TypeOK, Row
  <2>3. \A e \in Device :
          /\ row'[e].status # "absent" =>
               (row'[e].code <=> e \notin provisioned')
          /\ row'[e].status = "absent" => e \notin provisioned' \cup wasReset'
          /\ e \in provisioned' \cap wasReset' =>
               row'[e].owner = None /\ ~row'[e].code
    BY <1>w, <2>1, <2>2, <1>t DEF CodeInv, ClaimableAgain
  <2> QED BY <1>w, <2>3, <1>t DEF CodeInv, ClaimableAgain
<1>1. ASSUME NEW u \in User, NEW d \in Device, NEW s \in Secret,
             Provision(u, d, s)
      PROVE CodeInv'
  <2>1. /\ row'[d].status = "claimed"
        /\ row'[d].code = FALSE
        /\ row[d].status = "absent"
        /\ \A e \in Device : e # d => row'[e] = row[e]
        /\ provisioned' = provisioned \cup {d}
        /\ UNCHANGED <<claim, lock, wasReset>>
    BY <1>1, <1>t DEF Provision, TypeOK
  <2>2. d \notin wasReset
    BY <2>1, <1>t DEF CodeInv
  <2>3. \A c \in Claimer : claim[c].pc \in {"locked", "updated"} =>
          claim[c].dev # d
    BY <2>1, <1>t DEF LockInv
  <2> QED BY <2>1, <2>2, <2>3, <1>t DEF CodeInv, ClaimableAgain
<1>2. ASSUME NEW c \in Claimer, NEW u \in User, NEW d \in Device,
             ClaimLock(c, u, d)
      PROVE CodeInv'
  <2>1. /\ \A b \in Claimer : b # c => claim'[b] = claim[b]
        /\ claim'[c].dev = d
        /\ UNCHANGED <<row, provisioned, wasReset>>
        /\ row[d].status # "absent"
    BY <1>2, <1>t DEF ClaimLock, TypeOK
  <2> DEFINE ok == row[d].status = "unclaimed" /\ row[d].code
  <2>2. claim'[c].free => row[d].code
    <3>1. CASE ok
      BY <3>1
    <3>2. CASE ~ok
      <4>1. ok = FALSE
        BY <3>2
      <4>2. claim' = [claim EXCEPT ![c] =
                        [pc |-> "locked", dev |-> d, user |-> u,
                         secret |-> None, free |-> ok]]
        BY <1>2 DEF ClaimLock
      <4> HIDE DEF ok
      <4>3. claim'[c].free = FALSE
        BY <4>1, <4>2, <1>t DEF TypeOK
      <4> QED BY <4>3
    <3> QED BY <3>1, <3>2
  <2>3. row[d].code => d \notin provisioned
    BY <2>1, <1>t DEF CodeInv
  <2> QED BY <2>1, <2>2, <2>3, <1>t DEF CodeInv, ClaimableAgain
<1>3. ASSUME NEW c \in Claimer, NEW s \in Secret, ClaimUpdate(c, s)
      PROVE CodeInv'
  <2>1. /\ claim[c].pc = "locked"
        /\ claim'[c].dev = claim[c].dev
        /\ claim'[c].free = claim[c].free
        /\ \A b \in Claimer : b # c => claim'[b] = claim[b]
        /\ UNCHANGED <<row, provisioned, wasReset>>
    BY <1>3, <1>t DEF ClaimUpdate, TypeOK, ClaimState
  <2> QED BY <2>1, <1>t DEF CodeInv, ClaimableAgain
<1>4. ASSUME NEW c \in Claimer, ClaimCommit(c) PROVE CodeInv'
  <2> DEFINE d == claim[c].dev
             r == [row[d] EXCEPT !.status = "claimed",
                     !.tenant = TenantOf[claim[c].user],
                     !.owner = claim[c].user, !.hash = claim[c].secret,
                     !.delivered = FALSE]
  <2>1. d \in Device /\ row[d] \in Row
    BY <1>4, <1>t DEF ClaimCommit, TypeOK, ClaimState
  <2>2. claim[c].free /\ row[d].status = "unclaimed" /\ d \notin provisioned
    BY <1>4, <1>t DEF ClaimCommit, LockInv, CodeInv
  <2>3. r.status # "absent" /\ r.code = row[d].code
    BY <2>1 DEF Row
  <2>4. \A b \in Claimer : claim'[b].pc \in {"locked", "updated"} =>
          claim'[b] = claim[b]
    BY <1>4, <1>t DEF ClaimCommit, TypeOK, ClaimState
  <2>5. row' = [row EXCEPT ![d] = r] /\ UNCHANGED <<provisioned, wasReset>>
    BY <1>4 DEF ClaimCommit
  <2>6. row[d].status # "absent"
    BY <2>2
  <2> HIDE DEF r, d
  <2> QED BY <1>w, <2>1, <2>2, <2>3, <2>4, <2>5, <2>6
<1>5. ASSUME NEW g \in Getter, SecretMark(g) PROVE CodeInv'
  <2>1. /\ \A e \in Device : /\ row'[e].status = row[e].status
                             /\ row'[e].code = row[e].code
                             /\ row'[e].owner = row[e].owner
        /\ UNCHANGED <<claim, provisioned, wasReset>>
    BY <1>5, <1>t DEF SecretMark, TypeOK, Row
  <2> QED BY <2>1, <1>t DEF CodeInv, ClaimableAgain
<1>6. ASSUME NEW u \in User, NEW d \in Device, Reset(u, d) PROVE CodeInv'
  <2> DEFINE r == [row[d] EXCEPT !.tenant = None, !.owner = None,
                     !.status = "unclaimed", !.hash = None,
                     !.delivered = FALSE]
  <2>1. row[d] \in Row
    BY <1>t DEF TypeOK
  <2>2. r.status # "absent" /\ r.code = row[d].code /\ r.owner = None
    BY <2>1 DEF Row
  <2>3. row[d].status # "absent"
    <3>1. TenantOf[u] # None
      BY TenantOfAssumption
    <3> QED BY <1>6, <3>1, <1>t DEF Reset, MayReset, RowConsistent, Coherent
  <2>4. /\ row' = [row EXCEPT ![d] = r]
        /\ provisioned' = provisioned
        /\ wasReset' = wasReset \cup {d}
        /\ claim' = claim
    BY <1>6 DEF Reset
  <2> HIDE DEF r
  <2> QED BY <1>w, <2>2, <2>3, <2>4
<1>7. ASSUME NEW h \in Hook, HookTouch(h) PROVE CodeInv'
  <2> DEFINE d == hook[h]
             r == [row[d] EXCEPT !.status = "active"]
  <2>1. /\ d \in Device
        /\ row[d] \in Row
        /\ UNCHANGED <<claim, provisioned, wasReset>>
    BY <1>7, <1>t DEF HookTouch, TypeOK
  <2>2. /\ r.status = "active"
        /\ r.code = row[d].code
        /\ r.owner = row[d].owner
        /\ r.tenant = row[d].tenant
    BY <2>1 DEF Row
  <2>3. CASE RowCheck(r)
    <3>1. row[d].status # "absent"
      BY <2>1, <2>2, <2>3, <1>t DEF RowCheck, RowConsistent, Coherent
    <3>2. d \in provisioned \cap wasReset => r.owner = None
      BY <2>1, <2>2, <1>t DEF CodeInv, ClaimableAgain
    <3>3. row' = [row EXCEPT ![d] = r]
      BY <1>7, <2>3 DEF HookTouch
    <3>4. r.status # "absent"
      BY <2>2
    <3> HIDE DEF r, d
    <3> QED BY <1>w, <2>1, <2>2, <3>1, <3>2, <3>3, <3>4
  <2>4. CASE ~RowCheck(r)
    <3>1. row' = row
      BY <1>7, <2>4 DEF HookTouch
    <3> QED BY <2>1, <3>1, <1>t DEF CodeInv, ClaimableAgain
  <2> QED BY <2>3, <2>4
<1>8. ASSUME UNCHANGED <<row, provisioned, wasReset>>,
             \A c \in Claimer : claim'[c].pc \in {"locked", "updated"} =>
               claim'[c] = claim[c]
      PROVE  CodeInv'
  BY <1>8, <1>t DEF CodeInv, ClaimableAgain
<1>9. ASSUME NEW c \in Claimer,
             ClaimRollback(c) \/ ClaimCache(c) \/ ClaimCacheUnanswered(c)
      PROVE  /\ UNCHANGED <<row, provisioned, wasReset>>
             /\ \A b \in Claimer : claim'[b].pc \in {"locked", "updated"} =>
                  claim'[b] = claim[b]
  BY <1>9, <1>t DEF ClaimRollback, ClaimCache, ClaimCacheUnanswered, TypeOK,
                    NoClaim
<1>10. CASE Crash
  BY <1>10, <1>8 DEF Crash, NoClaim
<1>11. CASE UNCHANGED <<row, claim, provisioned, wasReset>>
  BY <1>11, <1>8
<1> QED
  BY <1>1, <1>2, <1>3, <1>4, <1>5, <1>6, <1>7, <1>8, <1>9, <1>10, <1>11
  DEF Next, vars, SecretRead, SecretTake, SecretTakeUnanswered, SecretReply,
      SecretFail, HookRead, Expire

-----------------------------------------------------------------------------
(* IInv is inductive and holds in every reachable state. *)
THEOREM Invariance == Spec => []IInv
<1>1. IInv /\ [Next]_vars => IInv'
  BY NextTypeOK, NextRowConsistent, NextLockInv, NextPlaceInv, NextCodeInv,
     NextIssueInv, NextStaleInv DEF IInv
<1> QED BY InitIInv, <1>1, PTL DEF Spec

(* For any number of concurrent secret requests, claims, resets, repeated   *)
(* commands and crashes: a secret sent in two responses is one that a       *)
(* repeated SET had put back in Redis.                                      *)
THEOREM OneTime == Spec => []OneTimeDelivery
<1>1. IInv => OneTimeDelivery
  BY DEF IInv
<1> QED BY Invariance, <1>1, PTL

(* What is cached, taken or handed out was committed for that device.       *)
THEOREM Committed == Spec => []SecretWasCommitted
<1>1. IInv => SecretWasCommitted
  BY DEF IInv, IssueInv
<1> QED BY Invariance, <1>1, PTL

(* The handlers keep the CHECK constraints of the devices table.            *)
THEOREM Consistent == Spec => []RowConsistent
<1>1. IInv => RowConsistent
  BY DEF IInv
<1> QED BY Invariance, <1>1, PTL

(* After every reset a device of the factory can be claimed, and one that   *)
(* was provisioned is never owned again.                                    *)
THEOREM ClaimableOrNever == Spec => []ClaimableAgain
<1>1. IInv => ClaimableAgain
  BY DEF IInv, CodeInv
<1> QED BY Invariance, <1>1, PTL

(* A stale secret needs a reset.                                            *)
THEOREM NoStaleWithoutReset == Spec => []StaleOnlyAfterReset
<1>1. IInv => StaleOnlyAfterReset
  BY DEF IInv, StaleInv
<1> QED BY Invariance, <1>1, PTL

(* A device passes from one owner to another only through 'unclaimed'.      *)
THEOREM NoDirectTransfer == Spec => OwnershipTransfer
<1>1. IInv /\ [Next]_vars => [Transfer]_vars
  BY RowStep DEF Transfer
<1> QED BY Invariance, <1>1, PTL DEF Spec, OwnershipTransfer

-----------------------------------------------------------------------------
(* DeviceLifecycle implements DeviceCustody: provisioning and the COMMIT of *)
(* a claim assign custody, a reset releases it, a reply gives the secret, a *)
(* repeated SET may slip it back, and every other step is invisible.        *)
LEMMA InitCustody == Init => Custody!Init
<1> SUFFICES ASSUME Init PROVE Custody!Init
  OBVIOUS
<1>1. \A d \in Device : row[d].owner = None /\ row[d].hash = None
  <2> SUFFICES ASSUME NEW d \in Device
               PROVE  row[d].owner = None /\ row[d].hash = None
    OBVIOUS
  <2>1. row[d] = FreshRow("absent") \/ row[d] = FreshRow("unclaimed")
    BY DEF Init
  <2> QED BY <2>1 DEF FreshRow
<1> QED BY <1>1 DEF Init, Custody!Init

LEMMA StepCustody == IInv /\ [Next]_vars => [Custody!Next]_(Custody!vars)
<1> SUFFICES ASSUME IInv, [Next]_vars
             PROVE  Custody!Next \/ UNCHANGED Custody!vars
  OBVIOUS
<1> USE NoneAssumption, TenantOfAssumption DEF history
<1>t. /\ TypeOK /\ RowConsistent /\ LockInv /\ PlaceInv /\ IssueInv
      /\ SecretWasCommitted
      /\ \A d \in Device : row[d] \in Row
  BY DEF IInv, TypeOK, IssueInv
\* A step that changes nothing the abstract custody sees.
<1>s. ASSUME \A d \in Device : /\ row'[d].owner = row[d].owner
                              /\ row'[d].hash = row[d].hash,
             UNCHANGED <<issued, handed, restored>>
      PROVE  UNCHANGED Custody!vars
  BY <1>s DEF Custody!vars
<1>1. ASSUME NEW u \in User, NEW d \in Device, NEW s \in Secret,
             Provision(u, d, s)
      PROVE  Custody!Assign(d, u, s)
  <2>1. /\ row[d].owner = None
        /\ issued[s] = None /\ handed[s] = 0
        /\ row'[d].owner = u /\ row'[d].hash = s
        /\ \A e \in Device : e # d => row'[e] = row[e]
        /\ issued' = [issued EXCEPT ![s] = d]
        /\ handed' = handed \/ handed' = [handed EXCEPT ![s] = 1]
        /\ restored' = restored
    BY <1>1, <1>t DEF Provision, TypeOK, RowConsistent, Coherent, PlaceInv
  <2> QED BY <2>1 DEF Custody!Assign
<1>2. ASSUME NEW c \in Claimer, ClaimCommit(c)
      PROVE  Custody!Next
  <2>1. /\ claim[c].dev \in Device
        /\ claim[c].user \in User
        /\ claim[c].secret \in Secret
    BY <1>2, <1>t DEF ClaimCommit, TypeOK, ClaimState
  <2> SUFFICES ASSUME NEW d \in Device, d = claim[c].dev,
                      NEW u \in User, u = claim[c].user,
                      NEW s \in Secret, s = claim[c].secret
               PROVE  Custody!Assign(d, u, s)
    BY <2>1 DEF Custody!Next
  <2>2. row[d].status = "unclaimed"
    BY <1>2, <1>t DEF ClaimCommit, LockInv
  <2>3. row[d].owner = None
    BY <2>2, <1>t DEF RowConsistent, Coherent
  <2>4. issued[s] = None /\ handed[s] = 0
    BY <1>2, <1>t DEF ClaimCommit, IssueInv, SecretWasCommitted, TypeOK
  <2>5. row[d] \in Row
    BY <1>t
  <2>6. /\ row'[d].owner = u /\ row'[d].hash = s
        /\ \A e \in Device : e # d => row'[e] = row[e]
        /\ issued' = [issued EXCEPT ![s] = d]
        /\ UNCHANGED <<handed, restored>>
    BY <1>2, <2>5, <1>t DEF ClaimCommit, TypeOK, Row
  <2> QED BY <2>3, <2>4, <2>6 DEF Custody!Assign
<1>3. ASSUME NEW u \in User, NEW d \in Device, Reset(u, d)
      PROVE  Custody!Release(d)
  <2>1. TenantOf[u] \in Tenant /\ row[d].tenant = TenantOf[u]
    BY <1>3 DEF Reset, MayReset
  <2>2. row[d].owner # None
    BY <2>1, <1>t DEF RowConsistent, Coherent
  <2>3. /\ row'[d].owner = None /\ row'[d].hash = None
        /\ \A e \in Device : e # d => row'[e] = row[e]
        /\ UNCHANGED <<issued, handed, restored>>
    BY <1>3, <1>t DEF Reset, TypeOK, Row
  <2> QED BY <2>2, <2>3 DEF Custody!Release
<1>4. ASSUME NEW g \in Getter, SecretReply(g)
      PROVE  Custody!Give(fetch[g].secret)
  <2>1. /\ fetch[g].secret \in Secret
        /\ fetch[g].dev \in Device
        /\ issued[fetch[g].secret] # None
        /\ handed[fetch[g].secret] = 0 \/ fetch[g].secret \in restored
    BY <1>4, <1>t DEF SecretReply, TypeOK, FetchState, SecretWasCommitted,
                      PlaceInv
  <2> QED BY <1>4, <2>1 DEF SecretReply, Custody!Give
<1>5. ASSUME NEW g \in Getter, SecretMark(g) PROVE UNCHANGED Custody!vars
  <2>1. \A d \in Device : /\ row'[d].owner = row[d].owner
                          /\ row'[d].hash = row[d].hash
    BY <1>5, <1>t DEF SecretMark, TypeOK, Row
  <2> QED BY <1>5, <2>1, <1>s DEF SecretMark
<1>6. ASSUME NEW h \in Hook, HookTouch(h) PROVE UNCHANGED Custody!vars
  <2>1. \A d \in Device : /\ row'[d].owner = row[d].owner
                          /\ row'[d].hash = row[d].hash
    BY <1>6, <1>t DEF HookTouch, TypeOK, Row
  <2> QED BY <1>6, <2>1, <1>s DEF HookTouch
<1>7. CASE UNCHANGED <<row, issued, handed, restored>>
  BY <1>7, <1>s
<1>12. ASSUME NEW c \in Claimer, ClaimCache(c) \/ ClaimCacheUnanswered(c)
       PROVE  Custody!Next \/ UNCHANGED Custody!vars
  <2>1. /\ claim[c].secret \in Secret
        /\ issued[claim[c].secret] # None
        /\ UNCHANGED <<row, issued, handed>>
    BY <1>12, <1>t DEF ClaimCache, ClaimCacheUnanswered, IssueInv, TypeOK,
                       ClaimState
  <2>2. \/ restored' = restored
        \/ restored' = restored \cup {claim[c].secret}
    BY <1>12 DEF ClaimCache, ClaimCacheUnanswered, SetSecret
  <2>3. restored' = restored \cup {claim[c].secret} =>
          Custody!Slip(claim[c].secret)
    BY <2>1 DEF Custody!Slip
  <2> QED BY <2>1, <2>2, <2>3, <1>s DEF Custody!Next
<1>8. (\E g \in Getter : SecretReply(g)) => Custody!Next
  <2>1. \A g \in Getter : SecretReply(g) => fetch[g].secret \in Secret
    BY <1>t DEF SecretReply, TypeOK, FetchState
  <2> QED BY <1>4, <2>1 DEF Custody!Next
<1>9. (\E c \in Claimer : ClaimCommit(c)) => Custody!Next
  BY <1>2
<1>10. (\E u \in User, d \in Device, s \in Secret : Provision(u, d, s)) =>
         Custody!Next
  BY <1>1 DEF Custody!Next
<1>11. (\E u \in User, d \in Device : Reset(u, d)) => Custody!Next
  BY <1>3 DEF Custody!Next
<1> QED
  BY <1>5, <1>6, <1>7, <1>8, <1>9, <1>10, <1>11, <1>12
  DEF Next, vars, ClaimLock, ClaimUpdate, ClaimRollback, SecretRead,
      SecretTake, SecretTakeUnanswered, SecretFail, HookRead, Expire, Crash

(* The API keeps the promise DeviceCustody states. *)
THEOREM CustodyRefinement == Spec => CustodySpec
BY InitCustody, StepCustody, Invariance, PTL
   DEF Spec, CustodySpec, Custody!Spec

=============================================================================
