---------------------------- MODULE ResourceProofs ----------------------------
(***************************************************************************)
(* What the requests share, for any number of them: the connections of the *)
(* pool, of which none is lost and which only as many GET devices as       *)
(* connections exhaust, and the quotas of the tenants, with the bound on   *)
(* the overshoot for any quotas.                                           *)
(***************************************************************************)
EXTENDS ConnPool, DeviceQuota, FiniteSetTheorems, TLAPS

-----------------------------------------------------------------------------
(* ConnPool *)

Requests == Lister \cup Other

LEMMA AtFinite ==
  ASSUME NEW l
  PROVE  IsFiniteSet(At(l)) /\ Cardinality(At(l)) \in Nat
<1>1. IsFiniteSet(Lister \cup Other)
  BY PoolRequestAssumption, FS_Union
<1>2. At(l) \subseteq Lister \cup Other
  BY DEF At
<1> QED BY <1>1, <1>2, FS_Subset, FS_CardinalityType

(* One request moves from k to m: the counts at k and m change by one.      *)
LEMMA Move ==
  ASSUME PoolTypeOK, NEW r \in Requests, NEW k, NEW m, k # m,
         pc[r] = k, Goto(r, m)
  PROVE  /\ Cardinality(At(k)') = Cardinality(At(k)) - 1
         /\ Cardinality(At(m)') = Cardinality(At(m)) + 1
         /\ \A l : l # k /\ l # m => At(l)' = At(l)
<1>1. pc'[r] = m /\ \A s \in Requests : s # r => pc'[s] = pc[s]
  BY DEF PoolTypeOK, Goto, Requests
<1>2. At(k)' = At(k) \ {r} /\ r \in At(k)
  BY <1>1 DEF At, Requests
<1>3. At(m)' = At(m) \cup {r} /\ r \notin At(m)
  BY <1>1 DEF At, Requests
<1>4. \A l : l # k /\ l # m => At(l)' = At(l)
  BY <1>1 DEF At, Requests
<1>5. IsFiniteSet(At(k)) /\ IsFiniteSet(At(m))
  BY AtFinite
<1>6. Cardinality(At(k) \ {r}) = Cardinality(At(k)) - 1
  BY <1>2, <1>5, FS_RemoveElement
<1>7. Cardinality(At(m) \cup {r}) = Cardinality(At(m)) + 1
  BY <1>3, <1>5, FS_AddElement
<1> QED BY <1>2, <1>3, <1>4, <1>6, <1>7

(* The invariant: the pool's own counter is a number and adds up. *)
PoolInv ==
  /\ pc \in [Requests -> ListerPc \cup OtherPc]
  /\ \A r \in Lister : pc[r] \in ListerPc
  /\ \A r \in Other : pc[r] \in OtherPc
  /\ free \in Nat
  /\ Conserved

LEMMA PoolInvTypeOK == PoolInv => PoolTypeOK
<1> SUFFICES ASSUME PoolInv PROVE PoolTypeOK
  OBVIOUS
<1>1. \A l : Cardinality(At(l)) \in Nat
  BY AtFinite
<1>2. free <= PoolSize
  BY <1>1, PoolAssumption DEF PoolInv, Conserved
<1> QED BY <1>2, PoolAssumption DEF PoolInv, PoolTypeOK, Requests

LEMMA InitPoolInv == PoolInit => PoolInv
<1> SUFFICES ASSUME PoolInit PROVE PoolInv
  OBVIOUS
<1>1. \A l \in {"query", "commit", "rows", "work"} : At(l) = {}
  BY DEF PoolInit, At
<1>2. Cardinality({}) = 0
  BY FS_EmptySet
<1>3. Conserved
  BY <1>1, <1>2, PoolAssumption DEF Conserved, PoolInit
<1> QED BY <1>3, PoolAssumption DEF PoolInit, PoolInv, ListerPc, OtherPc, Requests

LEMMA NextPoolInv == PoolInv /\ [PoolNext]_poolVars => PoolInv'
<1> SUFFICES ASSUME PoolInv, [PoolNext]_poolVars PROVE PoolInv'
  OBVIOUS
<1> DEFINE N(l) == Cardinality(At(l))
<1>c. free + N("query") + N("commit") + 2 * N("rows") + N("work") = PoolSize
  BY DEF PoolInv, Conserved
<1>n. \A l : N(l) \in Nat
  BY AtFinite
<1>m. /\ PoolTypeOK
      /\ free \in Nat
      /\ PoolSize \in Nat
  BY PoolInvTypeOK, PoolAssumption DEF PoolInv
<1>s. ASSUME NEW r \in Lister, NEW m \in ListerPc, Goto(r, m), free' \in Nat,
             Conserved'
      PROVE  PoolInv'
  <2>1. \A s \in Requests : pc'[s] = IF s = r THEN m ELSE pc[s]
    BY <1>s DEF Goto, PoolInv
  <2>2. r \notin Other
    BY PoolRequestAssumption
  <2> QED BY <1>s, <2>1, <2>2 DEF PoolInv, Goto, Requests
<1>o. ASSUME NEW r \in Other, NEW m \in OtherPc, Goto(r, m), free' \in Nat,
             Conserved'
      PROVE  PoolInv'
  <2>1. \A s \in Requests : pc'[s] = IF s = r THEN m ELSE pc[s]
    BY <1>o DEF Goto, PoolInv
  <2>2. r \notin Lister
    BY PoolRequestAssumption
  <2> QED BY <1>o, <2>1, <2>2 DEF PoolInv, Goto, Requests
<1>1. ASSUME NEW r \in Lister, ListArrive(r) PROVE PoolInv'
  <2>1. Goto(r, "begin") /\ pc[r] = "idle" /\ free' = free
    BY <1>1 DEF ListArrive
  <2>2. \A l \in {"query", "commit", "rows", "work"} : At(l)' = At(l)
    BY <2>1, <1>m, Move DEF Requests
  <2>3. Conserved'
    BY <2>1, <2>2, <1>c DEF Conserved
  <2> QED BY <2>1, <2>3, <1>s, <1>m DEF ListerPc
<1>2. ASSUME NEW r \in Lister, ListBegin(r) PROVE PoolInv'
  <2>1. pc[r] = "begin" /\ free > 0 /\ free' = free - 1
    BY <1>2 DEF ListBegin
  <2>2. ASSUME NEW m \in {"query", "commit"}, Goto(r, m) PROVE PoolInv'
    <3>1. /\ Cardinality(At(m)') = N(m) + 1
          /\ \A l \in {"query", "commit", "rows", "work"} \ {m} : At(l)' = At(l)
      BY <2>1, <2>2, <1>m, Move DEF Requests
    <3>2. Conserved'
      BY <2>1, <3>1, <1>c, <1>n, <1>m DEF Conserved
    <3> QED BY <2>1, <2>2, <3>2, <1>s, <1>m DEF ListerPc
  <2> QED BY <1>2, <2>2 DEF ListBegin
<1>3. ASSUME NEW r \in Lister, ListCancel(r) PROVE PoolInv'
  <2>1. Goto(r, "idle") /\ pc[r] = "begin" /\ free' = free
    BY <1>3 DEF ListCancel
  <2>2. \A l \in {"query", "commit", "rows", "work"} : At(l)' = At(l)
    BY <2>1, <1>m, Move DEF Requests
  <2>3. Conserved'
    BY <2>1, <2>2, <1>c DEF Conserved
  <2> QED BY <2>1, <2>3, <1>s, <1>m DEF ListerPc
<1>4. ASSUME NEW r \in Lister, ListQuery(r) PROVE PoolInv'
  <2>1. CASE pc[r] = "query" /\ free > 0 /\ free' = free - 1 /\ Goto(r, "rows")
    <3>1. /\ Cardinality(At("query")') = N("query") - 1
          /\ Cardinality(At("rows")') = N("rows") + 1
          /\ \A l \in {"commit", "work"} : At(l)' = At(l)
      BY <2>1, <1>m, Move DEF Requests
    <3>2. Conserved'
      BY <2>1, <3>1, <1>c, <1>n, <1>m DEF Conserved
    <3> QED BY <2>1, <3>2, <1>s, <1>m DEF ListerPc
  <2>2. CASE pc[r] = "query" /\ free' = free /\ Goto(r, "commit")
    <3>1. /\ Cardinality(At("query")') = N("query") - 1
          /\ Cardinality(At("commit")') = N("commit") + 1
          /\ \A l \in {"rows", "work"} : At(l)' = At(l)
      BY <2>2, <1>m, Move DEF Requests
    <3>2. Conserved'
      BY <2>2, <3>1, <1>c, <1>n, <1>m DEF Conserved
    <3> QED BY <2>2, <3>2, <1>s, <1>m DEF ListerPc
  <2> QED BY <1>4, <2>1, <2>2 DEF ListQuery
<1>5. ASSUME NEW r \in Lister, ListClose(r) PROVE PoolInv'
  <2>1. pc[r] = "rows" /\ free' = free + 1 /\ Goto(r, "commit")
    BY <1>5 DEF ListClose
  <2>2. /\ Cardinality(At("rows")') = N("rows") - 1
        /\ Cardinality(At("commit")') = N("commit") + 1
        /\ \A l \in {"query", "work"} : At(l)' = At(l)
    BY <2>1, <1>m, Move DEF Requests
  <2>3. Conserved'
    BY <2>1, <2>2, <1>c, <1>n, <1>m DEF Conserved
  <2> QED BY <2>1, <2>3, <1>s, <1>m DEF ListerPc
<1>6. ASSUME NEW r \in Lister, ListCommit(r) PROVE PoolInv'
  <2>1. pc[r] = "commit" /\ free' = free + 1 /\ Goto(r, "idle")
    BY <1>6 DEF ListCommit
  <2>2. /\ Cardinality(At("commit")') = N("commit") - 1
        /\ \A l \in {"query", "rows", "work"} : At(l)' = At(l)
    BY <2>1, <1>m, Move DEF Requests
  <2>3. Conserved'
    BY <2>1, <2>2, <1>c, <1>n, <1>m DEF Conserved
  <2> QED BY <2>1, <2>3, <1>s, <1>m DEF ListerPc
<1>7. ASSUME NEW r \in Other, OtherArrive(r) PROVE PoolInv'
  <2>1. Goto(r, "wait") /\ pc[r] = "idle" /\ free' = free
    BY <1>7 DEF OtherArrive
  <2>2. \A l \in {"query", "commit", "rows", "work"} : At(l)' = At(l)
    BY <2>1, <1>m, Move DEF Requests
  <2>3. Conserved'
    BY <2>1, <2>2, <1>c DEF Conserved
  <2> QED BY <2>1, <2>3, <1>o, <1>m DEF OtherPc
<1>8. ASSUME NEW r \in Other, OtherAcquire(r) PROVE PoolInv'
  <2>1. pc[r] = "wait" /\ free > 0 /\ free' = free - 1 /\ Goto(r, "work")
    BY <1>8 DEF OtherAcquire
  <2>2. /\ Cardinality(At("work")') = N("work") + 1
        /\ \A l \in {"query", "commit", "rows"} : At(l)' = At(l)
    BY <2>1, <1>m, Move DEF Requests
  <2>3. Conserved'
    BY <2>1, <2>2, <1>c, <1>n, <1>m DEF Conserved
  <2> QED BY <2>1, <2>3, <1>o, <1>m DEF OtherPc
<1>9. ASSUME NEW r \in Other, OtherRelease(r) PROVE PoolInv'
  <2>1. pc[r] = "work" /\ free' = free + 1 /\ Goto(r, "idle")
    BY <1>9 DEF OtherRelease
  <2>2. /\ Cardinality(At("work")') = N("work") - 1
        /\ \A l \in {"query", "commit", "rows"} : At(l)' = At(l)
    BY <2>1, <1>m, Move DEF Requests
  <2>3. Conserved'
    BY <2>1, <2>2, <1>c, <1>n, <1>m DEF Conserved
  <2> QED BY <2>1, <2>3, <1>o, <1>m DEF OtherPc
<1>10. CASE UNCHANGED poolVars
  BY <1>10 DEF poolVars, PoolInv, Conserved, At
<1> QED BY <1>1, <1>2, <1>3, <1>4, <1>5, <1>6, <1>7, <1>8, <1>9, <1>10 DEF PoolNext

(* No path of any request loses a connection or returns one twice.          *)
THEOREM NoLeak == PoolSpec => []Conserved
<1>1. PoolInv => Conserved
  BY DEF PoolInv
<1> QED BY InitPoolInv, NextPoolInv, <1>1, PTL DEF PoolSpec

(* Everybody waits only when every connection is held by a listing.         *)
LEMMA WaitingIsStuck ==
  ASSUME PoolInv, ~(free > 0), At("rows") \cup At("commit") \cup At("work") = {}
  PROVE  Stuck
<1>1. At("rows") = {} /\ At("commit") = {} /\ At("work") = {}
  OBVIOUS
<1>2. Cardinality({}) = 0 /\ Cardinality(At("query")) \in Nat
  BY FS_EmptySet, AtFinite
<1>3. /\ Cardinality(At("rows")) = 0 /\ Cardinality(At("commit")) = 0
      /\ Cardinality(At("work")) = 0
  BY <1>1, <1>2
<1>4. free = 0 /\ Conserved
  BY DEF PoolInv
<1> QED BY <1>2, <1>3, <1>4, PoolAssumption DEF Conserved, Stuck

(* When it is stuck, no connection is left and nobody gives one back.       *)
LEMMA StuckHolds ==
  ASSUME PoolInv, Stuck
  PROVE  /\ free = 0 /\ At("rows") = {} /\ At("commit") = {} /\ At("work") = {}
         /\ Cardinality(Lister) >= PoolSize
<1>1. \A l : IsFiniteSet(At(l)) /\ Cardinality(At(l)) \in Nat
  BY AtFinite
<1>2. /\ free = 0 /\ Cardinality(At("rows")) = 0 /\ Cardinality(At("commit")) = 0
      /\ Cardinality(At("work")) = 0
  BY <1>1, PoolAssumption DEF PoolInv, Conserved, Stuck
<1>3. At("rows") = {} /\ At("commit") = {} /\ At("work") = {}
  BY <1>1, <1>2, FS_EmptySet
<1>4. At("query") \subseteq Lister
  BY DEF At, PoolInv, OtherPc
<1>5. Cardinality(Lister) >= Cardinality(At("query"))
  BY <1>4, PoolRequestAssumption, FS_Subset, FS_CardinalityType
<1> QED BY <1>2, <1>3, <1>5 DEF Stuck

(* The pool is used up by requests that all wait for it in one way only,    *)
(* the one of tenant.go:29; every other request gives its connection back.  *)
THEOREM NoExhaustion == PoolSpec => []NeverAllWaiting
<1>1. PoolInv => NeverAllWaiting
  BY WaitingIsStuck DEF NeverAllWaiting
<1> QED BY InitPoolInv, NextPoolInv, <1>1, PTL DEF PoolSpec

(* That takes as many concurrent GET devices as there are connections.      *)
THEOREM FewListings ==
  Cardinality(Lister) < PoolSize => (PoolSpec => []~Stuck)
<1> SUFFICES ASSUME Cardinality(Lister) < PoolSize PROVE PoolSpec => []~Stuck
  OBVIOUS
<1>1. PoolInv => ~Stuck
  <2>1. Cardinality(Lister) \in Nat
    BY PoolRequestAssumption, FS_CardinalityType
  <2> QED BY <2>1, StuckHolds, PoolAssumption
<1> QED BY InitPoolInv, NextPoolInv, <1>1, PTL DEF PoolSpec

(* The deadlock is for good: once it is stuck, no step of any request gets  *)
(* the pool out of it.                                                      *)
THEOREM StuckForGood == PoolSpec => [][Stuck => Stuck']_poolVars
<1>1. PoolInv /\ [PoolNext]_poolVars => [Stuck => Stuck']_poolVars
  <2> SUFFICES ASSUME PoolInv, PoolNext, Stuck PROVE At("query")' = At("query")
    BY DEF Stuck
  <2>0. PoolTypeOK
    BY PoolInvTypeOK
  <2>1. free = 0 /\ \A r \in Requests : pc[r] \notin {"rows", "commit", "work"}
    BY StuckHolds DEF At, Requests
  <2>2. PICK r \in Requests :
          \/ r \in Lister /\ (ListArrive(r) \/ ListCancel(r))
          \/ r \in Other /\ OtherArrive(r)
    BY <2>1 DEF PoolNext, ListBegin, ListQuery, ListClose, ListCommit,
                OtherAcquire, OtherRelease, Requests
  <2>3. \E m \in {"begin", "idle", "wait"} : Goto(r, m) /\ pc[r] \notin {m, "query"}
    BY <2>2 DEF ListArrive, ListCancel, OtherArrive
  <2> QED BY <2>0, <2>3, Move
<1> QED BY InitPoolInv, NextPoolInv, <1>1, PTL DEF PoolSpec

-----------------------------------------------------------------------------
(* DeviceQuota *)

LEMMA InitQuota == Init => TypeOK /\ ReservedBound
<1> SUFFICES ASSUME Init PROVE TypeOK /\ ReservedBound
  OBVIOUS
<1> USE QuotaAssumption, RequestAssumption, TenantAssumption
<1>1. TypeOK
  BY DEF Init, TypeOK, NoReq, ReqState
<1>2. \A t \in Tenant : Writers(t) = {}
  BY DEF Init, Writers, NoReq
<1>3. Cardinality({}) = 0 /\ Cardinality(Request) \in Nat /\ Cardinality(Request) # 0
  BY FS_EmptySet, FS_CardinalityType
<1>4. ASSUME NEW t \in Tenant
      PROVE  owned[t] + Cardinality(Writers(t)) < peak[t] + Cardinality(Request)
  <2>1. owned[t] = 0 /\ peak[t] \in Nat
    BY DEF Init
  <2>2. Cardinality(Writers(t)) = 0
    BY <1>2, <1>3
  <2> QED BY <1>3, <2>1, <2>2
<1>5. \A r \in Request : req[r].pc = "idle"
  BY DEF Init, NoReq
<1>6. \A t \in Tenant : quota[t] <= peak[t] /\ (quota[t] = 0 => t \in unlimited)
  <2>1. \A t \in Tenant : quota[t] \in Nat /\ peak[t] = quota[t]
    BY DEF Init
  <2> QED BY <2>1 DEF Init
<1> QED BY <1>1, <1>4, <1>5, <1>6 DEF ReservedBound

LEMMA NextTypeOK == TypeOK /\ [Next]_vars => TypeOK'
<1> SUFFICES ASSUME TypeOK, [Next]_vars PROVE TypeOK'
  OBVIOUS
<1> USE QuotaAssumption, TenantAssumption DEF TypeOK, ReqState, NoReq
<1>1. ASSUME NEW r \in Request, NEW t \in Tenant, ReadQuota(r, t)
      PROVE  TypeOK'
  <2>1. CASE quota[t] = 0
    BY <1>1, <2>1 DEF ReadQuota
  <2>2. CASE quota[t] # 0
    <3>1. quota[t] \in Quotas
      OBVIOUS
    <3>2. \A n \in Quotas : n # 0 => n \in Nat /\ n > 0
      BY QuotaAssumption
    <3> QED BY <1>1, <2>2, <3>1, <3>2 DEF ReadQuota
  <2> QED BY <2>1, <2>2
<1>2. ASSUME NEW r \in Request, CountDevices(r) PROVE TypeOK'
  BY <1>2 DEF CountDevices
<1>3. ASSUME NEW r \in Request, WriteDevice(r) PROVE TypeOK'
  BY <1>3 DEF WriteDevice
<1>4. ASSUME NEW t \in Tenant, ResetDevice(t) PROVE TypeOK'
  BY <1>4 DEF ResetDevice
<1>5. ASSUME NEW t \in Tenant, NEW q \in Quotas, PatchQuota(t, q) PROVE TypeOK'
  BY <1>5 DEF PatchQuota
<1>6. ASSUME NEW r \in Request, FailRequest(r) PROVE TypeOK'
  BY <1>6 DEF FailRequest
<1>7. CASE UNCHANGED vars
  BY <1>7 DEF vars
<1> QED BY <1>1, <1>2, <1>3, <1>4, <1>5, <1>6, <1>7 DEF Next

(* The requests past the count are a finite set of at most all requests.    *)
LEMMA WritersFinite ==
  ASSUME NEW t \in Tenant
  PROVE  /\ IsFiniteSet(Writers(t))
         /\ Cardinality(Writers(t)) \in Nat
         /\ Cardinality(Writers(t)) <= Cardinality(Request)
<1>1. Writers(t) \subseteq Request
  BY DEF Writers
<1> QED BY <1>1, RequestAssumption, FS_Subset, FS_CardinalityType

LEMMA NextReservedBound ==
  TypeOK /\ ReservedBound /\ [Next]_vars => ReservedBound'
<1> SUFFICES ASSUME TypeOK, ReservedBound, [Next]_vars PROVE ReservedBound'
  OBVIOUS
<1> USE QuotaAssumption, TenantAssumption
<1>n. Cardinality(Request) \in Nat
  BY RequestAssumption, FS_CardinalityType
<1>t. /\ \A t \in Tenant : /\ Cardinality(Writers(t)) \in Nat
                           /\ owned[t] \in Nat /\ peak[t] \in Nat
                           /\ quota[t] \in Nat
      /\ TypeOK'
  BY WritersFinite, NextTypeOK DEF TypeOK
<1>u. \A t \in Tenant : /\ IsFiniteSet(Writers(t)')
                        /\ Cardinality(Writers(t)') \in Nat
                        /\ Cardinality(Writers(t)') <= Cardinality(Request)
  <2> SUFFICES ASSUME NEW t \in Tenant
               PROVE  /\ IsFiniteSet(Writers(t)')
                      /\ Cardinality(Writers(t)') \in Nat
                      /\ Cardinality(Writers(t)') <= Cardinality(Request)
    OBVIOUS
  <2>1. Writers(t)' \subseteq Request
    BY DEF Writers
  <2> QED BY <2>1, RequestAssumption, FS_Subset, FS_CardinalityType
<1>1. ASSUME NEW r \in Request, NEW t \in Tenant, ReadQuota(r, t)
      PROVE  ReservedBound'
  <2>1. /\ req'[r].tenant = t /\ req'[r].quota = quota[t]
        /\ \A s \in Request : s # r => req'[s] = req[s]
        /\ UNCHANGED <<quota, owned, peak, unlimited>>
    BY <1>1 DEF ReadQuota, TypeOK
  <2>2. ASSUME NEW s \in Tenant, Limited(s)
        PROVE  Writers(s)' = Writers(s)
    <3>1. CASE s = t
      <4>1. quota[t] # 0
        BY <2>2, <3>1 DEF ReservedBound, Limited
      <4>2. req'[r].pc = "count" /\ req[r].pc = "idle"
        BY <1>1, <4>1 DEF ReadQuota, TypeOK
      <4> QED BY <2>1, <4>2, <3>1 DEF Writers
    <3>2. CASE s # t
      <4>1. req[r].pc = "idle"
        BY <1>1 DEF ReadQuota
      <4> QED BY <2>1, <3>2, <4>1 DEF Writers
    <3> QED BY <3>1, <3>2
  <2>3. /\ quota[t] <= peak[t]
        /\ Limited(t) => quota[t] > 0
    BY <1>t DEF ReservedBound, Limited
  <2> QED BY <2>1, <2>2, <2>3 DEF ReservedBound, Limited
<1>2. ASSUME NEW r \in Request, CountDevices(r) PROVE ReservedBound'
  <2>1. req[r].tenant \in Tenant /\ req[r].quota \in Nat
    BY <1>2 DEF CountDevices, TypeOK, ReqState
  <2> SUFFICES ASSUME NEW t \in Tenant, t = req[r].tenant
               PROVE  ReservedBound'
    BY <2>1
  <2>2. CASE owned[t] >= req[r].quota
    <3>1. req'[r].pc = "idle" /\ \A s \in Request : s # r => req'[s] = req[s]
      BY <1>2, <2>2 DEF CountDevices, TypeOK, NoReq
    <3>2. \A s \in Tenant : Writers(s)' = Writers(s)
      BY <1>2, <3>1 DEF Writers, CountDevices
    <3> QED BY <1>2, <3>1, <3>2 DEF CountDevices, ReservedBound, Limited
  <2>3. CASE ~(owned[t] >= req[r].quota)
    <3>1. /\ req'[r].tenant = t /\ req'[r].quota = req[r].quota
          /\ req[r].pc # "idle"
          /\ \A s \in Request : s # r => req'[s] = req[s]
          /\ UNCHANGED <<quota, owned, peak, unlimited>>
      BY <1>2, <2>3 DEF CountDevices, TypeOK, ReqState
    <3>2. \A s \in Tenant : s # t => Writers(s)' = Writers(s)
      BY <3>1 DEF Writers
    <3>3. Limited(t) => req[r].quota <= peak[t] /\ req[r].quota > 0
      BY <3>1 DEF ReservedBound
    <3>4. Limited(t) => owned[t] + Cardinality(Writers(t)') <
                        peak[t] + Cardinality(Request)
      <4>1. owned[t] \in Nat /\ peak[t] \in Nat
        BY <1>t
      <4>2. Cardinality(Writers(t)') \in Nat
            /\ Cardinality(Writers(t)') <= Cardinality(Request)
        BY <1>u
      <4> QED BY <2>1, <2>3, <3>3, <4>1, <4>2, <1>n
    <3>5. \A s \in Tenant : Limited(s) =>
            owned[s] + Cardinality(Writers(s)') < peak[s] + Cardinality(Request)
      BY <3>2, <3>4 DEF ReservedBound
    <3>6. ASSUME NEW s \in Request, req'[s].pc # "idle",
                 req'[s].tenant \notin unlimited
          PROVE  req'[s].quota <= peak[req'[s].tenant] /\ req'[s].quota > 0
      <4>1. CASE s = r
        BY <4>1, <3>1, <3>3, <3>6 DEF Limited
      <4>2. CASE s # r
        BY <4>2, <3>1, <3>6 DEF ReservedBound, Limited
      <4> QED BY <4>1, <4>2
    <3> QED BY <3>1, <3>5, <3>6 DEF ReservedBound, Limited
  <2> QED BY <2>2, <2>3
<1>3. ASSUME NEW r \in Request, WriteDevice(r) PROVE ReservedBound'
  <2>1. req[r].tenant \in Tenant
    BY <1>3 DEF WriteDevice, TypeOK, ReqState
  <2> SUFFICES ASSUME NEW t \in Tenant, t = req[r].tenant
               PROVE  ReservedBound'
    BY <2>1
  <2>2. /\ req[r].pc = "write" /\ req'[r].pc = "idle"
        /\ \A s \in Request : s # r => req'[s] = req[s]
        /\ UNCHANGED <<quota, peak, unlimited>>
    BY <1>3 DEF WriteDevice, TypeOK, NoReq
  <2>3. /\ owned'[t] <= owned[t] + 1
        /\ owned'[t] \in Nat
        /\ \A s \in Tenant : s # t => owned'[s] = owned[s]
    BY <1>3, <1>t DEF WriteDevice, TypeOK
  <2>4. r \in Writers(t) /\ Writers(t)' = Writers(t) \ {r}
    BY <2>2 DEF Writers
  <2>5. Cardinality(Writers(t)') = Cardinality(Writers(t)) - 1
    <3>1. IsFiniteSet(Writers(t))
      BY WritersFinite
    <3>2. Cardinality(Writers(t) \ {r}) = Cardinality(Writers(t)) - 1
      BY <2>4, <3>1, FS_RemoveElement
    <3> QED BY <2>4, <3>2
  <2>6. \A s \in Tenant : s # t => Writers(s)' = Writers(s)
    BY <2>2 DEF Writers
  <2>7. Limited(t) => owned'[t] + Cardinality(Writers(t)') <
                      peak[t] + Cardinality(Request)
    BY <2>3, <2>5, <1>t, <1>n DEF ReservedBound
  <2>8. \A s \in Tenant : Limited(s) =>
          owned'[s] + Cardinality(Writers(s)') < peak[s] + Cardinality(Request)
    BY <2>3, <2>6, <2>7 DEF ReservedBound
  <2> QED BY <2>2, <2>8 DEF ReservedBound, Limited
<1>4. ASSUME NEW t \in Tenant, ResetDevice(t) PROVE ReservedBound'
  <2>1. /\ UNCHANGED <<quota, req, peak, unlimited>>
        /\ \A s \in Tenant : owned'[s] <= owned[s] /\ owned'[s] \in Nat
    BY <1>4, <1>t DEF ResetDevice, TypeOK
  <2>2. \A s \in Tenant : Writers(s)' = Writers(s)
    BY <2>1 DEF Writers
  <2>3. \A s \in Tenant : Limited(s) =>
          owned'[s] + Cardinality(Writers(s)) < peak[s] + Cardinality(Request)
    BY <2>1, <1>t, <1>n DEF ReservedBound
  <2> QED BY <2>1, <2>2, <2>3 DEF ReservedBound, Limited
<1>5. ASSUME NEW t \in Tenant, NEW q \in Quotas, PatchQuota(t, q)
      PROVE  ReservedBound'
  <2>1. /\ UNCHANGED <<owned, req>>
        /\ \A s \in Tenant : peak'[s] >= peak[s] /\ peak'[s] \in Nat
        /\ \A s \in Tenant : quota'[s] <= peak'[s]
        /\ \A s \in Tenant : quota'[s] = 0 => s \in unlimited'
        /\ unlimited \subseteq unlimited'
    BY <1>5, <1>t DEF PatchQuota, TypeOK, ReservedBound
  <2>2. \A s \in Tenant : Writers(s)' = Writers(s)
    BY <2>1 DEF Writers
  <2>3. \A s \in Tenant : Limited(s)' => Limited(s)
    BY <2>1 DEF Limited
  <2>4. \A s \in Tenant : Limited(s)' =>
          owned[s] + Cardinality(Writers(s)) < peak'[s] + Cardinality(Request)
    BY <2>1, <2>3, <1>t, <1>n DEF ReservedBound
  <2>5. ASSUME NEW r \in Request, req[r].pc # "idle",
               req[r].tenant \notin unlimited'
        PROVE  req[r].quota <= peak'[req[r].tenant] /\ req[r].quota > 0
    <3>1. req[r].tenant \in Tenant /\ req[r].quota \in Nat
      BY <2>5 DEF TypeOK, ReqState
    <3>2. req[r].quota <= peak[req[r].tenant] /\ req[r].quota > 0
      BY <2>5, <2>1, <3>1 DEF ReservedBound, Limited
    <3> QED BY <3>1, <3>2, <2>1, <1>t
  <2> QED BY <2>1, <2>2, <2>4, <2>5 DEF ReservedBound, Limited
<1>6. ASSUME NEW r \in Request, FailRequest(r) PROVE ReservedBound'
  <2>1. /\ req'[r].pc = "idle"
        /\ \A s \in Request : s # r => req'[s] = req[s]
        /\ UNCHANGED <<quota, owned, peak, unlimited>>
    BY <1>6 DEF FailRequest, TypeOK, NoReq
  <2>2. ASSUME NEW t \in Tenant
        PROVE  Cardinality(Writers(t)') <= Cardinality(Writers(t))
    <3>1. Writers(t)' \subseteq Writers(t)
      BY <2>1 DEF Writers
    <3> QED BY <3>1, WritersFinite, FS_Subset
  <2>3. \A t \in Tenant : Limited(t) =>
          owned[t] + Cardinality(Writers(t)') < peak[t] + Cardinality(Request)
    BY <2>2, <1>n, <1>t, <1>u DEF ReservedBound
  <2> QED BY <2>1, <2>3 DEF ReservedBound, Limited
<1>7. CASE UNCHANGED vars
  <2>1. \A s \in Tenant : Writers(s)' = Writers(s)
    BY <1>7 DEF vars, Writers
  <2> QED BY <1>7, <2>1 DEF vars, ReservedBound, Limited
<1> QED BY <1>1, <1>2, <1>3, <1>4, <1>5, <1>6, <1>7 DEF Next

(* A tenant that always had a limit owns fewer devices than the largest     *)
(* limit plus the number of concurrent requests: the check-then-act race of *)
(* enforceDeviceQuota lets at most one extra device per other request in.   *)
THEOREM BoundedOvershoot == Spec => []OvershootBound
<1>1. TypeOK /\ ReservedBound => OvershootBound
  <2> SUFFICES ASSUME TypeOK, ReservedBound, NEW t \in Tenant, Limited(t)
               PROVE  owned[t] < peak[t] + Cardinality(Request)
    BY DEF OvershootBound
  <2>1. owned[t] + Cardinality(Writers(t)) < peak[t] + Cardinality(Request)
    BY DEF ReservedBound
  <2>2. owned[t] \in Nat /\ peak[t] \in Nat
    BY DEF TypeOK
  <2>3. Cardinality(Request) \in Nat
    BY RequestAssumption, FS_CardinalityType
  <2> QED BY <2>1, <2>2, <2>3, WritersFinite
<1> QED BY InitQuota, NextTypeOK, NextReservedBound, <1>1, PTL DEF Spec

=============================================================================
