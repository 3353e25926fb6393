--------------------------- MODULE RateLimitsProofs ---------------------------
(***************************************************************************)
(* Theorems about the counters of RateLimits, for any numbers of requests  *)
(* and slots and any limits.                                               *)
(***************************************************************************)
EXTENDS RateLimits, FiniteSetTheorems, TLAPS

Stepwise == {"auth", "quota"}  \* the counters of INCR, EXPIRE and a decision

(* A request counted in the present window of k has not been decided yet.   *)
Pending(r, k) ==
  req[r].pc \in {"expire", "decide"} /\ req[r].key = k /\ ~req[r].old

(* The answers of INCR below the highest limit used that no request in      *)
(* flight carries: each may have let one request through.                   *)
Done(k) ==
  {v \in 1..top[k] : v <= val[k] /\ \A r \in Request : Pending(r, k) => req[r].val # v}

(* Two requests of one window carry different answers up to the limit.      *)
AnswersDiffer ==
  \A k \in Stepwise : \A r \in Request :
    Pending(r, k) =>
      /\ req[r].val <= val[k]
      /\ req[r].val <= Limit(k) =>
           \A s \in Request \ {r} : Pending(s, k) => req[s].val # req[r].val

TopBound == \A k \in Key : top[k] <= Limit(k)

(* What a window let through.                                               *)
StepwiseInv == \A k \in Stepwise : passed[k] <= Cardinality(Done(k))
ScriptedInv ==
  \A k \in Scripted :
    /\ passed[k] <= val[k]
    /\ passed[k] > 0 => top[k] = Limit(k) /\ passed[k] <= Limit(k)

BoundInv == AnswersDiffer /\ TopBound /\ StepwiseInv /\ ScriptedInv

-----------------------------------------------------------------------------
(* The keys and their limits. *)

LEMMA KeyFacts ==
  /\ Stepwise \subseteq Key /\ Scripted \subseteq Key
  /\ Key = Stepwise \cup Scripted /\ Stepwise \cap Scripted = {}
  BY LimitsAssumption DEF Stepwise, Scripted, Key

LEMMA LimitFacts ==
  /\ \A k \in Key : Limit(k) \in Nat /\ Life(k) \in Nat \ {0}
  /\ Limit("auth") = MaxAttempts /\ Limit("quota") = MaxQuota
<1>1. MaxAttempts \in Nat /\ PerSec \in Nat /\ PerMin \in Nat /\ SlotPerMin \in Nat
      /\ MaxQuota \in Nat /\ Minute \in Nat \ {0}
  BY LimitsAssumption
<1>2. ASSUME NEW k \in Key PROVE Limit(k) \in Nat /\ Life(k) \in Nat \ {0}
  BY <1>1 DEF Limit, Life
<1> QED BY <1>2 DEF Limit

LEMMA BumpedFacts ==
  ASSUME NEW k \in Key, val[k] \in Nat
  PROVE  /\ Bumped(k) \in Nat \ {0} /\ val[k] <= Bumped(k)
         /\ val[k] <= Limit(k) => Bumped(k) = val[k] + 1
         /\ val[k] > Limit(k) => Bumped(k) = val[k]
         /\ val[k] = 0 => Bumped(k) = 1
  BY LimitFacts DEF Bumped

(* A larger set of answers leaves room for at least as many requests.       *)
LEMMA DoneGrows ==
  ASSUME NEW m \in Nat, NEW n \in Nat, NEW S, NEW T,
         S \subseteq 1..m, T \subseteq 1..n, S \subseteq T
  PROVE  /\ IsFiniteSet(S)
         /\ Cardinality(S) \in Nat /\ Cardinality(T) \in Nat
         /\ Cardinality(S) <= Cardinality(T)
         /\ Cardinality(T) <= n
<1>1. IsFiniteSet(1..n) /\ Cardinality(1..n) = n
  <2>1. IsFiniteSet(1..n)
    BY FS_Interval
  <2>2. Cardinality(1..n) = IF 1 > n THEN 0 ELSE n - 1 + 1
    BY FS_Interval
  <2> QED BY <2>1, <2>2
<1>2. IsFiniteSet(T) /\ Cardinality(T) <= n
  <2>1. T \in SUBSET (1..n)
    OBVIOUS
  <2>2. IsFiniteSet(T) /\ Cardinality(T) <= Cardinality(1..n)
    BY <1>1, <2>1, FS_Subset, Zenon
  <2> QED BY <1>1, <2>2
<1>3. IsFiniteSet(S) /\ Cardinality(S) <= Cardinality(T)
  <2>1. S \in SUBSET T /\ IsFiniteSet(T)
    BY <1>2
  <2> QED BY <2>1, FS_Subset, Zenon
<1>4. Cardinality(S) \in Nat /\ Cardinality(T) \in Nat
  BY <1>2, <1>3, FS_CardinalityType, Zenon
<1> QED BY <1>2, <1>3, <1>4

-----------------------------------------------------------------------------
(* Types. *)

LEMMA InitTypeOK == Init => TypeOK
<1> SUFFICES ASSUME Init PROVE TypeOK
  OBVIOUS
<1>1. NoReq \in ReqState /\ NoReq.pc = "idle"
  BY KeyFacts DEF NoReq, ReqState, Stepwise
<1> QED BY <1>1 DEF Init, TypeOK

(* The request that INCR answered.                                          *)
LEMMA CountedTypeOK ==
  ASSUME TypeOK, NEW r \in Request, NEW k \in Stepwise, NEW cap \in Nat,
         cap <= Limit(k), Counted(r, k, cap)
  PROVE  TypeOK'
<1>1. k \in Key /\ val[k] \in Nat
  BY KeyFacts DEF TypeOK
<1>2. /\ Bumped(k) \in Nat \ {0}
      /\ val[k] = 0 => Bumped(k) = 1
  BY <1>1, BumpedFacts
<1>3. val' \in [Key -> Nat]
  BY <1>1, <1>2 DEF TypeOK, Counted, Incremented
<1> DEFINE q == [pc |-> IF val[k] = 0 THEN "expire" ELSE "decide", key |-> k,
                 val |-> Bumped(k), cap |-> cap, old |-> FALSE]
<1>4. q \in ReqState
  BY <1>1, <1>2 DEF ReqState
<1>5. req' = [req EXCEPT ![r] = q]
  BY DEF Counted
<1>6. /\ q.pc \in {"expire", "decide"} /\ q.key \in {"auth", "quota"}
      /\ q.val > 0 /\ q.cap <= Limit(q.key)
      /\ q.pc = "expire" => q.val = 1
  BY <1>2 DEF Stepwise
<1> HIDE DEF q
<1>7. UNCHANGED <<client, ttl, quota, passed, top, lost>>
  BY DEF Counted, Incremented
<1>8. req' \in [Request -> ReqState]
  BY <1>4, <1>5 DEF TypeOK
<1>9. \A s \in Request : req'[s] = IF s = r THEN q ELSE req[s]
  BY <1>5 DEF TypeOK
<1> QED BY <1>3, <1>6, <1>7, <1>8, <1>9 DEF TypeOK

LEMMA RepeatedTypeOK ==
  ASSUME TypeOK, NEW k \in Stepwise, Repeated(k)
  PROVE  TypeOK'
<1>1. k \in Key /\ val[k] \in Nat /\ Bumped(k) \in Nat
  BY KeyFacts, BumpedFacts DEF TypeOK
<1>2. val' \in [Key -> Nat]
  BY <1>1 DEF TypeOK, Repeated, Incremented
<1> QED BY <1>1, <1>2 DEF TypeOK, Repeated, Incremented

(* The script and the end of a request.                                     *)
LEMMA ScriptTypes ==
  ASSUME TypeOK, NEW s \in Slot, Script(s)
  PROVE  val' \in [Key -> Nat] /\ ttl' \in [Key -> Nat]
<1>1. \A k \in Key : Bumped(k) \in Nat /\ Life(k) \in Nat
  BY BumpedFacts, LimitFacts DEF TypeOK
<1> QED BY <1>1 DEF TypeOK, Script

LEMMA LeaveTypeOK ==
  ASSUME TypeOK, NEW r \in Request, Leave(r)
  PROVE  TypeOK'
<1>1. NoReq \in ReqState /\ NoReq.pc = "idle"
  BY KeyFacts DEF NoReq, ReqState, Stepwise
<1> QED BY <1>1 DEF TypeOK, Leave

LEMMA NextTypeOK == TypeOK /\ [Next]_vars => TypeOK'
<1> SUFFICES ASSUME TypeOK, [Next]_vars PROVE TypeOK'
  OBVIOUS
<1>0. "auth" \in Stepwise /\ "quota" \in Stepwise
  BY DEF Stepwise
<1>n. NoReq \in ReqState /\ NoReq.pc = "idle"
  BY KeyFacts DEF NoReq, ReqState, Stepwise
<1>1. ASSUME NEW r \in Request, Attempt(r) PROVE TypeOK'
  <2>1. MaxAttempts \in Nat /\ MaxAttempts <= Limit("auth")
    BY LimitFacts, LimitsAssumption
  <2> QED BY <1>0, <1>1, <2>1, CountedTypeOK, RepeatedTypeOK DEF Attempt
<1>2. ASSUME NEW r \in Request, NEW s \in Slot, Allow(r, s) PROVE TypeOK'
  <2>1. val' \in [Key -> Nat] /\ ttl' \in [Key -> Nat]
    BY <1>2, ScriptTypes DEF Allow
  <2>2. client' = client /\ quota' = quota /\ lost' = lost
    BY <1>2 DEF Allow, Script
  <2>3. passed' \in [Key -> Nat] /\ top' \in [Key -> Nat]
    BY <1>2, LimitFacts DEF Allow, TypeOK
  <2>4. CASE req' = req
    BY <2>1, <2>2, <2>3, <2>4 DEF TypeOK
  <2>5. CASE req' = [req EXCEPT ![r].pc = "read"]
    <3>1. req' \in [Request -> ReqState]
      BY <2>5 DEF TypeOK, ReqState
    <3> QED BY <2>1, <2>2, <2>3, <2>5, <3>1 DEF TypeOK
  <2> QED BY <1>2, <2>4, <2>5 DEF Allow
<1>3. ASSUME NEW r \in Request, NEW s \in Slot, AllowFails(r, s) PROVE TypeOK'
  <2>1. val' \in [Key -> Nat] /\ ttl' \in [Key -> Nat]
    BY <1>3, ScriptTypes DEF AllowFails
  <2> QED BY <1>3, <2>1 DEF TypeOK, AllowFails, Script
<1>4. ASSUME NEW r \in Request, ReadQuota(r) PROVE TypeOK'
  <2>1. CASE Leave(r)
    BY <2>1, LeaveTypeOK
  <2>2. CASE ~Leave(r)
    <3>1. req' = [req EXCEPT ![r].pc = "count", ![r].cap = quota]
      BY <1>4, <2>2 DEF ReadQuota
    <3>2. quota \in Nat /\ quota <= MaxQuota
      BY LimitsAssumption DEF TypeOK
    <3> DEFINE q == [req[r] EXCEPT !.pc = "count", !.cap = quota]
    <3>4. q \in ReqState
      <4>1. req[r] \in ReqState
        BY DEF TypeOK
      <4> QED BY <3>2, <4>1 DEF ReqState
    <3>5. req' = [req EXCEPT ![r] = q]
      BY <3>1
    <3> HIDE DEF q
    <3>3. req' \in [Request -> ReqState]
      BY <3>4, <3>5 DEF TypeOK
    <3> QED BY <1>4, <2>2, <3>1, <3>2, <3>3 DEF TypeOK, ReadQuota, ReqState
  <2> QED BY <2>1, <2>2
<1>5. ASSUME NEW r \in Request, CountMessage(r) PROVE TypeOK'
  <2>1. req[r].cap \in Nat /\ req[r].cap <= Limit("quota")
    BY <1>5, LimitFacts DEF TypeOK, CountMessage, ReqState
  <2> QED BY <1>0, <1>5, <2>1, CountedTypeOK, RepeatedTypeOK, LeaveTypeOK
          DEF CountMessage
<1>6. ASSUME NEW r \in Request, SetExpire(r) PROVE TypeOK'
  <2>1. req[r].key \in Key /\ Life(req[r].key) \in Nat
    BY LimitFacts DEF TypeOK, ReqState
  <2> DEFINE b == lost[req[r].key] \/ ~req[r].old
  <2>5. b \in BOOLEAN
    OBVIOUS
  <2>6. \/ lost' = [lost EXCEPT ![req[r].key] = FALSE]
        \/ lost' = [lost EXCEPT ![req[r].key] = b]
    BY <1>6 DEF SetExpire
  <2> HIDE DEF b
  <2>7. lost' \in [Key -> BOOLEAN]
    BY <2>5, <2>6 DEF TypeOK
  <2>8. \/ ttl' = [ttl EXCEPT ![req[r].key] = IF val[req[r].key] = 0 THEN 0 ELSE Life(req[r].key)]
        \/ ttl' = ttl
    BY <1>6 DEF SetExpire
  <2>2. ttl' \in [Key -> Nat] /\ lost' \in [Key -> BOOLEAN]
    BY <2>1, <2>7, <2>8 DEF TypeOK
  <2>3. req' = [req EXCEPT ![r].pc = "decide"] /\ req[r].pc = "expire"
    BY <1>6 DEF SetExpire
  <2>4. req' \in [Request -> ReqState]
    BY <2>3 DEF TypeOK, ReqState
  <2> QED BY <1>6, <2>2, <2>3, <2>4 DEF SetExpire, TypeOK, ReqState
<1>7. ASSUME NEW r \in Request, Decide(r) PROVE TypeOK'
  <2>1. passed' \in [Key -> Nat] /\ top' \in [Key -> Nat]
    BY <1>7 DEF Decide, TypeOK, ReqState, Largest
  <2>2. /\ req' = [req EXCEPT ![r] = NoReq]
        /\ UNCHANGED <<client, val, ttl, quota, lost>>
    BY <1>7 DEF Decide
  <2> QED BY <1>n, <2>1, <2>2 DEF TypeOK
<1>8. CASE PatchQuota
  BY <1>8 DEF PatchQuota, TypeOK
<1>9. CASE Tick
  <2>1. /\ val' \in [Key -> Nat] /\ ttl' \in [Key -> Nat]
        /\ passed' \in [Key -> Nat] /\ top' \in [Key -> Nat]
        /\ lost' \in [Key -> BOOLEAN]
    BY <1>9 DEF Tick, TypeOK
  <2>2. \A q \in ReqState : LET p == [q EXCEPT !.old = TRUE] IN
          /\ p \in ReqState /\ p.pc = q.pc /\ p.key = q.key
          /\ p.val = q.val /\ p.cap = q.cap
    BY DEF ReqState
  <2>5. \A r \in Request :
          /\ req[r] \in ReqState
          /\ req'[r] = req[r] \/ req'[r] = [req[r] EXCEPT !.old = TRUE]
    BY <1>9 DEF Tick, TypeOK
  <2>6. DOMAIN req' = Request /\ req' = [r \in Request |-> req'[r]]
    BY <1>9 DEF Tick
  <2>3. req' \in [Request -> ReqState]
    BY <2>2, <2>5, <2>6
  <2>4. \A r \in Request : /\ req'[r].pc = req[r].pc /\ req'[r].key = req[r].key
                           /\ req'[r].val = req[r].val /\ req'[r].cap = req[r].cap
    BY <2>2, <2>5
  <2> QED BY <1>9, <2>1, <2>3, <2>4 DEF Tick, TypeOK
<1>10. CASE Crash
  <2> DEFINE left(k) ==
        \E r \in Request : req[r].pc = "expire" /\ req[r].key = k /\ ~req[r].old
  <2>1. lost' = [k \in Key |-> lost[k] \/ left(k)]
    BY <1>10 DEF Crash
  <2>2. \A k \in Key : (lost[k] \/ left(k)) \in BOOLEAN
    OBVIOUS
  <2> HIDE DEF left
  <2>3. lost' \in [Key -> BOOLEAN]
    BY <2>1, <2>2
  <2>4. /\ req' = [r \in Request |-> NoReq]
        /\ UNCHANGED <<client, val, ttl, quota, passed, top>>
    BY <1>10 DEF Crash
  <2> QED BY <1>n, <2>3, <2>4 DEF TypeOK
<1>11. CASE UNCHANGED vars
  BY <1>11 DEF vars, TypeOK
<1> QED BY <1>1, <1>2, <1>3, <1>4, <1>5, <1>6, <1>7, <1>8, <1>9, <1>10, <1>11
        DEF Next

(* Every variable keeps its type, a request is never held to a limit beyond *)
(* the largest of its key, and only the request that INCR answered 1 sets   *)
(* an expiration.                                                           *)
THEOREM TypeCorrect == Spec => []TypeOK
  BY InitTypeOK, NextTypeOK, PTL DEF Spec

-----------------------------------------------------------------------------
(* Keys without an expiration. *)

(* What a request in flight keeps when a second passes.                     *)
LEMMA TickRequests ==
  ASSUME TypeOK, Tick, NEW r \in Request
  PROVE  /\ req'[r].pc = req[r].pc /\ req'[r].key = req[r].key
         /\ req'[r].val = req[r].val /\ req'[r].cap = req[r].cap
         /\ req[r].old => req'[r].old
         /\ ttl[req[r].key] # 1 => req'[r].old = req[r].old
         /\ req[r].pc \in {"expire", "decide"} /\ ttl[req[r].key] = 1 => req'[r].old
<1>1. \A q \in ReqState : LET p == [q EXCEPT !.old = TRUE] IN
        p.old /\ p.pc = q.pc /\ p.key = q.key /\ p.val = q.val /\ p.cap = q.cap
  BY DEF ReqState
<1>2. req[r] \in ReqState /\ req[r].key \in Key
  BY DEF TypeOK, ReqState
<1>3. req'[r] = IF req[r].pc \in {"expire", "decide"} /\ ttl[req[r].key] = 1
                THEN [req[r] EXCEPT !.old = TRUE] ELSE req[r]
  BY <1>2 DEF Tick
<1> QED BY <1>1, <1>2, <1>3

LEMMA InitKeyTimed == Init => KeyTimed
  BY DEF Init, KeyTimed

LEMMA CountedKeyTimed ==
  ASSUME TypeOK, KeyTimed, NEW r \in Request, NEW k \in Stepwise, NEW cap \in Nat,
         req[r].pc # "expire", Counted(r, k, cap)
  PROVE  KeyTimed'
<1> SUFFICES ASSUME NEW j \in Key, val'[j] > 0, ttl'[j] = 0
             PROVE  /\ j \notin Scripted
                    /\ \/ lost'[j]
                       \/ \E s \in Request : req'[s].pc = "expire" /\ req'[s].key = j
                                             /\ ~req'[s].old
  BY DEF KeyTimed
<1>1. /\ ttl' = ttl /\ lost' = lost /\ val' = [val EXCEPT ![k] = Bumped(k)]
      /\ req' = [req EXCEPT ![r] =
           [pc |-> IF val[k] = 0 THEN "expire" ELSE "decide", key |-> k,
            val |-> Bumped(k), cap |-> cap, old |-> FALSE]]
  BY DEF Counted, Incremented
<1>2. CASE val[j] > 0
  BY <1>1, <1>2 DEF KeyTimed, TypeOK
<1>3. CASE ~(val[j] > 0)
  <2>1. j = k /\ val[k] = 0
    BY <1>1, <1>3 DEF TypeOK
  <2>2. req'[r].pc = "expire" /\ req'[r].key = k /\ ~req'[r].old
    BY <1>1, <2>1 DEF TypeOK
  <2> QED BY <2>1, <2>2, KeyFacts
<1> QED BY <1>2, <1>3

LEMMA RepeatedKeyTimed ==
  ASSUME TypeOK, KeyTimed, NEW k \in Stepwise, Repeated(k)
  PROVE  KeyTimed'
<1> SUFFICES ASSUME NEW j \in Key, val'[j] > 0, ttl'[j] = 0
             PROVE  /\ j \notin Scripted
                    /\ \/ lost'[j]
                       \/ \E s \in Request : req'[s].pc = "expire" /\ req'[s].key = j
                                             /\ ~req'[s].old
  BY DEF KeyTimed
<1>1. /\ ttl' = ttl /\ req' = req /\ val' = [val EXCEPT ![k] = Bumped(k)]
      /\ lost' = [lost EXCEPT ![k] = @ \/ val[k] = 0]
  BY DEF Repeated, Incremented
<1>2. CASE val[j] > 0
  <2>1. lost[j] => lost'[j]
    BY <1>1 DEF TypeOK
  <2>2. /\ j \notin Scripted
        /\ \/ lost[j]
           \/ \E s \in Request : req[s].pc = "expire" /\ req[s].key = j /\ ~req[s].old
    BY <1>1, <1>2 DEF KeyTimed
  <2> QED BY <1>1, <2>1, <2>2
<1>3. CASE ~(val[j] > 0)
  <2>1. j = k /\ val[k] = 0
    BY <1>1, <1>3 DEF TypeOK
  <2>2. lost'[k]
    BY <1>1, <2>1, KeyFacts DEF TypeOK
  <2> QED BY <2>1, <2>2, KeyFacts
<1> QED BY <1>2, <1>3

(* Nothing about a key changes and no request is forgotten that is to set   *)
(* an expiration.                                                           *)
LEMMA StaysTimed ==
  ASSUME KeyTimed, val' = val, ttl' = ttl,
         \A j \in Key : lost[j] => lost'[j],
         \A s \in Request : req[s].pc = "expire" /\ ~req[s].old =>
           \/ lost'[req[s].key]
           \/ req'[s].pc = "expire" /\ ~req'[s].old /\ req'[s].key = req[s].key
  PROVE  KeyTimed'
<1> SUFFICES ASSUME NEW j \in Key, val[j] > 0, ttl[j] = 0
             PROVE  /\ j \notin Scripted
                    /\ \/ lost'[j]
                       \/ \E s \in Request : req'[s].pc = "expire" /\ req'[s].key = j
                                             /\ ~req'[s].old
  BY DEF KeyTimed
<1>1. /\ j \notin Scripted
      /\ \/ lost[j]
         \/ \E s \in Request : req[s].pc = "expire" /\ req[s].key = j /\ ~req[s].old
  BY DEF KeyTimed
<1> QED BY <1>1

LEMMA ScriptKeyTimed ==
  ASSUME TypeOK, KeyTimed, NEW s \in Slot, Script(s),
         \A q \in Request : req[q].pc = "expire" => req'[q] = req[q]
  PROVE  KeyTimed'
<1> SUFFICES ASSUME NEW j \in Key, val'[j] > 0, ttl'[j] = 0
             PROVE  /\ j \notin Scripted
                    /\ \/ lost'[j]
                       \/ \E q \in Request : req'[q].pc = "expire" /\ req'[q].key = j
                                             /\ ~req'[q].old
  BY DEF KeyTimed
<1> DEFINE ks == {"sec", "min", s}
<1>1. ks \subseteq Scripted
  BY DEF Scripted
<1>2. /\ val'[j] = (IF j \in ks THEN Bumped(j) ELSE val[j])
      /\ ttl'[j] = (IF j \in ks /\ val[j] = 0 THEN Life(j) ELSE ttl[j])
      /\ lost' = lost
  BY DEF Script
<1>3. Life(j) > 0 /\ val[j] \in Nat
  BY LimitFacts DEF TypeOK
<1>4. val[j] > 0 /\ ttl[j] = 0
  BY <1>2, <1>3
<1>5. /\ j \notin Scripted
      /\ \/ lost[j]
         \/ \E q \in Request : req[q].pc = "expire" /\ req[q].key = j /\ ~req[q].old
  BY <1>4 DEF KeyTimed
<1> QED BY <1>2, <1>5

LEMMA NextKeyTimed == TypeOK /\ KeyTimed /\ [Next]_vars => KeyTimed'
<1> SUFFICES ASSUME TypeOK, KeyTimed, [Next]_vars PROVE KeyTimed'
  OBVIOUS
<1>0. "auth" \in Stepwise /\ "quota" \in Stepwise
  BY DEF Stepwise
<1>n. ASSUME NEW r \in Request, Leave(r), req[r].pc # "expire" PROVE KeyTimed'
  BY <1>n, StaysTimed DEF Leave, TypeOK
<1>1. ASSUME NEW r \in Request, Attempt(r) PROVE KeyTimed'
  <2>1. MaxAttempts \in Nat
    BY LimitsAssumption
  <2> QED BY <1>0, <1>1, <2>1, CountedKeyTimed, RepeatedKeyTimed DEF Attempt
<1>2. ASSUME NEW r \in Request, NEW s \in Slot, Allow(r, s) PROVE KeyTimed'
  <2>1. \A q \in Request : req[q].pc = "expire" => req'[q] = req[q]
    BY <1>2 DEF Allow, TypeOK
  <2> QED BY <1>2, <2>1, ScriptKeyTimed DEF Allow
<1>3. ASSUME NEW r \in Request, NEW s \in Slot, AllowFails(r, s) PROVE KeyTimed'
  BY <1>3, ScriptKeyTimed DEF AllowFails
<1>4. ASSUME NEW r \in Request, ReadQuota(r) PROVE KeyTimed'
  <2>1. CASE Leave(r)
    BY <1>4, <1>n, <2>1 DEF ReadQuota
  <2>2. CASE ~Leave(r)
    <3>1. /\ \A q \in Request : req[q].pc = "expire" => req'[q] = req[q]
          /\ UNCHANGED <<val, ttl, lost>>
      BY <1>4, <2>2 DEF ReadQuota, TypeOK
    <3> QED BY <3>1, StaysTimed
  <2> QED BY <2>1, <2>2
<1>5. ASSUME NEW r \in Request, CountMessage(r) PROVE KeyTimed'
  <2>1. req[r].cap \in Nat /\ req[r].pc # "expire"
    BY <1>5 DEF CountMessage, TypeOK, ReqState
  <2> QED BY <1>0, <1>5, <1>n, <2>1, CountedKeyTimed, RepeatedKeyTimed
          DEF CountMessage
<1>6. ASSUME NEW r \in Request, SetExpire(r) PROVE KeyTimed'
  <2> DEFINE k == req[r].key
  <2>0. k \in Key /\ Life(k) > 0
    BY LimitFacts DEF TypeOK, ReqState
  <2>1. /\ val' = val
        /\ req' = [req EXCEPT ![r].pc = "decide"]
    BY <1>6 DEF SetExpire
  <2>2. CASE /\ ttl' = [ttl EXCEPT ![k] = IF val[k] = 0 THEN 0 ELSE Life(k)]
             /\ lost' = [lost EXCEPT ![k] = FALSE]
    <3> SUFFICES ASSUME NEW j \in Key, val[j] > 0, ttl'[j] = 0
                 PROVE  /\ j \notin Scripted
                        /\ \/ lost'[j]
                           \/ \E s \in Request : req'[s].pc = "expire"
                                /\ req'[s].key = j /\ ~req'[s].old
      BY <2>1 DEF KeyTimed
    <3> HIDE DEF k
    <3>4. ttl'[k] = (IF val[k] = 0 THEN 0 ELSE Life(k)) /\ val[k] \in Nat
      BY <2>0, <2>2 DEF TypeOK
    <3>5. j # k
      BY <2>0, <3>4
    <3>1. j # k /\ ttl[j] = 0 /\ lost'[j] = lost[j]
      BY <2>2, <3>5 DEF TypeOK
    <3>2. /\ j \notin Scripted
          /\ \/ lost[j]
             \/ \E s \in Request : req[s].pc = "expire" /\ req[s].key = j /\ ~req[s].old
      BY <3>1 DEF KeyTimed
    <3>3. \A s \in Request : req[s].key = j => req'[s] = req[s]
      BY <2>1, <3>1 DEF TypeOK, k
    <3> QED BY <3>1, <3>2, <3>3
  <2>3. CASE /\ lost' = [lost EXCEPT ![k] = @ \/ ~req[r].old]
             /\ UNCHANGED ttl
    <3> HIDE DEF k
    <3>0. lost'[k] = (lost[k] \/ ~req[r].old)
      BY <2>0, <2>3, Zenon DEF TypeOK
    <3>4. \A j \in Key \ {k} : lost'[j] = lost[j]
      BY <2>0, <2>3 DEF TypeOK
    <3>1. \A j \in Key : lost[j] => lost'[j]
      BY <3>0, <3>4
    <3>2. ~req[r].old => lost'[req[r].key]
      BY <3>0 DEF k
    <3>3. \A s \in Request \ {r} : req'[s] = req[s]
      BY <2>1 DEF TypeOK
    <3> QED BY <2>1, <2>3, <3>1, <3>2, <3>3, StaysTimed
  <2> QED BY <1>6, <2>2, <2>3 DEF SetExpire
<1>7. ASSUME NEW r \in Request, Decide(r) PROVE KeyTimed'
  <2>1. /\ req' = [req EXCEPT ![r] = NoReq] /\ req[r].pc # "expire"
        /\ UNCHANGED <<val, ttl, lost>>
    BY <1>7 DEF Decide
  <2> QED BY <2>1, StaysTimed DEF TypeOK
<1>8. CASE PatchQuota
  BY <1>8, StaysTimed DEF PatchQuota
<1>9. CASE Tick
  <2> SUFFICES ASSUME NEW j \in Key, val'[j] > 0, ttl'[j] = 0
               PROVE  /\ j \notin Scripted
                      /\ \/ lost'[j]
                         \/ \E s \in Request : req'[s].pc = "expire"
                              /\ req'[s].key = j /\ ~req'[s].old
    BY DEF KeyTimed
  <2>1. ttl[j] # 1 /\ val[j] > 0 /\ ttl[j] = 0
    BY <1>9 DEF Tick, TypeOK
  <2>2. /\ j \notin Scripted
        /\ \/ lost[j]
           \/ \E s \in Request : req[s].pc = "expire" /\ req[s].key = j /\ ~req[s].old
    BY <2>1 DEF KeyTimed
  <2>3. lost[j] => lost'[j]
    BY <1>9, <2>1 DEF Tick
  <2> QED BY <1>9, <2>1, <2>2, <2>3, TickRequests
<1>10. CASE Crash
  <2>1. \A j \in Key : lost'[j] = (lost[j] \/ \E r \in Request :
          req[r].pc = "expire" /\ req[r].key = j /\ ~req[r].old)
    BY <1>10 DEF Crash
  <2>2. \A r \in Request : req[r].key \in Key
    BY DEF TypeOK, ReqState
  <2> QED BY <1>10, <2>1, <2>2, StaysTimed DEF Crash
<1>11. CASE UNCHANGED vars
  BY <1>11, StaysTimed DEF vars
<1> QED BY <1>1, <1>2, <1>3, <1>4, <1>5, <1>6, <1>7, <1>8, <1>9, <1>10, <1>11
        DEF Next

(* No key is left without an expiration but by the loss of an EXPIRE: only  *)
(* an error, a repeated INCR or a stop between the two commands does it,    *)
(* and the script never does.                                               *)
THEOREM Timed == Spec => []KeyTimed
<1>1. Init => TypeOK /\ KeyTimed
  BY InitTypeOK, InitKeyTimed
<1>2. TypeOK /\ KeyTimed /\ [Next]_vars => TypeOK' /\ KeyTimed'
  BY NextTypeOK, NextKeyTimed
<1> QED BY <1>1, <1>2, PTL DEF Spec

-----------------------------------------------------------------------------
(* What a window lets through. *)

LEMMA InitBound == Init => BoundInv
<1> SUFFICES ASSUME Init PROVE BoundInv
  OBVIOUS
<1>1. \A k \in Key : val[k] = 0 /\ passed[k] = 0 /\ top[k] = 0
  BY DEF Init
<1>2. \A r \in Request : req[r].pc = "idle"
  BY DEF Init, NoReq
<1>3. AnswersDiffer
  BY <1>2 DEF AnswersDiffer, Pending
<1>4. TopBound
  BY <1>1, LimitFacts DEF TopBound
<1>5. ASSUME NEW k \in Stepwise PROVE passed[k] <= Cardinality(Done(k))
  <2>1. passed[k] = 0 /\ top[k] = 0
    BY <1>1, KeyFacts
  <2>2. Done(k) \subseteq 1..0
    BY <2>1 DEF Done
  <2>3. Cardinality(Done(k)) \in Nat
    BY <2>2, DoneGrows
  <2> QED BY <2>1, <2>3
<1>6. ScriptedInv
  BY <1>1, KeyFacts DEF ScriptedInv
<1> QED BY <1>3, <1>4, <1>5, <1>6 DEF BoundInv, StepwiseInv

(* A step that lets nothing through and counts nobody in.                   *)
LEMMA QuietStep ==
  ASSUME TypeOK, TypeOK', BoundInv, passed' = passed, top' = top,
         \A k \in Key : val[k] <= val'[k],
         \A r \in Request : \A k \in Stepwise :
           Pending(r, k)' => Pending(r, k) /\ req'[r].val = req[r].val
  PROVE  BoundInv'
<1>1. AnswersDiffer'
  <2> SUFFICES ASSUME NEW k \in Stepwise, NEW r \in Request, Pending(r, k)'
               PROVE  /\ req'[r].val <= val'[k]
                      /\ req'[r].val <= Limit(k) =>
                           \A s \in Request \ {r} :
                             Pending(s, k)' => req'[s].val # req'[r].val
    BY DEF AnswersDiffer
  <2>1. Pending(r, k) /\ req'[r].val = req[r].val
    OBVIOUS
  <2>2. req[r].val <= val[k] /\ val[k] <= val'[k]
    BY <2>1, KeyFacts DEF BoundInv, AnswersDiffer
  <2>3. val[k] \in Nat /\ val'[k] \in Nat /\ req[r].val \in Nat
    BY KeyFacts DEF TypeOK, ReqState
  <2> QED BY <2>1, <2>2, <2>3 DEF BoundInv, AnswersDiffer
<1>2. TopBound'
  BY DEF BoundInv, TopBound
<1>3. ASSUME NEW k \in Stepwise PROVE passed'[k] <= Cardinality(Done(k)')
  <2>1. /\ k \in Key /\ top[k] \in Nat /\ passed[k] \in Nat
        /\ val[k] \in Nat /\ val'[k] \in Nat /\ val[k] <= val'[k]
    BY KeyFacts DEF TypeOK
  <2>2. Done(k) \subseteq 1..top[k] /\ Done(k)' \subseteq 1..top[k]
    BY DEF Done
  <2>3. Done(k) \subseteq Done(k)'
    BY <2>1 DEF Done
  <2>4. /\ Cardinality(Done(k)) \in Nat /\ Cardinality(Done(k)') \in Nat
        /\ Cardinality(Done(k)) <= Cardinality(Done(k)')
    BY <2>1, <2>2, <2>3, DoneGrows
  <2>5. passed[k] <= Cardinality(Done(k))
    BY DEF BoundInv, StepwiseInv
  <2> QED BY <2>1, <2>4, <2>5
<1>4. ScriptedInv'
  <2> SUFFICES ASSUME NEW k \in Scripted
               PROVE  /\ passed[k] <= val'[k]
                      /\ passed[k] > 0 => top[k] = Limit(k) /\ passed[k] <= Limit(k)
    BY DEF ScriptedInv
  <2>1. /\ passed[k] \in Nat /\ val[k] \in Nat /\ val'[k] \in Nat /\ val[k] <= val'[k]
    BY KeyFacts DEF TypeOK
  <2> QED BY <2>1 DEF BoundInv, ScriptedInv
<1> QED BY <1>1, <1>2, <1>3, <1>4 DEF BoundInv, StepwiseInv

(* INCR: the new answer is above every answer in flight and every one that  *)
(* was decided, or above the limit.                                         *)
LEMMA CountedBound ==
  ASSUME TypeOK, TypeOK', BoundInv, NEW r \in Request, NEW k \in Stepwise,
         NEW cap \in Nat, req[r].pc \notin {"expire", "decide"}, Counted(r, k, cap)
  PROVE  BoundInv'
<1>0. k \in Key /\ val[k] \in Nat /\ top[k] \in Nat /\ top[k] <= Limit(k) /\ Limit(k) \in Nat
  BY KeyFacts, LimitFacts DEF TypeOK, BoundInv, TopBound
<1>1. /\ Bumped(k) \in Nat \ {0} /\ val[k] <= Bumped(k)
      /\ val[k] <= Limit(k) => Bumped(k) = val[k] + 1
      /\ val[k] > Limit(k) => Bumped(k) = val[k]
  BY <1>0, BumpedFacts
<1>2. /\ val' = [val EXCEPT ![k] = Bumped(k)] /\ passed' = passed /\ top' = top
      /\ req' = [req EXCEPT ![r] =
           [pc |-> IF val[k] = 0 THEN "expire" ELSE "decide", key |-> k,
            val |-> Bumped(k), cap |-> cap, old |-> FALSE]]
  BY DEF Counted, Incremented
<1>3. req'[r].key = k /\ req'[r].val = Bumped(k)
  BY <1>2 DEF TypeOK
<1>4. \A s \in Request \ {r} : req'[s] = req[s]
  BY <1>2 DEF TypeOK
<1>5. val'[k] = Bumped(k) /\ \A j \in Key \ {k} : val'[j] = val[j]
  BY <1>0, <1>2 DEF TypeOK
<1>6. \A s \in Request : req[s].val \in Nat
  BY DEF TypeOK, ReqState
<1>7. AnswersDiffer'
  <2> SUFFICES ASSUME NEW j \in Stepwise, NEW s \in Request, Pending(s, j)'
               PROVE  /\ req'[s].val <= val'[j]
                      /\ req'[s].val <= Limit(j) =>
                           \A u \in Request \ {s} :
                             Pending(u, j)' => req'[u].val # req'[s].val
    BY DEF AnswersDiffer
  <2>0. j \in Key
    BY KeyFacts
  <2>1. \A u \in Request \ {r} :
          Pending(u, j)' => Pending(u, j) /\ req'[u].val = req[u].val /\ req[u].val <= val[j]
    BY <1>4 DEF Pending, BoundInv, AnswersDiffer
  <2>2. CASE s = r
    <3>1. j = k
      BY <1>3, <2>2 DEF Pending
    <3>2. \A u \in Request \ {r} : Pending(u, k)' => req'[u].val <= val[k]
      BY <2>1, <3>1
    <3>3. Bumped(k) <= Limit(k) => val[k] < Bumped(k)
      BY <1>0, <1>1
    <3>4. req'[r].val = Bumped(k) /\ val'[k] = Bumped(k)
      BY <1>3, <1>5
    <3>5. \A u \in Request \ {r} : Pending(u, k)' => req'[u].val \in Nat
      BY <1>4, <1>6
    <3>6. Bumped(k) <= Limit(k) =>
            \A u \in Request \ {r} : Pending(u, k)' => req'[u].val # Bumped(k)
      BY <1>0, <1>1, <3>2, <3>3, <3>5
    <3> QED BY <1>1, <2>2, <3>1, <3>4, <3>6
  <2>3. CASE s # r
    <3>1. Pending(s, j) /\ req'[s].val = req[s].val /\ req[s].val <= val[j]
      BY <2>1, <2>3
    <3>2. val[j] \in Nat /\ val'[j] \in Nat /\ val[j] <= val'[j]
      BY <1>0, <1>1, <1>5, <2>0 DEF TypeOK
    <3>3. req[s].val <= Limit(j) =>
            \A u \in Request \ {s, r} : Pending(u, j)' => req'[u].val # req[s].val
      BY <2>1, <3>1 DEF BoundInv, AnswersDiffer
    <3>4. req[s].val <= Limit(j) /\ Pending(r, j)' => req'[r].val # req[s].val
      <4> SUFFICES ASSUME req[s].val <= Limit(j), Pending(r, j)'
                   PROVE  Bumped(k) # req[s].val
        BY <1>3
      <4>1. j = k
        BY <1>3 DEF Pending
      <4> QED BY <1>0, <1>1, <1>6, <3>1, <4>1
    <3> QED BY <1>6, <3>1, <3>2, <3>3, <3>4
  <2> QED BY <2>2, <2>3
<1>8. TopBound'
  BY <1>2 DEF BoundInv, TopBound
<1>9. ASSUME NEW j \in Stepwise PROVE passed'[j] <= Cardinality(Done(j)')
  <2>1. /\ j \in Key /\ top[j] \in Nat /\ passed[j] \in Nat
        /\ val[j] \in Nat /\ val'[j] \in Nat /\ val[j] <= val'[j]
    BY <1>0, <1>1, <1>5, KeyFacts DEF TypeOK
  <2>2. Done(j) \subseteq 1..top[j] /\ Done(j)' \subseteq 1..top[j]
    BY <1>2 DEF Done
  <2>3. ASSUME NEW v \in Done(j) PROVE v \in Done(j)'
    <3>1. v \in 1..top'[j] /\ v <= val'[j]
      BY <1>2, <2>1 DEF Done
    <3>2. \A s \in Request \ {r} : Pending(s, j)' => req'[s].val # v
      BY <1>4 DEF Done, Pending
    <3>3. Pending(r, j)' => req'[r].val # v
      <4> SUFFICES ASSUME Pending(r, j)' PROVE Bumped(k) # v
        BY <1>3
      <4>1. j = k
        BY <1>3 DEF Pending
      <4>2. v <= val[k] /\ v <= Limit(k) /\ v \in Nat
        BY <1>0, <4>1 DEF Done
      <4> QED BY <1>0, <1>1, <4>2
    <3> QED BY <3>1, <3>2, <3>3 DEF Done
  <2>4. /\ Cardinality(Done(j)) \in Nat /\ Cardinality(Done(j)') \in Nat
        /\ Cardinality(Done(j)) <= Cardinality(Done(j)')
    BY <2>1, <2>2, <2>3, DoneGrows
  <2>5. passed[j] <= Cardinality(Done(j))
    BY DEF BoundInv, StepwiseInv
  <2> QED BY <1>2, <2>1, <2>4, <2>5
<1>10. ScriptedInv'
  <2>1. \A j \in Scripted : j \in Key /\ j # k
    BY KeyFacts
  <2> QED BY <1>2, <1>5, <2>1 DEF BoundInv, ScriptedInv
<1> QED BY <1>7, <1>8, <1>9, <1>10 DEF BoundInv, StepwiseInv

(* The request leaves its answer behind as one more that is done.           *)
LEMMA DecideBound ==
  ASSUME TypeOK, TypeOK', BoundInv, NEW r \in Request, Decide(r)
  PROVE  BoundInv'
<1> DEFINE q == req[r]
<1>k. q.key \in Stepwise
  BY DEF Decide, TypeOK, Stepwise
<1> PICK k \in Stepwise : k = q.key
  BY <1>k
<1>0. /\ q \in ReqState /\ q.pc = "decide" /\ k \in Stepwise /\ k \in Key
      /\ q.val \in Nat \ {0} /\ q.cap \in Nat /\ q.cap <= Limit(k)
  BY KeyFacts DEF Decide, TypeOK, ReqState, Stepwise
<1>1. /\ val' = val
      /\ \A s \in Request \ {r} : req'[s] = req[s]
      /\ req'[r].pc = "idle"
  BY DEF Decide, TypeOK, NoReq
<1>2. \A s \in Request : \A j \in Stepwise :
        Pending(s, j)' => Pending(s, j) /\ req'[s] = req[s] /\ s # r
  BY <1>1 DEF Pending
<1>3. CASE ~(q.val <= q.cap /\ ~q.old)
  <2>1. passed' = passed /\ top' = top
    BY <1>3 DEF Decide
  <2>2. \A j \in Key : val[j] <= val'[j]
    BY <1>1 DEF TypeOK
  <2> QED BY <1>2, <2>1, <2>2, QuietStep
<1>4. CASE q.val <= q.cap /\ ~q.old
  <2>1. /\ passed' = [passed EXCEPT ![k] = @ + 1]
        /\ top' = [top EXCEPT ![k] = Largest(@, q.cap)]
    BY <1>4 DEF Decide
  <2>2. \A j \in Key \ {k} : passed'[j] = passed[j] /\ top'[j] = top[j]
    BY <2>1 DEF TypeOK
  <2>3. passed'[k] = passed[k] + 1 /\ top'[k] = Largest(top[k], q.cap)
    BY <1>0, <2>1 DEF TypeOK
  <2> HIDE DEF q
  <2>4. Pending(r, k)
    BY <1>0, <1>4 DEF Pending, q
  <2>5. /\ top[k] \in Nat /\ top'[k] \in Nat /\ passed[k] \in Nat /\ val[k] \in Nat
        /\ Limit(k) \in Nat /\ top[k] <= Limit(k)
    BY <1>0, LimitFacts DEF TypeOK, BoundInv, TopBound
  <2>6. top[k] <= top'[k] /\ q.cap <= top'[k] /\ top'[k] <= Limit(k)
    BY <1>0, <2>3, <2>5 DEF Largest
  <2>7. q.val <= val[k] /\ q.val <= top'[k] /\ q.val <= Limit(k)
    BY <1>0, <1>4, <2>4, <2>5, <2>6 DEF BoundInv, AnswersDiffer, q
  <2>8. AnswersDiffer'
    BY <1>1, <1>2 DEF BoundInv, AnswersDiffer
  <2>9. TopBound'
    BY <2>2, <2>6 DEF BoundInv, TopBound
  <2>10. ASSUME NEW j \in Stepwise PROVE passed'[j] <= Cardinality(Done(j)')
    <3>1. CASE j # k
      <4>1. /\ j \in Key /\ top'[j] = top[j] /\ passed'[j] = passed[j]
            /\ top[j] \in Nat /\ passed[j] \in Nat
        BY <2>2, <3>1, KeyFacts DEF TypeOK
      <4>2. Done(j) \subseteq 1..top[j] /\ Done(j)' \subseteq 1..top[j]
        BY <4>1 DEF Done
      <4>3. Done(j) \subseteq Done(j)'
        BY <1>1, <1>2, <4>1 DEF Done
      <4>4. /\ Cardinality(Done(j)) \in Nat /\ Cardinality(Done(j)') \in Nat
            /\ Cardinality(Done(j)) <= Cardinality(Done(j)')
        BY <4>1, <4>2, <4>3, DoneGrows
      <4>5. passed[j] <= Cardinality(Done(j))
        BY DEF BoundInv, StepwiseInv
      <4> QED BY <4>1, <4>4, <4>5
    <3>2. CASE j = k
      <4>1. q.val \notin Done(k)
        BY <2>4 DEF Done, q
      <4>2. q.val \in Done(k)'
        <5>1. \A s \in Request : Pending(s, k)' => req'[s].val # q.val
          BY <1>0, <1>2, <2>4, <2>7 DEF BoundInv, AnswersDiffer, q
        <5>2. q.val \in 1..top'[k] /\ q.val <= val'[k]
          BY <1>0, <1>1, <2>5, <2>7
        <5> QED BY <5>1, <5>2 DEF Done
      <4>3. Done(k) \subseteq Done(k)'
        BY <1>0, <1>1, <1>2, <2>5, <2>6 DEF Done
      <4>4. /\ Done(k) \subseteq 1..top'[k]
            /\ Done(k) \cup {q.val} \subseteq 1..top'[k]
            /\ Done(k)' \subseteq 1..top'[k]
            /\ Done(k) \cup {q.val} \subseteq Done(k)'
        BY <4>2, <4>3 DEF Done
      <4> DEFINE S == Done(k)
      <4>5. IsFiniteSet(S)
        BY <2>5, <4>3, <4>4, DoneGrows
      <4> HIDE DEF S
      <4>6. Cardinality(S \cup {q.val}) = Cardinality(S) + 1
        BY <4>1, <4>5, FS_AddElement DEF S
      <4>7. /\ Cardinality(S) \in Nat
            /\ Cardinality(S \cup {q.val}) <= Cardinality(Done(k)')
            /\ Cardinality(Done(k)') \in Nat
        <5>1. Cardinality(S) \in Nat
          BY <4>5, FS_CardinalityType
        <5>2. /\ Cardinality(S \cup {q.val}) <= Cardinality(Done(k)')
              /\ Cardinality(Done(k)') \in Nat
          BY <2>5, <4>4, DoneGrows DEF S
        <5> QED BY <5>1, <5>2
      <4>8. passed[k] <= Cardinality(S)
        BY <3>2 DEF BoundInv, StepwiseInv, S
      <4> QED BY <2>3, <2>5, <3>2, <4>6, <4>7, <4>8
    <3> QED BY <3>1, <3>2
  <2>11. ScriptedInv'
    <3>1. \A j \in Scripted : j \in Key /\ j # k
      BY <1>0, KeyFacts
    <3> QED BY <1>1, <2>2, <3>1 DEF BoundInv, ScriptedInv
  <2> QED BY <2>8, <2>9, <2>10, <2>11 DEF BoundInv, StepwiseInv
<1> QED BY <1>3, <1>4

(* The script counts up, and what passes is within all three limits.        *)
LEMMA AllowBound ==
  ASSUME TypeOK, TypeOK', BoundInv, NEW r \in Request, NEW s \in Slot, Allow(r, s)
  PROVE  BoundInv'
<1> DEFINE ks == {"sec", "min", s}
<1>0. ks \subseteq Scripted /\ \A j \in Stepwise : j \notin ks
  BY KeyFacts DEF Scripted
<1>1. \A j \in Key :
        /\ val[j] \in Nat /\ val'[j] = (IF j \in ks THEN Bumped(j) ELSE val[j])
        /\ val[j] <= val'[j]
        /\ j \in ks /\ val'[j] <= Limit(j) => val'[j] = val[j] + 1
  <2>1. \A j \in Key :
          /\ val[j] \in Nat /\ Limit(j) \in Nat
          /\ val'[j] = (IF j \in ks THEN Bumped(j) ELSE val[j])
    BY LimitFacts DEF Allow, Script, TypeOK
  <2>2. \A j \in Key :
          /\ val[j] <= Bumped(j) /\ Bumped(j) \in Nat
          /\ val[j] <= Limit(j) => Bumped(j) = val[j] + 1
          /\ val[j] > Limit(j) => Bumped(j) = val[j]
    BY <2>1, BumpedFacts
  <2> QED BY <2>1, <2>2
<1>2. \A q \in Request : \A j \in Stepwise :
        Pending(q, j)' => Pending(q, j) /\ req'[q].val = req[q].val
  <2>1. \A q \in Request :
          req'[q] = req[q] \/ req'[q].pc = "read"
    BY DEF Allow, TypeOK, ReqState
  <2> QED BY <2>1 DEF Pending
<1>3. CASE passed' = passed /\ top' = top
  BY <1>1, <1>2, <1>3, QuietStep
<1>4. CASE ~(passed' = passed /\ top' = top)
  <2>1. /\ \A j \in ks : val'[j] <= Limit(j)
        /\ \A j \in Key : passed'[j] = (IF j \in ks THEN passed[j] + 1 ELSE passed[j])
        /\ \A j \in Key : top'[j] = (IF j \in ks THEN Limit(j) ELSE top[j])
    BY <1>4 DEF Allow
  <2>2. AnswersDiffer'
    <3> SUFFICES ASSUME NEW j \in Stepwise, NEW q \in Request, Pending(q, j)'
                 PROVE  /\ req'[q].val <= val'[j]
                        /\ req'[q].val <= Limit(j) =>
                             \A u \in Request \ {q} :
                               Pending(u, j)' => req'[u].val # req'[q].val
      BY DEF AnswersDiffer
    <3>1. val'[j] = val[j]
      BY <1>0, <1>1, KeyFacts
    <3> QED BY <1>2, <3>1 DEF BoundInv, AnswersDiffer
  <2>3. TopBound'
    BY <2>1, LimitFacts DEF BoundInv, TopBound
  <2>4. ASSUME NEW j \in Stepwise PROVE passed'[j] <= Cardinality(Done(j)')
    <3>1. /\ j \in Key /\ val'[j] = val[j] /\ top'[j] = top[j] /\ passed'[j] = passed[j]
          /\ top[j] \in Nat /\ passed[j] \in Nat
      BY <1>0, <1>1, <2>1, KeyFacts DEF TypeOK
    <3>2. Done(j) \subseteq 1..top[j] /\ Done(j)' \subseteq 1..top[j]
      BY <3>1 DEF Done
    <3>3. Done(j) \subseteq Done(j)'
      BY <1>2, <3>1 DEF Done
    <3>4. /\ Cardinality(Done(j)) \in Nat /\ Cardinality(Done(j)') \in Nat
          /\ Cardinality(Done(j)) <= Cardinality(Done(j)')
      BY <3>1, <3>2, <3>3, DoneGrows
    <3>5. passed[j] <= Cardinality(Done(j))
      BY DEF BoundInv, StepwiseInv
    <3> QED BY <3>1, <3>4, <3>5
  <2>5. ASSUME NEW j \in Scripted
        PROVE  /\ passed'[j] <= val'[j]
               /\ passed'[j] > 0 => top'[j] = Limit(j) /\ passed'[j] <= Limit(j)
    <3>1. /\ j \in Key /\ passed[j] \in Nat /\ val[j] \in Nat /\ Limit(j) \in Nat
          /\ val'[j] \in Nat
      BY KeyFacts, LimitFacts DEF TypeOK
    <3>2. /\ passed[j] <= val[j]
          /\ passed[j] > 0 => top[j] = Limit(j) /\ passed[j] <= Limit(j)
      BY DEF BoundInv, ScriptedInv
    <3>3. CASE j \in ks
      BY <1>1, <2>1, <3>1, <3>2, <3>3
    <3>4. CASE j \notin ks
      BY <1>1, <2>1, <3>1, <3>2, <3>4
    <3> QED BY <3>3, <3>4
  <2> QED BY <2>2, <2>3, <2>4, <2>5 DEF BoundInv, StepwiseInv, ScriptedInv
<1> QED BY <1>3, <1>4

(* A window that ends takes its requests in flight with it.                 *)
LEMMA TickBound ==
  ASSUME TypeOK, TypeOK', BoundInv, Tick
  PROVE  BoundInv'
<1>1. \A k \in Key :
        /\ ttl[k] = 1 => val'[k] = 0 /\ passed'[k] = 0 /\ top'[k] = 0
        /\ ttl[k] # 1 => val'[k] = val[k] /\ passed'[k] = passed[k] /\ top'[k] = top[k]
  BY DEF Tick
<1>2. \A r \in Request : \A k \in Stepwise :
        Pending(r, k)' => Pending(r, k) /\ req'[r].val = req[r].val /\ ttl[k] # 1
  <2> SUFFICES ASSUME NEW r \in Request, NEW k \in Stepwise, Pending(r, k)'
               PROVE  Pending(r, k) /\ req'[r].val = req[r].val /\ ttl[k] # 1
    OBVIOUS
  <2>1. req'[r].pc \in {"expire", "decide"} /\ req'[r].key = k /\ ~req'[r].old
    BY DEF Pending
  <2> QED BY <2>1, TickRequests DEF Pending
<1>3. AnswersDiffer'
  <2> SUFFICES ASSUME NEW k \in Stepwise, NEW r \in Request, Pending(r, k)'
               PROVE  /\ req'[r].val <= val'[k]
                      /\ req'[r].val <= Limit(k) =>
                           \A s \in Request \ {r} :
                             Pending(s, k)' => req'[s].val # req'[r].val
    BY DEF AnswersDiffer
  <2>1. Pending(r, k) /\ req'[r].val = req[r].val /\ val'[k] = val[k]
    BY <1>1, <1>2, KeyFacts
  <2> QED BY <1>2, <2>1 DEF BoundInv, AnswersDiffer
<1>4. TopBound'
  BY <1>1, LimitFacts DEF BoundInv, TopBound
<1>5. ASSUME NEW k \in Stepwise PROVE passed'[k] <= Cardinality(Done(k)')
  <2>1. k \in Key /\ top[k] \in Nat /\ top'[k] \in Nat /\ passed[k] \in Nat
    BY KeyFacts DEF TypeOK
  <2>2. Done(k) \subseteq 1..top[k] /\ Done(k)' \subseteq 1..top'[k]
    BY DEF Done
  <2>3. CASE ttl[k] = 1
    <3>1. Cardinality(Done(k)') \in Nat
      BY <2>1, <2>2, DoneGrows
    <3> QED BY <1>1, <2>1, <2>3, <3>1
  <2>4. CASE ttl[k] # 1
    <3>1. val'[k] = val[k] /\ passed'[k] = passed[k] /\ top'[k] = top[k]
      BY <1>1, <2>1, <2>4
    <3>2. Done(k) \subseteq Done(k)'
      BY <1>2, <3>1 DEF Done
    <3>3. /\ Cardinality(Done(k)) \in Nat /\ Cardinality(Done(k)') \in Nat
          /\ Cardinality(Done(k)) <= Cardinality(Done(k)')
      BY <2>1, <2>2, <3>2, DoneGrows
    <3>4. passed[k] <= Cardinality(Done(k))
      BY DEF BoundInv, StepwiseInv
    <3> QED BY <2>1, <3>1, <3>3, <3>4
  <2> QED BY <2>3, <2>4
<1>6. ScriptedInv'
  BY <1>1, KeyFacts DEF BoundInv, ScriptedInv
<1> QED BY <1>3, <1>4, <1>5, <1>6 DEF BoundInv, StepwiseInv

LEMMA NextBound == TypeOK /\ BoundInv /\ [Next]_vars => BoundInv'
<1> SUFFICES ASSUME TypeOK, BoundInv, [Next]_vars PROVE BoundInv'
  OBVIOUS
<1>0. "auth" \in Stepwise /\ "quota" \in Stepwise
  BY DEF Stepwise
<1>t. TypeOK'
  BY NextTypeOK
<1>v. val' = val => \A k \in Key : val[k] <= val'[k]
  BY DEF TypeOK
<1>n. ASSUME NEW r \in Request, Leave(r) PROVE BoundInv'
  <2>1. \A s \in Request : req'[s] = req[s] \/ req'[s].pc = "idle"
    BY <1>n DEF Leave, TypeOK, NoReq
  <2>2. \A s \in Request : \A k \in Stepwise :
          Pending(s, k)' => Pending(s, k) /\ req'[s].val = req[s].val
    BY <2>1 DEF Pending
  <2> QED BY <1>n, <1>t, <1>v, <2>2, QuietStep DEF Leave
<1>i. ASSUME NEW k \in Stepwise, Repeated(k) PROVE BoundInv'
  <2>1. k \in Key /\ val[k] \in Nat /\ val[k] <= Bumped(k)
    BY BumpedFacts, KeyFacts DEF TypeOK
  <2>2. \A j \in Key : val[j] <= val'[j]
    BY <1>i, <2>1 DEF Repeated, Incremented, TypeOK
  <2>3. req' = req /\ passed' = passed /\ top' = top
    BY <1>i DEF Repeated, Incremented
  <2>4. \A s \in Request : \A j \in Stepwise :
          Pending(s, j)' => Pending(s, j) /\ req'[s].val = req[s].val
    BY <2>3 DEF Pending
  <2> QED BY <1>t, <2>2, <2>3, <2>4, QuietStep
<1>1. ASSUME NEW r \in Request, Attempt(r) PROVE BoundInv'
  <2>1. MaxAttempts \in Nat
    BY LimitsAssumption
  <2> QED BY <1>0, <1>1, <1>i, <1>t, <2>1, CountedBound DEF Attempt
<1>2. ASSUME NEW r \in Request, NEW s \in Slot, Allow(r, s) PROVE BoundInv'
  BY <1>2, <1>t, AllowBound
<1>3. ASSUME NEW r \in Request, NEW s \in Slot, AllowFails(r, s) PROVE BoundInv'
  <2>1. \A k \in Key : val[k] \in Nat /\ val[k] <= Bumped(k)
    BY BumpedFacts DEF TypeOK
  <2>2. \A k \in Key : val[k] <= val'[k]
    BY <1>3, <2>1 DEF AllowFails, Script
  <2>3. req' = req /\ passed' = passed /\ top' = top
    BY <1>3 DEF AllowFails
  <2>4. \A q \in Request : \A k \in Stepwise :
          Pending(q, k)' => Pending(q, k) /\ req'[q].val = req[q].val
    BY <2>3 DEF Pending
  <2> QED BY <1>t, <2>2, <2>3, <2>4, QuietStep
<1>4. ASSUME NEW r \in Request, ReadQuota(r) PROVE BoundInv'
  <2>1. CASE Leave(r)
    BY <1>n, <2>1
  <2>2. CASE ~Leave(r)
    <3>1. /\ \A s \in Request : req'[s] = req[s] \/ req'[s].pc = "count"
          /\ UNCHANGED <<val, passed, top>>
      BY <1>4, <2>2 DEF ReadQuota, TypeOK, ReqState
    <3>2. \A s \in Request : \A k \in Stepwise :
            Pending(s, k)' => Pending(s, k) /\ req'[s].val = req[s].val
      BY <3>1 DEF Pending
    <3> QED BY <1>t, <1>v, <3>1, <3>2, QuietStep
  <2> QED BY <2>1, <2>2
<1>5. ASSUME NEW r \in Request, CountMessage(r) PROVE BoundInv'
  <2>1. req[r].cap \in Nat /\ req[r].pc \notin {"expire", "decide"}
    BY <1>5 DEF CountMessage, TypeOK, ReqState
  <2> QED BY <1>0, <1>5, <1>i, <1>n, <1>t, <2>1, CountedBound DEF CountMessage
<1>6. ASSUME NEW r \in Request, SetExpire(r) PROVE BoundInv'
  <2>1. /\ req[r].pc = "expire" /\ req' = [req EXCEPT ![r].pc = "decide"]
        /\ UNCHANGED <<val, passed, top>>
    BY <1>6 DEF SetExpire
  <2>2. \A s \in Request :
          /\ req'[s].key = req[s].key /\ req'[s].val = req[s].val /\ req'[s].old = req[s].old
          /\ req'[s].pc = "decide" => req[s].pc \in {"expire", "decide"}
          /\ req'[s].pc = "expire" => req[s].pc = "expire"
    BY <2>1 DEF TypeOK, ReqState
  <2>3. \A s \in Request : \A k \in Stepwise :
          Pending(s, k)' => Pending(s, k) /\ req'[s].val = req[s].val
    BY <2>2 DEF Pending
  <2> QED BY <1>t, <1>v, <2>1, <2>3, QuietStep
<1>7. ASSUME NEW r \in Request, Decide(r) PROVE BoundInv'
  BY <1>7, <1>t, DecideBound
<1>8. CASE PatchQuota \/ UNCHANGED vars
  <2>1. UNCHANGED <<val, req, passed, top>>
    BY <1>8 DEF PatchQuota, vars
  <2>2. \A s \in Request : \A k \in Stepwise :
          Pending(s, k)' => Pending(s, k) /\ req'[s].val = req[s].val
    BY <2>1 DEF Pending
  <2> QED BY <1>t, <1>v, <2>1, <2>2, QuietStep
<1>9. CASE Tick
  BY <1>9, <1>t, TickBound
<1>10. CASE Crash
  <2>1. /\ \A s \in Request : req'[s].pc = "idle"
        /\ UNCHANGED <<val, passed, top>>
    BY <1>10 DEF Crash, NoReq
  <2>2. \A s \in Request : \A k \in Stepwise : ~Pending(s, k)'
    BY <2>1 DEF Pending
  <2> QED BY <1>t, <1>v, <2>1, <2>2, QuietStep
<1> QED BY <1>1, <1>2, <1>3, <1>4, <1>5, <1>6, <1>7, <1>8, <1>9, <1>10 DEF Next

(* The inductive invariant: types, the answers of INCR that are in flight   *)
(* differ from each other and from those already decided, and what passed   *)
(* is counted by the latter.                                                *)
THEOREM Invariance == Spec => [](TypeOK /\ BoundInv)
<1>1. Init => TypeOK /\ BoundInv
  BY InitTypeOK, InitBound
<1>2. TypeOK /\ BoundInv /\ [Next]_vars => TypeOK' /\ BoundInv'
  BY NextTypeOK, NextBound
<1> QED BY <1>1, <1>2, PTL DEF Spec

(* A window never lets through more than the highest limit one of its       *)
(* requests was held to, for any number of requests, slots and any limits.  *)
THEOREM Bounded == Spec => []WindowBound
<1>1. TypeOK /\ BoundInv => WindowBound
  <2> SUFFICES ASSUME TypeOK, BoundInv, NEW k \in Key PROVE passed[k] <= top[k]
    BY DEF WindowBound
  <2>1. passed[k] \in Nat /\ top[k] \in Nat
    BY DEF TypeOK
  <2>2. CASE k \in Stepwise
    <3>1. Done(k) \subseteq 1..top[k]
      BY DEF Done
    <3>2. Cardinality(Done(k)) \in Nat /\ Cardinality(Done(k)) <= top[k]
      BY <2>1, <3>1, DoneGrows
    <3>3. passed[k] <= Cardinality(Done(k))
      BY <2>2 DEF BoundInv, StepwiseInv
    <3> QED BY <2>1, <3>2, <3>3
  <2>3. CASE k \in Scripted
    BY <2>1, <2>3 DEF BoundInv, ScriptedInv
  <2> QED BY <2>2, <2>3, KeyFacts
<1> QED BY <1>1, Invariance, PTL

-----------------------------------------------------------------------------
(* What prolongs a window. *)

(* Only a key that is there has a time to live. *)
OfKeys == \A k \in Key : ttl[k] > 0 => val[k] > 0

LEMMA NextOfKeys == TypeOK /\ OfKeys /\ [Next]_vars => OfKeys'
<1> SUFFICES ASSUME TypeOK, OfKeys, [Next]_vars PROVE OfKeys'
  OBVIOUS
<1>0. /\ ttl \in [Key -> Nat] /\ val \in [Key -> Nat]
      /\ \A k \in Key : Bumped(k) \in Nat /\ Bumped(k) > 0
  BY BumpedFacts DEF TypeOK
<1>1. CASE UNCHANGED <<val, ttl>>
  BY <1>1 DEF OfKeys
<1>2. ASSUME NEW k \in Key, Incremented(k) PROVE OfKeys'
  BY <1>0, <1>2 DEF Incremented, OfKeys
<1>3. ASSUME NEW r \in Request, SetExpire(r) PROVE OfKeys'
  <2>1. req[r].key \in Key
    BY DEF TypeOK, ReqState
  <2> QED BY <1>0, <1>3, <2>1 DEF SetExpire, OfKeys
<1>4. ASSUME NEW s \in Slot, Script(s) PROVE OfKeys'
  BY <1>0, <1>4 DEF Script, OfKeys
<1>5. CASE Tick
  BY <1>0, <1>5 DEF Tick, OfKeys
<1>6. ASSUME NEW r \in Request,
             Attempt(r) \/ ReadQuota(r) \/ CountMessage(r) \/ Decide(r)
      PROVE  OfKeys'
  <2>1. UNCHANGED <<val, ttl>> \/ Incremented("auth") \/ Incremented("quota")
    BY <1>6 DEF Attempt, ReadQuota, CountMessage, Decide, Counted, Repeated, Leave,
                Incremented
  <2> QED BY <1>1, <1>2, <2>1 DEF Key
<1>7. ASSUME NEW r \in Request, NEW s \in Slot, Allow(r, s) \/ AllowFails(r, s)
      PROVE  OfKeys'
  BY <1>4, <1>7 DEF Allow, AllowFails
<1>8. CASE PatchQuota \/ Crash \/ UNCHANGED vars
  BY <1>1, <1>8 DEF PatchQuota, Crash, vars
<1> QED BY <1>3, <1>5, <1>6, <1>7, <1>8 DEF Next

(* NotProlonged: trying again does not prolong a window; of the keys of the *)
(* script, nothing does.                                                    *)
THEOREM Unprolonged == Spec => NotProlonged
<1> DEFINE Kept == \A k \in Key : ttl[k] > 0 /\ ttl'[k] > ttl[k] =>
             /\ k \notin Scripted
             /\ \E r \in Request : /\ req[r].pc = "expire" /\ req[r].key = k
                                  /\ req'[r].pc = "decide"
<1>1. ASSUME TypeOK, OfKeys, [Next]_vars PROVE Kept
  <2>0. ttl \in [Key -> Nat] /\ val \in [Key -> Nat]
    BY <1>1 DEF TypeOK
  <2>1. CASE ttl' = ttl
    BY <2>0, <2>1
  <2>2. ASSUME NEW r \in Request, SetExpire(r) PROVE Kept
    <3>1. req[r].key \in {"auth", "quota"} /\ req[r] \in ReqState
      BY <1>1, <2>2 DEF SetExpire, TypeOK
    <3>2. req[r].key \notin Scripted
      BY <3>1, LimitsAssumption DEF Scripted
    <3>3. req[r].pc = "expire" /\ req'[r].pc = "decide"
      BY <1>1, <2>2 DEF SetExpire, TypeOK, ReqState
    <3>4. \A k \in Key : ttl'[k] # ttl[k] => k = req[r].key
      BY <2>0, <2>2 DEF SetExpire
    <3> QED BY <2>0, <3>2, <3>3, <3>4
  <2>3. ASSUME NEW s \in Slot, Script(s) PROVE Kept
    <3>1. \A k \in Key : val[k] = 0 \/ ttl'[k] = ttl[k]
      BY <2>3 DEF Script
    <3>2. \A k \in Key : ttl[k] > 0 => ttl'[k] = ttl[k]
      BY <1>1, <2>0, <3>1 DEF OfKeys
    <3> QED BY <2>0, <3>2
  <2>4. CASE Tick
    <3>1. \A k \in Key : ~(ttl'[k] > ttl[k])
      BY <2>0, <2>4 DEF Tick
    <3> QED BY <3>1
  <2>5. ASSUME NEW r \in Request, Attempt(r) \/ ReadQuota(r) \/ CountMessage(r) \/ Decide(r)
        PROVE  Kept
    BY <2>1, <2>5 DEF Attempt, ReadQuota, CountMessage, Decide, Counted, Repeated,
         Incremented, Leave
  <2>6. CASE PatchQuota \/ Crash \/ UNCHANGED vars
    BY <2>1, <2>6 DEF PatchQuota, Crash, vars
  <2> HIDE DEF Kept
  <2>7. ASSUME NEW r \in Request, NEW s \in Slot, Allow(r, s) \/ AllowFails(r, s)
        PROVE  Kept
    BY <2>3, <2>7 DEF Allow, AllowFails
  <2> QED BY <1>1, <2>2, <2>4, <2>5, <2>6, <2>7 DEF Next
<1>2. Init => OfKeys
  BY DEF Init, OfKeys
<1> QED BY <1>1, <1>2, NextOfKeys, TypeCorrect, PTL DEF Spec, NotProlonged

=============================================================================
