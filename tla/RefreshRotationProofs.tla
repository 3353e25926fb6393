------------------------ MODULE RefreshRotationProofs ------------------------
(***************************************************************************)
(* A refresh token that was answered stays dead, and is answered a bounded *)
(* number of times, for any tokens, requests and lives.                    *)
(***************************************************************************)
EXTENDS RefreshRotation, FiniteSetTheorems, TLAPS

LEMMA InitTypeOK == Init => TypeOK
BY LifeAssumption, LegacyAssumption, NoneAssumption
   DEF Init, TypeOK, NoReq, ReqState, Modern, Held

LEMMA NextTypeOK == TypeOK /\ [Next]_vars => TypeOK'
<1> SUFFICES ASSUME TypeOK, [Next]_vars PROVE TypeOK'
  OBVIOUS
<1> USE LifeAssumption, LegacyAssumption, NoneAssumption
    DEF TypeOK, NoReq, ReqState, Modern, Held
<1>1. CASE Tick
  BY <1>1 DEF Tick
<1>2. ASSUME NEW t \in Token, Login(t) PROVE TypeOK'
  BY <1>2 DEF Login
<1>3. ASSUME NEW r \in Request, NEW t \in Token, Validate(r, t) PROVE TypeOK'
  BY <1>3 DEF Validate
<1>4. ASSUME NEW r \in Request, CheckBlacklist(r) PROVE TypeOK'
  BY <1>4 DEF CheckBlacklist
<1>5. ASSUME NEW r \in Request, Sign(r) PROVE TypeOK'
  <2> DEFINE t == req[r].token
  <2>1. t \in Token /\ exp[t] \in Nat /\ now + RefreshLife > 0
    BY <1>5 DEF Sign
  <2> DEFINE ttl == IF now < exp[t] THEN exp[t] - now ELSE 0
  <2>2. ttl \in Nat
    BY <2>1
  <2> HIDE DEF t, ttl
  <2>3. req' = [req EXCEPT ![r] =
           [@ EXCEPT !.ttl = ttl, !.newExp = now + RefreshLife,
                     !.pc = IF ttl > 0 THEN "blacklist" ELSE "reply"]]
    BY <1>5 DEF Sign, t, ttl
  <2>4. UNCHANGED <<now, exp, black, answered>> /\ req[r].pc = "lookup"
    BY <1>5 DEF Sign
  <2>5. req'[r] = [req[r] EXCEPT !.ttl = ttl, !.newExp = now + RefreshLife,
                     !.pc = IF ttl > 0 THEN "blacklist" ELSE "reply"]
    BY <2>3
  <2>6. req'[r] \in ReqState /\ req'[r].token = req[r].token
    <3>1. req[r] \in ReqState
      OBVIOUS
    <3>2. (IF ttl > 0 THEN "blacklist" ELSE "reply") \in {"blacklist", "reply"}
      OBVIOUS
    <3>3. now + RefreshLife \in Nat
      OBVIOUS
    <3> QED BY <2>2, <2>5, <3>1, <3>2, <3>3
  <2>7. req' \in [Request -> ReqState]
        /\ \A q \in Request : q # r => req'[q] = req[q]
    BY <2>3, <2>6
  <2>8. /\ req'[r].pc \in {"blacklist", "reply"}
        /\ req'[r].pc = "blacklist" => req'[r].ttl > 0
        /\ req'[r].newExp > 0
    BY <2>1, <2>2, <2>5
  <2> QED BY <2>1, <2>4, <2>6, <2>7, <2>8
<1>6. ASSUME NEW r \in Request, Blacklist(r) PROVE TypeOK'
  <2>1. req[r].token \in Token /\ now + req[r].ttl \in Nat
    BY <1>6 DEF Blacklist
  <2>2. black' \in [Token -> Nat]
    BY <1>6, <2>1 DEF Blacklist
  <2>3. /\ req' = [req EXCEPT ![r].pc = "reply"]
        /\ UNCHANGED <<now, exp, answered>>
        /\ req[r].pc = "blacklist"
    BY <1>6 DEF Blacklist
  <2>4. req[r].newExp > 0
    BY <2>3
  <2> QED BY <2>1, <2>2, <2>3, <2>4
<1>7. ASSUME NEW r \in Request, Reply(r) PROVE TypeOK'
  <2>1. req[r].token \in Token /\ req[r].newExp \in Nat /\ req[r].newExp > 0
    BY <1>7 DEF Reply
  <2> QED BY <1>7, <2>1 DEF Reply
<1>8. ASSUME NEW r \in Request, Refuse(r) PROVE TypeOK'
  BY <1>8 DEF Refuse
<1>9. CASE UNCHANGED vars
  BY <1>9 DEF vars
<1>10. ASSUME NEW r \in Request, BlacklistUnanswered(r) PROVE TypeOK'
  <2>1. req[r].token \in Token /\ now + req[r].ttl \in Nat
    BY <1>10 DEF BlacklistUnanswered
  <2>2. black' \in [Token -> Nat]
    BY <1>10, <2>1 DEF BlacklistUnanswered
  <2>3. UNCHANGED <<now, exp, req, answered>>
    BY <1>10 DEF BlacklistUnanswered
  <2> QED BY <2>2, <2>3
<1> QED BY <1>1, <1>2, <1>3, <1>4, <1>5, <1>6, <1>7, <1>8, <1>9,
       <1>10 DEF Next

(* TypeOK: the types, and that no blacklist key is set without a time to    *)
(* live, for any tokens, requests and lives.                                *)
THEOREM TypeCorrect == Spec => []TypeOK
<1> QED BY InitTypeOK, NextTypeOK, PTL DEF Spec

-----------------------------------------------------------------------------
(* AnsweredStaysDead *)

LEMMA InitKeyCovers == Init => KeyCovers
BY NoneAssumption DEF Init, KeyCovers, Modern, Using, NoReq

LEMMA NextKeyCovers == TypeOK /\ KeyCovers /\ [Next]_vars => KeyCovers'
<1> SUFFICES ASSUME TypeOK, KeyCovers, [Next]_vars PROVE KeyCovers'
  OBVIOUS
<1> USE LifeAssumption, LegacyAssumption, NoneAssumption
    DEF TypeOK, ReqState, KeyCovers, Modern, Using, Held
<1>1. CASE Tick
  BY <1>1 DEF Tick
<1>2. ASSUME NEW t \in Token, Login(t) PROVE KeyCovers'
  BY <1>2 DEF Login, NoReq
<1>3. ASSUME NEW r \in Request, NEW t \in Token, Validate(r, t)
      PROVE  KeyCovers'
  BY <1>3 DEF Validate, NoReq
<1>4. ASSUME NEW r \in Request, CheckBlacklist(r) PROVE KeyCovers'
  BY <1>4 DEF CheckBlacklist
<1>5. ASSUME NEW r \in Request, Sign(r) PROVE KeyCovers'
  <2> DEFINE t == req[r].token
             ttl == IF now < exp[t] THEN exp[t] - now ELSE 0
  <2>1. t \in Token /\ exp[t] \in Nat /\ now \in Nat
    BY <1>5 DEF Sign
  <2>2. /\ ttl \in Nat
        /\ now + ttl >= exp[t]
        /\ ttl > 0 \/ now >= exp[t]
    BY <2>1
  <2>3. /\ req'[r].token = t
        /\ req'[r].ttl = ttl
        /\ req'[r].pc = IF ttl > 0 THEN "blacklist" ELSE "reply"
        /\ \A q \in Request : q # r => req'[q] = req[q]
        /\ UNCHANGED <<now, exp, black, answered>>
    BY <1>5 DEF Sign
  <2> HIDE DEF t, ttl
  <2> QED BY <2>1, <2>2, <2>3
<1>6. ASSUME NEW r \in Request, Blacklist(r) PROVE KeyCovers'
  <2> DEFINE t == req[r].token
  <2>1. /\ t \in Token /\ exp[t] \in Nat /\ exp[t] # 0 /\ now \in Nat
        /\ req[r].ttl \in Nat /\ req[r].ttl > 0
    BY <1>6 DEF Blacklist
  <2>2. t \notin Legacy => now + req[r].ttl >= exp[t]
    BY <1>6, <2>1 DEF Blacklist
  <2>3. /\ req'[r].token = t /\ req'[r].pc = "reply"
        /\ \A q \in Request : q # r => req'[q] = req[q]
        /\ UNCHANGED <<now, exp, answered>>
    BY <1>6 DEF Blacklist
  <2>4. /\ t \notin Legacy => black'[t] = now + req[r].ttl
        /\ \A s \in Token \ Legacy : s # t => black'[s] = black[s]
    BY <1>6, <2>1 DEF Blacklist
  <2> HIDE DEF t
  <2> QED BY <2>1, <2>2, <2>3, <2>4
<1>7. ASSUME NEW r \in Request, Reply(r) PROVE KeyCovers'
  <2>1. \A t \in Token : exp[t] # 0 => exp'[t] = exp[t]
    BY <1>7 DEF Reply
  <2>2. /\ req'[r] = NoReq
        /\ \A q \in Request : q # r => req'[q] = req[q]
        /\ UNCHANGED <<now, black>>
    BY <1>7 DEF Reply
  <2>3. /\ req[r].pc = "reply"
        /\ \A t \in Modern : t # req[r].token => answered'[t] = answered[t]
    BY <1>7 DEF Reply
  <2> QED BY <2>1, <2>2, <2>3 DEF NoReq
<1>8. ASSUME NEW r \in Request, Refuse(r) PROVE KeyCovers'
  BY <1>8 DEF Refuse, NoReq
<1>9. CASE UNCHANGED vars
  BY <1>9 DEF vars
<1>10. ASSUME NEW r \in Request, BlacklistUnanswered(r) PROVE KeyCovers'
  <2> DEFINE t == req[r].token
  <2>1. /\ t \in Token \ Legacy /\ exp[t] \in Nat /\ exp[t] # 0 /\ now \in Nat
        /\ req[r].ttl \in Nat /\ req[r].ttl > 0
    BY <1>10 DEF BlacklistUnanswered
  <2>2. now + req[r].ttl >= exp[t]
    BY <1>10, <2>1 DEF BlacklistUnanswered
  <2>3. /\ UNCHANGED <<now, exp, req, answered>>
        /\ black'[t] = now + req[r].ttl
        /\ \A s \in Token \ Legacy : s # t => black'[s] = black[s]
    BY <1>10, <2>1 DEF BlacklistUnanswered
  <2> HIDE DEF t
  <2> QED BY <2>1, <2>2, <2>3
<1> QED BY <1>1, <1>2, <1>3, <1>4, <1>5, <1>6, <1>7, <1>8, <1>9,
       <1>10 DEF Next

(* A key outlives its token, so an answered token is dead.                  *)
LEMMA DeadByKey == TypeOK /\ KeyCovers => AnsweredStaysDead
BY DEF TypeOK, KeyCovers, AnsweredStaysDead, Blacklisted, Modern

(* KeyCovers: every blacklist key lives as long as its token.               *)
THEOREM KeysCover == Spec => []KeyCovers
<1> QED
  BY InitTypeOK, NextTypeOK, InitKeyCovers, NextKeyCovers, PTL DEF Spec

(* AnsweredStaysDead: a refresh token that was answered is expired or       *)
(* blacklisted for ever after.                                              *)
THEOREM StaysDead == Spec => []AnsweredStaysDead
<1> QED BY TypeCorrect, KeysCover, DeadByKey, PTL

-----------------------------------------------------------------------------
(* BoundedReuse *)

(* The requests that use a token are finitely many, those past the check    *)
(* among them.                                                              *)
LEMMA UsersFinite ==
  ASSUME NEW t
  PROVE  /\ IsFiniteSet(Using(t)) /\ IsFiniteSet(Past(t))
         /\ Cardinality(Using(t)) \in Nat
         /\ Cardinality(Past(t)) \in Nat
         /\ Cardinality(Past(t)) <= Cardinality(Using(t))
         /\ Cardinality(Using(t)) <= Cardinality(Request)
         /\ Cardinality(Request) \in Nat
<1>1. Using(t) \subseteq Request /\ Past(t) \subseteq Using(t)
  BY DEF Using, Past
<1>2. IsFiniteSet(Using(t)) /\ Cardinality(Using(t)) <= Cardinality(Request)
  BY <1>1, RequestAssumption, FS_Subset
<1>3. IsFiniteSet(Past(t)) /\ Cardinality(Past(t)) <= Cardinality(Using(t))
  BY <1>1, <1>2, FS_Subset
<1> QED BY <1>2, <1>3, RequestAssumption, FS_CardinalityType

LEMMA InitReuseInv == Init => ReuseInv
<1> SUFFICES ASSUME Init, NEW t \in Modern
             PROVE  /\ answered[t] = 0
                    /\ ~Held(t)
  BY LifeAssumption DEF ReuseInv
<1> QED BY DEF Init, Modern, Held

(* What a step may do to one token so that ReuseInv is kept: who uses it is *)
(* unchanged or shrinks, and an answer takes its request out.               *)
LEMMA ShrinkKeepsReuse ==
  ASSUME NEW t \in Modern,
         TypeOK, ReuseInv,
         exp'[t] = exp[t], now' >= now, now' \in Nat,
         \/ /\ answered'[t] = answered[t]
            /\ Using(t)' \subseteq Using(t) /\ Past(t)' \subseteq Past(t)
         \/ \E r \in Past(t) :
              /\ answered'[t] = answered[t] + 1
              /\ Held(t)
              /\ Using(t)' = Using(t) \ {r}
              /\ Past(t)' = Past(t) \ {r}
  PROVE  /\ answered'[t] > 0 /\ now' < exp'[t] =>
              answered'[t] + Cardinality(Past(t)') <= Cardinality(Request)
         /\ exp'[t] # 0 => answered'[t] + Cardinality(Using(t)')
                             <= 2 * Cardinality(Request)
         /\ exp'[t] = 0 => answered'[t] = 0
<1> DEFINE u == Cardinality(Using(t))
           p == Cardinality(Past(t))
           n == Cardinality(Request)
           a == answered[t]
<1>1. /\ IsFiniteSet(Using(t)) /\ IsFiniteSet(Past(t))
      /\ u \in Nat /\ p \in Nat /\ n \in Nat
      /\ p <= u /\ u <= n
  BY UsersFinite
<1>2. /\ a \in Nat /\ now \in Nat /\ exp[t] \in Nat
      /\ a > 0 /\ now < exp[t] => a + p <= n
      /\ exp[t] # 0 => a + u <= 2 * n
      /\ exp[t] = 0 => a = 0
  BY DEF TypeOK, ReuseInv, Modern, Held
<1>3. CASE /\ answered'[t] = answered[t]
           /\ Using(t)' \subseteq Using(t) /\ Past(t)' \subseteq Past(t)
  <2>1. /\ Cardinality(Using(t)') <= u /\ Cardinality(Using(t)') \in Nat
        /\ Cardinality(Past(t)') <= p /\ Cardinality(Past(t)') \in Nat
    BY <1>1, <1>3, FS_Subset, FS_CardinalityType
  <2> QED BY <1>1, <1>2, <1>3, <2>1
<1>4. ASSUME NEW r \in Past(t),
             answered'[t] = answered[t] + 1, Held(t),
             Using(t)' = Using(t) \ {r}, Past(t)' = Past(t) \ {r}
      PROVE  /\ answered'[t] > 0 /\ now' < exp'[t] =>
                  answered'[t] + Cardinality(Past(t)') <= Cardinality(Request)
             /\ exp'[t] # 0 => answered'[t] + Cardinality(Using(t)')
                                 <= 2 * Cardinality(Request)
             /\ exp'[t] = 0 => answered'[t] = 0
  <2>1. r \in Using(t)
    BY DEF Past
  <2>2. Cardinality(Using(t)') = u - 1 /\ Cardinality(Past(t)') = p - 1
    <3>1. Cardinality(Using(t) \ {r}) = u - 1
      BY <1>1, <2>1, FS_RemoveElement
    <3>2. Cardinality(Past(t) \ {r}) = p - 1
      BY <1>1, <1>4, FS_RemoveElement
    <3> QED BY <1>4, <3>1, <3>2
  <2>3. exp[t] # 0
    BY <1>4 DEF Held
  <2> QED BY <1>1, <1>2, <1>4, <2>2, <2>3
<1> QED BY <1>3, <1>4

LEMMA NextReuseInv ==
  TypeOK /\ KeyCovers /\ ReuseInv /\ [Next]_vars => ReuseInv'
<1> SUFFICES ASSUME TypeOK, KeyCovers, ReuseInv, [Next]_vars,
                    NEW t \in Modern
             PROVE  /\ answered'[t] > 0 /\ now' < exp'[t] =>
                         answered'[t] + Cardinality(Past(t)')
                           <= Cardinality(Request)
                    /\ exp'[t] # 0 => answered'[t] + Cardinality(Using(t)')
                                        <= 2 * Cardinality(Request)
                    /\ exp'[t] = 0 => answered'[t] = 0
  BY DEF ReuseInv, Held
<1> DEFINE Goal == /\ answered'[t] > 0 /\ now' < exp'[t] =>
                        answered'[t] + Cardinality(Past(t)')
                          <= Cardinality(Request)
                   /\ exp'[t] # 0 => answered'[t] + Cardinality(Using(t)')
                                       <= 2 * Cardinality(Request)
                   /\ exp'[t] = 0 => answered'[t] = 0
           Still == /\ exp'[t] = exp[t] /\ now' >= now /\ now' \in Nat
                    /\ answered'[t] = answered[t]
                    /\ Using(t)' \subseteq Using(t)
                    /\ Past(t)' \subseteq Past(t)
<1>s. ASSUME Still PROVE Goal
  BY <1>s, ShrinkKeepsReuse
<1> USE LifeAssumption, LegacyAssumption, NoneAssumption
    DEF TypeOK, ReqState, Modern, Held
<1>a. /\ t \in Token /\ t \notin Legacy /\ t # None
      /\ now \in Nat /\ exp[t] \in Nat /\ answered[t] \in Nat
  OBVIOUS
<1>u. Using(t)' \subseteq Request /\ IsFiniteSet(Using(t)')
      /\ Cardinality(Using(t)') \in Nat
      /\ Cardinality(Using(t)') <= Cardinality(Request)
      /\ Cardinality(Request) \in Nat
  <2>1. Using(t)' \subseteq Request
    BY DEF Using
  <2> QED BY <2>1, RequestAssumption, FS_Subset, FS_CardinalityType
<1>1. CASE Tick
  <2>1. Still
    BY <1>1, <1>a DEF Tick, Using, Past
  <2> QED BY <2>1, <1>s
<1>2. ASSUME NEW n \in Token, Login(n) PROVE Goal
  <2>1. CASE n = t
    <3>1. answered'[t] = 0
      BY <1>2, <2>1 DEF Login, ReuseInv
    <3>2. exp'[t] # 0
      BY <1>2, <2>1, <1>a DEF Login
    <3> QED BY <1>u, <3>1, <3>2
  <2>2. CASE n # t
    <3>1. Still
      BY <1>2, <2>2, <1>a DEF Login, Using, Past
    <3> QED BY <3>1, <1>s
  <2> QED BY <2>1, <2>2
<1>3. ASSUME NEW r \in Request, NEW n \in Token, Validate(r, n) PROVE Goal
  <2>1. /\ req'[r].token = n /\ req'[r].pc = "check"
        /\ req[r].token = None /\ req[r].pc = "idle"
        /\ \A q \in Request : q # r => req'[q] = req[q]
        /\ UNCHANGED <<now, exp, black, answered>>
    BY <1>3 DEF Validate, NoReq
  <2>2. Past(t)' = Past(t)
    BY <2>1, <1>a DEF Past, Using
  <2>3. CASE n = t
    <3>1. now < exp[t]
      BY <1>3, <2>3 DEF Validate
    <3>2. Cardinality(Past(t)) \in Nat
      BY UsersFinite
    <3>3. answered[t] > 0 => answered[t] + Cardinality(Past(t))
                               <= Cardinality(Request)
      BY <3>1 DEF ReuseInv
    <3>4. answered[t] <= Cardinality(Request)
      BY <1>u, <3>2, <3>3, <1>a
    <3> QED BY <1>u, <2>1, <2>2, <3>1, <3>3, <3>4, <1>a
  <2>4. CASE n # t
    <3>1. Still
      BY <2>1, <2>2, <2>4, <1>a DEF Using
    <3> QED BY <3>1, <1>s
  <2> QED BY <2>3, <2>4
<1>4. ASSUME NEW r \in Request, CheckBlacklist(r) PROVE Goal
  <2>1. /\ req'[r].token = req[r].token /\ req[r].pc = "check"
        /\ \A q \in Request : q # r => req'[q] = req[q]
        /\ UNCHANGED <<now, exp, black, answered>>
        /\ ~(now < black[req[r].token])
    BY <1>4 DEF CheckBlacklist, Blacklisted
  <2>2. Using(t)' = Using(t)
    BY <2>1 DEF Using
  <2>3. CASE answered[t] > 0 /\ now < exp[t] /\ req[r].token = t
    <3>1. black[t] # 0 /\ black[t] >= exp[t] /\ black[t] \in Nat
      BY <2>3, <1>a DEF KeyCovers
    <3> QED BY <2>1, <2>3, <3>1, <1>a
  <2>4. CASE req[r].token # t
    <3>1. Past(t)' = Past(t)
      BY <2>1, <2>2, <2>4 DEF Past, Using
    <3>2. Still
      BY <2>1, <2>2, <3>1, <1>a
    <3> QED BY <3>2, <1>s
  <2>5. CASE ~(answered[t] > 0 /\ now < exp[t])
    BY <2>1, <2>2, <2>5, <1>a DEF ReuseInv
  <2> QED BY <2>3, <2>4, <2>5
<1>5. ASSUME NEW r \in Request, Sign(r) PROVE Goal
  <2>1. /\ req'[r].token = req[r].token
        /\ req[r].pc = "lookup" /\ req'[r].pc \in {"blacklist", "reply"}
        /\ \A q \in Request : q # r => req'[q] = req[q]
        /\ UNCHANGED <<now, exp, black, answered>>
    BY <1>5 DEF Sign
  <2>2. Still
    BY <2>1, <1>a DEF Using, Past
  <2> QED BY <2>2, <1>s
<1>6. ASSUME NEW r \in Request, Blacklist(r) PROVE Goal
  <2>1. /\ req'[r].token = req[r].token
        /\ req[r].pc = "blacklist" /\ req'[r].pc = "reply"
        /\ \A q \in Request : q # r => req'[q] = req[q]
        /\ UNCHANGED <<now, exp, answered>>
    BY <1>6 DEF Blacklist
  <2>2. Still
    BY <2>1, <1>a DEF Using, Past
  <2> QED BY <2>2, <1>s
<1>7. ASSUME NEW r \in Request, Reply(r) PROVE Goal
  <2>1. /\ req[r].pc = "reply" /\ req'[r].token = None
        /\ \A q \in Request : q # r => req'[q] = req[q]
        /\ UNCHANGED <<now, black>>
    BY <1>7 DEF Reply, NoReq
  <2>2. CASE req[r].token = t
    <3>1. exp[t] # 0
      BY <2>2, <1>a
    <3>2. exp'[t] = exp[t]
      BY <1>7, <3>1 DEF Reply
    <3>3. answered'[t] = answered[t] + 1
      BY <1>7, <2>2, <1>a DEF Reply
    <3>4. r \in Past(t)
      BY <2>1, <2>2 DEF Past, Using
    <3>5. Using(t)' = Using(t) \ {r} /\ Past(t)' = Past(t) \ {r}
      BY <2>1, <1>a DEF Past, Using
    <3>6. \E q \in Past(t) : /\ answered'[t] = answered[t] + 1
                             /\ Held(t)
                             /\ Using(t)' = Using(t) \ {q}
                             /\ Past(t)' = Past(t) \ {q}
      BY <3>1, <3>3, <3>4, <3>5
    <3>7. now' >= now /\ now' \in Nat
      BY <2>1, <1>a
    <3> HIDE DEF TypeOK, Held, Modern
    <3> QED BY <3>2, <3>6, <3>7, ShrinkKeepsReuse
  <2>3. CASE req[r].token # t
    <3>1. answered'[t] = answered[t]
      BY <1>7, <2>3 DEF Reply
    <3>2. Using(t)' = Using(t) /\ Past(t)' = Past(t)
      BY <2>1, <2>3, <1>a DEF Past, Using
    <3>3. CASE exp'[t] = exp[t]
      <4>1. Still
        BY <2>1, <3>1, <3>2, <3>3, <1>a
      <4> QED BY <4>1, <1>s
    <3>4. CASE exp'[t] # exp[t]
      <4>1. exp[t] = 0
        BY <1>7, <3>4 DEF Reply
      <4>2. answered'[t] = 0
        BY <3>1, <4>1 DEF ReuseInv
      <4>3. exp'[t] # 0
        BY <3>4, <4>1
      <4> QED BY <1>u, <4>2, <4>3
    <3> QED BY <3>3, <3>4
  <2> QED BY <2>2, <2>3
<1>8. ASSUME NEW r \in Request, Refuse(r) PROVE Goal
  <2>1. /\ req'[r].token = None
        /\ \A q \in Request : q # r => req'[q] = req[q]
        /\ UNCHANGED <<now, exp, black, answered>>
    BY <1>8 DEF Refuse, NoReq
  <2>2. Still
    BY <2>1, <1>a DEF Using, Past
  <2> QED BY <2>2, <1>s
<1>9. CASE UNCHANGED vars
  <2>1. Still
    BY <1>9, <1>a DEF vars, Using, Past
  <2> QED BY <2>1, <1>s
<1>10. ASSUME NEW r \in Request, BlacklistUnanswered(r) PROVE Goal
  <2>1. Still
    BY <1>10, <1>a DEF BlacklistUnanswered, Using, Past
  <2> QED BY <2>1, <1>s
<1> QED BY <1>1, <1>2, <1>3, <1>4, <1>5, <1>6, <1>7, <1>8, <1>9,
       <1>10 DEF Next

LEMMA ReuseBounds == TypeOK /\ ReuseInv => BoundedReuse
<1> SUFFICES ASSUME TypeOK, ReuseInv, NEW t \in Modern
             PROVE  answered[t] <= 2 * Cardinality(Request)
  BY DEF BoundedReuse
<1>1. /\ Cardinality(Using(t)) \in Nat
      /\ Cardinality(Request) \in Nat
      /\ answered[t] \in Nat
  BY UsersFinite DEF TypeOK
<1>2. CASE Held(t)
  BY <1>1, <1>2 DEF ReuseInv
<1>3. CASE ~Held(t)
  BY <1>1, <1>3 DEF ReuseInv
<1> QED BY <1>2, <1>3

(* The types, the life of the keys and the bound on reuse are inductive      *)
(* together: until a token expires only the requests past the check can     *)
(* still be answered, afterwards only those already running.                *)
THEOREM Invariance == Spec => []IInv
<1>1. Init => IInv
  BY InitTypeOK, InitKeyCovers, InitReuseInv DEF IInv
<1>2. IInv /\ [Next]_vars => IInv'
  BY NextTypeOK, NextKeyCovers, NextReuseInv DEF IInv
<1> QED BY <1>1, <1>2, PTL DEF Spec

(* BoundedReuse: a refresh token is answered at most twice per concurrent   *)
(* request.                                                                 *)
THEOREM ReuseBounded == Spec => []BoundedReuse
<1>1. IInv => BoundedReuse
  BY ReuseBounds DEF IInv
<1> QED BY <1>1, Invariance, PTL

=============================================================================
