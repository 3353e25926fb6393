--------------------------- MODULE RefreshRotation ---------------------------
(***************************************************************************)
(* Refresh token rotation (go-api/handlers/auth.go, go-api/utils/jwt.go).  *)
(* A refresh validates the token, asks Redis whether it is blacklisted,    *)
(* looks the user up, signs new tokens, blacklists the old one for the     *)
(* rest of its life and answers; these are separate steps of a goroutine,  *)
(* and time passes between them.                                           *)
(***************************************************************************)
EXTENDS Naturals, FiniteSets

CONSTANTS
  Token,        \* refresh tokens
  Legacy,       \* tokens without a jti: they cannot be blacklisted
  Request,      \* goroutines serving POST auth/refresh
  RefreshLife,  \* JWTRefreshExpiration, in ticks
  MaxTime,      \* bound on time
  None

ASSUME LifeAssumption == RefreshLife \in Nat \ {0} /\ MaxTime \in Nat
ASSUME LegacyAssumption == Legacy \subseteq Token
ASSUME RequestAssumption == IsFiniteSet(Request)
ASSUME NoneAssumption == None \notin Token

VARIABLES
  now,       \* the clock
  exp,       \* exp[t]: the exp claim of t; 0: no client has t
  black,     \* black[t]: when the key jwt:blacklist:<jti> expires; 0: no key
  req,       \* req[r]: local state of a refresh
  answered   \* answered[t]: number of 200 responses to t (history)

vars == <<now, exp, black, req, answered>>

NoReq == [pc |-> "idle", token |-> None, ttl |-> 0, newExp |-> 0]

ReqState == [pc: {"idle", "check", "lookup", "blacklist", "reply"},
             token: Token \cup {None}, ttl: Nat, newExp: Nat]

Init ==
  /\ now = 0
  /\ exp = [t \in Token |-> IF t \in Legacy THEN RefreshLife ELSE 0]
  /\ black = [t \in Token |-> 0]
  /\ req = [r \in Request |-> NoReq]
  /\ answered = [t \in Token \ Legacy |-> 0]

Held(t) == exp[t] # 0
Blacklisted(t) == now < black[t]

Tick ==
  /\ now < MaxTime
  /\ now' = now + 1
  /\ UNCHANGED <<exp, black, req, answered>>

(* Login: GenerateJWT for a refresh token. *)
Login(t) ==
  /\ t \notin Legacy
  /\ ~Held(t)
  /\ exp' = [exp EXCEPT ![t] = now + RefreshLife]
  /\ UNCHANGED <<now, black, req, answered>>

(* Refresh: ValidateJWT accepts a token a client has until its exp. *)
Validate(r, t) ==
  /\ req[r].pc = "idle"
  /\ Held(t)
  /\ now < exp[t]
  /\ req' = [req EXCEPT ![r] = [NoReq EXCEPT !.pc = "check", !.token = t]]
  /\ UNCHANGED <<now, exp, black, answered>>

(* Mutant of CheckBlacklist: an error of Redis counts as not blacklisted. *)
CheckBlacklistOpen(r) ==
  /\ req[r].pc = "check"
  /\ \/ ~Blacklisted(req[r].token) /\ req' = [req EXCEPT ![r].pc = "lookup"]
     \/ req' = [req EXCEPT ![r].pc = "lookup"]
  /\ UNCHANGED <<now, exp, black, answered>>

(* IsTokenBlacklisted: EXISTS; no key is ever set for a token without jti. *)
CheckBlacklist(r) ==
  /\ req[r].pc = "check"
  /\ ~Blacklisted(req[r].token)
  /\ req' = [req EXCEPT ![r].pc = "lookup"]
  /\ UNCHANGED <<now, exp, black, answered>>

(* Mutant of Sign: the ttl is not tested for being positive. *)
SignAnyTtl(r) ==
  LET t == req[r].token
  IN  /\ req[r].pc = "lookup"
      /\ req' = [req EXCEPT ![r] =
           [@ EXCEPT !.ttl = IF now < exp[t] THEN exp[t] - now ELSE 0,
                     !.newExp = now + RefreshLife, !.pc = "blacklist"]]
      /\ UNCHANGED <<now, exp, black, answered>>

(* The user exists and is active, the new tokens are signed, and the rest   *)
(* of the life of the old one is computed; none left, nothing to blacklist. *)
Sign(r) ==
  LET t == req[r].token
      ttl == IF now < exp[t] THEN exp[t] - now ELSE 0
  IN  /\ req[r].pc = "lookup"
      /\ req' = [req EXCEPT ![r] =
           [@ EXCEPT !.ttl = ttl, !.newExp = now + RefreshLife,
                     !.pc = IF ttl > 0 THEN "blacklist" ELSE "reply"]]
      /\ UNCHANGED <<now, exp, black, answered>>

(* Mutant of Blacklist: the key lives for one tick, as an access token.  *)
BlacklistShort(r) ==
  LET t == req[r].token
  IN  /\ req[r].pc = "blacklist"
      /\ black' = IF t \in Legacy THEN black
                  ELSE [black EXCEPT ![t] = now + 1]
      /\ req' = [req EXCEPT ![r].pc = "reply"]
      /\ UNCHANGED <<now, exp, answered>>

(* BlacklistToken: SET with the ttl, which replaces an earlier key. *)
Blacklist(r) ==
  LET t == req[r].token
  IN  /\ req[r].pc = "blacklist"
      /\ black' = IF t \in Legacy THEN black
                  ELSE [black EXCEPT ![t] = now + req[r].ttl]
      /\ req' = [req EXCEPT ![r].pc = "reply"]
      /\ UNCHANGED <<now, exp, answered>>

(* The SET is executed and its answer lost: the client repeats it, with the *)
(* same time to live, or gives up (Refuse).                                 *)
BlacklistUnanswered(r) ==
  LET t == req[r].token
  IN  /\ req[r].pc = "blacklist"
      /\ t \notin Legacy
      /\ black' = [black EXCEPT ![t] = now + req[r].ttl]
      /\ UNCHANGED <<now, exp, req, answered>>

(* The 200 response; the new token reaches the client or is lost. *)
Reply(r) ==
  LET t == req[r].token
  IN  /\ req[r].pc = "reply"
      /\ answered' = IF t \in Legacy THEN answered
                     ELSE [answered EXCEPT ![t] = @ + 1]
      /\ \/ exp' = exp
         \/ \E n \in Token \ Legacy :
              ~Held(n) /\ exp' = [exp EXCEPT ![n] = req[r].newExp]
      /\ req' = [req EXCEPT ![r] = NoReq]
      /\ UNCHANGED <<now, black>>

(* 401 for a blacklisted token or an unknown user, 403, 500, 503 when Redis *)
(* does not answer, or a crash: no state is kept but the blacklist.         *)
Refuse(r) ==
  /\ req[r].pc # "idle"
  /\ req' = [req EXCEPT ![r] = NoReq]
  /\ UNCHANGED <<now, exp, black, answered>>

Next ==
  \/ Tick
  \/ \E t \in Token : Login(t)
  \/ \E r \in Request, t \in Token : Validate(r, t)
  \/ \E r \in Request : CheckBlacklist(r)
  \/ \E r \in Request : Sign(r)
  \/ \E r \in Request : Blacklist(r)
  \/ \E r \in Request : BlacklistUnanswered(r)
  \/ \E r \in Request : Reply(r)
  \/ \E r \in Request : Refuse(r)

Spec == Init /\ [][Next]_vars

-----------------------------------------------------------------------------
(* Properties *)

Modern == Token \ Legacy
Using(t) == {r \in Request : req[r].token = t}
Past(t) == {r \in Using(t) : req[r].pc # "check"}

(* The types; a request has a token while it runs, and no blacklist key is  *)
(* set without a time to live (Redis would keep it for ever).               *)
TypeOK ==
  /\ now \in Nat
  /\ exp \in [Token -> Nat]
  /\ black \in [Token -> Nat]
  /\ req \in [Request -> ReqState]
  /\ answered \in [Modern -> Nat]
  /\ \A r \in Request :
       /\ req[r].pc = "idle" <=> req[r].token = None
       /\ req[r].token # None => Held(req[r].token)
       /\ req[r].pc = "blacklist" => req[r].ttl > 0
       /\ req[r].pc \in {"blacklist", "reply"} => req[r].newExp > 0

(* "Refresh token already used" (go-api/handlers/auth.go:343): a token that *)
(* was answered is expired or blacklisted for ever after: the key never     *)
(* runs out before the token does.                                          *)
AnsweredStaysDead ==
  \A t \in Modern : answered[t] > 0 => now >= exp[t] \/ Blacklisted(t)

(* How far one-time use can fail: the requests past the check together get  *)
(* at most one answer each, and once more when the token expires between    *)
(* the validation and the check, as the key has gone by then.               *)
BoundedReuse ==
  \A t \in Modern : answered[t] <= 2 * Cardinality(Request)

(* AnsweredStaysDead made inductive: every key lives as long as its token.  *)
KeyCovers ==
  \A t \in Modern :
    /\ ~Held(t) => black[t] = 0 /\ answered[t] = 0
    /\ black[t] # 0 => black[t] >= exp[t]
    /\ answered[t] > 0 => now >= exp[t] \/ black[t] # 0
    /\ \A r \in Using(t) :
         /\ req[r].pc = "blacklist" => now + req[r].ttl >= exp[t]
         /\ req[r].pc = "reply" => now >= exp[t] \/ black[t] # 0

(* BoundedReuse made inductive: until the token expires only the requests   *)
(* past the check can still be answered, afterwards those already running.  *)
ReuseInv ==
  \A t \in Modern :
    /\ answered[t] > 0 /\ now < exp[t] =>
         answered[t] + Cardinality(Past(t)) <= Cardinality(Request)
    /\ Held(t) => answered[t] + Cardinality(Using(t)) <= 2 * Cardinality(Request)
    /\ ~Held(t) => answered[t] = 0

IInv == TypeOK /\ KeyCovers /\ ReuseInv

=============================================================================
