------------------------------ MODULE RateLimits ------------------------------
(***************************************************************************)
(* The counters in Redis that limit one client of the authentication       *)
(* endpoints (go-api/middleware/ratelimit_auth.go) and one device that     *)
(* sends telemetry: the script of the webhook, which counts a message      *)
(* under three keys in one step (RateLimiter in go-api/handlers/           *)
(* telemetry.go), and the quota of messages per minute (enforceTelemetry-  *)
(* Quota in go-api/handlers/quota.go).  The first and the last take INCR,  *)
(* EXPIRE and the decision in three steps of a goroutine, and the client   *)
(* library repeats a command whose answer was lost.                        *)
(***************************************************************************)
EXTENDS Naturals

CONSTANTS
  Request,      \* goroutines serving requests
  Slot,         \* slots the device sends on
  MaxAttempts,  \* 10 (main.go)
  PerSec, PerMin, SlotPerMin,  \* RATE_LIMIT_DEVICE_PER_SEC, ..._SLOT_PER_MIN
  MaxQuota,     \* bound on tenants.quota_msgs_per_min; 0 is no quota
  Minute        \* ticks of the clock in a minute; one is a second

ASSUME LimitsAssumption ==
  /\ {MaxAttempts, PerSec, PerMin, SlotPerMin, Minute} \subseteq Nat \ {0}
  /\ MaxQuota \in Nat
  /\ {"auth", "quota", "sec", "min"} \cap Slot = {}

Scripted == {"sec", "min"} \cup Slot
Key == {"auth", "quota"} \cup Scripted

(* The limit a key is held to, or the largest one. *)
Limit(k) ==
  CASE k = "auth" -> MaxAttempts [] k = "quota" -> MaxQuota
    [] k = "sec" -> PerSec [] k = "min" -> PerMin [] OTHER -> SlotPerMin
Life(k) == IF k = "sec" THEN 1 ELSE Minute

VARIABLES
  client,  \* "address": it logs in; "device": it sends telemetry
  val,     \* val[k]: value of key k; 0: no key
  ttl,     \* ttl[k]: its time to live; 0: no expiration
  quota,   \* quota_msgs_per_min of the tenant
  req,     \* req[r]: local state of a request
  passed,  \* passed[k]: let through by the present window of k (history)
  top,     \* top[k]: the highest limit one of them was held to (history)
  lost     \* lost[k]: nobody will set the expiration of the key (history)

vars == <<client, val, ttl, quota, req, passed, top, lost>>

\* old: the window the request was counted in has ended
NoReq == [pc |-> "idle", key |-> "auth", val |-> 0, cap |-> 0, old |-> FALSE]

ReqState ==
  [pc: {"idle", "read", "count", "expire", "decide"}, key: Key, val: Nat,
   cap: Nat, old: BOOLEAN]

Largest(a, b) == IF a < b THEN b ELSE a

(* One beyond its limit, a counter need not be told from a larger one. *)
Bumped(k) == IF val[k] <= Limit(k) THEN val[k] + 1 ELSE val[k]

Init ==
  /\ client \in {"address", "device"}
  /\ val = [k \in Key |-> 0]
  /\ ttl = [k \in Key |-> 0]
  /\ quota \in 0..MaxQuota
  /\ req = [r \in Request |-> NoReq]
  /\ passed = [k \in Key |-> 0]
  /\ top = [k \in Key |-> 0]
  /\ lost = [k \in Key |-> FALSE]

Incremented(k) ==
  /\ val' = [val EXCEPT ![k] = Bumped(k)]
  /\ UNCHANGED <<client, ttl, quota, passed, top>>

(* INCR creates a missing key, without an expiration; only the answer 1     *)
(* lets the caller set it.                                                  *)
Counted(r, k, cap) ==
  /\ Incremented(k)
  /\ req' = [req EXCEPT ![r] =
       [pc |-> IF val[k] = 0 THEN "expire" ELSE "decide", key |-> k,
        val |-> Bumped(k), cap |-> cap, old |-> FALSE]]
  /\ UNCHANGED lost

(* INCR is executed and its answer lost.  The library repeats it, which is  *)
(* a Counted step that finds the key; when it gives up, the request passes. *)
Repeated(k) ==
  /\ Incremented(k)
  /\ lost' = [lost EXCEPT ![k] = @ \/ val[k] = 0]
  /\ UNCHANGED req

(* The request ends with no more calls to Redis. *)
Leave(r) ==
  /\ req' = [req EXCEPT ![r] = NoReq]
  /\ UNCHANGED <<client, val, ttl, quota, passed, top, lost>>

Attempt(r) ==
  /\ client = "address"
  /\ req[r].pc = "idle"
  /\ Counted(r, "auth", MaxAttempts) \/ Repeated("auth")

(* Mutant of SetExpire: the error of the call is taken for an answer. *)
SetExpireMissed(r) ==
  /\ req[r].pc = "expire"
  /\ req' = [req EXCEPT ![r].pc = "decide"]
  /\ UNCHANGED <<client, val, ttl, quota, passed, top, lost>>

(* Mutant of SetExpire: SET with an expiration, to the value INCR answered. *)
SetExpireBySet(r) ==
  LET k == req[r].key IN
  /\ req[r].pc = "expire"
  /\ val' = [val EXCEPT ![k] = 1]
  /\ ttl' = [ttl EXCEPT ![k] = Life(k)]
  /\ lost' = [lost EXCEPT ![k] = FALSE]
  /\ req' = [req EXCEPT ![r].pc = "decide"]
  /\ UNCHANGED <<client, quota, passed, top>>

(* EXPIRE on whatever the key is by now; its error is ignored. *)
SetExpire(r) ==
  LET k == req[r].key IN
  /\ req[r].pc = "expire"
  /\ \/ /\ ttl' = [ttl EXCEPT ![k] = IF val[k] = 0 THEN 0 ELSE Life(k)]
        /\ lost' = [lost EXCEPT ![k] = FALSE]
     \/ /\ lost' = [lost EXCEPT ![k] = @ \/ ~req[r].old]
        /\ UNCHANGED ttl
  /\ req' = [req EXCEPT ![r].pc = "decide"]
  /\ UNCHANGED <<client, val, quota, passed, top>>

(* 429 beyond the limit. *)
Decide(r) ==
  LET q == req[r] IN
  /\ q.pc = "decide"
  /\ IF q.val <= q.cap /\ ~q.old
     THEN /\ passed' = [passed EXCEPT ![q.key] = @ + 1]
          /\ top' = [top EXCEPT ![q.key] = Largest(@, q.cap)]
     ELSE UNCHANGED <<passed, top>>
  /\ req' = [req EXCEPT ![r] = NoReq]
  /\ UNCHANGED <<client, val, ttl, quota, lost>>

(* Mutant of Script: it renews the expirations. *)
ScriptRenews(s) ==
  LET ks == {"sec", "min", s} IN
  /\ val' = [k \in Key |-> IF k \in ks THEN Bumped(k) ELSE val[k]]
  /\ ttl' = [k \in Key |-> IF k \in ks THEN Life(k) ELSE ttl[k]]
  /\ UNCHANGED <<client, quota, lost>>

(* The script counts a message of slot s, and sets the expiration of the    *)
(* keys it creates.                                                         *)
Script(s) ==
  LET ks == {"sec", "min", s} IN
  /\ val' = [k \in Key |-> IF k \in ks THEN Bumped(k) ELSE val[k]]
  /\ ttl' = [k \in Key |-> IF k \in ks /\ val[k] = 0 THEN Life(k) ELSE ttl[k]]
  /\ UNCHANGED <<client, quota, lost>>

(* The message passes when no counter is beyond its limit; it was counted   *)
(* under all three keys anyway.                                             *)
Allow(r, s) ==
  LET ks == {"sec", "min", s} IN
  /\ client = "device" /\ req[r].pc = "idle"
  /\ Script(s)
  /\ IF \A k \in ks : val'[k] <= Limit(k)
     THEN /\ passed' = [k \in Key |-> IF k \in ks THEN passed[k] + 1 ELSE passed[k]]
          /\ top' = [k \in Key |-> IF k \in ks THEN Limit(k) ELSE top[k]]
          /\ req' = [req EXCEPT ![r].pc = "read"]
     ELSE UNCHANGED <<passed, top, req>>

(* The script is executed and its answer lost: it is repeated, or the       *)
(* message is refused: 503, and with RATE_LIMIT_FAIL_OPEN=true 429, for the *)
(* error comes with allowed = false.                                        *)
AllowFails(r, s) ==
  /\ client = "device" /\ req[r].pc = "idle"
  /\ Script(s)
  /\ UNCHANGED <<passed, top, req>>

(* The device and its tenant's quota are read: the message is refused, or   *)
(* passes uncounted when there is no quota.                                 *)
ReadQuota(r) ==
  /\ req[r].pc = "read"
  /\ \/ Leave(r)
     \/ /\ quota > 0
        /\ req' = [req EXCEPT ![r].pc = "count", ![r].cap = quota]
        /\ UNCHANGED <<client, val, ttl, quota, passed, top, lost>>

(* The message is counted for the quota as it was read; when INCR fails, it *)
(* passes.                                                                  *)
CountMessage(r) ==
  /\ req[r].pc = "count"
  /\ Counted(r, "quota", req[r].cap) \/ Repeated("quota") \/ Leave(r)

PatchQuota ==
  /\ client = "device"
  /\ quota' \in 0..MaxQuota \ {quota}
  /\ UNCHANGED <<client, val, ttl, req, passed, top, lost>>

(* A second passes; Redis removes the keys that expire. *)
Tick ==
  LET gone == {k \in Key : ttl[k] = 1} IN
  /\ \E k \in Key : ttl[k] > 0
  /\ val' = [k \in Key |-> IF k \in gone THEN 0 ELSE val[k]]
  /\ ttl' = [k \in Key |-> IF ttl[k] = 0 THEN 0 ELSE ttl[k] - 1]
  /\ passed' = [k \in Key |-> IF k \in gone THEN 0 ELSE passed[k]]
  /\ top' = [k \in Key |-> IF k \in gone THEN 0 ELSE top[k]]
  /\ lost' = [k \in Key |-> lost[k] /\ k \notin gone]
  /\ req' = [r \in Request |->
       IF req[r].pc \in {"expire", "decide"} /\ req[r].key \in gone
       THEN [req[r] EXCEPT !.old = TRUE] ELSE req[r]]
  /\ UNCHANGED <<client, quota>>

(* The API process stops; a request that created a key leaves it as it is. *)
Crash ==
  /\ req' = [r \in Request |-> NoReq]
  /\ lost' = [k \in Key |->
       lost[k] \/ \E r \in Request :
                    req[r].pc = "expire" /\ req[r].key = k /\ ~req[r].old]
  /\ UNCHANGED <<client, val, ttl, quota, passed, top>>

Next ==
  \/ \E r \in Request : Attempt(r)
  \/ \E r \in Request, s \in Slot : Allow(r, s)
  \/ \E r \in Request, s \in Slot : AllowFails(r, s)
  \/ \E r \in Request : ReadQuota(r)
  \/ \E r \in Request : CountMessage(r)
  \/ \E r \in Request : SetExpire(r)
  \/ \E r \in Request : Decide(r)
  \/ PatchQuota
  \/ Tick
  \/ Crash

Spec == Init /\ [][Next]_vars

(* Accepted requests run to their end, and time passes. *)
Fairness ==
  /\ \A r \in Request : WF_vars(SetExpire(r)) /\ WF_vars(Decide(r))
  /\ WF_vars(Tick)

LiveSpec == Spec /\ Fairness

-----------------------------------------------------------------------------
(* Properties *)

(* The types; only a request that created a key sets its expiration, and no *)
(* request is held to a limit beyond the largest.                           *)
TypeOK ==
  /\ client \in {"address", "device"}
  /\ val \in [Key -> Nat] /\ ttl \in [Key -> Nat]
  /\ quota \in 0..MaxQuota
  /\ req \in [Request -> ReqState]
  /\ passed \in [Key -> Nat] /\ top \in [Key -> Nat]
  /\ lost \in [Key -> BOOLEAN]
  /\ \A r \in Request :
       /\ req[r].pc \in {"expire", "decide"} =>
            /\ req[r].key \in {"auth", "quota"}
            /\ req[r].val > 0 /\ req[r].cap <= Limit(req[r].key)
       /\ req[r].pc = "expire" => req[r].val = 1
       /\ req[r].pc = "count" => req[r].cap <= MaxQuota

(* No window of any counter lets more through than the highest limit that   *)
(* one of them was held to, however INCR, EXPIRE, the decision and a change *)
(* of the quota interleave, wherever the process stops and whichever calls  *)
(* Redis executes twice or leaves unanswered: "10 attempts per minute"      *)
(* (go-api/main.go:52), and the limits of device, slot and tenant.  It      *)
(* speaks of requests that a counter let through: the ones that pass        *)
(* without an answer of Redis, when INCR fails, are in no window.           *)
WindowBound == \A k \in Key : passed[k] <= top[k]

(* A counter that would refuse its client for ever is never left behind     *)
(* silently: a key without an expiration has lost the EXPIRE of the request *)
(* that created it, or that request is about to send it; the script leaves  *)
(* no such key.                                                             *)
KeyTimed ==
  \A k \in Key : val[k] > 0 /\ ttl[k] = 0 =>
    /\ k \notin Scripted
    /\ \/ lost[k]
       \/ \E r \in Request :
            req[r].pc = "expire" /\ req[r].key = k /\ ~req[r].old

(* Refused clients are let in again though they go on trying and every      *)
(* refused try is counted: the window ends, unless its EXPIRE was lost.     *)
WindowEnds ==
  \A k \in {"auth", "quota", "min"} : val[k] > 0 ~> (val[k] = 0 \/ lost[k])

(* What WindowEnds rests on: a window is not prolonged by those who try     *)
(* again, only by the EXPIRE of a request that found the key new, once      *)
(* each; so a window of the script never is.                                *)
NotProlonged ==
  [][\A k \in Key : ttl[k] > 0 /\ ttl'[k] > ttl[k] =>
       /\ k \notin Scripted
       /\ \E r \in Request : /\ req[r].pc = "expire" /\ req[r].key = k
                            /\ req'[r].pc = "decide"]_vars

=============================================================================
