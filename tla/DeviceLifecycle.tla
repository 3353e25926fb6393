--------------------------- MODULE DeviceLifecycle ---------------------------
(***************************************************************************)
(* The life of a device row and of its secret in the HTTP API              *)
(* (go-api/handlers/devices.go): direct provisioning, claim under a row    *)
(* lock, the Redis copy of the secret, its retrieval by the device, reset, *)
(* and the status update that ends a telemetry webhook                     *)
(* (go-api/handlers/telemetry.go).                                         *)
(*                                                                         *)
(* Every request runs in a goroutine of its own.  A step of this module is *)
(* one statement that reaches PostgreSQL or Redis, with the tests that     *)
(* precede the next one.  Requests that end without a state change         *)
(* (malformed body, wrong signature, unknown device) have no action; the   *)
(* device quota a claim or a provisioning passes first is DeviceQuota.     *)
(***************************************************************************)
EXTENDS Naturals

CONSTANTS
  Device,    \* device_id values
  Tenant,    \* tenant_id values
  User,      \* user_id values of users with a tenant
  TenantOf,  \* the tenant of each user, as in the JWT claims
  Admin,     \* the users whose role is tenant_admin
  Secret,    \* device secrets that can be generated: bounds the claims
  Claimer,   \* goroutines serving POST devices/claim
  Getter,    \* goroutines serving POST devices/secret
  Hook,      \* goroutines serving the telemetry webhook
  MaxLost,   \* bound: answers of Redis that are lost in a run
  None       \* NULL, a missing key, no request

ASSUME TenantOfAssumption == TenantOf \in [User -> Tenant]
ASSUME AdminAssumption == Admin \subseteq User
ASSUME NoneAssumption ==
  None \notin Device \cup Tenant \cup User \cup Secret \cup Claimer

VARIABLES
  row,        \* devices table: row[d]
  lock,       \* lock[d]: the claim whose transaction holds the row lock
  cache,      \* Redis: the value of claim:<d>:secret
  claim,      \* claim[c]: local state of a claim request
  fetch,      \* fetch[g]: local state of a secret request
  hook,       \* hook[h]: the device whose telemetry h is about to acknowledge
  generated,  \* secrets generateDeviceSecret has returned
  issued,     \* issued[s]: the device the hash of s was committed for
  handed,     \* handed[s]: number of responses that carried s
  lost,       \* answers of Redis lost so far, bounded by MaxLost
  restored,   \* secrets a SET has put back in Redis after they were taken
  provisioned,\* devices whose row ProvisionDevice wrote
  wasReset    \* devices that ResetDevice has ever reset

vars == <<row, lock, cache, claim, fetch, hook, generated, issued, handed,
          lost, restored, provisioned, wasReset>>

\* What history variables record of the run; no handler reads them.
history == <<generated, issued, handed, lost, restored, provisioned,
             wasReset>>

Status == {"absent", "unclaimed", "claimed", "active"}

(* The columns the handlers read or write.  hash is the secret whose bcrypt *)
(* hash the column holds; delivered is secret_delivered_at IS NOT NULL;     *)
(* code is claim_code_hash IS NOT NULL.                                     *)
Row == [status: Status, tenant: Tenant \cup {None}, owner: User \cup {None},
        hash: Secret \cup {None}, delivered: BOOLEAN, code: BOOLEAN]

ClaimState == [pc: {"idle", "locked", "updated", "cache"},
               dev: Device \cup {None}, user: User \cup {None},
               secret: Secret \cup {None}, free: BOOLEAN]

FetchState == [pc: {"idle", "take", "mark", "reply"},
               dev: Device \cup {None}, secret: Secret \cup {None}]

NoClaim == [pc |-> "idle", dev |-> None, user |-> None, secret |-> None,
            free |-> FALSE]

NoFetch == [pc |-> "idle", dev |-> None, secret |-> None]

(* No row yet, or a row the factory inserted: unclaimed, with a claim code. *)
FreshRow(status) ==
  [status |-> status, tenant |-> None, owner |-> None, hash |-> None,
   delivered |-> FALSE, code |-> status = "unclaimed"]

Init ==
  /\ row \in [Device -> {FreshRow("absent"), FreshRow("unclaimed")}]
  /\ lock = [d \in Device |-> None]
  /\ cache = [d \in Device |-> None]
  /\ claim = [c \in Claimer |-> NoClaim]
  /\ fetch = [g \in Getter |-> NoFetch]
  /\ hook = [h \in Hook |-> None]
  /\ generated = {}
  /\ issued = [s \in Secret |-> None]
  /\ handed = [s \in Secret |-> 0]
  /\ lost = 0
  /\ restored = {}
  /\ provisioned = {}
  /\ wasReset = {}

-----------------------------------------------------------------------------
(* POST devices/provision *)

(* ProvisionDevice: one INSERT, already 'claimed' and without a claim code. *)
(* The response carries the secret unless the process dies before it.       *)
Provision(u, d, s) ==
  /\ row[d].status = "absent"
  /\ s \notin generated
  /\ row' = [row EXCEPT ![d] =
       [status |-> "claimed", tenant |-> TenantOf[u], owner |-> u, hash |-> s,
        delivered |-> FALSE, code |-> FALSE]]
  /\ generated' = generated \cup {s}
  /\ issued' = [issued EXCEPT ![s] = d]
  /\ \/ handed' = [handed EXCEPT ![s] = @ + 1]
     \/ handed' = handed
  /\ provisioned' = provisioned \cup {d}
  /\ UNCHANGED <<lock, cache, claim, fetch, hook, lost, restored,
                 wasReset>>

-----------------------------------------------------------------------------
(* POST devices/claim *)

(* Mutant of ClaimLock: a plain SELECT, without FOR UPDATE. *)
ClaimLockUnlocked(c, u, d) ==
  /\ claim[c].pc = "idle"
  /\ row[d].status # "absent"
  /\ claim' = [claim EXCEPT ![c] =
       [pc |-> "locked", dev |-> d, user |-> u, secret |-> None,
        free |-> row[d].status = "unclaimed" /\ row[d].code]]
  /\ UNCHANGED <<row, lock, cache, fetch, hook, history>>

(* BEGIN and SELECT ... FOR UPDATE: waits for the row lock, then reads what *)
(* the two tests on status and claim code will look at.                     *)
ClaimLock(c, u, d) ==
  /\ claim[c].pc = "idle"
  /\ row[d].status # "absent"
  /\ lock[d] = None
  /\ lock' = [lock EXCEPT ![d] = c]
  /\ claim' = [claim EXCEPT ![c] =
       [pc |-> "locked", dev |-> d, user |-> u, secret |-> None,
        free |-> row[d].status = "unclaimed" /\ row[d].code]]
  /\ UNCHANGED <<row, cache, fetch, hook, history>>

(* The tests passed and the claim code matched: a fresh secret is hashed    *)
(* and the UPDATE is executed, still invisible outside the transaction.     *)
ClaimUpdate(c, s) ==
  /\ claim[c].pc = "locked"
  /\ claim[c].free
  /\ s \notin generated
  /\ generated' = generated \cup {s}
  /\ claim' = [claim EXCEPT ![c].pc = "updated", ![c].secret = s]
  /\ UNCHANGED <<row, lock, cache, fetch, hook, issued, handed, lost,
                 restored, provisioned, wasReset>>

(* Mutant of ClaimCommit: a claim code is good for one claim. *)
ClaimCommitConsumes(c) ==
  LET d == claim[c].dev
      u == claim[c].user
  IN  /\ claim[c].pc = "updated"
      /\ row' = [row EXCEPT ![d] =
           [status |-> "claimed", tenant |-> TenantOf[u], owner |-> u,
            hash |-> claim[c].secret, delivered |-> FALSE, code |-> FALSE]]
      /\ issued' = [issued EXCEPT ![claim[c].secret] = d]
      /\ lock' = [lock EXCEPT ![d] = None]
      /\ claim' = [claim EXCEPT ![c].pc = "cache"]
      /\ UNCHANGED <<cache, fetch, hook, generated, handed, lost, restored,
                     provisioned, wasReset>>

(* COMMIT makes the new owner, status and hash visible and frees the lock. *)
ClaimCommit(c) ==
  LET d == claim[c].dev
      u == claim[c].user
  IN  /\ claim[c].pc = "updated"
      /\ row' = [row EXCEPT ![d] =
           [@ EXCEPT !.status = "claimed", !.tenant = TenantOf[u],
                     !.owner = u, !.hash = claim[c].secret,
                     !.delivered = FALSE]]
      /\ issued' = [issued EXCEPT ![claim[c].secret] = d]
      /\ lock' = [lock EXCEPT ![d] = None]
      /\ claim' = [claim EXCEPT ![c].pc = "cache"]
      /\ UNCHANGED <<cache, fetch, hook, generated, handed, lost, restored,
                     provisioned, wasReset>>

(* Mutant of ClaimRollback: no return after a failed COMMIT, the secret of  *)
(* the rolled back claim is cached.                                         *)
ClaimRollbackGoesOn(c) ==
  /\ claim[c].pc \in {"locked", "updated"}
  /\ lock' = [lock EXCEPT ![claim[c].dev] = None]
  /\ claim' = IF claim[c].pc = "updated"
              THEN [claim EXCEPT ![c].pc = "cache"]
              ELSE [claim EXCEPT ![c] = NoClaim]
  /\ UNCHANGED <<row, cache, fetch, hook, history>>

(* Mutant of ClaimRollback: no deferred Rollback, the lock stays taken.     *)
ClaimRollbackForgotten(c) ==
  /\ claim[c].pc \in {"locked", "updated"}
  /\ claim' = [claim EXCEPT ![c] = NoClaim]
  /\ UNCHANGED <<row, lock, cache, fetch, hook, history>>

(* Every return before COMMIT succeeds (no claim code, wrong code, a *)
(* failed statement, a failed COMMIT) runs the deferred Rollback.           *)
ClaimRollback(c) ==
  /\ claim[c].pc \in {"locked", "updated"}
  /\ lock' = [lock EXCEPT ![claim[c].dev] = None]
  /\ claim' = [claim EXCEPT ![c] = NoClaim]
  /\ UNCHANGED <<row, cache, fetch, hook, history>>

(* Secrets a GETDEL answered with that were sent since or are about to be. *)
Taken ==
  {s \in Secret : handed[s] > 0 \/ \E g \in Getter : fetch[g].secret = s}

(* Redis executes SET claim:<d>:secret, whatever the key held. *)
SetSecret(c) ==
  /\ cache' = [cache EXCEPT ![claim[c].dev] = claim[c].secret]
  /\ restored' = restored \cup ({claim[c].secret} \cap Taken)

(* The SET whose answer ends the claim.  Skipped when Redis is not          *)
(* configured, and a failed SET is only logged: the claim succeeds anyway.  *)
ClaimCache(c) ==
  /\ claim[c].pc = "cache"
  /\ SetSecret(c) \/ UNCHANGED <<cache, restored>>
  /\ claim' = [claim EXCEPT ![c] = NoClaim]
  /\ UNCHANGED <<row, lock, fetch, hook, generated, issued, handed, lost,
                 provisioned, wasReset>>

(* The SET is executed and its answer is lost: the go-redis client, whose   *)
(* options leave MaxRetries at its default, sends the command again.        *)
ClaimCacheUnanswered(c) ==
  /\ claim[c].pc = "cache"
  /\ lost < MaxLost
  /\ lost' = lost + 1
  /\ SetSecret(c)
  /\ UNCHANGED <<row, lock, claim, fetch, hook, generated, issued, handed,
                 provisioned, wasReset>>

-----------------------------------------------------------------------------
(* POST devices/secret *)

(* The signed request of device d reads its row and goes on only when it is *)
(* claimed and not marked delivered.                                        *)
SecretRead(g, d) ==
  /\ fetch[g].pc = "idle"
  /\ row[d].status = "claimed"
  /\ ~row[d].delivered
  /\ fetch' = [fetch EXCEPT ![g] =
       [pc |-> "take", dev |-> d, secret |-> None]]
  /\ UNCHANGED <<row, lock, cache, claim, hook, history>>

(* Mutant of SecretTake: GET, which leaves the key. *)
SecretTakeKeepsKey(g) ==
  LET d == fetch[g].dev
  IN  /\ fetch[g].pc = "take"
      /\ IF cache[d] = None
         THEN fetch' = [fetch EXCEPT ![g] = NoFetch]
         ELSE fetch' = [fetch EXCEPT ![g].pc = "mark", ![g].secret = cache[d]]
      /\ UNCHANGED <<row, lock, cache, claim, hook, history>>

(* GETDEL: the key is read and removed in one Redis command.  A missing key *)
(* or no Redis ends the request.                                            *)
SecretTake(g) ==
  LET d == fetch[g].dev
  IN  /\ fetch[g].pc = "take"
      /\ IF cache[d] = None
         THEN fetch' = [fetch EXCEPT ![g] = NoFetch]
         ELSE fetch' = [fetch EXCEPT ![g].pc = "mark", ![g].secret = cache[d]]
      /\ cache' = [cache EXCEPT ![d] = None]
      /\ UNCHANGED <<row, lock, claim, hook, history>>

(* The GETDEL is executed and its answer, with the secret, is lost: the     *)
(* client sends it again, most often to find the key gone.                  *)
SecretTakeUnanswered(g) ==
  /\ fetch[g].pc = "take"
  /\ lost < MaxLost
  /\ lost' = lost + 1
  /\ cache' = [cache EXCEPT ![fetch[g].dev] = None]
  /\ UNCHANGED <<row, lock, claim, fetch, hook, generated, issued, handed,
                 restored, provisioned, wasReset>>

(* UPDATE ... SET secret_delivered_at WHERE it IS NULL: waits for the row   *)
(* lock.  No row matched is not an error.                                   *)
SecretMark(g) ==
  LET d == fetch[g].dev
  IN  /\ fetch[g].pc = "mark"
      /\ lock[d] = None
      /\ row' = [row EXCEPT ![d].delivered = TRUE]
      /\ fetch' = [fetch EXCEPT ![g].pc = "reply"]
      /\ UNCHANGED <<lock, cache, claim, hook, history>>

(* The response carries the secret. *)
SecretReply(g) ==
  /\ fetch[g].pc = "reply"
  /\ handed' = [handed EXCEPT ![fetch[g].secret] = @ + 1]
  /\ fetch' = [fetch EXCEPT ![g] = NoFetch]
  /\ UNCHANGED <<row, lock, cache, claim, hook, generated, issued, lost,
                 restored, provisioned, wasReset>>

(* A failed GETDEL or UPDATE answers with an error, and a lost connection   *)
(* with nothing; a secret taken out of Redis is gone.                       *)
SecretFail(g) ==
  /\ fetch[g].pc # "idle"
  /\ fetch' = [fetch EXCEPT ![g] = NoFetch]
  /\ UNCHANGED <<row, lock, cache, claim, hook, history>>

-----------------------------------------------------------------------------
(* POST devices/reset *)

(* The WHERE clause of the UPDATE: an admin resets any device of the tenant,*)
(* another user only the devices the user owns.                             *)
MayReset(u, d) ==
  /\ row[d].tenant = TenantOf[u]
  /\ u \in Admin \/ row[d].owner = u

(* Mutant of Reset: owner_user_id is not cleared. *)
ResetKeepsOwner(u, d) ==
  /\ lock[d] = None
  /\ MayReset(u, d)
  /\ row' = [row EXCEPT ![d] =
       [@ EXCEPT !.tenant = None, !.status = "unclaimed", !.hash = None,
                 !.delivered = FALSE]]
  /\ wasReset' = wasReset \cup {d}
  /\ UNCHANGED <<lock, cache, claim, fetch, hook, generated, issued, handed,
                 lost, restored, provisioned>>

(* ResetDevice: one UPDATE, which waits for the row lock.  It clears owner, *)
(* status, hash and delivery mark; it leaves the claim code as it is and    *)
(* does not touch Redis.                                                    *)
Reset(u, d) ==
  /\ lock[d] = None
  /\ MayReset(u, d)
  /\ row' = [row EXCEPT ![d] =
       [@ EXCEPT !.tenant = None, !.owner = None, !.status = "unclaimed",
                 !.hash = None, !.delivered = FALSE]]
  /\ wasReset' = wasReset \cup {d}
  /\ UNCHANGED <<lock, cache, claim, fetch, hook, generated, issued, handed,
                 lost, restored, provisioned>>

-----------------------------------------------------------------------------
(* The telemetry webhook, as far as it concerns the device row *)

(* The SELECT at the head of Webhook finds the device active or claimed; the*)
(* sample is then stored (TelemetryIngest) before the row is written again. *)
HookRead(h, d) ==
  /\ hook[h] = None
  /\ row[d].status \in {"active", "claimed"}
  /\ hook' = [hook EXCEPT ![h] = d]
  /\ UNCHANGED <<row, lock, cache, claim, fetch, history>>

(* chk_claimed_has_tenant and chk_claimed_has_secret. *)
RowCheck(r) ==
  /\ (r.status = "unclaimed") <=> (r.tenant = None)
  /\ (r.status = "unclaimed") <=> (r.hash = None)

(* Mutant of HookTouch: the table has lost its CHECK constraints. *)
HookTouchUnchecked(h) ==
  LET d == hook[h]
      touched == [row[d] EXCEPT !.status = "active"]
  IN  /\ d # None
      /\ lock[d] = None
      /\ row' = [row EXCEPT ![d] = touched]
      /\ hook' = [hook EXCEPT ![h] = None]
      /\ UNCHANGED <<lock, cache, claim, fetch, history>>

(* The closing UPDATE sets status 'active' whatever the status is by then;  *)
(* the table's checks reject it on an unclaimed row and the error is        *)
(* ignored.                                                                 *)
HookTouch(h) ==
  LET d == hook[h]
      touched == [row[d] EXCEPT !.status = "active"]
  IN  /\ d # None
      /\ lock[d] = None
      /\ row' = IF RowCheck(touched) THEN [row EXCEPT ![d] = touched] ELSE row
      /\ hook' = [hook EXCEPT ![h] = None]
      /\ UNCHANGED <<lock, cache, claim, fetch, history>>

-----------------------------------------------------------------------------
(* The environment *)

(* The five minute TTL of the key runs out, or Redis restarts empty. *)
Expire(d) ==
  /\ cache[d] # None
  /\ cache' = [cache EXCEPT ![d] = None]
  /\ UNCHANGED <<row, lock, claim, fetch, hook, history>>

(* The API process stops: requests vanish, PostgreSQL rolls their           *)
(* transactions back, Redis and the committed rows stay.                    *)
Crash ==
  /\ claim' = [c \in Claimer |-> NoClaim]
  /\ fetch' = [g \in Getter |-> NoFetch]
  /\ hook' = [h \in Hook |-> None]
  /\ lock' = [d \in Device |-> None]
  /\ UNCHANGED <<row, cache, history>>

Next ==
  \/ \E u \in User, d \in Device, s \in Secret : Provision(u, d, s)
  \/ \E c \in Claimer, u \in User, d \in Device : ClaimLock(c, u, d)
  \/ \E c \in Claimer, s \in Secret : ClaimUpdate(c, s)
  \/ \E c \in Claimer : ClaimCommit(c)
  \/ \E c \in Claimer : ClaimRollback(c)
  \/ \E c \in Claimer : ClaimCache(c)
  \/ \E c \in Claimer : ClaimCacheUnanswered(c)
  \/ \E g \in Getter, d \in Device : SecretRead(g, d)
  \/ \E g \in Getter : SecretTake(g)
  \/ \E g \in Getter : SecretTakeUnanswered(g)
  \/ \E g \in Getter : SecretMark(g)
  \/ \E g \in Getter : SecretReply(g)
  \/ \E g \in Getter : SecretFail(g)
  \/ \E u \in User, d \in Device : Reset(u, d)
  \/ \E h \in Hook, d \in Device : HookRead(h, d)
  \/ \E h \in Hook : HookTouch(h)
  \/ \E d \in Device : Expire(d)
  \/ Crash

Spec == Init /\ [][Next]_vars

(* net/http runs every request it has accepted and every statement returns  *)
(* or fails: a request is never left between two steps.  PostgreSQL serves  *)
(* the waiters of a row lock in turn, hence strong fairness where a secret  *)
(* request waits for one.  Failures, repeats, expiry and crashes are not    *)
(* fair, and nothing is assumed of the SET and of the webhook.              *)
Fairness ==
  /\ \A c \in Claimer : WF_vars(\/ \E s \in Secret : ClaimUpdate(c, s)
                                \/ ClaimCommit(c)
                                \/ ClaimRollback(c))
  /\ \A g \in Getter :
       /\ WF_vars(SecretTake(g))
       /\ SF_vars(SecretMark(g))
       /\ WF_vars(SecretReply(g))

LiveSpec == Spec /\ Fairness

-----------------------------------------------------------------------------
(* Properties *)

(* The types, and the local state each point of a request has: a claim that *)
(* executed its UPDATE and a secret request past its GETDEL have a secret,  *)
(* the others have none (the err != nil || secret == "" test of GetSecret). *)
TypeOK ==
  /\ row \in [Device -> Row]
  /\ lock \in [Device -> Claimer \cup {None}]
  /\ cache \in [Device -> Secret \cup {None}]
  /\ claim \in [Claimer -> ClaimState]
  /\ fetch \in [Getter -> FetchState]
  /\ hook \in [Hook -> Device \cup {None}]
  /\ generated \subseteq Secret
  /\ issued \in [Secret -> Device \cup {None}]
  /\ handed \in [Secret -> Nat]
  /\ lost \in Nat
  /\ restored \subseteq Secret
  /\ provisioned \subseteq Device
  /\ wasReset \subseteq Device
  /\ \A c \in Claimer :
       /\ claim[c].pc = "idle" => claim[c] = NoClaim
       /\ claim[c].pc # "idle" => claim[c].dev # None /\ claim[c].user # None
       /\ claim[c].pc \in {"updated", "cache"} <=> claim[c].secret # None
  /\ \A g \in Getter :
       /\ fetch[g].pc = "idle" => fetch[g] = NoFetch
       /\ fetch[g].pc # "idle" => fetch[g].dev # None
       /\ fetch[g].pc \in {"mark", "reply"} <=> fetch[g].secret # None

(* How far "Device secret retrieval (HMAC, one-time)"                       *)
(* (docs/openapi.yaml:603) holds: whatever requests, resets, repeated       *)
(* GETDELs and crashes overlap, a secret is sent in two responses only if   *)
(* the SET of its claim was repeated and put it back after a GETDEL had     *)
(* taken it.                                                                *)
OneTimeDelivery == \A s \in Secret : handed[s] > 1 => s \in restored

Coherent(r) ==
  /\ r.status \in {"absent", "unclaimed"} <=> r.tenant = None
  /\ r.status \in {"absent", "unclaimed"} <=> r.owner = None
  /\ r.status \in {"absent", "unclaimed"} <=> r.hash = None

(* No handler but the webhook ever runs into the CHECK constraints of the   *)
(* devices table: tenant, owner and secret hash come and go together, with  *)
(* the status.                                                              *)
RowConsistent == \A d \in Device : Coherent(row[d])

(* A secret that is in Redis, in the hands of a request or in a response is *)
(* one that a committed claim or provisioning stored for that same device.  *)
SecretWasCommitted ==
  /\ \A d \in Device : cache[d] # None => issued[cache[d]] = d
  /\ \A g \in Getter : fetch[g].secret # None =>
                          issued[fetch[g].secret] = fetch[g].dev
  /\ \A s \in Secret : handed[s] > 0 => issued[s] # None

(* Without a reset there is no stale secret: what a device that was never   *)
(* reset can be given is the secret its row authenticates.                  *)
StaleOnlyAfterReset ==
  \A d \in Device \ wasReset :
    /\ cache[d] # None => cache[d] = row[d].hash
    /\ \A g \in Getter : fetch[g].dev = d /\ fetch[g].secret # None =>
                            fetch[g].secret = row[d].hash

(* A device never changes hands directly, and its secret is never replaced  *)
(* under its owner: tenant, owner and hash change only by becoming NULL or  *)
(* from NULL, also when claims and resets of one device overlap.            *)
Transfer ==
  \A d \in Device :
    row[d].owner # None /\ row'[d].owner # None =>
      /\ row'[d].owner = row[d].owner
      /\ row'[d].tenant = row[d].tenant
      /\ row'[d].hash = row[d].hash
OwnershipTransfer == [][Transfer]_vars

(* The abstract promise: custody of a device and one delivery per secret. *)
Custody ==
  INSTANCE DeviceCustody WITH
    holder <- [d \in Device |-> row[d].owner],
    key <- [d \in Device |-> row[d].hash],
    keyOf <- issued,
    given <- handed,
    slipped <- restored
CustodySpec == Custody!Spec

(* "Reset and claim again." (devices.go:400): a device of the factory can   *)
(* be claimed after every reset, however often; one that ProvisionDevice    *)
(* wrote cannot, so that once reset nobody ever owns it again.              *)
ClaimableAgain ==
  \A d \in Device :
    /\ row[d].status = "unclaimed" /\ d \notin provisioned => row[d].code
    /\ d \in provisioned \cap wasReset => row[d].owner = None /\ ~row[d].code

(* A row lock is always given back, whatever path ClaimDevice takes, and a  *)
(* secret request past its first test ends, also when it waits for claims   *)
(* of its device or comes second.                                           *)
RequestsEnd ==
  /\ \A d \in Device : lock[d] # None ~> lock[d] = None
  /\ \A g \in Getter : fetch[g].pc # "idle" ~> fetch[g].pc = "idle"

-----------------------------------------------------------------------------
(* The inductive invariant *)

(* A claim between its SELECT and its COMMIT holds the lock of its device   *)
(* and nobody else does; what it read of the row still holds.               *)
LockInv ==
  /\ \A c \in Claimer : claim[c].pc \in {"locked", "updated"} =>
       /\ lock[claim[c].dev] = c
       /\ row[claim[c].dev].status # "absent"
       /\ claim[c].pc = "updated" => claim[c].free
       /\ claim[c].free => row[claim[c].dev].status = "unclaimed"
  /\ \A d \in Device : lock[d] # None =>
       claim[lock[d]].pc \in {"locked", "updated"} /\ claim[lock[d]].dev = d

(* A secret that no SET restored is in at most one place: with its claim or *)
(* in Redis, then with one secret request, then in one response.            *)
PlaceInv ==
  /\ \A s \in Secret : handed[s] # 0 \/ issued[s] # None => s \in generated
  /\ \A c \in Claimer : claim[c].secret # None =>
       /\ claim[c].secret \in generated
       /\ \A b \in Claimer : claim[b].secret = claim[c].secret => b = c
       /\ claim[c].pc = "updated" => claim[c].secret \notin Taken
  /\ \A d \in Device : cache[d] # None =>
       /\ cache[d] \in generated
       /\ cache[d] \in Taken => cache[d] \in restored
  /\ \A g \in Getter : fetch[g].secret # None =>
       /\ fetch[g].secret \in generated
       /\ fetch[g].secret \notin restored =>
            /\ handed[fetch[g].secret] = 0
            /\ \A f \in Getter : fetch[f].secret = fetch[g].secret => f = g

(* A claim's secret is issued by its COMMIT, to its device. *)
IssueInv ==
  /\ SecretWasCommitted
  /\ \A c \in Claimer :
       /\ claim[c].pc = "updated" => issued[claim[c].secret] = None
       /\ claim[c].pc = "cache" => issued[claim[c].secret] = claim[c].dev

(* A row without a claim code is one that ProvisionDevice wrote, and it     *)
(* stays unowned once it was reset: no claim gets past its tests.           *)
CodeInv ==
  /\ ClaimableAgain
  /\ \A d \in Device :
       /\ row[d].status # "absent" => (row[d].code <=> d \notin provisioned)
       /\ row[d].status = "absent" => d \notin provisioned \cup wasReset
  /\ \A c \in Claimer :
       claim[c].pc \in {"locked", "updated"} /\ claim[c].free =>
         claim[c].dev \notin provisioned

(* StaleOnlyAfterReset, with the secret a claim is about to cache. *)
StaleInv ==
  /\ StaleOnlyAfterReset
  /\ \A c \in Claimer :
       claim[c].pc = "cache" /\ claim[c].dev \notin wasReset =>
         claim[c].secret = row[claim[c].dev].hash

IInv ==
  /\ TypeOK
  /\ RowConsistent
  /\ LockInv
  /\ PlaceInv
  /\ OneTimeDelivery
  /\ CodeInv
  /\ IssueInv
  /\ StaleInv

=============================================================================
