---------------------------- MODULE WebhookAccess ----------------------------
(***************************************************************************)
(* How EMQX gets and keeps its access to the telemetry webhook.  The loop  *)
(* of docker/emqx-bootstrap.sh writes the webhook key into api_keys and    *)
(* into EMQX's connector and action, and creates the rule; the API checks  *)
(* the key of every call against Redis, then against api_keys              *)
(* (go-api/middleware/apikey.go).                                          *)
(*                                                                         *)
(* reconcile runs as the condition of an if, where the shell ignores       *)
(* set -e: a step that fails does not keep the next one from running, and  *)
(* the status of the round is that of its last command, a log line.        *)
(***************************************************************************)
EXTENDS Naturals

CONSTANTS
  Key,       \* values of EMQX_WEBHOOK_API_KEY, each used once
  Hook,      \* calls of EMQX in flight
  Client,    \* calls of others that have, or have kept, a key
  Hour,      \* time to live of a cached key, in ticks
  MaxWipes,  \* bound: how often EMQX loses its configuration
  NoKey

ASSUME KeyAssumption == NoKey \notin Key
ASSUME WipeAssumption == MaxWipes \in Nat
ASSUME HourAssumption == Hour \in Nat \ {0}

VARIABLES
  env,     \* the key the reconciler was started with
  step,    \* where the reconciler is
  token,   \* $token is one that EMQX's HTTP API accepts
  row,     \* the key whose hash the api_keys row 'emqx_webhook' holds
  conn,    \* the key in connector http:api_webhook, NoKey: no connector
  act,     \* the key in action http:send_to_api, NoKey: no action
  rule,    \* rule telemetry_ingest exists
  ttl,     \* ttl[k]: what is left to the entry apikey:valid:<k>, 0: no entry
  call,    \* call[c]: local state of a call
  issued,  \* keys the row ever held (history)
  used,    \* keys the reconciler ever had (history)
  wipes    \* how often EMQX lost its configuration (bound)

loop == <<env, step, token>>
emqx == <<conn, act, rule>>
api == <<ttl, call>>
past == <<issued, used, wipes>>
accessVars == <<env, step, token, row, conn, act, rule, ttl, call, issued,
                used, wipes>>

LoopStep == {"wait", "key", "login", "connector", "action", "rule"}

CallState == [pc: {"idle", "cache", "lookup", "store"}, key: Key \cup {NoKey}]
NoCall == [pc |-> "idle", key |-> NoKey]

AccessInit ==
  /\ env \in Key
  /\ step = "wait"
  /\ token = FALSE
  /\ row = NoKey
  /\ conn = NoKey /\ act = NoKey /\ rule = FALSE
  /\ ttl = [k \in Key |-> 0]
  /\ call = [c \in Hook \cup Client |-> NoCall]
  /\ issued = {} /\ used = {env}
  /\ wipes = 0

-----------------------------------------------------------------------------
(* docker/emqx-bootstrap.sh *)

Proceed(from, to) == step = from /\ step' = to

(* The sleep between two rounds ends, and then wait_for_postgres,            *)
(* wait_for_emqx and wait_for_go_api.                                       *)
Awake ==
  /\ Proceed("wait", "key")
  /\ UNCHANGED <<env, token, row, emqx, api, past>>

(* Mutant of UpsertKey: a row that exists is left as it is. *)
InsertKey ==
  /\ Proceed("key", "login")
  /\ row' = IF row = NoKey THEN env ELSE row
  /\ issued' = issued \cup {row'}
  /\ UNCHANGED <<env, token, emqx, api, used, wipes>>

(* upsert_api_key: one statement updates or inserts the row. *)
UpsertKey ==
  /\ Proceed("key", "login")
  /\ row' = env
  /\ issued' = issued \cup {env}
  /\ UNCHANGED <<env, token, emqx, api, used, wipes>>

(* Mutant of UpsertKeyFails: a DELETE and an INSERT, and only the first. *)
ReplaceKeyFails ==
  /\ Proceed("key", "login")
  /\ row' = NoKey
  /\ UNCHANGED <<env, token, emqx, api, past>>

(* No tenant yet, or psql failed, perhaps after the statement's COMMIT. *)
UpsertKeyFails ==
  /\ Proceed("key", "login")
  /\ \/ row' = row /\ issued' = issued
     \/ row' = env /\ issued' = issued \cup {env}
  /\ UNCHANGED <<env, token, emqx, api, used, wipes>>

(* get_token *)
Login ==
  /\ Proceed("login", "connector")
  /\ token' = TRUE
  /\ UNCHANGED <<env, row, emqx, api, past>>

(* $token is assigned all the same: what it has then opens nothing. *)
LoginFails ==
  /\ Proceed("login", "connector")
  /\ token' = FALSE
  /\ UNCHANGED <<env, row, emqx, api, past>>

(* upsert_connector: POST, and PUT if the connector already exists. *)
UpsertConnector ==
  /\ Proceed("connector", "action")
  /\ token
  /\ conn' = env
  /\ UNCHANGED <<env, token, row, act, rule, api, past>>

(* A refused, failed or unanswered request, which EMQX may have executed. *)
UpsertConnectorFails ==
  /\ Proceed("connector", "action")
  /\ conn' \in {conn} \cup (IF token THEN {env} ELSE {})
  /\ UNCHANGED <<env, token, row, act, rule, api, past>>

(* Mutant of UpsertAction: an action that exists is left as it is. *)
CreateAction ==
  /\ Proceed("action", "rule")
  /\ token
  /\ conn # NoKey
  /\ act' = IF act = NoKey THEN env ELSE act
  /\ UNCHANGED <<env, token, row, conn, rule, api, past>>

(* upsert_action: likewise; EMQX refuses an action without its connector. *)
UpsertAction ==
  /\ Proceed("action", "rule")
  /\ token
  /\ conn # NoKey
  /\ act' = env
  /\ UNCHANGED <<env, token, row, conn, rule, api, past>>

UpsertActionFails ==
  /\ Proceed("action", "rule")
  /\ act' \in {act} \cup (IF token /\ conn # NoKey THEN {env} ELSE {})
  /\ UNCHANGED <<env, token, row, conn, rule, api, past>>

(* upsert_rule: PUT; after it, "reconcile ok" is logged in any case. *)
UpsertRule ==
  /\ Proceed("rule", "wait")
  /\ token
  /\ rule' = TRUE
  /\ UNCHANGED <<env, token, row, conn, act, api, past>>

UpsertRuleFails ==
  /\ Proceed("rule", "wait")
  /\ rule' \in {rule} \cup (IF token THEN {TRUE} ELSE {})
  /\ UNCHANGED <<env, token, row, conn, act, api, past>>

(* The container is replaced: another key, and the loop starts anew. *)
Rotate(k) ==
  /\ k \notin used
  /\ env' = k
  /\ used' = used \cup {k}
  /\ step' = "wait"
  /\ token' = FALSE
  /\ UNCHANGED <<row, emqx, api, issued, wipes>>

(* EMQX starts on an empty volume. *)
Wipe ==
  /\ wipes < MaxWipes
  /\ wipes' = wipes + 1
  /\ conn' = NoKey /\ act' = NoKey /\ rule' = FALSE
  /\ UNCHANGED <<loop, row, api, issued, used>>

-----------------------------------------------------------------------------
(* go-api/middleware/apikey.go *)

Cached(k) == ttl[k] > 0

(* EMQX's rule calls the webhook, with the key of its action. *)
Call(h) ==
  /\ call[h] = NoCall
  /\ rule /\ act # NoKey
  /\ call' = [call EXCEPT ![h] = [pc |-> "cache", key |-> act]]
  /\ UNCHANGED <<loop, row, emqx, ttl, past>>

(* Somebody else calls, with a key that is or was in use. *)
CallWith(c, k) ==
  /\ call[c] = NoCall
  /\ k \in used
  /\ call' = [call EXCEPT ![c] = [pc |-> "cache", key |-> k]]
  /\ UNCHANGED <<loop, row, emqx, ttl, past>>

(* Mutant of Hit: every use gives the entry another hour. *)
HitRenews(c) ==
  /\ call[c].pc = "cache"
  /\ Cached(call[c].key)
  /\ ttl' = [ttl EXCEPT ![call[c].key] = Hour]
  /\ call' = [call EXCEPT ![c] = NoCall]
  /\ UNCHANGED <<loop, row, emqx, past>>

(* validateAPIKey, hot path: the key is in Redis, and the call goes on. *)
Hit(c) ==
  /\ call[c].pc = "cache"
  /\ Cached(call[c].key)
  /\ call' = [call EXCEPT ![c] = NoCall]
  /\ UNCHANGED <<loop, row, emqx, ttl, past>>

(* It is not, or Redis does not answer. *)
Miss(c) ==
  /\ call[c].pc = "cache"
  /\ call' = [call EXCEPT ![c].pc = "lookup"]
  /\ UNCHANGED <<loop, row, emqx, ttl, past>>

(* Mutant of Verify: any key with the prefix of the row's is accepted. *)
VerifyPrefix(c) ==
  /\ call[c].pc = "lookup"
  /\ row # NoKey
  /\ call' = [call EXCEPT ![c].pc = "store"]
  /\ UNCHANGED <<loop, row, emqx, ttl, past>>

(* Cold path: the active row with the prefix, and its bcrypt hash. *)
Verify(c) ==
  /\ call[c].pc = "lookup"
  /\ row = call[c].key
  /\ call' = [call EXCEPT ![c].pc = "store"]
  /\ UNCHANGED <<loop, row, emqx, ttl, past>>

(* 401: another key, no row, or a failing query. *)
Refuse(c) ==
  /\ call[c].pc = "lookup"
  /\ call' = [call EXCEPT ![c] = NoCall]
  /\ UNCHANGED <<loop, row, emqx, ttl, past>>

(* SET for an hour, its error ignored; the row may have changed since. *)
Store(c) ==
  /\ call[c].pc = "store"
  /\ \/ ttl' = [ttl EXCEPT ![call[c].key] = Hour]
     \/ ttl' = ttl
  /\ call' = [call EXCEPT ![c] = NoCall]
  /\ UNCHANGED <<loop, row, emqx, past>>

(* The SET is executed and its answer lost: the client sends it again. *)
StoreUnanswered(c) ==
  /\ call[c].pc = "store"
  /\ ttl' = [ttl EXCEPT ![call[c].key] = Hour]
  /\ UNCHANGED <<loop, row, emqx, call, past>>

(* Time passes; Redis removes what has expired. *)
Tick ==
  /\ \E k \in Key : Cached(k)
  /\ ttl' = [k \in Key |-> IF Cached(k) THEN ttl[k] - 1 ELSE 0]
  /\ UNCHANGED <<loop, row, emqx, call, past>>

(* The API process stops. *)
Crash ==
  /\ call' = [c \in Hook \cup Client |-> NoCall]
  /\ UNCHANGED <<loop, row, emqx, ttl, past>>

Reconcile ==
  \/ Awake
  \/ UpsertKey \/ UpsertKeyFails
  \/ Login \/ LoginFails
  \/ UpsertConnector \/ UpsertConnectorFails
  \/ UpsertAction \/ UpsertActionFails
  \/ UpsertRule \/ UpsertRuleFails

Check(c) == Hit(c) \/ Miss(c) \/ Verify(c) \/ Refuse(c) \/ Store(c)

AccessNext ==
  \/ Reconcile
  \/ \E k \in Key : Rotate(k)
  \/ Wipe
  \/ \E h \in Hook : Call(h)
  \/ \E c \in Client, k \in Key : CallWith(c, k)
  \/ \E c \in Hook \cup Client : Check(c) \/ StoreUnanswered(c)
  \/ Tick
  \/ Crash

AccessSpec == AccessInit /\ [][AccessNext]_accessVars

(* The loop goes on; a step that is tried again and again succeeds some     *)
(* time; accepted calls are processed; time passes.                         *)
Fairness ==
  /\ WF_accessVars(Reconcile)
  /\ SF_accessVars(UpsertKey)
  /\ SF_accessVars(Login)
  /\ SF_accessVars(UpsertConnector)
  /\ SF_accessVars(UpsertAction)
  /\ SF_accessVars(UpsertRule)
  /\ \A c \in Hook \cup Client : WF_accessVars(Check(c))
  /\ WF_accessVars(Tick)

LiveSpec == AccessSpec /\ Fairness

-----------------------------------------------------------------------------
(* Properties *)

(* The types; once the row is there no failing round leaves it without a    *)
(* key, which would refuse every call.                                      *)
AccessTypeOK ==
  /\ env \in Key /\ step \in LoopStep /\ token \in BOOLEAN
  /\ row \in Key \cup {NoKey}
  /\ conn \in Key \cup {NoKey} /\ act \in Key \cup {NoKey} /\ rule \in BOOLEAN
  /\ ttl \in [Key -> 0 .. Hour]
  /\ call \in [Hook \cup Client -> CallState]
  /\ issued \subseteq Key /\ used \subseteq Key /\ wipes \in Nat
  /\ \A c \in Hook \cup Client : call[c].pc = "idle" <=> call[c].key = NoKey
  /\ issued # {} => row # NoKey

(* A key that is accepted from Redis, or about to be put there, is one the  *)
(* row held at some time, also when EMQX calls with a key whose row was     *)
(* never written because that step of the round failed.                     *)
OnlyIssued ==
  /\ \A k \in Key : Cached(k) => k \in issued
  /\ \A c \in Hook \cup Client : call[c].pc = "store" => call[c].key \in issued

(* The abstract key: honoured is what Redis has, and what a call that       *)
(* verified it may still put there.                                         *)
Promised ==
  INSTANCE WebhookKeys WITH
    valid <- row,
    honoured <- {k \in Key : \/ Cached(k)
                             \/ \E c \in Hook \cup Client :
                                  call[c].pc = "store" /\ call[c].key = k}

(* The reconciler and the middleware keep the promise of WebhookKeys: no    *)
(* step of a round takes the key away, and only a key that is in the table  *)
(* at that moment comes to be accepted from Redis.                          *)
KeysSpec == Promised!Spec

Configured == row = env /\ conn = env /\ act = env /\ rule

(* The loop converges: whatever steps fail, and although a failure does not *)
(* stop a round, EMQX and api_keys end up with the reconciler's key.        *)
Converges == <>[]Configured

(* Replaced keys die although somebody goes on using them: a hit does not   *)
(* renew the entry, and a late SET of a call that verified the key before   *)
(* the row changed has its hour like any other.                             *)
OldKeysDie == <>[](\A k \in Key : Cached(k) => k = row)

(* Telemetry gets through in the end: after the last rotation no call of    *)
(* EMQX is refused for its key any more.                                    *)
EventuallyServed ==
  <>[](\A h \in Hook : call[h].pc = "lookup" => call[h].key = row)

(* What Converges rests on: nothing but another key or a loss of EMQX's     *)
(* configuration undoes it, whatever steps fail in the rounds that follow.  *)
StaysConfigured ==
  [][Configured => Configured' \/ env' # env \/ wipes' # wipes]_accessVars

(* What OldKeysDie rests on: the entry of a replaced key gains time only by *)
(* the late SET of a call that verified it before, and no further call gets *)
(* that far.                                                                *)
OldKeysFade ==
  [][\A k \in Key \ {row} :
       /\ ttl'[k] > ttl[k] =>
            \E c \in Hook \cup Client :
              /\ call[c].pc = "store" /\ call[c].key = k
              /\ call'[c] \in {NoCall, call[c]}
       /\ \A c \in Hook \cup Client :
            call'[c].pc = "store" /\ call'[c].key = k => call[c] = call'[c]]_accessVars

(* The inductive invariant: the row is among those it ever held. *)
AccessIInv == AccessTypeOK /\ OnlyIssued /\ (row # NoKey => row \in issued)

=============================================================================
