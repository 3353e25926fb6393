--------------------------- MODULE TelemetryIngest ---------------------------
(***************************************************************************)
(* The telemetry webhook and the reading of the latest value               *)
(* (go-api/handlers/telemetry.go).  A sample is committed to TimescaleDB,  *)
(* then copied to Redis, then the device row is touched, while devices are *)
(* reset and claimed by other tenants (DeviceLifecycle) and tenants read   *)
(* the cached value.  One slot per device: slots have keys of their own.   *)
(***************************************************************************)
EXTENDS Naturals

CONSTANTS
  Device,      \* device_id values
  Tenant,      \* tenant_id values
  Sample,      \* payloads
  Hook,        \* goroutines serving the webhook
  Reader,      \* goroutines serving GET telemetry/latest
  CacheTtlSet, \* CACHE_TTL_SECONDS > 0 (the default is 0: keys stay)
  None

ASSUME CacheTtlAssumption == CacheTtlSet \in BOOLEAN
ASSUME NoneAssumption == None \notin Device \cup Tenant \cup Sample

VARIABLES
  tenant,   \* tenant[d]: devices.tenant_id, None while unclaimed
  stored,   \* rows committed to the telemetry table
  latest,   \* latest[d]: the value under latest:device:<d>:slot:<n>
  hook,     \* hook[h]: local state of a webhook
  read,     \* read[r]: local state of a GetLatest
  acked,    \* samples answered with 200 (history)
  shown,    \* what GetLatest has answered, and to whom (history)
  moved,    \* devices that were ever reset (history)
  newest,   \* newest[d]: the row of d committed last (history)
  behind    \* devices whose cached value may not be that row (history)

order == <<newest, behind>>
vars == <<tenant, stored, latest, hook, read, acked, shown, moved, order>>

(* A sample as it is stored: tenant is the one of the row, not in the key   *)
(* nor in the value of the cache.                                           *)
Entry == [dev: Device, tenant: Tenant, sample: Sample]

HookState == [pc: {"insert", "cache", "touch"}, entry: Entry]
ReadState == [dev: Device, tenant: Tenant]
Answer == [to: Tenant, entry: Entry]

ASSUME NoneIsNoState == None \notin HookState

Init ==
  /\ tenant \in [Device -> Tenant \cup {None}]
  /\ stored = {}
  /\ latest = [d \in Device |-> None]
  /\ hook = [h \in Hook |-> None]
  /\ read = [r \in Reader |-> None]
  /\ acked = {}
  /\ shown = {}
  /\ moved = {}
  /\ newest = latest
  /\ behind = {}

(* Between its COMMIT and its SET, and alone of its device there. *)
AtCache(h, d) == hook[h] # None /\ hook[h].pc = "cache" /\ hook[h].entry.dev = d
Alone(h) == \A g \in Hook \ {h} : ~AtCache(g, hook[h].entry.dev)

(* History: the row of h is the newest, and the cache is behind it for good *)
(* when h will not write the cache, or another one may do so after h.       *)
Committed(h, lost) ==
  /\ newest' = [newest EXCEPT ![hook[h].entry.dev] = hook[h].entry]
  /\ behind' = IF lost \/ ~Alone(h) THEN behind \cup {hook[h].entry.dev}
               ELSE behind

-----------------------------------------------------------------------------
(* POST telemetry *)

(* Mutant of Accept: the tenant of the topic is not compared with the row. *)
AcceptTopicTenant(h, d, t, s) ==
  /\ hook[h] = None
  /\ tenant[d] # None
  /\ hook' = [hook EXCEPT ![h] =
       [pc |-> "insert", entry |-> [dev |-> d, tenant |-> t, sample |-> s]]]
  /\ UNCHANGED <<tenant, stored, latest, read, acked, shown, moved, order>>

(* The device is found, claimed, and its tenant t is the one of the topic.  *)
Accept(h, d, t, s) ==
  /\ hook[h] = None
  /\ tenant[d] = t
  /\ hook' = [hook EXCEPT ![h] =
       [pc |-> "insert", entry |-> [dev |-> d, tenant |-> t, sample |-> s]]]
  /\ UNCHANGED <<tenant, stored, latest, read, acked, shown, moved, order>>

(* Mutant of Store: a failed COMMIT does not end the request. *)
StoreFailureIgnored(h) ==
  /\ hook[h] # None /\ hook[h].pc = "insert"
  /\ \/ stored' = stored \cup {hook[h].entry}
     \/ stored' = stored
  /\ hook' = [hook EXCEPT ![h].pc = "cache"]
  /\ UNCHANGED <<tenant, latest, read, acked, shown, moved>>
  /\ Committed(h, FALSE)

(* The quotas allow it; the INSERT and its COMMIT succeed. *)
Store(h) ==
  /\ hook[h] # None /\ hook[h].pc = "insert"
  /\ stored' = stored \cup {hook[h].entry}
  /\ hook' = [hook EXCEPT ![h].pc = "cache"]
  /\ UNCHANGED <<tenant, latest, read, acked, shown, moved>>
  /\ Committed(h, FALSE)

(* The COMMIT takes effect, but its answer is lost: 500. *)
StoreUnconfirmed(h) ==
  /\ hook[h] # None /\ hook[h].pc = "insert"
  /\ stored' = stored \cup {hook[h].entry}
  /\ hook' = [hook EXCEPT ![h] = None]
  /\ UNCHANGED <<tenant, latest, read, acked, shown, moved>>
  /\ Committed(h, TRUE)

(* Mutant of CacheLatest: SET with NX. *)
CacheLatestOnce(h) ==
  LET e == hook[h].entry IN
  /\ hook[h] # None /\ hook[h].pc = "cache"
  /\ latest' = [latest EXCEPT ![e.dev] = IF @ = None THEN e ELSE @]
  /\ hook' = [hook EXCEPT ![h].pc = "touch"]
  /\ UNCHANGED <<tenant, stored, read, acked, shown, moved, order>>

(* cacheLatest: SET, whatever the key held; without Redis, or when the SET  *)
(* fails, the request goes on.                                              *)
CacheLatest(h) ==
  LET e == hook[h].entry IN
  /\ hook[h] # None /\ hook[h].pc = "cache"
  /\ \/ /\ latest' = [latest EXCEPT ![e.dev] = e]
        /\ behind' = IF Alone(h) /\ newest[e.dev] = e
                     THEN behind \ {e.dev} ELSE behind
     \/ latest' = latest /\ behind' = behind \cup {e.dev}
  /\ hook' = [hook EXCEPT ![h].pc = "touch"]
  /\ UNCHANGED <<tenant, stored, read, acked, shown, moved, newest>>

(* The SET is executed and its answer lost: the client sends it again. *)
CacheLatestUnanswered(h) ==
  /\ hook[h] # None /\ hook[h].pc = "cache"
  /\ latest' = [latest EXCEPT ![hook[h].entry.dev] = hook[h].entry]
  /\ UNCHANGED <<tenant, stored, hook, read, acked, shown, moved, order>>

(* last_seen_at and status (DeviceLifecycle!HookTouch), then the 200. *)
Touch(h) ==
  /\ hook[h] # None /\ hook[h].pc = "touch"
  /\ acked' = acked \cup {hook[h].entry}
  /\ hook' = [hook EXCEPT ![h] = None]
  /\ UNCHANGED <<tenant, stored, latest, read, shown, moved, order>>

(* A quota, a malformed timestamp, a failed statement or a crash. *)
Abandon(h) ==
  /\ hook[h] # None
  /\ hook' = [hook EXCEPT ![h] = None]
  /\ behind' = IF hook[h].pc = "cache" THEN behind \cup {hook[h].entry.dev}
               ELSE behind
  /\ UNCHANGED <<tenant, stored, latest, read, acked, shown, moved, newest>>

-----------------------------------------------------------------------------
(* GET telemetry/latest *)

(* The SELECT finds the device among those of the caller's tenant. *)
FindDevice(r, d, t) ==
  /\ read[r] = None
  /\ tenant[d] = t
  /\ read' = [read EXCEPT ![r] = [dev |-> d, tenant |-> t]]
  /\ UNCHANGED <<tenant, stored, latest, hook, acked, shown, moved, order>>

(* GET by device and slot; {} when there is no such key. *)
GetCached(r) ==
  /\ read[r] # None
  /\ shown' = IF latest[read[r].dev] = None THEN shown
              ELSE shown \cup
                {[to |-> read[r].tenant, entry |-> latest[read[r].dev]]}
  /\ read' = [read EXCEPT ![r] = None]
  /\ UNCHANGED <<tenant, stored, latest, hook, acked, moved, order>>

-----------------------------------------------------------------------------
(* Devices changing hands, and the environment *)

(* The COMMIT of ClaimDevice, or ProvisionDevice. *)
Claim(d, t) ==
  /\ tenant[d] = None
  /\ tenant' = [tenant EXCEPT ![d] = t]
  /\ UNCHANGED <<stored, latest, hook, read, acked, shown, moved, order>>

(* ResetDevice clears the row; the keys of Redis stay. *)
ResetDevice(d) ==
  /\ tenant[d] # None
  /\ tenant' = [tenant EXCEPT ![d] = None]
  /\ moved' = moved \cup {d}
  /\ UNCHANGED <<stored, latest, hook, read, acked, shown, order>>

(* The TTL of the key, when one is configured. *)
ExpireLatest(d) ==
  /\ CacheTtlSet
  /\ latest[d] # None
  /\ latest' = [latest EXCEPT ![d] = None]
  /\ UNCHANGED <<tenant, stored, hook, read, acked, shown, moved, order>>

Next ==
  \/ \E h \in Hook, d \in Device, t \in Tenant, s \in Sample : Accept(h, d, t, s)
  \/ \E h \in Hook : Store(h)
  \/ \E h \in Hook : StoreUnconfirmed(h)
  \/ \E h \in Hook : CacheLatest(h)
  \/ \E h \in Hook : CacheLatestUnanswered(h)
  \/ \E h \in Hook : Touch(h)
  \/ \E h \in Hook : Abandon(h)
  \/ \E r \in Reader, d \in Device, t \in Tenant : FindDevice(r, d, t)
  \/ \E r \in Reader : GetCached(r)
  \/ \E d \in Device, t \in Tenant : Claim(d, t)
  \/ \E d \in Device : ResetDevice(d)
  \/ \E d \in Device : ExpireLatest(d)

Spec == Init /\ [][Next]_vars

-----------------------------------------------------------------------------
(* Properties *)

(* The types, and that a GetLatest never answers without a value. *)
TypeOK ==
  /\ tenant \in [Device -> Tenant \cup {None}]
  /\ stored \subseteq Entry
  /\ latest \in [Device -> Entry \cup {None}]
  /\ hook \in [Hook -> HookState \cup {None}]
  /\ read \in [Reader -> ReadState \cup {None}]
  /\ acked \subseteq Entry
  /\ shown \subseteq Answer
  /\ moved \subseteq Device
  /\ newest \in [Device -> Entry \cup {None}]
  /\ behind \subseteq Device

(* The table comes first: a sample that was answered with 200, is in Redis  *)
(* or was shown to a reader is a committed row.                             *)
NothingInvented ==
  /\ acked \subseteq stored
  /\ \A d \in Device : latest[d] # None => latest[d] \in stored
  /\ \A a \in shown : a.entry \in stored

(* A device that never changed hands keeps its tenants apart: what it       *)
(* stored, and what is shown of it, belongs to the one tenant it has.       *)
ApartUntilMoved ==
  /\ \A e \in stored : e.dev \notin moved => tenant[e.dev] = e.tenant
  /\ \A a \in shown : a.entry.dev \notin moved => a.to = a.entry.tenant

(* The cached value of a device is the row committed last, or none, while   *)
(* no webhook is about to write it.  It falls behind in three ways only: a  *)
(* SET that fails, a webhook that ends between its COMMIT and its SET, and  *)
(* two webhooks there at once; the next webhook that has the device for     *)
(* itself repairs it.                                                       *)
CacheIsNewest ==
  \A d \in Device \ behind :
    \/ latest[d] \in {newest[d], None}
    \/ \E h \in Hook : AtCache(h, d) /\ hook[h].entry = newest[d]

(* The inductive form: at most one webhook is about to write the cache. *)
CacheInv ==
  \A d \in Device \ behind :
    /\ \A h \in Hook : AtCache(h, d) => Alone(h) /\ hook[h].entry = newest[d]
    /\ latest[d] \in {newest[d], None} \/ \E h \in Hook : AtCache(h, d)

(* The requests in flight carry what the row held. *)
InFlight ==
  /\ \A d \in Device : latest[d] # None => latest[d].dev = d
  /\ \A h \in Hook : hook[h] # None =>
       /\ hook[h].pc # "insert" => hook[h].entry \in stored
       /\ LET e == hook[h].entry
          IN  e.dev \notin moved => tenant[e.dev] = e.tenant
  /\ \A r \in Reader : read[r] # None /\ read[r].dev \notin moved =>
       tenant[read[r].dev] = read[r].tenant

(* The inductive invariant. *)
IInv == TypeOK /\ NothingInvented /\ ApartUntilMoved /\ InFlight /\ CacheInv

=============================================================================
