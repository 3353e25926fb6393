------------------------------- MODULE Retention -------------------------------
(***************************************************************************)
(* What removes telemetry, and what is archived before it: the functions   *)
(* of timescale/migrations/003_tenant_retention_policy.sql, the script     *)
(* timescale/maintenance/archive_telemetry_by_tenant.sh, and the retention *)
(* of timescale/init/001_timescale_init.sql, against inserts.              *)
(*                                                                         *)
(* The hypertable is cut by timestamp into chunks, tables of their own.    *)
(* ctid is the place of a row in its chunk: rows of different chunks have  *)
(* the same one.                                                           *)
(***************************************************************************)
EXTENDS Integers, FiniteSets

CONSTANTS
  Row,       \* rows of telemetry, each inserted at most once
  Tenant,    \* tenants
  Place,     \* values of ctid
  Script,    \* runs of the archive script, each at most once
  Days,      \* days given to the script or as default
  Policies,  \* values of retention_days
  Span,      \* what a chunk spans, in ticks
  Longest,   \* the retention of the whole table
  MaxTime,   \* bound on time
  MaxBegun,  \* bound on the runs begun, prune-all among them while it runs
  None

Time == 0 .. MaxTime
RowState == [tenant: Tenant, ts: Time, place: Place]

ASSUME TimeAssumption ==
  /\ Days \subseteq Nat \ {0} /\ Policies \subseteq Nat \ {0}
  /\ Span \in Nat \ {0} /\ Longest \in Nat /\ MaxTime \in Nat
ASSUME NoneAssumption ==
  /\ None \notin Tenant \cup Days \cup Policies
  /\ None \notin RowState /\ \A rows \in SUBSET Row : rows # None

VARIABLES
  now,      \* the clock; a tick is also what a file name can tell apart
  row,      \* row[i]: a row of telemetry, None: not there
  used,     \* ids already inserted
  policy,   \* tenant_telemetry_retention_policy: days if enabled, or None
  script,   \* script[s]: local state of a run
  files,    \* files[t][n]: the rows in the archive of t with stamp n, or None
  prune,    \* the transaction of prune_telemetry_all_tenants, or None
  outdated  \* tenants whose policy changed after it read that (history)

sweep == <<prune, outdated>>
vars == <<now, row, used, policy, script, files, sweep>>

(* The last four fields are history: when the run began, what it exported   *)
(* before which cutoff, which ids were in use then, what of it was removed. *)
ScriptState ==
  [pc: {"new", "export", "count", "prune", "end"}, tenant: Tenant \cup {None},
   days: Days \cup {None}, stamp: Time, began: Time, cutoff: Int,
   out: SUBSET Row, seen: SUBSET Row, gone: SUBSET Row]

NoScript == [pc |-> "new", tenant |-> None, days |-> None, stamp |-> 0,
             began |-> 0, cutoff |-> 0, out |-> {}, seen |-> {}, gone |-> {}]

(* at: NOW(), which is when the transaction began; todo: the tenants of the  *)
(* loop still to come; tenant: whose rows the next DELETE is about, None     *)
(* before its policy is read; days: v_retention while it is used; gone: what *)
(* was deleted.                                                              *)
PruneState ==
  [default: Days, at: Time, todo: SUBSET Tenant, tenant: Tenant \cup {None},
   days: Days \cup Policies \cup {None}, gone: SUBSET Row]

ASSUME NoneIsNoPrune == None \notin PruneState

Init ==
  /\ now = 0
  /\ row = [i \in Row |-> None]
  /\ used = {}
  /\ policy \in [Tenant -> Policies \cup {None}]
  /\ script = [s \in Script |-> NoScript]
  /\ files = [t \in Tenant |-> [n \in Time |-> None]]
  /\ prune = None /\ outdated = {}

There == {i \in Row : row[i] # None}
Chunk(i) == row[i].ts \div Span

(* timestamp < NOW() - make_interval(days => d), for one tenant *)
OldAt(n, t, d) == {i \in There : row[i].tenant = t /\ row[i].ts < n - d}
Old(t, d) == OldAt(now, t, d)

(* DELETE ... USING doomed d WHERE t.ctid = d.ctid: nothing ties the rows   *)
(* to the chunk of the doomed one, nor to its tenant.                       *)
SamePlace(doomed) == {i \in There : \E j \in doomed : row[i].place = row[j].place}

Remove(gone) == row' = [i \in Row |-> IF i \in gone THEN None ELSE row[i]]

Tick ==
  /\ now < MaxTime
  /\ now' = now + 1
  /\ UNCHANGED <<row, used, policy, script, files, sweep>>

(* The webhook inserts a sample with the time EMQX received it, now or      *)
(* earlier, in the chunk of that time.                                      *)
Insert(i, t, ts, p) ==
  /\ i \notin used
  /\ ts <= now
  /\ \A j \in There : row[j].place = p => Chunk(j) # ts \div Span
  /\ row' = [row EXCEPT ![i] = [tenant |-> t, ts |-> ts, place |-> p]]
  /\ used' = used \cup {i}
  /\ UNCHANGED <<now, policy, script, files, sweep>>

(* A bound on what is begun. *)
Room ==
  Cardinality({s \in Script : script[s].pc # "new"})
    + (IF prune = None THEN 0 ELSE 1) < MaxBegun

(* Mutant of Start: the file name has a resolution of two ticks. *)
StartCoarse(s, t, d) ==
  /\ script[s].pc = "new" /\ Room
  /\ script' = [script EXCEPT ![s] =
       [NoScript EXCEPT !.pc = "export", !.tenant = t, !.days = d,
                        !.stamp = 2 * (now \div 2), !.began = now]]
  /\ UNCHANGED <<now, row, used, policy, files, sweep>>

(* archive_telemetry_by_tenant.sh <t> <d>: the name of the file is fixed.   *)
Start(s, t, d) ==
  /\ script[s].pc = "new" /\ Room
  /\ script' = [script EXCEPT ![s] =
       [NoScript EXCEPT !.pc = "export", !.tenant = t, !.days = d,
                        !.stamp = now, !.began = now]]
  /\ UNCHANGED <<now, row, used, policy, files, sweep>>

(* What remains of a run that has ended: when it began, for whom. *)
Ended(s) == [NoScript EXCEPT !.pc = "end", !.tenant = script[s].tenant,
                             !.began = script[s].began]

(* The run goes on; what it exported is history. *)
Exported(s, out) ==
  script' = [script EXCEPT ![s] =
    [@ EXCEPT !.pc = "count", !.cutoff = now - script[s].days, !.out = out,
              !.seen = used]]

(* Mutant of Export: not more rows than a limit allows. *)
ExportSome(s) ==
  LET t == script[s].tenant
  IN  /\ script[s].pc = "export"
      /\ \E out \in SUBSET Old(t, script[s].days) :
           /\ files' = [files EXCEPT ![t][script[s].stamp] = out]
           /\ Exported(s, out)
      /\ UNCHANGED <<now, row, used, policy, sweep>>

(* Mutant of Export: no condition on the tenant. *)
ExportAll(s) ==
  LET out == UNION {Old(t, script[s].days) : t \in Tenant}
  IN  /\ script[s].pc = "export"
      /\ files' = [files EXCEPT ![script[s].tenant][script[s].stamp] = out]
      /\ Exported(s, out)
      /\ UNCHANGED <<now, row, used, policy, sweep>>

(* \copy ... > "$ARCHIVE_FILE", which replaces a file of that name. *)
Export(s) ==
  LET t == script[s].tenant
      out == Old(t, script[s].days)
  IN  /\ script[s].pc = "export"
      /\ files' = [files EXCEPT ![t][script[s].stamp] = out]
      /\ Exported(s, out)
      /\ UNCHANGED <<now, row, used, policy, sweep>>

(* The export breaks off, and the script ends; the file stays, incomplete. *)
ExportFails(s) ==
  LET t == script[s].tenant
  IN  /\ script[s].pc = "export"
      /\ \E part \in SUBSET Old(t, script[s].days) :
           files' = [files EXCEPT ![t][script[s].stamp] = part]
      /\ script' = [script EXCEPT ![s] = Ended(s)]
      /\ UNCHANGED <<now, row, used, policy, sweep>>

(* Nothing but the header, and the file is removed; wc fails without it.    *)
CountNone(s) ==
  LET t == script[s].tenant
      n == script[s].stamp
  IN  /\ script[s].pc = "count"
      /\ files[t][n] \in {None, {}}
      /\ files' = [files EXCEPT ![t][n] = None]
      /\ script' = [script EXCEPT ![s] = Ended(s)]
      /\ UNCHANGED <<now, row, used, policy, sweep>>

Count(s) ==
  /\ script[s].pc = "count"
  /\ files[script[s].tenant][script[s].stamp] \notin {None, {}}
  /\ script' = [script EXCEPT ![s].pc = "prune"]
  /\ UNCHANGED <<now, row, used, policy, files, sweep>>

(* A DELETE waits for a transaction that has deleted one of its rows. *)
Free(gone) == prune # None => gone \cap prune.gone = {}

(* prune_telemetry_for_tenant: some of the old rows, as many as the batch   *)
(* allows but for those that were deleted while it waited, and with them    *)
(* what has the same places.                                                *)
PruneTenant(s) ==
  /\ script[s].pc = "prune"
  /\ \E doomed \in SUBSET Old(script[s].tenant, script[s].days) :
       /\ Free(SamePlace(doomed))
       /\ Remove(SamePlace(doomed))
       /\ script' = [script EXCEPT ![s] =
            [Ended(s) EXCEPT !.gone = SamePlace(doomed) \cap script[s].out]]
  /\ UNCHANGED <<now, used, policy, files, sweep>>

(* A statement fails, or the script is stopped: set -e. *)
Stop(s) ==
  /\ script[s].pc \notin {"new", "end"}
  /\ script' = [script EXCEPT ![s] = Ended(s)]
  /\ UNCHANGED <<now, row, used, policy, files, sweep>>

(* SELECT * FROM prune_telemetry_all_tenants(default): one transaction; its *)
(* loop is over the tenants that have rows now.                             *)
PruneBegin(default) ==
  /\ prune = None /\ Room
  /\ prune' = [default |-> default, at |-> now,
               todo |-> {row[i].tenant : i \in There},
               tenant |-> None, days |-> None, gone |-> {}]
  /\ outdated' = {}
  /\ UNCHANGED <<now, row, used, policy, script, files>>

Applied(t, default) == IF policy[t] = None THEN default ELSE policy[t]

(* Mutant of PrunePolicy: the default is the longest anybody may keep. *)
PrunePolicyLeast(t) ==
  /\ prune # None /\ prune.tenant = None /\ t \in prune.todo
  /\ \E d \in {prune.default, Applied(t, prune.default)} :
       /\ d <= prune.default /\ d <= Applied(t, prune.default)
       /\ prune' = [prune EXCEPT !.tenant = t, !.todo = @ \ {t}, !.days = d]
  /\ UNCHANGED <<now, row, used, policy, script, files, outdated>>

(* The next tenant: its policy as it is now, or the default, whatever       *)
(* archive_before_delete says.                                              *)
PrunePolicy(t) ==
  /\ prune # None /\ prune.tenant = None /\ t \in prune.todo
  /\ prune' = [prune EXCEPT !.tenant = t, !.todo = @ \ {t},
                            !.days = Applied(t, prune.default)]
  /\ UNCHANGED <<now, row, used, policy, script, files, outdated>>

(* prune_telemetry_for_tenant with these days, a statement of its own: it   *)
(* sees what was inserted and removed since, but for policies.              *)
PruneRows ==
  /\ prune # None /\ prune.tenant # None
  /\ \E doomed \in SUBSET OldAt(prune.at, prune.tenant, prune.days) :
       prune' = [prune EXCEPT !.tenant = None, !.days = None,
                              !.gone = @ \cup SamePlace(doomed)]
  /\ UNCHANGED <<now, row, used, policy, script, files, outdated>>

(* The function returns, and what it deleted is gone for everybody. *)
PruneCommit ==
  /\ prune # None /\ prune.tenant = None /\ prune.todo = {}
  /\ Remove(prune.gone)
  /\ prune' = None /\ outdated' = {}
  /\ UNCHANGED <<now, used, policy, script, files>>

(* A statement fails, or the session ends: nothing was deleted. *)
PruneRollback ==
  /\ prune # None
  /\ prune' = None /\ outdated' = {}
  /\ UNCHANGED <<now, row, used, policy, script, files>>

(* add_retention_policy: whole chunks are dropped. *)
DropChunk(c) ==
  LET gone == {i \in There : Chunk(i) = c}
  IN  /\ gone # {}
      /\ (c + 1) * Span <= now - Longest
      /\ Free(gone)
      /\ Remove(gone)
      /\ UNCHANGED <<now, used, policy, script, files, sweep>>

(* INSERT ... ON CONFLICT DO UPDATE by an operator. *)
SetPolicy(t, d) ==
  /\ policy' = [policy EXCEPT ![t] = d]
  /\ outdated' = IF prune # None /\ t \notin prune.todo /\ d # policy[t]
                 THEN outdated \cup {t}
                 ELSE outdated
  /\ UNCHANGED <<now, row, used, script, files, prune>>

Next ==
  \/ Tick
  \/ \E i \in Row, t \in Tenant, ts \in Time, p \in Place : Insert(i, t, ts, p)
  \/ \E s \in Script, t \in Tenant, d \in Days : Start(s, t, d)
  \/ \E s \in Script : Export(s)
  \/ \E s \in Script : ExportFails(s)
  \/ \E s \in Script : CountNone(s)
  \/ \E s \in Script : Count(s)
  \/ \E s \in Script : PruneTenant(s)
  \/ \E s \in Script : Stop(s)
  \/ \E d \in Days : PruneBegin(d)
  \/ \E t \in Tenant : PrunePolicy(t)
  \/ PruneRows
  \/ PruneCommit
  \/ PruneRollback
  \/ \E c \in Time : DropChunk(c)
  \/ \E t \in Tenant, d \in Policies \cup {None} : SetPolicy(t, d)

Spec == Init /\ [][Next]_vars

-----------------------------------------------------------------------------
(* Properties *)

(* The types, one row per place of a chunk, and exports of the rows of one  *)
(* tenant only.                                                             *)
TypeOK ==
  /\ now \in Time
  /\ row \in [Row -> RowState \cup {None}]
  /\ used \subseteq Row /\ There \subseteq used
  /\ policy \in [Tenant -> Policies \cup {None}]
  /\ script \in [Script -> ScriptState]
  /\ files \in [Tenant -> [Time -> (SUBSET Row) \cup {None}]]
  /\ prune \in PruneState \cup {None} /\ outdated \subseteq Tenant
  /\ \A i, j \in There :
       i # j /\ row[i].place = row[j].place => Chunk(i) # Chunk(j)
  /\ \A s \in Script :
       /\ script[s].pc = "new" <=> script[s].tenant = None
       /\ \A i \in script[s].out \cap There : row[i].tenant = script[s].tenant

Gone == {i \in There : row'[i] = None}
Dragged(i) == \E j \in Gone : row[j].place = row[i].place /\ Chunk(j) # Chunk(i)
Pruning(s) == script[s].pc = "prune" /\ script'[s].pc = "end"

(* "1. Exporta CSV de dados antigos" "2. Executa prune"                     *)
(* (docs/DATA_RESILIENCE.md:82-83): how a run can remove what it has not    *)
(* exported.  The sample came in late, after the export, or became old      *)
(* after it, or had the place of a sample that was removed; nothing else is *)
(* lost.                                                                    *)
ScriptLosses ==
  [][\A s \in Script : Pruning(s) =>
       \A i \in Gone \ script[s].out :
         \/ row[i].tenant = script[s].tenant
            /\ (i \notin script[s].seen \/ row[i].ts >= script[s].cutoff)
         \/ Dragged(i)]_vars

(* What was removed after it was exported can be restored: its archive is   *)
(* there as long as no two runs for the tenant begin in the same second.    *)
ArchiveKept ==
  \A s \in Script :
    LET t == script[s].tenant
    IN  \/ \A i \in script[s].gone :
             \E n \in Time : files[t][n] # None /\ i \in files[t][n]
        \/ \E r \in Script \ {s} :
             script[r].tenant = t /\ script[r].began = script[s].began

(* A tenant with a policy keeps its samples that long, also when all        *)
(* tenants are pruned with a shorter default and while policies change.     *)
(* What is lost all the same: what a run of the archive script prunes, for  *)
(* its days come from the caller; what is pruned by the policy a tenant had *)
(* when the loop came to it, if it has changed since; dropped chunks; and   *)
(* what has the place of another sample that goes.                          *)
PolicyKept ==
  [][\A i \in Gone :
       LET t == row[i].tenant
       IN  \/ policy[t] = None
           \/ \E s \in Script : Pruning(s)
           \/ row[i].ts < now - policy[t]
           \/ t \in outdated
           \/ (Chunk(i) + 1) * Span <= now - Longest
           \/ Dragged(i)]_vars

(* "Prunes old telemetry for one tenant"                                    *)
(* (timescale/migrations/003_tenant_retention_policy.sql:14)                *)
PrunesOneTenant ==
  [][\A s \in Script : Pruning(s) =>
       \A i \in Gone : row[i].tenant = script[s].tenant]_vars

=============================================================================
