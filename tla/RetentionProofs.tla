---------------------------- MODULE RetentionProofs ----------------------------
(***************************************************************************)
(* What the removal of telemetry can and cannot lose, for any rows,        *)
(* tenants, places, runs of the archive script and policies.               *)
(***************************************************************************)
EXTENDS Retention, TLAPS

Working == {"export", "count", "prune"}

(* A run under way: its file is named after its beginning, it has removed   *)
(* nothing yet, and what it knows are rows that were inserted.              *)
RunInv ==
  \A s \in Script :
    /\ script[s].pc \in Working =>
         script[s].stamp = script[s].began /\ script[s].days \in Days
    /\ script[s].pc # "end" => script[s].gone = {}
    /\ script[s].pc = "new" => script[s].out = {}
    /\ script[s].out \subseteq used /\ script[s].seen \subseteq used

(* An export is complete for the rows that were there and old by then.      *)
ExportInv ==
  \A s \in Script : script[s].pc \in {"count", "prune"} =>
    \A i \in There :
      row[i].tenant = script[s].tenant /\ i \in script[s].seen
      /\ row[i].ts < script[s].cutoff => i \in script[s].out

(* Another run for the tenant of s began in the same second.                *)
Twin(s) ==
  \E r \in Script \ {s} :
    script[r].tenant = script[s].tenant /\ script[r].began = script[s].began

(* What a run exported, and what it then removed, is in the file named      *)
(* after its beginning, unless a twin has replaced that.                    *)
FileInv ==
  \A s \in Script : \A i \in script[s].out \cup script[s].gone :
    \/ /\ files[script[s].tenant][script[s].began] # None
       /\ i \in files[script[s].tenant][script[s].began]
    \/ Twin(s)

IInv == TypeOK /\ RunInv /\ ExportInv /\ FileInv

(* i goes with another of the rows that has its place in another chunk.     *)
DraggedIn(i, rows) ==
  \E j \in rows : row[j].place = row[i].place /\ Chunk(j) # Chunk(i)

(* A row of a tenant that the loop of prune-all is past, and that the policy*)
(* it read there does not keep.                                             *)
PassedOver(i) ==
  LET t == row[i].tenant
  IN  /\ t \notin prune.todo
      /\ t \in outdated \/ policy[t] = None \/ row[i].ts < prune.at - policy[t]

(* prune-all knows the policy of the tenant it is at unless that changed,   *)
(* and what it has deleted is there until it commits.                       *)
PruneInv ==
  prune # None =>
    /\ prune.at <= now /\ prune.gone \subseteq There
    /\ prune.tenant # None =>
         /\ prune.tenant \notin prune.todo
         /\ \/ prune.tenant \in outdated \/ policy[prune.tenant] = None
            \/ prune.days = policy[prune.tenant]
    /\ \A i \in prune.gone : DraggedIn(i, prune.gone) \/ PassedOver(i)

-----------------------------------------------------------------------------
(* Local states of a run. *)

LEMMA NoScriptFacts ==
  /\ NoScript \in ScriptState
  /\ NoScript.pc = "new" /\ NoScript.tenant = None
  /\ NoScript.out = {} /\ NoScript.seen = {} /\ NoScript.gone = {}
  BY TimeAssumption DEF NoScript, ScriptState, Time

LEMMA NewFacts ==
  ASSUME TypeOK, NEW t \in Tenant, NEW d \in Days
  PROVE  LET q == [NoScript EXCEPT !.pc = "export", !.tenant = t, !.days = d,
                                   !.stamp = now, !.began = now]
         IN  /\ q \in ScriptState
             /\ q.pc = "export" /\ q.tenant = t /\ q.days = d /\ q.began = now
             /\ q.stamp = now /\ q.out = {} /\ q.seen = {} /\ q.gone = {}
<1>1. now \in Time
  BY DEF TypeOK
<1>2. \A q \in ScriptState :
        LET p == [q EXCEPT !.pc = "export", !.tenant = t, !.days = d,
                           !.stamp = now, !.began = now]
        IN  /\ p \in ScriptState
            /\ p.pc = "export" /\ p.tenant = t /\ p.days = d /\ p.began = now
            /\ p.stamp = now /\ p.out = q.out /\ p.seen = q.seen /\ p.gone = q.gone
  BY <1>1 DEF ScriptState
<1> QED BY <1>2, NoScriptFacts

LEMMA EndedFacts ==
  ASSUME TypeOK, NEW s \in Script
  PROVE  /\ Ended(s) \in ScriptState
         /\ Ended(s).pc = "end" /\ Ended(s).tenant = script[s].tenant
         /\ Ended(s).began = script[s].began
         /\ Ended(s).out = {} /\ Ended(s).seen = {} /\ Ended(s).gone = {}
<1>1. script[s] \in ScriptState
  BY DEF TypeOK
<1>2. script[s].tenant \in Tenant \cup {None} /\ script[s].began \in Time /\ 0 \in Time
  BY <1>1, TimeAssumption DEF ScriptState, Time
<1>3. \A q \in ScriptState :
        LET p == [q EXCEPT !.pc = "end", !.tenant = script[s].tenant,
                           !.began = script[s].began]
        IN  /\ p \in ScriptState
            /\ p.pc = "end" /\ p.tenant = script[s].tenant /\ p.began = script[s].began
            /\ p.out = q.out /\ p.seen = q.seen /\ p.gone = q.gone
  BY <1>2 DEF ScriptState
<1> QED BY <1>3, NoScriptFacts DEF Ended

Pruned(s, gone) == [Ended(s) EXCEPT !.gone = gone]

LEMMA PrunedFacts ==
  ASSUME TypeOK, NEW s \in Script, NEW gone \in SUBSET Row
  PROVE  /\ Pruned(s, gone) \in ScriptState
         /\ Pruned(s, gone).pc = "end" /\ Pruned(s, gone).tenant = script[s].tenant
         /\ Pruned(s, gone).began = script[s].began
         /\ Pruned(s, gone).out = {} /\ Pruned(s, gone).seen = {}
         /\ Pruned(s, gone).gone = gone
<1>1. Ended(s) \in ScriptState
  BY EndedFacts
<1>2. \A e \in ScriptState : LET p == [e EXCEPT !.gone = gone] IN
        /\ p \in ScriptState /\ p.pc = e.pc /\ p.tenant = e.tenant
        /\ p.began = e.began /\ p.out = e.out /\ p.seen = e.seen /\ p.gone = gone
  BY DEF ScriptState
<1> QED BY <1>1, <1>2, EndedFacts DEF Pruned

LEMMA ExportedFacts ==
  ASSUME TypeOK, RunInv, NEW s \in Script, script[s].pc = "export",
         NEW out \in SUBSET Row, Exported(s, out)
  PROVE  /\ script'[s] \in ScriptState
         /\ script'[s].pc = "count" /\ script'[s].tenant = script[s].tenant
         /\ script'[s].days = script[s].days /\ script'[s].cutoff = now - script[s].days
         /\ script'[s].stamp = script[s].stamp /\ script'[s].began = script[s].began
         /\ script'[s].out = out /\ script'[s].seen = used
         /\ script'[s].gone = script[s].gone
         /\ \A r \in Script \ {s} : script'[r] = script[r]
         /\ script' \in [Script -> ScriptState]
<1>0. script[s].days \in Int /\ now \in Int
  <2>1. script[s].days \in Days
    BY DEF RunInv, Working
  <2>2. now \in 0..MaxTime
    BY DEF TypeOK, Time
  <2>3. MaxTime \in Nat /\ \A d \in Days : d \in Nat
    BY TimeAssumption
  <2> QED BY <2>1, <2>2, <2>3
<1>1. now - script[s].days \in Int /\ used \in SUBSET Row
  BY <1>0 DEF TypeOK
<1> DEFINE q == [script[s] EXCEPT !.pc = "count", !.cutoff = now - script[s].days,
                                  !.out = out, !.seen = used]
<1>2. script[s] \in ScriptState
  BY DEF TypeOK
<1>3. /\ q \in ScriptState
      /\ q.pc = "count" /\ q.tenant = script[s].tenant
      /\ q.days = script[s].days /\ q.cutoff = now - script[s].days
      /\ q.stamp = script[s].stamp /\ q.began = script[s].began
      /\ q.out = out /\ q.seen = used /\ q.gone = script[s].gone
  BY <1>1, <1>2 DEF ScriptState
<1>4. script' = [script EXCEPT ![s] = q]
  BY DEF Exported
<1> HIDE DEF q
<1> QED BY <1>3, <1>4 DEF TypeOK

(* The rows that are there after a removal are as they were.                *)
LEMMA RemoveFacts ==
  ASSUME TypeOK, NEW gone, Remove(gone)
  PROVE  /\ row' \in [Row -> RowState \cup {None}]
         /\ There' = There \ gone
         /\ Gone = There \cap gone
         /\ \A i \in There' : row'[i] = row[i] /\ Chunk(i)' = Chunk(i)
<1>1. \A i \in Row : row'[i] = IF i \in gone THEN None ELSE row[i]
  BY DEF Remove
<1>2. row' \in [Row -> RowState \cup {None}]
  BY DEF Remove, TypeOK
<1>3. There' = There \ gone /\ Gone = There \cap gone
  BY <1>1 DEF There, Gone
<1>4. \A i \in There' : row'[i] = row[i]
  BY <1>1, <1>3 DEF There
<1>5. \A i \in There' : Chunk(i)' = Chunk(i)
  BY <1>4 DEF Chunk
<1> QED BY <1>2, <1>3, <1>4, <1>5

(* A row that has the place of a doomed one is doomed, or is dragged along. *)
LEMMA DraggedAlong ==
  ASSUME TypeOK, NEW doomed \in SUBSET There, Remove(SamePlace(doomed)),
         NEW i \in Gone
  PROVE  i \in doomed \/ Dragged(i)
<1>1. Gone = SamePlace(doomed) /\ doomed \subseteq Gone
  BY RemoveFacts DEF SamePlace
<1>2. PICK j \in doomed : row[i].place = row[j].place
  BY <1>1 DEF SamePlace
<1>3. i \in There /\ j \in There
  BY <1>1 DEF SamePlace
<1>4. i # j => Chunk(i) # Chunk(j)
  BY <1>2, <1>3 DEF TypeOK
<1> QED BY <1>1, <1>2, <1>4 DEF Dragged

-----------------------------------------------------------------------------
(* The inductive invariant. *)

LEMMA InitIInv == Init => IInv
<1> SUFFICES ASSUME Init PROVE IInv
  OBVIOUS
<1>1. /\ There = {} /\ now = 0 /\ 0 \in Time
      /\ \A s \in Script : script[s] = NoScript
  BY TimeAssumption DEF Init, There, Time
<1>2. TypeOK
  <2>1. /\ row \in [Row -> RowState \cup {None}] /\ used = {}
        /\ policy \in [Tenant -> Policies \cup {None}]
        /\ prune = None /\ outdated = {}
    BY DEF Init
  <2>2. script \in [Script -> ScriptState]
    BY NoScriptFacts DEF Init
  <2>3. files \in [Tenant -> [Time -> (SUBSET Row) \cup {None}]]
    <3>1. [n \in Time |-> None] \in [Time -> (SUBSET Row) \cup {None}]
      OBVIOUS
    <3> QED BY <3>1 DEF Init
  <2>4. \A s \in Script : script[s].pc = "new" /\ script[s].tenant = None
                          /\ script[s].out = {}
    BY <1>1, NoScriptFacts
  <2> QED BY <1>1, <2>1, <2>2, <2>3, <2>4 DEF TypeOK
<1>3. RunInv /\ ExportInv /\ FileInv
  BY <1>1, NoScriptFacts DEF RunInv, Working, ExportInv, FileInv
<1> QED BY <1>2, <1>3 DEF IInv

(* One file is written.                                                     *)
LEMMA FileWritten ==
  ASSUME NEW X, NEW f \in [Tenant -> [Time -> X]], NEW t \in Tenant,
         NEW n \in Time, NEW x \in X, NEW g, g = [f EXCEPT ![t][n] = x]
  PROVE  /\ g \in [Tenant -> [Time -> X]] /\ g[t][n] = x
         /\ \A u \in Tenant : \A m \in Time : u # t \/ m # n => g[u][m] = f[u][m]
<1> DEFINE h == [f[t] EXCEPT ![n] = x]
<1>1. /\ h \in [Time -> X] /\ h[n] = x
      /\ \A m \in Time : m # n => h[m] = f[t][m]
  OBVIOUS
<1>2. g = [f EXCEPT ![t] = h]
  OBVIOUS
<1> HIDE DEF h
<1>3. /\ g \in [Tenant -> [Time -> X]] /\ g[t] = h
      /\ \A u \in Tenant : u # t => g[u] = f[u]
  BY <1>1, <1>2
<1> QED BY <1>1, <1>3

(* A step of one run.                                                       *)
LEMMA OneRun ==
  ASSUME TypeOK, NEW s \in Script, NEW q \in ScriptState,
         script' = [script EXCEPT ![s] = q]
  PROVE  /\ script' \in [Script -> ScriptState] /\ script'[s] = q
         /\ \A r \in Script \ {s} : script'[r] = script[r]
  BY DEF TypeOK

(* The clock and the policies are nothing a run depends on.                 *)
LEMMA QuietIInv ==
  ASSUME IInv, UNCHANGED <<row, used, script, files>>,
         now' \in Time, policy' \in [Tenant -> Policies \cup {None}],
         prune' \in PruneState \cup {None}, outdated' \in SUBSET Tenant
  PROVE  IInv'
<1>1. There' = There /\ \A i \in There : Chunk(i)' = Chunk(i)
  BY DEF There, Chunk
<1>2. TypeOK'
  BY <1>1 DEF IInv, TypeOK
<1>3. RunInv' /\ ExportInv'
  BY <1>1 DEF IInv, RunInv, ExportInv
<1>4. FileInv'
  BY DEF IInv, FileInv, Twin
<1> QED BY <1>2, <1>3, <1>4 DEF IInv

(* Rows are removed.                                                        *)
LEMMA RemoveIInv ==
  ASSUME IInv, NEW gone, Remove(gone), UNCHANGED <<now, used, policy, script, files>>,
         prune' \in PruneState \cup {None}, outdated' \in SUBSET Tenant
  PROVE  IInv'
<1>0. TypeOK
  BY DEF IInv
<1>1. /\ row' \in [Row -> RowState \cup {None}]
      /\ There' \subseteq There
      /\ \A i \in There' : row'[i] = row[i] /\ Chunk(i)' = Chunk(i)
  BY <1>0, RemoveFacts
<1>2. TypeOK'
  <2>1. \A i, j \in There' :
          i # j /\ row'[i].place = row'[j].place => Chunk(i)' # Chunk(j)'
    BY <1>0, <1>1 DEF TypeOK
  <2>2. \A s \in Script : \A i \in script'[s].out \cap There' :
          row'[i].tenant = script'[s].tenant
    BY <1>0, <1>1 DEF TypeOK
  <2>3. There' \subseteq used'
    BY <1>0, <1>1 DEF TypeOK
  <2> QED BY <1>0, <1>1, <2>1, <2>2, <2>3 DEF TypeOK
<1>3. RunInv'
  BY DEF IInv, RunInv
<1>4. ExportInv'
  BY <1>1 DEF IInv, ExportInv
<1>5. FileInv'
  BY DEF IInv, FileInv, Twin
<1> QED BY <1>2, <1>3, <1>4, <1>5 DEF IInv

(* A run ends, and has left its file as it was or replaced it.              *)
LEMMA EndIInv ==
  ASSUME IInv, NEW s \in Script, script[s].pc \in Working,
         script' = [script EXCEPT ![s] = Ended(s)],
         UNCHANGED <<now, row, used, policy, sweep>>,
         NEW x \in (SUBSET Row) \cup {None},
         files' = files
           \/ files' = [files EXCEPT ![script[s].tenant][script[s].stamp] = x]
  PROVE  IInv'
<1>0. TypeOK
  BY DEF IInv
<1> DEFINE t == script[s].tenant
           n == script[s].began
<1>1. t \in Tenant /\ n \in Time /\ script[s].stamp = n
  BY <1>0 DEF IInv, RunInv, TypeOK, ScriptState, Working
<1>2. files' = files \/ files' = [files EXCEPT ![t][n] = x]
  BY <1>1
<1> HIDE DEF t, n
<1>3. /\ files' \in [Tenant -> [Time -> (SUBSET Row) \cup {None}]]
      /\ \A u \in Tenant : \A m \in Time : u # t \/ m # n => files'[u][m] = files[u][m]
  <2>1. CASE files' = files
    BY <1>0, <2>1 DEF TypeOK
  <2>2. CASE files' = [files EXCEPT ![t][n] = x]
    <3>1. files \in [Tenant -> [Time -> (SUBSET Row) \cup {None}]]
      BY <1>0 DEF TypeOK
    <3> QED BY <1>1, <2>2, <3>1, FileWritten
  <2> QED BY <1>2, <2>1, <2>2
<1>4. /\ script' \in [Script -> ScriptState] /\ script'[s] = Ended(s)
      /\ \A r \in Script \ {s} : script'[r] = script[r]
  BY <1>0, EndedFacts, OneRun
<1>5. /\ script'[s].pc = "end" /\ script'[s].tenant = t
      /\ script'[s].began = n /\ t # None
      /\ script'[s].out = {} /\ script'[s].seen = {} /\ script'[s].gone = {}
  BY <1>0, <1>1, <1>4, EndedFacts, NoneAssumption DEF t, n
<1>6. There' = There /\ \A i \in There : Chunk(i)' = Chunk(i)
  BY DEF There, Chunk
<1>7. TypeOK'
  <2>1. \A r \in Script : script'[r].pc = "new" <=> script'[r].tenant = None
    BY <1>0, <1>4, <1>5 DEF TypeOK
  <2>2. \A r \in Script : \A i \in script'[r].out \cap There :
          row[i].tenant = script'[r].tenant
    BY <1>0, <1>4, <1>5 DEF TypeOK
  <2> QED BY <1>0, <1>3, <1>4, <1>6, <2>1, <2>2 DEF TypeOK, sweep
<1>8. RunInv'
  BY <1>4, <1>5 DEF IInv, RunInv, Working
<1>9. ExportInv'
  BY <1>4, <1>5, <1>6 DEF IInv, ExportInv
<1>10. FileInv'
  <2> SUFFICES ASSUME NEW r \in Script, NEW i \in script'[r].out \cup script'[r].gone
               PROVE  \/ /\ files'[script'[r].tenant][script'[r].began] # None
                         /\ i \in files'[script'[r].tenant][script'[r].began]
                      \/ Twin(r)'
    BY DEF FileInv
  <2>1. r # s /\ script'[r] = script[r]
    BY <1>4, <1>5
  <2>2. script[r].tenant \in Tenant /\ script[r].began \in Time
    BY <1>0, <2>1 DEF IInv, RunInv, TypeOK, ScriptState
  <2>3. \A q \in Script : script'[q].tenant = script[q].tenant
                          /\ script'[q].began = script[q].began
    BY <1>4, <1>5 DEF t, n
  <2>4. CASE Twin(r)
    BY <2>3, <2>4 DEF Twin
  <2>5. CASE script[r].tenant = t /\ script[r].began = n
    BY <2>1, <2>3, <2>5 DEF Twin, t, n
  <2>6. CASE ~Twin(r) /\ (script[r].tenant # t \/ script[r].began # n)
    <3>1. /\ files[script[r].tenant][script[r].began] # None
          /\ i \in files[script[r].tenant][script[r].began]
      BY <2>1, <2>6 DEF IInv, FileInv
    <3> QED BY <1>3, <2>1, <2>2, <2>6, <3>1
  <2> QED BY <2>4, <2>5, <2>6
<1> QED BY <1>7, <1>8, <1>9, <1>10 DEF IInv

LEMMA InsertIInv ==
  ASSUME IInv, NEW i \in Row, NEW t \in Tenant, NEW ts \in Time, NEW p \in Place,
         Insert(i, t, ts, p)
  PROVE  IInv'
<1> DEFINE q == [tenant |-> t, ts |-> ts, place |-> p]
<1>0. TypeOK
  BY DEF IInv
<1>1. /\ q \in RowState /\ q.tenant = t /\ q.ts = ts /\ q.place = p /\ q # None
      /\ row' = [row EXCEPT ![i] = q] /\ used' = used \cup {i} /\ i \notin used
      /\ UNCHANGED <<now, policy, script, files, sweep>>
      /\ \A j \in There : row[j].place = p => Chunk(j) # ts \div Span
  BY NoneAssumption DEF Insert, RowState
<1> HIDE DEF q
<1>2. /\ row' \in [Row -> RowState \cup {None}] /\ row'[i] = q
      /\ \A j \in Row \ {i} : row'[j] = row[j]
  BY <1>0, <1>1 DEF TypeOK
<1>3. i \notin There /\ There' = There \cup {i}
  <2>1. i \notin There
    BY <1>0, <1>1 DEF TypeOK
  <2> QED BY <1>1, <1>2, <2>1 DEF There
<1>4. /\ Chunk(i)' = ts \div Span
      /\ \A j \in There : Chunk(j)' = Chunk(j) /\ row'[j] = row[j]
  BY <1>1, <1>2, <1>3 DEF Chunk, There
<1>5. \A s \in Script : i \notin script[s].out /\ i \notin script[s].seen
  BY <1>1 DEF IInv, RunInv
<1>6. TypeOK'
  <2>1. \A j, k \in There' :
          j # k /\ row'[j].place = row'[k].place => Chunk(j)' # Chunk(k)'
    <3>1. \A j \in There : row'[j].place = p => Chunk(j)' # Chunk(i)'
      BY <1>1, <1>4
    <3>2. \A j, k \in There :
            j # k /\ row'[j].place = row'[k].place => Chunk(j)' # Chunk(k)'
      BY <1>0, <1>4 DEF TypeOK
    <3> QED BY <1>1, <1>2, <1>3, <3>1, <3>2
  <2>2. \A s \in Script : \A j \in script'[s].out \cap There' :
          row'[j].tenant = script'[s].tenant
    BY <1>0, <1>1, <1>3, <1>4, <1>5 DEF TypeOK
  <2>3. There' \subseteq used' /\ used' \subseteq Row
    BY <1>0, <1>1, <1>3 DEF TypeOK
  <2> QED BY <1>0, <1>1, <1>2, <2>1, <2>2, <2>3 DEF TypeOK, sweep
<1>7. RunInv'
  BY <1>1 DEF IInv, RunInv
<1>8. ExportInv'
  BY <1>1, <1>3, <1>4, <1>5 DEF IInv, ExportInv
<1>9. FileInv'
  BY <1>1 DEF IInv, FileInv, Twin
<1> QED BY <1>6, <1>7, <1>8, <1>9 DEF IInv

(* A run goes on, and nothing that the others know changes: the files are   *)
(* as they were, and its tenant and beginning are, if it had any.           *)
StepTo(s, q) ==
  /\ script' = [script EXCEPT ![s] = q]
  /\ row' = row /\ UNCHANGED <<now, used, policy, files, sweep>>
  /\ \/ script[s].pc = "new"
     \/ q.tenant = script[s].tenant /\ q.began = script[s].began
  /\ q.pc # "new" /\ q.tenant \in Tenant
  /\ q.pc \in Working => q.stamp = q.began /\ q.days \in Days
  /\ q.pc # "end" => q.gone = {}
  /\ q.out \subseteq used /\ q.seen \subseteq used
  /\ q.out \subseteq script[s].out /\ q.gone \subseteq script[s].gone
  /\ q.pc \in {"count", "prune"} =>
       /\ script[s].pc \in {"count", "prune"} /\ q.tenant = script[s].tenant
       /\ q.seen = script[s].seen /\ q.cutoff = script[s].cutoff
       /\ q.out = script[s].out

LEMMA StepIInv ==
  ASSUME IInv, NEW s \in Script, NEW q \in ScriptState, StepTo(s, q)
  PROVE  IInv'
<1> USE DEF StepTo
<1>0. TypeOK
  BY DEF IInv
<1>1. /\ script' \in [Script -> ScriptState] /\ script'[s] = q
      /\ \A r \in Script \ {s} : script'[r] = script[r]
  BY <1>0, OneRun
<1>2. There' = There /\ \A i \in There : Chunk(i)' = Chunk(i)
  BY DEF There, Chunk
<1>3. script[s].pc = "new" => script[s].tenant = None
                              /\ script[s].out = {} /\ script[s].gone = {}
  BY <1>0 DEF IInv, RunInv, TypeOK
<1>4. q.tenant # None
  BY NoneAssumption
<1>5. TypeOK'
  <2>1. \A r \in Script : script'[r].pc = "new" <=> script'[r].tenant = None
    BY <1>0, <1>1, <1>4 DEF TypeOK
  <2>2. \A r \in Script : \A i \in script'[r].out \cap There :
          row[i].tenant = script'[r].tenant
    BY <1>0, <1>1, <1>3 DEF TypeOK
  <2> QED BY <1>0, <1>1, <1>2, <2>1, <2>2 DEF TypeOK, sweep
<1>6. RunInv'
  BY <1>1 DEF IInv, RunInv
<1>7. ExportInv'
  BY <1>1, <1>2 DEF IInv, ExportInv
<1>8. FileInv'
  <2> SUFFICES ASSUME NEW r \in Script, NEW i \in script'[r].out \cup script'[r].gone
               PROVE  \/ /\ files[script'[r].tenant][script'[r].began] # None
                         /\ i \in files[script'[r].tenant][script'[r].began]
                      \/ Twin(r)'
    BY DEF FileInv
  <2>1. /\ i \in script[r].out \cup script[r].gone
        /\ script[r].pc # "new"
        /\ script'[r].tenant = script[r].tenant /\ script'[r].began = script[r].began
    <3>1. CASE r = s
      BY <1>1, <1>3, <3>1
    <3>2. CASE r # s
      BY <1>1, <3>2 DEF IInv, RunInv
    <3> QED BY <3>1, <3>2
  <2>2. CASE Twin(r)
    <3>1. PICK u \in Script \ {r} :
            script[u].tenant = script[r].tenant /\ script[u].began = script[r].began
      BY <2>2 DEF Twin
    <3>2. script[u].pc # "new"
      BY <1>0, <2>1, <3>1 DEF TypeOK
    <3>3. script'[u].tenant = script[u].tenant /\ script'[u].began = script[u].began
      BY <1>1, <3>2
    <3> QED BY <2>1, <3>1, <3>3 DEF Twin
  <2>3. CASE ~Twin(r)
    BY <2>1, <2>3 DEF IInv, FileInv
  <2> QED BY <2>2, <2>3
<1> QED BY <1>5, <1>6, <1>7, <1>8 DEF IInv

LEMMA StartIInv ==
  ASSUME IInv, NEW s \in Script, NEW t \in Tenant, NEW d \in Days, Start(s, t, d)
  PROVE  IInv'
<1>0. TypeOK
  BY DEF IInv
<1> DEFINE q == [NoScript EXCEPT !.pc = "export", !.tenant = t, !.days = d,
                                 !.stamp = now, !.began = now]
<1>1. /\ q \in ScriptState
      /\ q.pc = "export" /\ q.tenant = t /\ q.days = d /\ q.began = now
      /\ q.stamp = now /\ q.out = {} /\ q.seen = {} /\ q.gone = {}
  BY <1>0, NewFacts
<1>2. /\ script[s].pc = "new" /\ script' = [script EXCEPT ![s] = q]
      /\ UNCHANGED <<now, row, used, policy, files, sweep>>
  BY DEF Start
<1> HIDE DEF q
<1>3. StepTo(s, q)
  BY <1>1, <1>2 DEF StepTo, Working
<1> QED BY <1>1, <1>3, StepIInv

LEMMA CountIInv ==
  ASSUME IInv, NEW s \in Script, Count(s)
  PROVE  IInv'
<1>0. TypeOK
  BY DEF IInv
<1> DEFINE q == [script[s] EXCEPT !.pc = "prune"]
<1>1. script[s] \in ScriptState
  BY <1>0 DEF TypeOK
<1>2. /\ q \in ScriptState /\ q.pc = "prune" /\ q.tenant = script[s].tenant
      /\ q.days = script[s].days /\ q.stamp = script[s].stamp
      /\ q.began = script[s].began /\ q.cutoff = script[s].cutoff
      /\ q.out = script[s].out /\ q.seen = script[s].seen /\ q.gone = script[s].gone
  BY <1>1 DEF ScriptState
<1>3. /\ script[s].pc = "count" /\ script' = [script EXCEPT ![s] = q]
      /\ UNCHANGED <<now, row, used, policy, files, sweep>>
  BY DEF Count
<1>4. script[s].tenant \in Tenant
  BY <1>0, <1>1, <1>3 DEF TypeOK, ScriptState
<1>5. /\ script[s].stamp = script[s].began /\ script[s].days \in Days
      /\ script[s].gone = {} /\ script[s].out \subseteq used /\ script[s].seen \subseteq used
  BY <1>3 DEF IInv, RunInv, Working
<1> HIDE DEF q
<1>6. StepTo(s, q)
  BY <1>2, <1>3, <1>4, <1>5 DEF StepTo
<1> QED BY <1>2, <1>6, StepIInv

(* The file is written with all old rows, over that of a twin.              *)
LEMMA ExportIInv ==
  ASSUME IInv, NEW s \in Script, Export(s)
  PROVE  IInv'
<1>0. TypeOK /\ RunInv
  BY DEF IInv
<1> DEFINE t == script[s].tenant
           n == script[s].began
           out == Old(t, script[s].days)
<1>1. /\ script[s].pc = "export" /\ script[s].stamp = n /\ script[s].gone = {}
      /\ t \in Tenant /\ n \in Time /\ script[s].days \in Days /\ t # None
  BY <1>0, NoneAssumption DEF Export, RunInv, TypeOK, ScriptState, Working
<1>2. out \in SUBSET Row /\ out \subseteq There /\ out \subseteq used
  BY <1>0 DEF Old, OldAt, There, TypeOK
<1>3. files' = [files EXCEPT ![t][n] = out] /\ Exported(s, out)
      /\ UNCHANGED <<now, row, used, policy, sweep>>
  BY <1>1 DEF Export
<1>4. \A i \in There : row[i].tenant = t /\ row[i].ts < now - script[s].days => i \in out
  BY DEF Old, OldAt
<1>5. \A i \in out : row[i].tenant = t
  BY DEF Old, OldAt
<1> HIDE DEF out
<1>6. /\ script'[s].pc = "count" /\ script'[s].tenant = t
      /\ script'[s].days = script[s].days /\ script'[s].cutoff = now - script[s].days
      /\ script'[s].stamp = n /\ script'[s].began = n
      /\ script'[s].out = out /\ script'[s].seen = used /\ script'[s].gone = {}
      /\ \A r \in Script \ {s} : script'[r] = script[r]
      /\ script' \in [Script -> ScriptState]
  BY <1>0, <1>1, <1>2, <1>3, ExportedFacts
<1>7. /\ files' \in [Tenant -> [Time -> (SUBSET Row) \cup {None}]] /\ files'[t][n] = out
      /\ \A u \in Tenant : \A m \in Time : u # t \/ m # n => files'[u][m] = files[u][m]
  <2>1. files \in [Tenant -> [Time -> (SUBSET Row) \cup {None}]]
    BY <1>0 DEF TypeOK
  <2>2. out \in (SUBSET Row) \cup {None}
    BY <1>2
  <2> HIDE DEF t, n
  <2> QED BY <1>1, <1>3, <2>1, <2>2, FileWritten
<1> HIDE DEF t, n
<1>8. There' = There /\ \A i \in There : Chunk(i)' = Chunk(i)
  BY <1>3 DEF There, Chunk
<1>9. TypeOK'
  <2>1. \A r \in Script : script'[r].pc = "new" <=> script'[r].tenant = None
    BY <1>0, <1>1, <1>6 DEF TypeOK
  <2>2. \A r \in Script : \A i \in script'[r].out \cap There :
          row[i].tenant = script'[r].tenant
    BY <1>0, <1>5, <1>6 DEF TypeOK
  <2> QED BY <1>0, <1>3, <1>6, <1>7, <1>8, <2>1, <2>2 DEF TypeOK, sweep
<1>10. RunInv'
  BY <1>0, <1>1, <1>2, <1>3, <1>6 DEF RunInv
<1>11. ExportInv'
  BY <1>3, <1>4, <1>6, <1>8 DEF IInv, ExportInv
<1>12. FileInv'
  <2> SUFFICES ASSUME NEW r \in Script, NEW i \in script'[r].out \cup script'[r].gone
               PROVE  \/ /\ files'[script'[r].tenant][script'[r].began] # None
                         /\ i \in files'[script'[r].tenant][script'[r].began]
                      \/ Twin(r)'
    BY DEF FileInv
  <2>1. \A q \in Script : script'[q].tenant = script[q].tenant
                          /\ script'[q].began = script[q].began
    BY <1>6 DEF t, n
  <2>2. CASE r = s
    <3>1. i \in out
      BY <1>6, <2>2
    <3>2. out # None
      BY <1>2, NoneAssumption
    <3> QED BY <1>6, <1>7, <2>2, <3>1, <3>2
  <2>3. CASE r # s /\ script[r].tenant = t /\ script[r].began = n
    BY <2>1, <2>3 DEF Twin, t, n
  <2>4. CASE Twin(r)
    BY <2>1, <2>4 DEF Twin
  <2>5. CASE r # s /\ ~Twin(r) /\ (script[r].tenant # t \/ script[r].began # n)
    <3>1. script'[r] = script[r] /\ i \in script[r].out \cup script[r].gone
      BY <1>6, <2>5
    <3>2. script[r].tenant \in Tenant /\ script[r].began \in Time
      BY <1>0, <3>1 DEF RunInv, TypeOK, ScriptState
    <3>3. /\ files[script[r].tenant][script[r].began] # None
          /\ i \in files[script[r].tenant][script[r].began]
      BY <2>5, <3>1 DEF IInv, FileInv
    <3> QED BY <1>7, <2>5, <3>1, <3>2, <3>3
  <2> QED BY <2>2, <2>3, <2>4, <2>5
<1> QED BY <1>9, <1>10, <1>11, <1>12 DEF IInv

(* Rows are removed, and the run remembers those of its export.             *)
LEMMA PruneTenantIInv ==
  ASSUME IInv, NEW s \in Script, PruneTenant(s)
  PROVE  IInv'
<1>0. TypeOK
  BY DEF IInv
<1>1. PICK doomed \in SUBSET Old(script[s].tenant, script[s].days) :
        /\ Remove(SamePlace(doomed))
        /\ script' = [script EXCEPT ![s] =
             [Ended(s) EXCEPT !.gone = SamePlace(doomed) \cap script[s].out]]
  BY DEF PruneTenant
<1>2. /\ script[s].pc = "prune" /\ UNCHANGED <<now, used, policy, files, sweep>>
  BY DEF PruneTenant
<1> DEFINE lost == SamePlace(doomed) \cap script[s].out
           q == Pruned(s, lost)
<1>3. lost \in SUBSET Row /\ lost \subseteq script[s].out
  BY DEF SamePlace, There
<1>4. /\ q \in ScriptState /\ q.pc = "end" /\ q.tenant = script[s].tenant
      /\ q.began = script[s].began
      /\ q.out = {} /\ q.seen = {} /\ q.gone = lost
  <2> HIDE DEF lost
  <2> QED BY <1>0, <1>3, PrunedFacts
<1>5. script' = [script EXCEPT ![s] = q]
  BY <1>1 DEF Pruned
<1> HIDE DEF lost, q
<1>6. /\ script' \in [Script -> ScriptState] /\ script'[s] = q
      /\ \A r \in Script \ {s} : script'[r] = script[r]
  BY <1>0, <1>4, <1>5, OneRun
<1>7. /\ row' \in [Row -> RowState \cup {None}] /\ There' \subseteq There
      /\ \A i \in There' : row'[i] = row[i] /\ Chunk(i)' = Chunk(i)
  BY <1>0, <1>1, RemoveFacts
<1>8. TypeOK'
  <2>1. \A i, j \in There' :
          i # j /\ row'[i].place = row'[j].place => Chunk(i)' # Chunk(j)'
    BY <1>0, <1>7 DEF TypeOK
  <2>2. \A r \in Script : \A i \in script'[r].out \cap There' :
          row'[i].tenant = script'[r].tenant
    BY <1>0, <1>4, <1>6, <1>7 DEF TypeOK
  <2>3. \A r \in Script : script'[r].pc = "new" <=> script'[r].tenant = None
    BY <1>0, <1>2, <1>4, <1>6 DEF TypeOK
  <2>4. There' \subseteq used'
    BY <1>0, <1>2, <1>7 DEF TypeOK
  <2> QED BY <1>0, <1>2, <1>6, <1>7, <2>1, <2>2, <2>3, <2>4 DEF TypeOK, sweep
<1>9. RunInv'
  BY <1>2, <1>4, <1>6 DEF IInv, RunInv, Working
<1>10. ExportInv'
  BY <1>4, <1>6, <1>7 DEF IInv, ExportInv
<1>11. FileInv'
  <2> SUFFICES ASSUME NEW r \in Script, NEW i \in script'[r].out \cup script'[r].gone
               PROVE  \/ /\ files[script[r].tenant][script[r].began] # None
                         /\ i \in files[script[r].tenant][script[r].began]
                      \/ Twin(r)
    <3>1. \A u \in Script : script'[u].tenant = script[u].tenant
                            /\ script'[u].began = script[u].began
      BY <1>4, <1>6
    <3> QED BY <1>2, <3>1 DEF FileInv, Twin
  <2>1. i \in script[r].out \cup script[r].gone
    <3>1. CASE r = s
      BY <1>3, <1>4, <1>6, <3>1
    <3>2. CASE r # s
      BY <1>6, <3>2
    <3> QED BY <3>1, <3>2
  <2> QED BY <2>1 DEF IInv, FileInv
<1> QED BY <1>8, <1>9, <1>10, <1>11 DEF IInv

(* The steps of prune_telemetry_all_tenants.                                *)
Sweeping ==
  \/ \E d \in Days : PruneBegin(d)
  \/ \E t \in Tenant : PrunePolicy(t)
  \/ PruneRows \/ PruneCommit \/ PruneRollback

LEMMA SweepTypes ==
  ASSUME TypeOK, Sweeping
  PROVE  prune' \in PruneState \cup {None} /\ outdated' \subseteq Tenant
<1>1. outdated' \subseteq Tenant
  BY DEF Sweeping, PruneBegin, PrunePolicy, PruneRows, PruneCommit, PruneRollback,
         TypeOK
<1>2. ASSUME NEW d \in Days, PruneBegin(d) PROVE prune' \in PruneState
  <2>1. {row[i].tenant : i \in There} \subseteq Tenant
    BY DEF TypeOK, There, RowState
  <2> QED BY <1>2, <2>1 DEF PruneBegin, PruneState, TypeOK
<1>3. ASSUME NEW t \in Tenant, PrunePolicy(t) PROVE prune' \in PruneState
  <2>1. /\ prune \in PruneState
        /\ prune' = [prune EXCEPT !.tenant = t, !.todo = @ \ {t},
                                  !.days = Applied(t, prune.default)]
    BY <1>3 DEF PrunePolicy, TypeOK
  <2>2. Applied(t, prune.default) \in Days \cup Policies \cup {None}
    BY <2>1 DEF Applied, PruneState, TypeOK
  <2> QED BY <2>1, <2>2 DEF PruneState
<1>4. ASSUME PruneRows PROVE prune' \in PruneState
  <2>1. PICK doomed \in SUBSET OldAt(prune.at, prune.tenant, prune.days) :
          prune' = [prune EXCEPT !.tenant = None, !.days = None,
                                 !.gone = @ \cup SamePlace(doomed)]
    BY <1>4 DEF PruneRows
  <2>2. prune \in PruneState /\ SamePlace(doomed) \subseteq Row
    BY <1>4 DEF PruneRows, TypeOK, SamePlace, There
  <2> QED BY <2>1, <2>2 DEF PruneState
<1> QED BY <1>1, <1>2, <1>3, <1>4 DEF Sweeping, PruneCommit, PruneRollback

LEMMA NextIInv == IInv /\ [Next]_vars => IInv'
<1> SUFFICES ASSUME IInv, [Next]_vars PROVE IInv'
  OBVIOUS
<1>0. TypeOK
  BY DEF IInv
<1>1. CASE Tick
  <2>1. now' \in Time
    BY <1>0, <1>1, TimeAssumption DEF Tick, TypeOK, Time
  <2> QED BY <1>0, <1>1, <2>1, QuietIInv DEF Tick, TypeOK, sweep
<1>2. ASSUME NEW i \in Row, NEW t \in Tenant, NEW ts \in Time, NEW p \in Place,
             Insert(i, t, ts, p)
      PROVE  IInv'
  BY <1>2, InsertIInv
<1>3. ASSUME NEW s \in Script, NEW t \in Tenant, NEW d \in Days, Start(s, t, d)
      PROVE  IInv'
  BY <1>3, StartIInv
<1>4. ASSUME NEW s \in Script, Export(s) PROVE IInv'
  BY <1>4, ExportIInv
<1>5. ASSUME NEW s \in Script, ExportFails(s) PROVE IInv'
  <2>1. PICK part \in SUBSET Old(script[s].tenant, script[s].days) :
          files' = [files EXCEPT ![script[s].tenant][script[s].stamp] = part]
    BY <1>5 DEF ExportFails
  <2>2. part \in (SUBSET Row) \cup {None}
    BY DEF Old, OldAt, There
  <2>3. /\ script[s].pc \in Working /\ script' = [script EXCEPT ![s] = Ended(s)]
        /\ UNCHANGED <<now, row, used, policy, sweep>>
    BY <1>5 DEF ExportFails, Working
  <2> QED BY <2>1, <2>2, <2>3, EndIInv
<1>6. ASSUME NEW s \in Script, CountNone(s) PROVE IInv'
  <2>1. /\ files' = [files EXCEPT ![script[s].tenant][script[s].stamp] = None]
        /\ script[s].pc \in Working /\ script' = [script EXCEPT ![s] = Ended(s)]
        /\ UNCHANGED <<now, row, used, policy, sweep>>
    BY <1>6 DEF CountNone, Working
  <2> QED BY <2>1, EndIInv
<1>7. ASSUME NEW s \in Script, Count(s) PROVE IInv'
  BY <1>7, CountIInv
<1>8. ASSUME NEW s \in Script, PruneTenant(s) PROVE IInv'
  BY <1>8, PruneTenantIInv
<1>9. ASSUME NEW s \in Script, Stop(s) PROVE IInv'
  <2>1. script[s].pc \in Working
    BY <1>0, <1>9 DEF Stop, Working, TypeOK, ScriptState
  <2> QED BY <1>9, <2>1, EndIInv DEF Stop
<1>10. ASSUME Sweeping PROVE IInv'
  <2>1. CASE PruneCommit
    <3>1. prune' \in PruneState \cup {None} /\ outdated' \in SUBSET Tenant
      BY <2>1 DEF PruneCommit
    <3> QED BY <2>1, <3>1, RemoveIInv DEF PruneCommit
  <2>2. CASE ~PruneCommit
    <3>1. UNCHANGED <<row, used, script, files, now, policy>>
      BY <1>10, <2>2 DEF Sweeping, PruneBegin, PrunePolicy, PruneRows, PruneRollback
    <3>2. prune' \in PruneState \cup {None} /\ outdated' \in SUBSET Tenant
      BY <1>0, <1>10, SweepTypes DEF TypeOK
    <3>3. now' \in Time /\ policy' \in [Tenant -> Policies \cup {None}]
      BY <1>0, <3>1 DEF TypeOK
    <3> QED BY <3>1, <3>2, <3>3, QuietIInv
  <2> QED BY <2>1, <2>2
<1>11. ASSUME NEW c \in Time, DropChunk(c) PROVE IInv'
  BY <1>0, <1>11, RemoveIInv DEF DropChunk, TypeOK, sweep
<1>12. ASSUME NEW t \in Tenant, NEW d \in Policies \cup {None}, SetPolicy(t, d)
       PROVE  IInv'
  <2>1. policy' \in [Tenant -> Policies \cup {None}]
    BY <1>0, <1>12 DEF SetPolicy, TypeOK
  <2>2. outdated' \in SUBSET Tenant
    BY <1>0, <1>12 DEF SetPolicy, TypeOK
  <2> QED BY <1>0, <1>12, <2>1, <2>2, QuietIInv DEF SetPolicy, TypeOK
<1>13. CASE UNCHANGED vars
  BY <1>0, <1>13, QuietIInv DEF vars, TypeOK, sweep
<1> QED BY <1>1, <1>2, <1>3, <1>4, <1>5, <1>6, <1>7, <1>8, <1>9, <1>10, <1>11,
           <1>12, <1>13 DEF Next, Sweeping

-----------------------------------------------------------------------------
(* What prune-all knows while it runs.                                      *)

(* It goes on with the same rows and no new policy, and time passes.        *)
LEMMA PruneKept ==
  ASSUME TypeOK, PruneInv, now' \in Time, now <= now', UNCHANGED <<policy, sweep>>,
         prune # None => /\ prune.gone \subseteq There'
                         /\ \A i \in prune.gone : row'[i] = row[i]
  PROVE  PruneInv'
<1> SUFFICES ASSUME prune # None
             PROVE  /\ prune.at <= now' /\ prune.gone \subseteq There'
                    /\ prune.tenant # None =>
                         /\ prune.tenant \notin prune.todo
                         /\ \/ prune.tenant \in outdated
                            \/ policy[prune.tenant] = None
                            \/ prune.days = policy[prune.tenant]
                    /\ \A i \in prune.gone :
                         DraggedIn(i, prune.gone)' \/ PassedOver(i)'
  BY DEF PruneInv, sweep
<1>1. prune.at <= now'
  <2>1. prune.at \in Time /\ now \in Time
    BY DEF TypeOK, PruneState
  <2> QED BY <2>1, TimeAssumption DEF PruneInv, Time
<1>2. \A i \in prune.gone : row'[i] = row[i] /\ Chunk(i)' = Chunk(i)
  BY DEF Chunk
<1>3. ASSUME NEW i \in prune.gone PROVE DraggedIn(i, prune.gone)' \/ PassedOver(i)'
  <2>1. CASE DraggedIn(i, prune.gone)
    BY <1>2, <2>1 DEF DraggedIn, sweep
  <2>2. CASE PassedOver(i)
    BY <1>2, <2>2 DEF PassedOver, sweep
  <2> QED BY <2>1, <2>2 DEF PruneInv
<1> QED BY <1>1, <1>3 DEF PruneInv

(* Rows that a DELETE of prune-all has are not removed by another.          *)
LEMMA RemoveKeepsPrune ==
  ASSUME TypeOK, PruneInv, NEW gone, Remove(gone), Free(gone),
         UNCHANGED <<now, policy, sweep>>
  PROVE  PruneInv'
<1>1. prune # None => /\ prune.gone \subseteq There'
                      /\ \A i \in prune.gone : row'[i] = row[i]
  <2> SUFFICES ASSUME prune # None, NEW i \in prune.gone
               PROVE  i \in There' /\ row'[i] = row[i]
    OBVIOUS
  <2>1. i \in There /\ i \notin gone
    BY DEF PruneInv, Free
  <2>2. i \in There' /\ row'[i] = row[i]
    BY <2>1, RemoveFacts
  <2> QED BY <2>2
<1>2. now' \in Time /\ now <= now'
  BY TimeAssumption DEF TypeOK, Time
<1> QED BY <1>1, <1>2, PruneKept

(* What the next DELETE takes for a tenant is past the loop, or dragged.    *)
LEMMA RowsPrune ==
  ASSUME TypeOK, PruneInv, PruneRows
  PROVE  PruneInv'
<1>1. PICK doomed \in SUBSET OldAt(prune.at, prune.tenant, prune.days) :
        prune' = [prune EXCEPT !.tenant = None, !.days = None,
                               !.gone = @ \cup SamePlace(doomed)]
  BY DEF PruneRows
<1> DEFINE rows == SamePlace(doomed)
<1>2. /\ prune # None /\ prune.tenant # None /\ prune \in PruneState
      /\ UNCHANGED <<now, row, policy, outdated>>
  BY DEF PruneRows, TypeOK
<1>3. /\ prune' # None /\ prune'.at = prune.at /\ prune'.todo = prune.todo
      /\ prune'.tenant = None /\ prune'.gone = prune.gone \cup rows
  <2> HIDE DEF rows
  <2>1. prune' = [prune EXCEPT !.tenant = None, !.days = None,
                               !.gone = @ \cup rows]
    BY <1>1 DEF rows
  <2>2. rows \subseteq Row
    BY DEF rows, SamePlace, There
  <2>3. prune' \in PruneState
    BY <1>2, <2>1, <2>2 DEF PruneState
  <2> QED BY <1>2, <2>1, <2>3, NoneIsNoPrune DEF PruneState
<1>4. rows \subseteq There /\ doomed \subseteq rows
  BY DEF SamePlace, OldAt
<1>5. There' = There /\ \A i : Chunk(i)' = Chunk(i)
  BY <1>2 DEF There, Chunk
<1>6. ASSUME NEW i \in doomed PROVE PassedOver(i)
  <2>1. row[i].tenant = prune.tenant /\ row[i].ts < prune.at - prune.days
    BY DEF OldAt
  <2> QED BY <1>2, <2>1 DEF PruneInv, PassedOver
<1>7. ASSUME NEW i \in rows, i \notin doomed PROVE DraggedIn(i, rows)
  <2>1. PICK j \in doomed : row[i].place = row[j].place
    BY DEF SamePlace
  <2>2. i # j /\ i \in There /\ j \in There
    BY <1>4, <1>7, <2>1
  <2>3. Chunk(i) # Chunk(j)
    BY <2>1, <2>2 DEF TypeOK
  <2> QED BY <1>4, <2>1, <2>3 DEF DraggedIn
<1>8. ASSUME NEW i \in prune'.gone PROVE DraggedIn(i, prune'.gone) \/ PassedOver(i)
  <2>1. CASE i \in doomed
    BY <1>6, <2>1
  <2>2. CASE i \in rows /\ i \notin doomed
    BY <1>3, <1>7, <2>2 DEF DraggedIn
  <2>3. CASE i \in prune.gone
    BY <1>2, <1>3, <2>3 DEF PruneInv, DraggedIn
  <2> QED BY <1>3, <2>1, <2>2, <2>3
<1> HIDE DEF rows
<1>9. \A i \in prune'.gone : DraggedIn(i, prune.gone)' \/ PassedOver(i)'
  BY <1>2, <1>3, <1>5, <1>8 DEF DraggedIn, PassedOver
<1>10. prune'.at <= now' /\ prune'.gone \subseteq There'
  BY <1>2, <1>3, <1>4, <1>5 DEF PruneInv
<1> QED BY <1>3, <1>9, <1>10 DEF PruneInv

LEMMA PolicyPrune ==
  ASSUME TypeOK, PruneInv, NEW t \in Tenant, PrunePolicy(t)
  PROVE  PruneInv'
<1>1. /\ prune # None /\ t \in prune.todo /\ prune \in PruneState
      /\ prune' = [prune EXCEPT !.tenant = t, !.todo = @ \ {t},
                                !.days = Applied(t, prune.default)]
      /\ UNCHANGED <<now, row, policy, outdated>>
  BY DEF PrunePolicy, TypeOK
<1>2. /\ prune'.at = prune.at /\ prune'.todo = prune.todo \ {t}
      /\ prune'.tenant = t /\ prune'.gone = prune.gone
      /\ prune'.days = Applied(t, prune.default)
  BY <1>1 DEF PruneState
<1>3. policy[t] = None \/ prune'.days = policy[t]
  BY <1>2 DEF Applied
<1>4. There' = There /\ \A i : Chunk(i)' = Chunk(i)
  BY <1>1 DEF There, Chunk
<1>5. \A i \in prune.gone : DraggedIn(i, prune.gone)' \/ PassedOver(i)'
  <2> TAKE i \in prune.gone
  <2>1. CASE DraggedIn(i, prune.gone)
    BY <1>1, <1>2, <1>4, <2>1 DEF DraggedIn
  <2>2. CASE PassedOver(i)
    BY <1>1, <1>2, <2>2 DEF PassedOver
  <2> QED BY <1>1, <2>1, <2>2 DEF PruneInv
<1> QED BY <1>1, <1>2, <1>3, <1>4, <1>5 DEF PruneInv

LEMMA BeginPrune ==
  ASSUME TypeOK, NEW d \in Days, PruneBegin(d)
  PROVE  PruneInv'
<1>1. /\ prune'.at = now /\ prune'.tenant = None /\ prune'.gone = {}
      /\ now' = now
  BY DEF PruneBegin
<1>2. now <= now
  BY TimeAssumption DEF TypeOK, Time
<1> QED BY <1>1, <1>2 DEF PruneInv

(* A policy that changes behind the loop is one prune-all does not know.    *)
LEMMA SetPolicyPrune ==
  ASSUME TypeOK, PruneInv, NEW t \in Tenant, NEW d \in Policies \cup {None},
         SetPolicy(t, d)
  PROVE  PruneInv'
<1> SUFFICES ASSUME prune # None PROVE PruneInv'
  BY DEF SetPolicy, PruneInv
<1>1. /\ policy' = [policy EXCEPT ![t] = d]
      /\ outdated' = IF t \notin prune.todo /\ d # policy[t]
                     THEN outdated \cup {t} ELSE outdated
      /\ UNCHANGED <<now, row, prune>>
  BY DEF SetPolicy
<1>2. \A u \in Tenant : policy'[u] = IF u = t THEN d ELSE policy[u]
  BY <1>1 DEF TypeOK
<1>3. \A u \in Tenant \ prune.todo : u \in outdated' \/ policy'[u] = policy[u]
  BY <1>1, <1>2
<1>4. outdated \subseteq outdated'
  BY <1>1
<1>5. There' = There /\ \A i : Chunk(i)' = Chunk(i)
  BY <1>1 DEF There, Chunk
<1>6. prune.tenant # None =>
        /\ prune.tenant \notin prune.todo
        /\ \/ prune.tenant \in outdated' \/ policy'[prune.tenant] = None
           \/ prune.days = policy'[prune.tenant]
  <2>1. prune.tenant \in Tenant \cup {None}
    BY DEF TypeOK, PruneState
  <2> QED BY <1>3, <1>4, <2>1 DEF PruneInv
<1>7. \A i \in prune.gone : DraggedIn(i, prune.gone)' \/ PassedOver(i)'
  <2> TAKE i \in prune.gone
  <2>1. CASE DraggedIn(i, prune.gone)
    BY <1>1, <1>5, <2>1 DEF DraggedIn
  <2>2. CASE PassedOver(i)
    <3>1. i \in There
      BY DEF PruneInv
    <3>2. row[i].tenant \in Tenant
      BY <3>1 DEF There, TypeOK, RowState
    <3> QED BY <1>1, <1>3, <1>4, <2>2, <3>2 DEF PassedOver
  <2> QED BY <2>1, <2>2 DEF PruneInv
<1> QED BY <1>1, <1>5, <1>6, <1>7 DEF PruneInv

LEMMA NextPruneInv == TypeOK /\ PruneInv /\ [Next]_vars => PruneInv'
<1> SUFFICES ASSUME TypeOK, PruneInv, [Next]_vars PROVE PruneInv'
  OBVIOUS
<1>0. prune # None => prune.gone \subseteq There
  BY DEF PruneInv
<1>1. now \in Time /\ now <= now
  BY TimeAssumption DEF TypeOK, Time
<1>2. CASE row' = row /\ now' = now /\ UNCHANGED <<policy, sweep>>
  BY <1>0, <1>1, <1>2, PruneKept DEF There
<1>3. CASE Tick
  <2>1. now' \in Time /\ now <= now'
    BY <1>1, <1>3, TimeAssumption DEF Tick, Time
  <2> QED BY <1>0, <1>3, <2>1, PruneKept DEF Tick, There
<1>4. ASSUME NEW i \in Row, NEW t \in Tenant, NEW ts \in Time, NEW p \in Place,
             Insert(i, t, ts, p)
      PROVE  PruneInv'
  <2> DEFINE q == [tenant |-> t, ts |-> ts, place |-> p]
  <2>1. row' = [row EXCEPT ![i] = q] /\ UNCHANGED <<now, policy, sweep>>
    BY <1>4 DEF Insert
  <2>2. i \notin There
    BY <1>4 DEF Insert, TypeOK
  <2> HIDE DEF q
  <2>3. \A j \in There : row'[j] = row[j] /\ j \in There'
    BY <2>1, <2>2 DEF TypeOK, There
  <2> QED BY <1>0, <1>1, <2>1, <2>3, PruneKept
<1>5. ASSUME NEW s \in Script, PruneTenant(s) PROVE PruneInv'
  <2>1. PICK doomed \in SUBSET Old(script[s].tenant, script[s].days) :
          Free(SamePlace(doomed)) /\ Remove(SamePlace(doomed))
    BY <1>5 DEF PruneTenant
  <2> QED BY <1>5, <2>1, RemoveKeepsPrune DEF PruneTenant
<1>6. ASSUME NEW c \in Time, DropChunk(c) PROVE PruneInv'
  BY <1>6, RemoveKeepsPrune DEF DropChunk
<1>7. ASSUME NEW d \in Days, PruneBegin(d) PROVE PruneInv'
  BY <1>7, BeginPrune
<1>8. ASSUME NEW t \in Tenant, PrunePolicy(t) PROVE PruneInv'
  BY <1>8, PolicyPrune
<1>9. CASE PruneRows
  BY <1>9, RowsPrune
<1>10. CASE PruneCommit \/ PruneRollback
  BY <1>10 DEF PruneCommit, PruneRollback, PruneInv
<1>11. ASSUME NEW t \in Tenant, NEW d \in Policies \cup {None}, SetPolicy(t, d)
       PROVE  PruneInv'
  BY <1>11, SetPolicyPrune
<1>12. ASSUME NEW s \in Script,
              \/ Export(s) \/ ExportFails(s) \/ CountNone(s) \/ Count(s) \/ Stop(s)
              \/ \E t \in Tenant, d \in Days : Start(s, t, d)
       PROVE  PruneInv'
  <2>1. row' = row /\ now' = now /\ UNCHANGED <<policy, sweep>>
    BY <1>12 DEF Export, ExportFails, CountNone, Count, Stop, Start
  <2> QED BY <1>2, <2>1
<1>13. CASE UNCHANGED vars
  BY <1>2, <1>13 DEF vars
<1> QED BY <1>3, <1>4, <1>5, <1>6, <1>7, <1>8, <1>9, <1>10, <1>11, <1>12, <1>13
        DEF Next

(* What prune-all removes is outdated by its policy, or dragged along.      *)
LEMMA CommitLosses ==
  ASSUME TypeOK, PruneInv, PruneCommit, NEW i \in Gone
  PROVE  LET t == row[i].tenant
         IN  \/ policy[t] = None \/ t \in outdated \/ row[i].ts < now - policy[t]
             \/ Dragged(i)
<1>1. Gone = prune.gone
  BY RemoveFacts DEF PruneCommit, PruneInv
<1>2. CASE DraggedIn(i, prune.gone)
  BY <1>1, <1>2 DEF DraggedIn, Dragged
<1>3. CASE PassedOver(i)
  <2> DEFINE t == row[i].tenant
  <2>1. i \in There /\ prune # None
    BY DEF Gone, PruneCommit
  <2>2. t \in Tenant /\ row[i].ts \in Nat
    BY <2>1, TimeAssumption DEF There, TypeOK, RowState, Time
  <2>3. policy[t] = None \/ policy[t] \in Nat
    BY <2>2, TimeAssumption DEF TypeOK
  <2>4. prune.at \in Nat /\ now \in Nat /\ prune.at <= now
    BY <2>1, TimeAssumption DEF PruneInv, TypeOK, PruneState, Time
  <2>5. policy[t] = None \/ t \in outdated \/ row[i].ts < prune.at - policy[t]
    BY <1>3 DEF PassedOver
  <2> HIDE DEF t
  <2>6. policy[t] = None \/ t \in outdated \/ row[i].ts < now - policy[t]
    BY <2>2, <2>3, <2>4, <2>5
  <2> QED BY <2>6 DEF t
<1> QED BY <1>1, <1>2, <1>3 DEF PruneInv, PruneCommit

-----------------------------------------------------------------------------
(* The theorems. *)

(* The types, one row per place of a chunk, exports of one tenant: what the *)
(* tables of 001_timescale_init.sql and the script's variables hold.        *)
THEOREM TypeCorrect == Spec => []TypeOK
<1>1. IInv => TypeOK
  BY DEF IInv
<1> QED BY <1>1, InitIInv, NextIInv, PTL DEF Spec

(* The inductive invariant: runs, exports and files as the archive script   *)
(* and the inserts leave them, and what prune-all knows while it runs.      *)
THEOREM Invariance == Spec => [](IInv /\ PruneInv)
<1>1. Init => PruneInv
  BY DEF Init, PruneInv
<1>2. IInv /\ PruneInv /\ [Next]_vars => IInv' /\ PruneInv'
  BY NextIInv, NextPruneInv DEF IInv
<1> QED BY <1>1, <1>2, InitIInv, PTL DEF Spec

(* What a run of the archive script removed after it exported it is in the  *)
(* file it wrote, unless another run for the tenant began in that second.   *)
THEOREM Kept == Spec => []ArchiveKept
<1>1. IInv => ArchiveKept
  <2> SUFFICES ASSUME IInv, NEW s \in Script, ~Twin(s)
               PROVE  \A i \in script[s].gone : \E n \in Time :
                        /\ files[script[s].tenant][n] # None
                        /\ i \in files[script[s].tenant][n]
    BY DEF ArchiveKept, Twin
  <2> TAKE i \in script[s].gone
  <2>1. script[s].began \in Time
    BY DEF IInv, TypeOK, ScriptState
  <2>2. /\ files[script[s].tenant][script[s].began] # None
        /\ i \in files[script[s].tenant][script[s].began]
    BY DEF IInv, FileInv
  <2> QED BY <2>1, <2>2
<1> QED BY <1>1, InitIInv, NextIInv, PTL DEF Spec

(* What removes rows. *)
LEMMA RemovingSteps ==
  ASSUME IInv, [Next]_vars, Gone # {}
  PROVE  \/ \E s \in Script : PruneTenant(s)
         \/ PruneCommit
         \/ \E c \in Time : DropChunk(c)
<1>0. row' # row
  BY DEF Gone, There
<1>1. /\ ~Tick /\ ~PruneRows /\ ~PruneRollback /\ ~UNCHANGED vars
      /\ \A d \in Days : ~PruneBegin(d)
  BY <1>0 DEF Tick, PruneRows, PruneRollback, PruneBegin, vars
<1>2. \A s \in Script : /\ ~Export(s) /\ ~ExportFails(s) /\ ~CountNone(s)
                        /\ ~Count(s) /\ ~Stop(s)
  BY <1>0 DEF Export, ExportFails, CountNone, Count, Stop
<1>3. \A t \in Tenant : /\ \A s \in Script, d \in Days : ~Start(s, t, d)
                        /\ \A d \in Policies \cup {None} : ~SetPolicy(t, d)
                        /\ ~PrunePolicy(t)
  BY <1>0 DEF Start, SetPolicy, PrunePolicy
<1>4. ASSUME NEW i \in Row, NEW t \in Tenant, NEW ts \in Time, NEW p \in Place,
             Insert(i, t, ts, p)
      PROVE  FALSE
  <2> DEFINE q == [tenant |-> t, ts |-> ts, place |-> p]
  <2>1. q # None /\ row' = [row EXCEPT ![i] = q]
    BY <1>4, NoneAssumption DEF Insert, RowState
  <2> HIDE DEF q
  <2>2. PICK j \in Row : row[j] # None /\ row'[j] = None
    BY DEF Gone, There
  <2>3. row \in [Row -> RowState \cup {None}]
    BY DEF IInv, TypeOK
  <2>4. row'[j] = IF j = i THEN q ELSE row[j]
    BY <2>1, <2>3
  <2> QED BY <2>1, <2>2, <2>4
<1> QED BY <1>1, <1>2, <1>3, <1>4 DEF Next

(* A step of prune_telemetry_for_tenant, and the run that takes it.         *)
LEMMA PruneTenantSteps ==
  ASSUME IInv, NEW s \in Script, PruneTenant(s)
  PROVE  /\ Pruning(s)
         /\ \A r \in Script : Pruning(r) => r = s
         /\ \A i \in Gone :
              \/ row[i].tenant = script[s].tenant
                 /\ (i \notin script[s].out =>
                       i \notin script[s].seen \/ row[i].ts >= script[s].cutoff)
              \/ Dragged(i)
<1>0. TypeOK
  BY DEF IInv
<1>1. PICK doomed \in SUBSET Old(script[s].tenant, script[s].days) :
        /\ Remove(SamePlace(doomed))
        /\ script' = [script EXCEPT ![s] =
             [Ended(s) EXCEPT !.gone = SamePlace(doomed) \cap script[s].out]]
  BY DEF PruneTenant
<1>2. script[s].pc = "prune"
  BY DEF PruneTenant
<1> DEFINE lost == SamePlace(doomed) \cap script[s].out
<1>3. lost \in SUBSET Row
  BY DEF SamePlace, There
<1>4. script' = [script EXCEPT ![s] = Pruned(s, lost)]
  BY <1>1 DEF Pruned
<1> HIDE DEF lost
<1>5. Pruned(s, lost) \in ScriptState /\ Pruned(s, lost).pc = "end"
  BY <1>0, <1>3, PrunedFacts
<1>6. Pruning(s) /\ \A r \in Script \ {s} : script'[r] = script[r]
  BY <1>0, <1>2, <1>4, <1>5, OneRun DEF Pruning
<1>7. \A r \in Script : Pruning(r) => r = s
  BY <1>6 DEF Pruning
<1>8. ASSUME NEW i \in Gone, ~Dragged(i)
      PROVE  /\ row[i].tenant = script[s].tenant
             /\ i \notin script[s].out =>
                  i \notin script[s].seen \/ row[i].ts >= script[s].cutoff
  <2>1. doomed \in SUBSET There
    BY DEF Old, OldAt
  <2>2. i \in doomed
    BY <1>0, <1>1, <1>8, <2>1, DraggedAlong
  <2>3. i \in There /\ row[i].tenant = script[s].tenant
    BY <2>2 DEF Old, OldAt
  <2>4. row[i].ts \in Int /\ script[s].cutoff \in Int
    BY <1>0, <2>3 DEF TypeOK, RowState, ScriptState, There, Time
  <2>5. i \in script[s].seen /\ row[i].ts < script[s].cutoff => i \in script[s].out
    BY <1>2, <2>3 DEF IInv, ExportInv
  <2> QED BY <2>3, <2>4, <2>5
<1> QED BY <1>6, <1>7, <1>8

(* A run of the archive script removes nothing it has not exported, but for *)
(* late and just aged samples of its tenant and what has their places.      *)
THEOREM Losses == Spec => ScriptLosses
<1>1. ASSUME IInv, [Next]_vars, NEW s \in Script, Pruning(s),
             NEW i \in Gone \ script[s].out
      PROVE  \/ row[i].tenant = script[s].tenant
                /\ (i \notin script[s].seen \/ row[i].ts >= script[s].cutoff)
             \/ Dragged(i)
  <2>1. PICK r \in Script : PruneTenant(r)
    <3>1. script' # script
      BY <1>1 DEF Pruning
    <3>2. ~PruneCommit /\ (\A c \in Time : ~DropChunk(c))
      BY <3>1 DEF PruneCommit, DropChunk
    <3> QED BY <1>1, <3>2, RemovingSteps
  <2>2. r = s
    BY <1>1, <2>1, PruneTenantSteps
  <2> QED BY <1>1, <2>1, <2>2, PruneTenantSteps
<1>2. IInv /\ [Next]_vars => [\A s \in Script : Pruning(s) =>
        \A i \in Gone \ script[s].out :
          \/ row[i].tenant = script[s].tenant
             /\ (i \notin script[s].seen \/ row[i].ts >= script[s].cutoff)
          \/ Dragged(i)]_vars
  BY <1>1
<1> QED BY <1>2, InitIInv, NextIInv, PTL DEF Spec, ScriptLosses

(* prune_telemetry_all_tenants and the retention of the hypertable remove   *)
(* no sample that the policy of its tenant still keeps, but for a policy    *)
(* that changed after the loop had read it, whole old chunks and what has   *)
(* the place of another sample that goes.                                   *)
THEOREM PoliciesKept == Spec => PolicyKept
<1>1. ASSUME IInv, PruneInv, [Next]_vars, NEW i \in Gone, ~Dragged(i),
             \A s \in Script : ~Pruning(s), policy[row[i].tenant] # None,
             row[i].tenant \notin outdated
      PROVE  \/ row[i].ts < now - policy[row[i].tenant]
             \/ (Chunk(i) + 1) * Span <= now - Longest
  <2>0. TypeOK
    BY <1>1 DEF IInv
  <2>1. \A s \in Script : ~PruneTenant(s)
    BY <1>1, PruneTenantSteps
  <2>2. CASE PruneCommit
    BY <1>1, <2>0, <2>2, CommitLosses
  <2>3. ASSUME NEW c \in Time, DropChunk(c)
        PROVE  (Chunk(i) + 1) * Span <= now - Longest
    <3>1. Chunk(i) = c /\ (c + 1) * Span <= now - Longest
      BY <1>1, <2>0, <2>3, RemoveFacts DEF DropChunk
    <3> QED BY <3>1
  <2> QED BY <1>1, <2>1, <2>2, <2>3, RemovingSteps
<1>2. IInv /\ PruneInv /\ [Next]_vars => [\A i \in Gone :
        LET t == row[i].tenant
        IN  \/ policy[t] = None
            \/ \E s \in Script : Pruning(s)
            \/ row[i].ts < now - policy[t]
            \/ t \in outdated
            \/ (Chunk(i) + 1) * Span <= now - Longest
            \/ Dragged(i)]_vars
  BY <1>1
<1> QED BY <1>2, Invariance, PTL DEF Spec, PolicyKept

=============================================================================
