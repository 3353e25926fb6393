------------------------------- MODULE ConnPool -------------------------------
(***************************************************************************)
(* The pool of PostgreSQL connections (pgxpool, go-api/database) as the    *)
(* requests use it.  GET devices runs inside the transaction of the tenant *)
(* middleware (go-api/middleware/tenant.go) and its handler (ListDevices)  *)
(* queries the pool again: it holds one connection while it waits for a    *)
(* second one.  Every other request holds one connection at a time.        *)
(***************************************************************************)
EXTENDS Naturals, FiniteSets

CONSTANTS
  Lister,   \* goroutines serving GET devices
  Other,    \* goroutines serving other requests
  PoolSize  \* MaxConns of the pool

ASSUME PoolAssumption == PoolSize \in Nat \ {0}
ASSUME PoolRequestAssumption ==
  IsFiniteSet(Lister) /\ IsFiniteSet(Other) /\ Lister \cap Other = {}

VARIABLES
  pc,    \* pc[r]: where the request is
  free   \* connections the pool can hand out or open

poolVars == <<pc, free>>

(* begin, wait: waits for the first connection; query: holds one, waits for *)
(* another; rows: holds two; commit, work: holds one, waits for none.       *)
ListerPc == {"idle", "begin", "query", "rows", "commit"}
OtherPc == {"idle", "wait", "work"}

PoolInit ==
  /\ pc = [r \in Lister \cup Other |-> "idle"]
  /\ free = PoolSize

Goto(r, l) == pc' = [pc EXCEPT ![r] = l]

(* SetContext is reached with a valid token. *)
ListArrive(r) ==
  /\ pc[r] = "idle"
  /\ Goto(r, "begin")
  /\ UNCHANGED free

(* DB.Begin; then RequirePermission lets the request on or answers 403. *)
ListBegin(r) ==
  /\ pc[r] = "begin"
  /\ free > 0
  /\ free' = free - 1
  /\ Goto(r, "query") \/ Goto(r, "commit")

(* The client goes away: DB.Begin has the context of the request. *)
ListCancel(r) ==
  /\ pc[r] = "begin"
  /\ Goto(r, "idle")
  /\ UNCHANGED free

(* h.DB.Query with context.Background(): it cannot be cancelled.  It fails  *)
(* only once the pool has a connection for it, and gives that one back.     *)
ListQuery(r) ==
  /\ pc[r] = "query"
  /\ free > 0
  /\ \/ free' = free - 1 /\ Goto(r, "rows")
     \/ free' = free /\ Goto(r, "commit")

(* The handler returns: rows.Close. *)
ListClose(r) ==
  /\ pc[r] = "rows"
  /\ free' = free + 1
  /\ Goto(r, "commit")

(* Mutant of ListCommit: the transaction is left open on an error path. *)
ListCommitForgotten(r) ==
  /\ pc[r] = "commit"
  /\ free' = free + 1 \/ free' = free
  /\ Goto(r, "idle")

(* tx.Commit, or the deferred Rollback: the connection goes back. *)
ListCommit(r) ==
  /\ pc[r] = "commit"
  /\ free' = free + 1
  /\ Goto(r, "idle")

OtherArrive(r) ==
  /\ pc[r] = "idle"
  /\ Goto(r, "wait")
  /\ UNCHANGED free

OtherAcquire(r) ==
  /\ pc[r] = "wait"
  /\ free > 0
  /\ free' = free - 1
  /\ Goto(r, "work")

OtherRelease(r) ==
  /\ pc[r] = "work"
  /\ free' = free + 1
  /\ Goto(r, "idle")

PoolNext ==
  \/ \E r \in Lister : ListArrive(r)
  \/ \E r \in Lister : ListBegin(r)
  \/ \E r \in Lister : ListCancel(r)
  \/ \E r \in Lister : ListQuery(r)
  \/ \E r \in Lister : ListClose(r)
  \/ \E r \in Lister : ListCommit(r)
  \/ \E r \in Other : OtherArrive(r)
  \/ \E r \in Other : OtherAcquire(r)
  \/ \E r \in Other : OtherRelease(r)

PoolSpec == PoolInit /\ [][PoolNext]_poolVars

(* Statements return, and the pool serves its waiters in turn. *)
Fairness ==
  /\ \A r \in Lister :
       /\ SF_poolVars(ListBegin(r))
       /\ SF_poolVars(ListQuery(r))
       /\ WF_poolVars(ListClose(r))
       /\ WF_poolVars(ListCommit(r))
  /\ \A r \in Other : SF_poolVars(OtherAcquire(r)) /\ WF_poolVars(OtherRelease(r))

LiveSpec == PoolSpec /\ Fairness

-----------------------------------------------------------------------------
(* Properties *)

At(l) == {r \in Lister \cup Other : pc[r] = l}

PoolTypeOK ==
  /\ pc \in [Lister \cup Other -> ListerPc \cup OtherPc]
  /\ \A r \in Lister : pc[r] \in ListerPc
  /\ \A r \in Other : pc[r] \in OtherPc
  /\ free \in 0..PoolSize

(* No path loses a connection or returns one twice. *)
Conserved ==
  free + Cardinality(At("query")) + Cardinality(At("commit"))
       + 2 * Cardinality(At("rows")) + Cardinality(At("work")) = PoolSize

(* Every connection is held by a listing that waits for another one         *)
(* (go-api/middleware/tenant.go:29).  Nobody can give one back any more.    *)
Stuck == Cardinality(At("query")) = PoolSize

(* That is the only way the pool is used up by requests that all wait for   *)
(* it: it takes as many concurrent GET devices as there are connections,    *)
(* and no other request has a part in it.                                   *)
NeverAllWaiting ==
  \/ free > 0
  \/ At("rows") \cup At("commit") \cup At("work") # {}
  \/ Stuck

(* GET devices is answered, and so are the requests that share the pool     *)
(* with it, unless the pool gets stuck: "Returns all devices belonging to   *)
(* the authenticated user's tenant" (docs/openapi.yaml:426) does not hold   *)
(* of the listings that are concurrent then.                                *)
AllAnswered ==
  \A r \in Lister \cup Other : pc[r] # "idle" ~> pc[r] = "idle" \/ Stuck

=============================================================================
