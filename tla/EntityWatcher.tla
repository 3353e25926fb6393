---------------------------- MODULE EntityWatcher ----------------------------
(***************************************************************************)
(* The watcher of the Telegram bot (monitoring/telegram_bot/bot.py) over   *)
(* the table users, beside the registrations that fill it                  *)
(* (Registration), with TELEGRAM_WATCH_NOTIFY_EVENTS=true.  It counts the  *)
(* rows, and when they have become more it fetches those younger than the  *)
(* youngest of the last count.  created_at is the time at which the        *)
(* transaction began, before it waited for the lock of the registrations.  *)
(* A fetch is limited, and a message lists the oldest of the rows only.    *)
(***************************************************************************)
EXTENDS Registration, Naturals, FiniteSets

CONSTANTS
  MaxTime,   \* bound on the clock
  Fetched,   \* 20: LIMIT of get_new_users
  Listed     \* 5: rows[:5]

(* A transaction is younger than the users there before the first of them.  *)
ASSUME WatchAssumption == MaxTime \in Nat \ {0} /\ IsFiniteSet(Email)
ASSUME ListAssumption == Listed \in Nat /\ Fetched \in Nat /\ Listed <= Fetched

VARIABLES
  now,     \* the clock of PostgreSQL; it advances with each BEGIN
  begun,   \* begun[r]: NOW() in the transaction of r
  stamp,   \* users: created_at[e]
  wpc,     \* the call the watcher makes next
  known,   \* state: the rows of the last count that was dealt with, and their
           \* youngest created_at; None: a new process
  counted, \* cur_state
  rows,    \* the rows fetched
  told,    \* users listed in a message to the chat (history)
  unlisted,\* users a message was about that listed Listed others (history)
  first,   \* users there at the first count of this process (history)
  late     \* users whose transaction ended after one not older (history)

wvars == <<wpc, known, counted, rows, told, unlisted, first>>
clock == <<now, begun, stamp, late>>
allvars == <<vars, clock, wvars>>

Users == {e \in Email : Registered(e)}

(* get_counters; of the users only their number is compared. *)
Count == [users: SUBSET Email, max: 0..MaxTime]
NoCount == [users |-> {}, max |-> 0]

Counters(c) ==
  /\ c.users = Users
  /\ \A e \in Users : stamp[e] <= c.max
  /\ c.max = 0 \/ \E e \in Users : stamp[e] = c.max

WTypeOK ==
  /\ now \in 0..MaxTime
  /\ begun \in [Request -> 0..MaxTime] /\ stamp \in [Email -> 0..MaxTime]
  /\ wpc \in {"idle", "fetch", "send"}
  /\ known \in Count \cup {None} /\ counted \in Count
  /\ rows \subseteq Email /\ told \subseteq Email /\ unlisted \subseteq Email
  /\ first \subseteq Email /\ late \subseteq Email

WInit ==
  /\ Init
  /\ now = 0
  /\ begun = [r \in Request |-> 0] /\ stamp = [e \in Email |-> 0]
  /\ wpc = "idle" /\ known = None /\ counted = NoCount
  /\ rows = {} /\ told = {} /\ unlisted = {} /\ first = {} /\ late = {}

(* The transaction of r takes its time when it begins, and its row has it; *)
(* at its bound the clock stands still, and transactions are of one time.  *)
BeginAt(r, e) ==
  /\ Begin(r, e)
  /\ now' = IF now < MaxTime THEN now + 1 ELSE now
  /\ begun' = [begun EXCEPT ![r] = now']
  /\ UNCHANGED <<stamp, late, wvars>>

(* The time goes with the transaction. *)
ForgetTimes ==
  begun' = [r \in Request |->
              IF reg'[r].pc \in {"idle", "reply"} THEN 0 ELSE begun[r]]

CommitAt(r) ==
  /\ Commit(r) \/ CommitUnconfirmed(r)
  /\ stamp' = [stamp EXCEPT ![reg[r].email] = begun[r]]
  /\ late' = IF \E e \in Users : begun[r] <= stamp[e]
             THEN late \cup {reg[r].email} ELSE late
  /\ ForgetTimes
  /\ UNCHANGED <<now, wvars>>

Register ==
  \/ \E r \in Request, e \in Email : BeginAt(r, e)
  \/ \E r \in Request : CommitAt(r)
  \/ /\ \/ \E r \in Request : \/ TakeLock(r) \/ CheckEmail(r) \/ CountUsers(r)
                              \/ InsertUser(r) \/ Reply(r) \/ Fail(r)
        \/ \E r \in Request, t \in Tenant : InsertTenant(r, t)
        \/ Crash
        \/ \E e \in Email : PromoteSuperAdmin(e)
     /\ ForgetTimes
     /\ UNCHANGED <<now, stamp, late, wvars>>

-----------------------------------------------------------------------------
(* watch_new_entities *)

(* state.update(cur_state) *)
Remember(c) == wpc' = "idle" /\ known' = c /\ counted' = NoCount /\ rows' = {}

(* The first count of a process is only remembered, and so is one that     *)
(* finds no more users than before.                                        *)
Poll ==
  /\ wpc = "idle"
  /\ \E m \in 0..MaxTime :
       LET c == [users |-> Users, max |-> m]
       IN  /\ Counters(c)
           /\ IF known = None \/ Cardinality(Users) <= Cardinality(known.users)
              THEN Remember(c)
              ELSE wpc' = "fetch" /\ counted' = c /\ UNCHANGED <<known, rows>>
  /\ first' = IF known = None THEN Users ELSE first
  /\ UNCHANGED <<vars, clock, told, unlisted>>

(* The n oldest of the users us; which ones, where times are equal, is open. *)
Oldest(n, us) ==
  {s \in SUBSET us : /\ Cardinality(s) <= n
                     /\ s # us => Cardinality(s) = n
                     /\ \A e \in s, f \in us \ s : stamp[e] <= stamp[f]}

Younger == {e \in Users : stamp[e] > known.max}

(* get_new_users, in a second transaction: ORDER BY created_at LIMIT 20 *)
Fetch ==
  /\ wpc = "fetch"
  /\ rows' \in Oldest(Fetched, Younger)
  /\ wpc' = "send"
  /\ UNCHANGED <<vars, clock, known, counted, told, unlisted, first>>

(* send_message: five rows are listed, the others are a number in it; what  *)
(* Telegram answers is not looked at.                                       *)
Message ==
  \E s \in Oldest(Listed, rows) :
    /\ told' = told \cup s
    /\ unlisted' = IF Cardinality(s) = Listed
                   THEN unlisted \cup ((counted.users \cap Younger) \ s)
                   ELSE unlisted

(* The message, then state.update *)
Send ==
  /\ wpc = "send"
  /\ Message
  /\ Remember(counted)
  /\ UNCHANGED <<vars, clock, first>>

(* Mutant of Raise: the count is remembered all the same (finally). *)
RaiseForgets ==
  /\ wpc # "idle"
  /\ Remember(counted)
  /\ UNCHANGED <<vars, clock, told, unlisted, first>>

(* An exception of either call, perhaps after the message has gone, leaves  *)
(* the state as it was.                                                     *)
Raise ==
  /\ wpc # "idle"
  /\ \/ UNCHANGED <<told, unlisted>>
     \/ wpc = "send" /\ Message
  /\ wpc' = "idle" /\ counted' = NoCount /\ rows' = {}
  /\ UNCHANGED <<vars, clock, known, first>>

Restart ==
  /\ wpc' = "idle" /\ known' = None /\ rows' = {} /\ counted' = NoCount
  /\ first' = {}
  /\ UNCHANGED <<vars, clock, told, unlisted>>

WNext == Register \/ Poll \/ Fetch \/ Send \/ Raise \/ Restart

(* The registrations are scheduled as they are alone; nothing is assumed of *)
(* the watcher.                                                            *)
WSpec == WInit /\ [][WNext]_allvars /\ Fairness

-----------------------------------------------------------------------------
(* A user the bot has counted was listed in a message or was there when the *)
(* process began to count.  Two kinds of users are passed over: those whose *)
(* message was full, that is, listed as many others (bot.py:218,294), and   *)
(* those overtaken by a younger transaction, which the fetch by created_at  *)
(* does not find.  Both are in the number of new users the message begins   *)
(* with.                                                                    *)
CountedWereTold ==
  known # None => known.users \subseteq first \cup told \cup unlisted \cup late

(* What makes CountedWereTold inductive: the users that a count c did not   *)
(* find are younger than all it found, or late, so that the next fetch      *)
(* finds them.                                                              *)
CountStands(c) ==
  /\ c.users \subseteq Users
  /\ c.max = 0 \/ \E e \in c.users : stamp[e] = c.max
  /\ \A e \in Users \ c.users : stamp[e] > c.max \/ e \in late

(* A transaction under way has the time of its BEGIN.                       *)
InTime == \A r \in Request : reg[r].pc \notin {"idle", "reply"} => begun[r] > 0

WatchIInv ==
  /\ WTypeOK /\ CountedWereTold
  /\ InTime
  /\ known # None => CountStands(known)
  /\ wpc # "idle" => known # None /\ CountStands(counted)
  /\ wpc = "send" =>
       /\ rows \subseteq Younger
       /\ \A e \in counted.users
                 \ (first \cup told \cup unlisted \cup late \cup rows) :
            e \in Younger /\ Cardinality(rows) = Fetched

=============================================================================
