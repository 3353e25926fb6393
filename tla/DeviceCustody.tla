---------------------------- MODULE DeviceCustody ----------------------------
(***************************************************************************)
(* What the device API promises its callers, with no requests, locks or    *)
(* cache in sight.  A device is in the custody of at most one user at a    *)
(* time; custody starts with a secret nobody was ever given custody under, *)
(* it ends only by a release, and each secret is given out at most once    *)
(* unless it slipped back.  DeviceLifecycle implements this specification. *)
(***************************************************************************)
EXTENDS Naturals

CONSTANTS
  Device,   \* device_id values
  User,     \* user_id values of users with a tenant
  Secret,   \* device secrets that can ever be generated
  None      \* the absent value

VARIABLES
  holder,   \* holder[d]: the user that has custody of d, or None
  key,      \* key[d]: the secret d authenticates with, or None
  keyOf,    \* keyOf[s]: the device s was made for, or None
  given,    \* given[s]: how often s was given out in a response
  slipped   \* secrets that were put back after they had been taken

vars == <<holder, key, keyOf, given, slipped>>

Init ==
  /\ holder = [d \in Device |-> None]
  /\ key = [d \in Device |-> None]
  /\ keyOf = [s \in Secret |-> None]
  /\ given = [s \in Secret |-> 0]
  /\ slipped = {}

(* A user takes custody of a free device under a fresh secret; the response *)
(* of a direct provisioning gives the secret out in the same step.          *)
Assign(d, u, s) ==
  /\ holder[d] = None
  /\ keyOf[s] = None
  /\ holder' = [holder EXCEPT ![d] = u]
  /\ key' = [key EXCEPT ![d] = s]
  /\ keyOf' = [keyOf EXCEPT ![s] = d]
  /\ given[s] = 0
  /\ \/ given' = given
     \/ given' = [given EXCEPT ![s] = 1]
  /\ UNCHANGED slipped

(* Custody ends. *)
Release(d) ==
  /\ holder[d] # None
  /\ holder' = [holder EXCEPT ![d] = None]
  /\ key' = [key EXCEPT ![d] = None]
  /\ UNCHANGED <<keyOf, given, slipped>>

(* A secret made for some device is given out: for the only time, unless it *)
(* slipped back.                                                            *)
Give(s) ==
  /\ keyOf[s] # None
  /\ given[s] = 0 \/ s \in slipped
  /\ given' = [given EXCEPT ![s] = @ + 1]
  /\ UNCHANGED <<holder, key, keyOf, slipped>>

(* A secret slips back to where it can be taken again. *)
Slip(s) ==
  /\ keyOf[s] # None
  /\ slipped' = slipped \cup {s}
  /\ UNCHANGED <<holder, key, keyOf, given>>

Next ==
  \/ \E d \in Device, u \in User, s \in Secret : Assign(d, u, s)
  \/ \E d \in Device : Release(d)
  \/ \E s \in Secret : Give(s) \/ Slip(s)

Spec == Init /\ [][Next]_vars

=============================================================================
