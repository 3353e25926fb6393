----------------------------- MODULE WebhookKeys -----------------------------
(***************************************************************************)
(* What the API promises about the key of the webhook, with no loop, cache *)
(* or calls in sight.  At most one key is valid; a key that is valid may   *)
(* come to be honoured without another look at the table, and is then for  *)
(* some time, also when it has been replaced.  A key that is neither valid *)
(* nor honoured opens nothing, and a replaced one that lapses is not       *)
(* honoured again.  WebhookAccess implements this specification.           *)
(***************************************************************************)

CONSTANTS
  Key,   \* values the webhook key may have
  NoKey

VARIABLES
  valid,     \* the key in api_keys, or NoKey
  honoured   \* keys that are accepted without a look at the table

vars == <<valid, honoured>>

Init == valid = NoKey /\ honoured = {}

(* The key is set, or replaced; it is never taken away. *)
Replace(k) == valid' = k /\ UNCHANGED honoured

(* The valid key comes to be honoured. *)
Admit ==
  /\ valid # NoKey
  /\ honoured' = honoured \cup {valid}
  /\ UNCHANGED valid

(* Keys lapse. *)
Lapse ==
  /\ honoured' \in SUBSET honoured
  /\ UNCHANGED valid

Next == (\E k \in Key : Replace(k)) \/ Admit \/ Lapse

Spec == Init /\ [][Next]_vars

=============================================================================
