----------------------------- MODULE MCAccounts -----------------------------
(* Instance of Accounts for TLC: an admin, a colleague, and what they and   *)
(* the processes of the API may ask for.                                    *)
EXTENDS Accounts, TLC

CONSTANTS ann, bob, v1, v2

Person(role, is_active) == [role |-> role, is_active |-> is_active, by |-> None]

\* A new database, an admin alone, an admin with an analyst, two admins.
SomeTables ==
  {[n \in Names |-> NoUser],
   [n \in Names |-> IF n = ann THEN Person("admin", "yes") ELSE NoUser],
   [n \in Names |-> IF n = ann THEN Person("admin", "yes") ELSE Person("analyst", "no")],
   [n \in Names |-> Person("admin", "yes")]}

Say(role, is_active) == [role |-> role, is_active |-> is_active]

Patch(actor, name, body) ==
  [cmd |-> "update_user", actor |-> actor, name |-> name, body |-> body]

SetTo(actor, values) == [cmd |-> "settings", actor |-> actor, values |-> values]

SomeRequests ==
  {[cmd |-> "bootstrap", name |-> ann], [cmd |-> "bootstrap", name |-> bob],
   [cmd |-> "startup", name |-> ann],
   [cmd |-> "token", name |-> ann, password |-> "right"],
   [cmd |-> "token", name |-> bob, password |-> "wrong"],
   [cmd |-> "logout", actor |-> bob],
   [cmd |-> "ack", values |-> [k \in {Ack} |-> v1]],
   [cmd |-> "create_user", actor |-> ann, name |-> bob, body |-> Say("admin", "yes")],
   [cmd |-> "create_user", actor |-> ann, name |-> bob, body |-> Say("viewer", "yes")],
   [cmd |-> "reset_password", actor |-> bob, name |-> ann, body |-> Say(None, None)],
   Patch(ann, ann, Say("analyst", None)), Patch(ann, bob, Say(None, "yes")),
   Patch(ann, bob, Say("admin", "no")), Patch(bob, ann, Say(None, "no")),
   Patch(bob, ann, Say("admin", "yes")), Patch(bob, bob, Say("viewer", None)),
   SetTo(ann, [k \in ALLOWED_SETTINGS |-> v1]),
   SetTo(bob, [k \in ALLOWED_SETTINGS |-> v2]),
   SetTo(ann, [k \in {"max_upload_bytes"} |-> v2]),
   SetTo(ann, [k \in {"max_artifact_preview_bytes"} |-> v2]),
   SetTo(bob, [k \in {Ack} |-> v2])}

Symmetry == Permutations(Reqs)
=============================================================================
