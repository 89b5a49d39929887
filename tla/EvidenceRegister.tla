-------------------------- MODULE EvidenceRegister --------------------------
(***************************************************************************)
(* What an ingest promises: evidence is in custody from one moment on, as  *)
(* it was when it was looked at, at the end of one history, and for good;  *)
(* and a client who gets an answer is told whether it is.                  *)
(***************************************************************************)
EXTENDS Sequences

CONSTANTS
  Items,           \* pieces of evidence, one for each request
  Contents,        \* what they can contain
  Nothing          \* no contents

VARIABLES
  seen,            \* the contents each was looked at with
  held,            \* the contents that are kept of it
  history,         \* the items in custody, in the order in which they came
  answer           \* what the client of each was told

vars == <<seen, held, history, answer>>

Init ==
  /\ seen = [i \in Items |-> Nothing]
  /\ held = [i \in Items |-> Nothing]
  /\ history = <<>>
  /\ answer = [i \in Items |-> "none"]

LookAt(i, c) ==
  /\ seen[i] = Nothing /\ c # Nothing
  /\ answer[i] = "none"
  /\ seen' = [seen EXCEPT ![i] = c]
  /\ UNCHANGED <<held, history, answer>>

TakeIn(i) ==
  /\ seen[i] # Nothing /\ held[i] = Nothing
  /\ answer[i] = "none"
  /\ held' = [held EXCEPT ![i] = seen[i]]
  /\ history' = Append(history, i)
  /\ UNCHANGED <<seen, answer>>

Tell(i) ==
  /\ answer[i] = "none"
  /\ answer' = [answer EXCEPT ![i] = IF held[i] = Nothing THEN "refused" ELSE "taken"]
  /\ UNCHANGED <<seen, held, history>>

Next ==
  \E i \in Items : (\E c \in Contents : LookAt(i, c)) \/ TakeIn(i) \/ Tell(i)

Spec == Init /\ [][Next]_vars
=============================================================================
