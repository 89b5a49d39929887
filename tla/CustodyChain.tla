---------------------------- MODULE CustodyChain ----------------------------
(***************************************************************************)
(* What a chain-of-custody log promises: one linear history of events,     *)
(* extended one whole event at a time at its end.  The medium may become   *)
(* unreadable, and a power loss may take events from its end, never from   *)
(* its middle.                                                             *)
(***************************************************************************)
EXTENDS Sequences, Naturals

CONSTANT Bodies    \* the events that can be logged

VARIABLES
  chain,           \* the history of events
  readable         \* FALSE once the log can no longer be parsed

vars == <<chain, readable>>

Init ==
  /\ chain = <<>>
  /\ readable = TRUE

\* One event is appended to a log that can be read.
AppendEvent(b) ==
  /\ readable
  /\ chain' = Append(chain, b)
  /\ UNCHANGED readable

\* The log stops being parseable.
Damage ==
  /\ readable' = FALSE
  /\ UNCHANGED chain

\* A power loss keeps the first k events.
LoseTail(k) ==
  /\ chain' = SubSeq(chain, 1, k)
  /\ readable' \in BOOLEAN

Next ==
  \/ \E b \in Bodies : AppendEvent(b)
  \/ Damage
  \/ \E k \in 0..Len(chain) : LoseTail(k)

Spec == Init /\ [][Next]_vars
=============================================================================
