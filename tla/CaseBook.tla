------------------------------ MODULE CaseBook ------------------------------
(***************************************************************************)
(* What a dfirlab case promises: one init makes it, at most, and shows and *)
(* analyses are let in only when it is there; the book names a command     *)
(* that is complete, at its end and once; and the list of actions shows    *)
(* what is in the book.  Imports and verifies are let in anywhere: one     *)
(* that comes first makes a bare directory, and bars every init.           *)
(***************************************************************************)
EXTENDS Naturals, Sequences

CONSTANTS
  Users,           \* processes, each with one command
  Requests         \* the commands they may give

VARIABLES
  asked,           \* the command of each
  stage,           \* how far it is
  state,           \* "none", "half" made by an init at work, "open", or "bare":
                   \* a directory that is no case and cannot become one
  found,           \* findings of each so far
  book,            \* the commands in the log, in the order in which they came
  shown,           \* those in the list of actions
  damaged          \* the book may have lost entries

vars == <<asked, stage, state, found, book, shown, damaged>>

Init ==
  /\ asked \in [Users -> Requests]
  /\ stage = [p \in Users |-> "new"]
  /\ state = "none"
  /\ found = [p \in Users |-> 0]
  /\ book = <<>>
  /\ shown = {}
  /\ damaged = FALSE

Move(p, from, to) ==
  /\ stage[p] = from
  /\ stage' = [stage EXCEPT ![p] = to]
  /\ UNCHANGED asked

Makes(p) == asked[p].cmd = "init"
Loads(p) == asked[p].cmd \in {"show", "analyse"}
NeedsNoCase(p) == asked[p].cmd \in {"import", "verify"}
InBook(p) == \E i \in 1..Len(book) : book[i] = p

Make(p) ==
  /\ Makes(p)
  /\ Move(p, "new", "working")
  /\ state = "none" /\ state' = "half"
  /\ UNCHANGED <<found, book, shown, damaged>>

Open(p) ==
  /\ Makes(p)
  /\ Move(p, "working", "ready")
  /\ state = "half" /\ state' = "open"
  /\ UNCHANGED <<found, book, shown, damaged>>

LetIn(p) ==
  /\ Loads(p)
  /\ state = "open"
  /\ Move(p, "new", IF asked[p].cmd = "show" THEN "ready" ELSE "working")
  /\ UNCHANGED <<state, found, book, shown, damaged>>

ComeIn(p) ==
  /\ NeedsNoCase(p)
  /\ Move(p, "new", "working")
  /\ state' = IF state = "none" THEN "bare" ELSE state
  /\ UNCHANGED <<found, book, shown, damaged>>

Refuse(p) ==
  /\ \/ Makes(p) /\ state # "none"
     \/ Loads(p) /\ state # "open"
  /\ Move(p, "new", "refused")
  /\ UNCHANGED <<state, found, book, shown, damaged>>

Find(p) ==
  /\ asked[p].cmd = "analyse"
  /\ stage[p] = "working"
  /\ found[p] < asked[p].findings
  /\ found' = [found EXCEPT ![p] = @ + 1]
  /\ UNCHANGED <<asked, stage, state, book, shown, damaged>>

Finish(p) ==
  /\ \/ asked[p].cmd = "analyse" /\ found[p] = asked[p].findings
     \/ NeedsNoCase(p)
  /\ Move(p, "working", "ready")
  /\ UNCHANGED <<state, found, book, shown, damaged>>

Enter(p) ==
  /\ ~InBook(p)
  /\ Move(p, "ready", IF Makes(p) THEN "over" ELSE "ready")
  /\ book' = Append(book, p)
  /\ UNCHANGED <<state, found, shown, damaged>>

Show(p) ==
  /\ InBook(p) \/ damaged
  /\ Move(p, "ready", IF asked[p].cmd = "show" THEN "ready" ELSE "over")
  /\ shown' = shown \cup {p}
  /\ UNCHANGED <<state, found, book, damaged>>

\* A command ends, or dies; half a case is none.
Stop(p) ==
  /\ \E from \in {"working", "ready"} : Move(p, from, "over")
  /\ state' = IF Makes(p) /\ stage[p] = "working" THEN "bare" ELSE state
  /\ damaged' \in {damaged, TRUE}
  /\ UNCHANGED <<found, book, shown>>

Damage ==
  /\ damaged' = TRUE
  /\ UNCHANGED <<asked, stage, state, found, book, shown>>

\* Everybody dies; the end of the book and the case may be gone.
LosePower(k) ==
  /\ stage' = [p \in Users |-> IF stage[p] \in {"working", "ready"} THEN "over" ELSE stage[p]]
  /\ state' \in (IF state = "none" THEN {"none"}
                 ELSE IF state = "open" THEN {"open", "bare"} ELSE {"bare"})
  /\ book' = SubSeq(book, 1, k)
  /\ damaged' = TRUE
  /\ UNCHANGED <<asked, found, shown>>

Next ==
  \/ \E p \in Users :
       \/ Make(p) \/ Open(p) \/ LetIn(p) \/ ComeIn(p) \/ Refuse(p) \/ Find(p)
       \/ Finish(p) \/ Enter(p) \/ Show(p) \/ Stop(p)
  \/ Damage
  \/ \E k \in 0..Len(book) : LosePower(k)

Spec == Init /\ [][Next]_vars
=============================================================================
