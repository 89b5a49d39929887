----------------------------- MODULE CustodyFile -----------------------------
(***************************************************************************)
(* vault/<case_id>/chain_of_custody.log and the functions of               *)
(* core/custody.py that read and extend it.                                *)
(*                                                                         *)
(* append_entry reads the whole file to find the last hash (line 129) and  *)
(* only later opens it again to append one line (141-142); nothing locks   *)
(* the file between the two, and its callers are API threads, worker       *)
(* processes and modules.  An append is therefore two steps here, and      *)
(* steps of different writers interleave.                                  *)
(*                                                                         *)
(* A SHA-256 value is represented by what it commits to: the sequence of   *)
(* bodies hashed into it, from GENESIS_HASH on.  A line that does not      *)
(* parse makes iter_entries raise, and nothing after it is ever read, so   *)
(* the file is its readable entries and a flag for a bad line after them.  *)
(***************************************************************************)
EXTENDS Naturals, Sequences, FiniteSets

CONSTANTS
  Writers,         \* threads and processes that call append_entry
  Bodies,          \* ts, actor, action and details of an entry
  MaxEntries       \* bound on the length of the file

ASSUME MaxEntriesAssumption == MaxEntries \in Nat \ {0}

VARIABLES
  log,             \* the readable entries of the file
  torn,            \* a line that does not parse follows them
  appending,       \* writers between lines 129 and 142
  tail,            \* prev_hash of such a writer
  overlapped       \* history: two appends have been in flight at once

vars == <<log, torn, appending, tail, overlapped>>

GENESIS_HASH == <<>>
Hashes == Seq(Bodies)
CustodyEntry == [body : Bodies, prev_hash : Hashes, entry_hash : Hashes]

TypeOK ==
  /\ log \in Seq(CustodyEntry)
  /\ Len(log) <= MaxEntries
  /\ torn \in BOOLEAN
  /\ appending \subseteq Writers
  /\ tail \in [Writers -> Hashes]
  /\ \A w \in Writers \ appending : tail[w] = GENESIS_HASH
  /\ overlapped \in BOOLEAN

Init ==
  /\ log = <<>>
  /\ torn = FALSE
  /\ appending = {}
  /\ tail = [w \in Writers |-> GENESIS_HASH]
  /\ overlapped = FALSE

-----------------------------------------------------------------------------
\* compute_entry_hash: collision free over the body and prev_hash.
compute_entry_hash(body, prev_hash) == Append(prev_hash, body)

\* last_entry_hash(log_path) or GENESIS_HASH, on a file that parses.
last_entry_hash(entries) ==
  IF entries = <<>> THEN GENESIS_HASH ELSE entries[Len(entries)].entry_hash

\* Mutant: the hash does not cover prev_hash.
NewEntry_Unlinked(body, prev_hash) ==
  [body |-> body,
   prev_hash |-> prev_hash,
   entry_hash |-> compute_entry_hash(body, GENESIS_HASH)]

NewEntry(body, prev_hash) ==
  [body |-> body,
   prev_hash |-> prev_hash,
   entry_hash |-> compute_entry_hash(body, prev_hash)]

\* verify_chain: the link and the hash of every entry.
verify_chain(entries) ==
  \A i \in 1..Len(entries) :
    /\ entries[i].prev_hash = last_entry_hash(SubSeq(entries, 1, i - 1))
    /\ entries[i].entry_hash =
         compute_entry_hash(entries[i].body, entries[i].prev_hash)

-----------------------------------------------------------------------------
\* append_entry returns or raises: its local variables are gone.
EndAppend(w) ==
  /\ appending' = appending \ {w}
  /\ tail' = [tail EXCEPT ![w] = GENESIS_HASH]

\* Mutant: the last line is not read.
ReadTail_OffByOne(w) ==
  /\ w \notin appending
  /\ ~torn
  /\ appending' = appending \cup {w}
  /\ tail' = [tail EXCEPT ![w] = last_entry_hash(SubSeq(log, 1, Len(log) - 1))]
  /\ overlapped' = (overlapped \/ appending # {})
  /\ UNCHANGED <<log, torn>>

\* Line 129.  On a file that does not parse json.loads raises and append_entry
\* changes nothing.
ReadTail(w) ==
  /\ w \notin appending
  /\ ~torn
  /\ appending' = appending \cup {w}
  /\ tail' = [tail EXCEPT ![w] = last_entry_hash(log)]
  /\ overlapped' = (overlapped \/ appending # {})
  /\ UNCHANGED <<log, torn>>

\* Mutant: the file is opened with mode "w".
WriteEntry_Truncates(w, b) ==
  /\ w \in appending
  /\ log' = IF torn THEN log ELSE <<NewEntry(b, tail[w])>>
  /\ EndAppend(w)
  /\ UNCHANGED <<torn, overlapped>>

\* Lines 131-142.  A line written behind a bad one is never read again.
WriteEntry(w, b) ==
  /\ w \in appending
  /\ Len(log) < MaxEntries
  /\ log' = IF torn THEN log ELSE Append(log, NewEntry(b, tail[w]))
  /\ EndAppend(w)
  /\ UNCHANGED <<torn, overlapped>>

\* The append fails before a byte is written: open raises, the process dies.
AbandonAppend(w) ==
  /\ w \in appending
  /\ EndAppend(w)
  /\ UNCHANGED <<log, torn, overlapped>>

\* The disk fills up in the write: part of a line stays at the end of the file.
TearLine(w) ==
  /\ w \in appending
  /\ torn' = TRUE
  /\ EndAppend(w)
  /\ UNCHANGED <<log, overlapped>>

\* Every process stops.  Nothing was ever fsynced: a prefix of the file is left,
\* perhaps with part of the next line.
PowerLoss(k) ==
  /\ log' = SubSeq(log, 1, k)
  /\ torn' \in (IF k < Len(log) \/ torn \/ appending # {}
                THEN BOOLEAN ELSE {FALSE})
  /\ appending' = {}
  /\ tail' = [w \in Writers |-> GENESIS_HASH]
  /\ UNCHANGED overlapped

Next ==
  \/ \E w \in Writers : ReadTail(w)
  \/ \E w \in Writers, b \in Bodies : WriteEntry(w, b)
  \/ \E w \in Writers : AbandonAppend(w)
  \/ \E w \in Writers : TearLine(w)
  \/ \E k \in 0..Len(log) : PowerLoss(k)

Spec == Init /\ [][Next]_vars

-----------------------------------------------------------------------------
\* As long as no two appends have overlapped, verify_chain accepts what can be
\* read, through failed appends, torn lines and power losses: the missing lock
\* is the only way in which the program itself can break its log.
SerialChainVerifies == ~overlapped => verify_chain(log)

\* Whatever the interleaving, an entry links to GENESIS_HASH or to an entry
\* before it in the file: a fork is possible, a dangling link is not.
EveryLinkKnown ==
  \A i \in 1..Len(log) :
    \/ log[i].prev_hash = GENESIS_HASH
    \/ \E j \in 1..(i - 1) : log[j].entry_hash = log[i].prev_hash

\* A log that verify_chain rejects is rejected for good: no later append mends
\* it, only the loss of the entries behind the break.
BrokenStaysBroken ==
  [][~verify_chain(log) /\ Len(log') >= Len(log) => ~verify_chain(log')]_vars

\* Until two appends overlap, the file implements the abstract log: its last
\* hash is the history, and every step appends to it, damages it or cuts it.
Chain ==
  INSTANCE CustodyChain
    WITH chain <- last_entry_hash(log), readable <- ~torn

SerialAppendsImplementChain ==
  /\ Chain!Init
  /\ [][overlapped' \/ Chain!Next \/ UNCHANGED Chain!vars]_vars
=============================================================================
