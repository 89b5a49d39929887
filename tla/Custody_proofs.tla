---------------------------- MODULE Custody_proofs ----------------------------
(***************************************************************************)
(* Proofs about CustodyFile, for any set of writers and bodies and any     *)
(* bound on the file:                                                      *)
(*                                                                         *)
(*   TypeCorrect          Spec => []TypeOK                                 *)
(*   LinksKnown           Spec => []EveryLinkKnown                         *)
(*   SerialVerifies       Spec => []SerialChainVerifies                    *)
(*   BrokenForGood        Spec => BrokenStaysBroken                        *)
(*   SerialRefinesChain   Spec => SerialAppendsImplementChain              *)
(*                                                                         *)
(* and about LabCustody, whose log is another client of the same file:     *)
(*                                                                         *)
(*   LabRefinesFile       LabSpec => Spec                                  *)
(*   NothingOnAFork       LabSpec => []EntriesExtendVerified               *)
(***************************************************************************)
EXTENDS LabCustody, SequenceTheorems, TLAPS

\* Every entry carries the hash of its own body and link.
SelfHashed ==
  \A i \in 1..Len(log) :
    log[i].entry_hash = compute_entry_hash(log[i].body, log[i].prev_hash)

\* A prev_hash that was read is GENESIS_HASH or still in the file: the file only
\* shrinks when every writer is gone.
TailKnown ==
  \A w \in appending :
    \/ tail[w] = GENESIS_HASH
    \/ \E j \in 1..Len(log) : log[j].entry_hash = tail[w]

\* Before any overlap there is one append at a time, and what it read is still
\* the end of the file.
SerialTail ==
  ~overlapped =>
    /\ \A v, w \in appending : v = w
    /\ \A w \in appending : tail[w] = last_entry_hash(log)

\* Before any overlap the hash of an entry is the history up to it.
SerialHistory ==
  ~overlapped =>
    \A i \in 1..Len(log) :
      /\ log[i].prev_hash = [j \in 1..(i - 1) |-> log[j].body]
      /\ log[i].entry_hash = [j \in 1..i |-> log[j].body]

\* The inductive invariant.
IInv ==
  /\ TypeOK
  /\ SelfHashed
  /\ EveryLinkKnown
  /\ TailKnown
  /\ SerialTail
  /\ SerialHistory

-----------------------------------------------------------------------------
\* The hash of a non-empty file is a hash, and that of its last entry.
LEMMA LastHash ==
  ASSUME NEW s \in Seq(CustodyEntry)
  PROVE  /\ last_entry_hash(s) \in Hashes
         /\ s = <<>> => last_entry_hash(s) = GENESIS_HASH
         /\ Len(s) > 0 => last_entry_hash(s) = s[Len(s)].entry_hash
<1>1. CASE s = <<>>
  BY <1>1, EmptySeq DEF last_entry_hash, GENESIS_HASH, Hashes
<1>2. CASE s # <<>>
  <2>1. Len(s) \in 1..Len(s)
    BY <1>2, EmptySeq, LenProperties
  <2>2. s[Len(s)] \in CustodyEntry
    BY <2>1, ElementOfSeq
  <2>3. s[Len(s)].entry_hash \in Hashes
    BY <2>2 DEF CustodyEntry
  <2> QED BY <1>2, <2>3 DEF last_entry_hash
<1> QED BY <1>1, <1>2

\* A prefix of the file is a file; its entries are those of the file.
LEMMA PrefixOfFile ==
  ASSUME NEW s \in Seq(CustodyEntry), NEW k \in 0..Len(s)
  PROVE  /\ SubSeq(s, 1, k) \in Seq(CustodyEntry)
         /\ Len(SubSeq(s, 1, k)) = k
         /\ \A i \in 1..k : SubSeq(s, 1, k)[i] = s[i]
<1>1. Len(s) \in Nat
  BY LenProperties
<1>2. \A i \in 1..k : s[i] \in CustodyEntry
  BY <1>1, ElementOfSeq
<1> QED BY <1>1, <1>2, SubSeqProperties

\* The hash that the entry at position i has to link to.
LEMMA LinkOf ==
  ASSUME NEW s \in Seq(CustodyEntry), NEW i \in 1..Len(s)
  PROVE  last_entry_hash(SubSeq(s, 1, i - 1)) =
           IF i = 1 THEN GENESIS_HASH ELSE s[i - 1].entry_hash
<1>1. Len(s) \in Nat /\ i \in Nat /\ i - 1 \in 0..Len(s)
  BY LenProperties
<1>2. /\ SubSeq(s, 1, i - 1) \in Seq(CustodyEntry)
      /\ Len(SubSeq(s, 1, i - 1)) = i - 1
      /\ \A j \in 1..(i - 1) : SubSeq(s, 1, i - 1)[j] = s[j]
  BY <1>1, PrefixOfFile
<1>3. CASE i = 1
  <2>1. SubSeq(s, 1, i - 1) = <<>>
    BY <1>2, <1>3, EmptySeq
  <2> QED BY <2>1, <1>3 DEF last_entry_hash
<1>4. CASE i # 1
  <2>1. i - 1 \in 1..(i - 1) /\ i - 1 > 0
    BY <1>1, <1>4
  <2>2. last_entry_hash(SubSeq(s, 1, i - 1)) = SubSeq(s, 1, i - 1)[i - 1].entry_hash
    BY <1>2, <2>1, LastHash
  <2> QED BY <1>2, <2>1, <2>2, <1>4
<1> QED BY <1>3, <1>4

\* verify_chain of a prefix only looks at the prefix.
LEMMA VerifyPrefix ==
  ASSUME NEW s \in Seq(CustodyEntry), NEW t \in Seq(CustodyEntry),
         Len(s) <= Len(t), \A i \in 1..Len(s) : t[i] = s[i],
         verify_chain(t)
  PROVE  verify_chain(s)
<1>1. Len(s) \in Nat /\ Len(t) \in Nat
  BY LenProperties
<1> SUFFICES ASSUME NEW i \in 1..Len(s)
             PROVE  /\ s[i].prev_hash = last_entry_hash(SubSeq(s, 1, i - 1))
                    /\ s[i].entry_hash = compute_entry_hash(s[i].body, s[i].prev_hash)
  BY DEF verify_chain
<1>2. i \in 1..Len(t) /\ t[i] = s[i]
  BY <1>1
<1>3. /\ t[i].prev_hash = last_entry_hash(SubSeq(t, 1, i - 1))
      /\ t[i].entry_hash = compute_entry_hash(t[i].body, t[i].prev_hash)
  BY <1>2 DEF verify_chain
<1>4. i # 1 => t[i - 1] = s[i - 1]
  BY <1>1
<1>5. last_entry_hash(SubSeq(t, 1, i - 1)) = last_entry_hash(SubSeq(s, 1, i - 1))
  BY <1>2, <1>4, LinkOf
<1> QED BY <1>2, <1>3, <1>5

-----------------------------------------------------------------------------
\* A new entry is an entry, and compute_entry_hash extends the history by one.
LEMMA NewEntryType ==
  ASSUME NEW b \in Bodies, NEW h \in Hashes
  PROVE  /\ NewEntry(b, h) \in CustodyEntry
         /\ NewEntry(b, h).body = b
         /\ NewEntry(b, h).prev_hash = h
         /\ NewEntry(b, h).entry_hash = compute_entry_hash(b, h)
<1>1. Append(h, b) \in Seq(Bodies)
  BY AppendProperties DEF Hashes
<1> QED BY <1>1 DEF NewEntry, CustodyEntry, compute_entry_hash, Hashes

\* The file after an append: the old entries, then the new one.
LEMMA FileAppend ==
  ASSUME NEW s \in Seq(CustodyEntry), NEW e \in CustodyEntry
  PROVE  /\ Append(s, e) \in Seq(CustodyEntry)
         /\ Len(Append(s, e)) = Len(s) + 1
         /\ \A i \in 1..Len(s) : Append(s, e)[i] = s[i]
         /\ Append(s, e)[Len(s) + 1] = e
BY AppendProperties

\* An entry with this body can be read.
InFile(b) == \E i \in 1..Len(log) : log[i].body = b

\* No two entries that can be read have one body.
EachOnce == \A i, k \in 1..Len(log) : log[i].body = log[k].body => i = k

\* A file that stays has the same bodies in it.
LEMMA FileStays ==
  ASSUME log' = log
  PROVE  (EachOnce' <=> EachOnce) /\ \A b : InFile(b)' <=> InFile(b)
BY DEF EachOnce, InFile

\* An append adds its body to those in the file, or a bad line hides it.
LEMMA FileGrows ==
  ASSUME TypeOK, NEW w \in Writers, NEW b \in Bodies, WriteEntry(w, b)
  PROVE  /\ torn' = torn
         /\ ~torn => InFile(b)'
         /\ \A c : InFile(c) => InFile(c)'
         /\ \A c : InFile(c)' => InFile(c) \/ c = b
         /\ EachOnce /\ ~InFile(b) => EachOnce'
<1>1. CASE torn
  BY <1>1, FileStays DEF WriteEntry
<1>2. CASE ~torn
  <2> DEFINE e == NewEntry(b, tail[w])
  <2>1. log' = Append(log, e) /\ e.body = b /\ torn' = torn
    BY <1>2 DEF WriteEntry, NewEntry
  <2>2. e \in CustodyEntry
    BY NewEntryType DEF TypeOK
  <2>3. log \in Seq(CustodyEntry) /\ Len(log) \in Nat
    BY LenProperties DEF TypeOK
  <2> HIDE DEF e
  <2>4. /\ Len(log') = Len(log) + 1
        /\ \A k \in 1..Len(log) : log'[k] = log[k]
        /\ log'[Len(log) + 1].body = b
    BY <2>1, <2>2, <2>3, AppendProperties
  <2>5. InFile(b)'
    BY <2>3, <2>4 DEF InFile
  <2>6. \A c : InFile(c) => InFile(c)'
    BY <2>3, <2>4 DEF InFile
  <2>7. \A c : InFile(c)' => InFile(c) \/ c = b
    BY <2>3, <2>4 DEF InFile
  <2>8. ASSUME EachOnce, ~InFile(b) PROVE EachOnce'
    <3> SUFFICES ASSUME NEW i \in 1..Len(log'), NEW k \in 1..Len(log'),
                        log'[i].body = log'[k].body
                 PROVE  i = k
      BY DEF EachOnce
    <3>1. \A n \in 1..Len(log) : log[n].body # b
      BY <2>8 DEF InFile
    <3>2. \A n \in 1..Len(log') : n \in 1..Len(log) \/ n = Len(log) + 1
      BY <2>3, <2>4
    <3>3. CASE i \in 1..Len(log) /\ k \in 1..Len(log)
      BY <2>4, <2>8, <3>3 DEF EachOnce
    <3> QED BY <2>4, <3>1, <3>2, <3>3
  <2> QED BY <2>1, <2>5, <2>6, <2>7, <2>8
<1> QED BY <1>1, <1>2

\* A file of one entry verifies when the entry begins a chain.
LEMMA ChainOfOne ==
  ASSUME NEW e \in CustodyEntry, e.prev_hash = GENESIS_HASH,
         e.entry_hash = compute_entry_hash(e.body, e.prev_hash)
  PROVE  verify_chain(<<e>>)
<1> DEFINE s == <<e>>
<1>1. s \in Seq(CustodyEntry) /\ Len(s) = 1 /\ s[1] = e
  OBVIOUS
<1> HIDE DEF s
<1>2. \A i \in 1..Len(s) : i = 1
  BY <1>1
<1>3. last_entry_hash(SubSeq(s, 1, 1 - 1)) = GENESIS_HASH
  BY <1>1, LinkOf
<1>4. verify_chain(s)
  BY <1>1, <1>2, <1>3 DEF verify_chain
<1> QED BY <1>4 DEF s

\* The first entry stays; when there was none it is the one that was written.
LEMMA FirstWritten ==
  ASSUME TypeOK, NEW w \in Writers, NEW b \in Bodies, WriteEntry(w, b)
  PROVE  /\ log # <<>> => log' # <<>> /\ log'[1] = log[1]
         /\ log = <<>> /\ log' # <<>> => ~torn /\ log'[1] = NewEntry(b, tail[w])
         /\ log' # <<>> => log'[1] \in CustodyEntry
<1>1. CASE torn
  <2>1. log' = log /\ log \in Seq(CustodyEntry)
    BY <1>1 DEF WriteEntry, TypeOK
  <2>2. log # <<>> => log[1] \in CustodyEntry
    BY <2>1, EmptySeq, ElementOfSeq, LenProperties
  <2> QED BY <2>1, <2>2
<1>2. CASE ~torn
  <2> DEFINE e == NewEntry(b, tail[w])
  <2>1. log' = Append(log, e)
    BY <1>2 DEF WriteEntry
  <2>2. e \in CustodyEntry /\ log \in Seq(CustodyEntry) /\ Len(log) \in Nat
    BY NewEntryType, LenProperties DEF TypeOK
  <2>3. /\ log' \in Seq(CustodyEntry) /\ Len(log') = Len(log) + 1
        /\ \A i \in 1..Len(log) : log'[i] = log[i]
        /\ log'[Len(log) + 1] = e
    BY <2>1, <2>2, FileAppend
  <2>4. log = <<>> <=> Len(log) = 0
    BY <2>2, EmptySeq
  <2>5. log' # <<>> /\ 1 \in 1..Len(log')
    BY <2>2, <2>3, EmptySeq
  <2>6. log'[1] \in CustodyEntry
    BY <2>3, <2>5, ElementOfSeq
  <2>7. CASE log = <<>>
    BY <1>2, <2>3, <2>4, <2>5, <2>6, <2>7
  <2>8. CASE log # <<>>
    <3>1. 1 \in 1..Len(log)
      BY <2>2, <2>4, <2>8
    <3> QED BY <2>3, <2>5, <2>6, <2>8, <3>1
  <2> QED BY <2>7, <2>8
<1> QED BY <1>1, <1>2

\* A file that does not verify does not verify with one more entry.
LEMMA AppendMendsNothing ==
  ASSUME TypeOK, NEW w \in Writers, NEW b \in Bodies, WriteEntry(w, b),
         verify_chain(log')
  PROVE  verify_chain(log)
<1>1. CASE torn
  BY <1>1 DEF WriteEntry
<1>2. CASE ~torn
  <2>1. log' = Append(log, NewEntry(b, tail[w]))
    BY <1>2 DEF WriteEntry
  <2>2. NewEntry(b, tail[w]) \in CustodyEntry
    BY NewEntryType DEF TypeOK
  <2>3. log \in Seq(CustodyEntry) /\ Len(log) \in Nat
    BY LenProperties DEF TypeOK
  <2>4. /\ log' \in Seq(CustodyEntry) /\ Len(log) <= Len(log')
        /\ \A i \in 1..Len(log) : log'[i] = log[i]
    BY <2>1, <2>2, <2>3, FileAppend
  <2> QED BY <2>3, <2>4, VerifyPrefix
<1> QED BY <1>1, <1>2

\* An absent file, and nobody in append_entry, is well-typed.
LEMMA TypeInit == Init => TypeOK
<1> SUFFICES ASSUME Init PROVE TypeOK
  OBVIOUS
<1>1. log \in Seq(CustodyEntry) /\ Len(log) = 0
  BY EmptySeq DEF Init
<1>2. GENESIS_HASH \in Hashes
  BY EmptySeq DEF GENESIS_HASH, Hashes
<1>3. /\ tail \in [Writers -> Hashes]
      /\ \A w \in Writers : tail[w] = GENESIS_HASH
  BY <1>2 DEF Init
<1>4. torn \in BOOLEAN /\ appending \subseteq Writers /\ overlapped \in BOOLEAN
  BY DEF Init
<1>5. Len(log) <= MaxEntries
  BY <1>1, MaxEntriesAssumption
<1> QED BY <1>1, <1>3, <1>4, <1>5 DEF TypeOK

\* What ends an append leaves well-typed locals.
LEMMA EndAppendType ==
  ASSUME TypeOK, NEW w \in Writers, EndAppend(w)
  PROVE  /\ appending' \subseteq Writers
         /\ tail' \in [Writers -> Hashes]
         /\ \A v \in Writers \ appending' : tail'[v] = GENESIS_HASH
         /\ \A v \in appending' : v \in appending /\ v # w /\ tail'[v] = tail[v]
<1>1. GENESIS_HASH \in Hashes
  BY EmptySeq DEF GENESIS_HASH, Hashes
<1> QED BY <1>1 DEF TypeOK, EndAppend

\* Every step of a writer, and every loss, keeps the variables well-typed.
LEMMA TypeStep == TypeOK /\ [Next]_vars => TypeOK'
<1> SUFFICES ASSUME TypeOK, [Next]_vars PROVE TypeOK'
  OBVIOUS
<1>0. GENESIS_HASH \in Hashes
  BY EmptySeq DEF GENESIS_HASH, Hashes
<1>1. ASSUME NEW w \in Writers, ReadTail(w) PROVE TypeOK'
  <2>1. last_entry_hash(log) \in Hashes
    BY LastHash DEF TypeOK
  <2> QED BY <1>1, <2>1 DEF TypeOK, ReadTail
<1>2. ASSUME NEW w \in Writers, NEW b \in Bodies, WriteEntry(w, b) PROVE TypeOK'
  <2>1. tail[w] \in Hashes
    BY DEF TypeOK
  <2>2. NewEntry(b, tail[w]) \in CustodyEntry
    BY <2>1, NewEntryType
  <2>3. log' \in Seq(CustodyEntry) /\ Len(log') <= MaxEntries
    <3>1. CASE torn
      BY <1>2, <3>1 DEF TypeOK, WriteEntry
    <3>2. CASE ~torn
      <4>1. log' = Append(log, NewEntry(b, tail[w])) /\ Len(log) < MaxEntries
        BY <1>2, <3>2 DEF WriteEntry
      <4>2. Len(log) \in Nat
        BY LenProperties DEF TypeOK
      <4> QED BY <4>1, <4>2, <2>2, FileAppend, MaxEntriesAssumption DEF TypeOK
    <3> QED BY <3>1, <3>2
  <2>4. EndAppend(w) /\ UNCHANGED <<torn, overlapped>>
    BY <1>2 DEF WriteEntry
  <2> QED BY <2>3, <2>4, EndAppendType DEF TypeOK
<1>3. ASSUME NEW w \in Writers, AbandonAppend(w) PROVE TypeOK'
  <2>1. EndAppend(w) /\ UNCHANGED <<log, torn, overlapped>>
    BY <1>3 DEF AbandonAppend
  <2> QED BY <2>1, EndAppendType DEF TypeOK
<1>4. ASSUME NEW w \in Writers, TearLine(w) PROVE TypeOK'
  <2>1. EndAppend(w) /\ torn' = TRUE /\ UNCHANGED <<log, overlapped>>
    BY <1>4 DEF TearLine
  <2> QED BY <2>1, EndAppendType DEF TypeOK
<1>5. ASSUME NEW k \in 0..Len(log), PowerLoss(k) PROVE TypeOK'
  <2>1. log' \in Seq(CustodyEntry) /\ Len(log') = k
    BY <1>5, PrefixOfFile DEF TypeOK, PowerLoss
  <2>2. Len(log') <= MaxEntries
    BY <2>1, LenProperties, MaxEntriesAssumption DEF TypeOK
  <2> QED BY <1>0, <1>5, <2>1, <2>2 DEF TypeOK, PowerLoss
<1>6. CASE UNCHANGED vars
  BY <1>6 DEF TypeOK, vars
<1> QED BY <1>1, <1>2, <1>3, <1>4, <1>5, <1>6 DEF Next

\* The variables of CustodyFile always have the values a run of the code can
\* give them, and a writer that is not inside append_entry holds no hash.
THEOREM TypeCorrect == Spec => []TypeOK
<1>1. Init => TypeOK
  BY TypeInit
<1>2. TypeOK /\ [Next]_vars => TypeOK'
  BY TypeStep
<1> QED BY <1>1, <1>2, PTL DEF Spec

-----------------------------------------------------------------------------
\* An absent file has every part of the inductive invariant.
LEMMA InvInit == Init => IInv
<1> SUFFICES ASSUME Init PROVE IInv
  OBVIOUS
<1>1. TypeOK
  BY TypeInit
<1>2. Len(log) = 0 /\ appending = {} /\ 1..Len(log) = {}
  BY EmptySeq DEF Init
<1> QED BY <1>1, <1>2 DEF IInv, SelfHashed, EveryLinkKnown, TailKnown, SerialTail,
                          SerialHistory

\* The same file has the same history.
LEMMA HistoryKept ==
  ASSUME SerialHistory, log' = log, overlapped => overlapped'
  PROVE  SerialHistory'
<1> SUFFICES ASSUME ~overlapped', NEW i \in 1..Len(log')
             PROVE  /\ log'[i].prev_hash = [j \in 1..(i - 1) |-> log'[j].body]
                    /\ log'[i].entry_hash = [j \in 1..i |-> log'[j].body]
  BY DEF SerialHistory
<1>1. ~overlapped /\ i \in 1..Len(log) /\ log'[i] = log[i]
  OBVIOUS
<1>2. [j \in 1..i |-> log'[j].body] = [j \in 1..i |-> log[j].body]
  OBVIOUS
<1>3. [j \in 1..(i - 1) |-> log'[j].body] = [j \in 1..(i - 1) |-> log[j].body]
  OBVIOUS
<1> QED BY <1>1, <1>2, <1>3 DEF SerialHistory

\* Reading the tail of the file.
LEMMA InvReadTail ==
  ASSUME IInv, TypeOK', NEW w \in Writers, ReadTail(w)
  PROVE  IInv'
<1>1. /\ log' = log
      /\ appending' = appending \cup {w}
      /\ tail' = [tail EXCEPT ![w] = last_entry_hash(log)]
      /\ overlapped' = (overlapped \/ appending # {})
  BY DEF ReadTail
<1>2. /\ tail'[w] = last_entry_hash(log)
      /\ \A v \in appending : v # w => tail'[v] = tail[v]
  BY <1>1 DEF IInv, TypeOK
<1>3. SelfHashed' /\ EveryLinkKnown'
  BY <1>1 DEF IInv, SelfHashed, EveryLinkKnown
<1>4. TailKnown'
  <2>1. \/ last_entry_hash(log) = GENESIS_HASH
        \/ \E j \in 1..Len(log) : log[j].entry_hash = last_entry_hash(log)
    <3>1. log \in Seq(CustodyEntry) /\ Len(log) \in Nat
      BY LenProperties DEF IInv, TypeOK
    <3>2. CASE log = <<>>
      BY <3>1, <3>2, LastHash
    <3>3. CASE log # <<>>
      <4>1. Len(log) > 0 /\ Len(log) \in 1..Len(log)
        BY <3>1, <3>3, EmptySeq
      <4> QED BY <3>1, <4>1, LastHash
    <3> QED BY <3>2, <3>3
  <2> QED BY <1>1, <1>2, <2>1 DEF IInv, TailKnown
<1>5. SerialTail'
  <2> SUFFICES ASSUME ~overlapped' PROVE appending' = {w}
    BY <1>1, <1>2 DEF SerialTail
  <2> QED BY <1>1
<1>6. SerialHistory'
  BY <1>1, HistoryKept DEF IInv
<1> QED BY <1>3, <1>4, <1>5, <1>6 DEF IInv

\* An append that ends without writing a readable entry.
LEMMA InvNoEntry ==
  ASSUME IInv, TypeOK', NEW w \in Writers, EndAppend(w), UNCHANGED <<log, overlapped>>
  PROVE  IInv'
<1>1. \A v \in appending' : v \in appending /\ v # w /\ tail'[v] = tail[v]
  BY EndAppendType DEF IInv
<1>2. SelfHashed' /\ EveryLinkKnown'
  BY DEF IInv, SelfHashed, EveryLinkKnown
<1>3. TailKnown'
  BY <1>1 DEF IInv, TailKnown
<1>4. SerialTail'
  BY <1>1 DEF IInv, SerialTail
<1>5. SerialHistory'
  BY HistoryKept DEF IInv
<1> QED BY <1>2, <1>3, <1>4, <1>5 DEF IInv

\* Where every entry hash is the history up to its entry, the last one is the
\* history of the file.
LEMMA HistoryOfFile ==
  ASSUME NEW s \in Seq(CustodyEntry),
         \A i \in 1..Len(s) : s[i].entry_hash = [j \in 1..i |-> s[j].body]
  PROVE  last_entry_hash(s) = [j \in 1..Len(s) |-> s[j].body]
<1>1. Len(s) \in Nat
  BY LenProperties
<1>2. CASE s = <<>>
  <2>1. Len(s) = 0 /\ 1..Len(s) = {}
    BY <1>2, EmptySeq
  <2>2. last_entry_hash(s) = <<>>
    BY <1>2, LastHash DEF GENESIS_HASH
  <2> QED BY <2>1, <2>2
<1>3. CASE s # <<>>
  <2>1. Len(s) > 0 /\ Len(s) \in 1..Len(s)
    BY <1>1, <1>3, EmptySeq
  <2> QED BY <2>1, LastHash
<1> QED BY <1>2, <1>3

\* The hash that a serial writer read is the whole history of the file.
LEMMA SerialTailIsHistory ==
  ASSUME IInv, ~overlapped
  PROVE  last_entry_hash(log) = [j \in 1..Len(log) |-> log[j].body]
<1>1. log \in Seq(CustodyEntry)
  BY DEF IInv, TypeOK
<1>2. \A i \in 1..Len(log) : log[i].entry_hash = [j \in 1..i |-> log[j].body]
  BY DEF IInv, SerialHistory
<1> QED BY <1>1, <1>2, HistoryOfFile

\* Appending to a history given as a function.
LEMMA HistoryAppend ==
  ASSUME NEW n \in Nat, NEW f, \A j \in 1..n : f[j] \in Bodies, NEW b \in Bodies,
         f = [j \in 1..n |-> f[j]]
  PROVE  Append(f, b) = [j \in 1..(n + 1) |-> IF j = n + 1 THEN b ELSE f[j]]
<1>1. f \in Seq(Bodies) /\ Len(f) = n
  <2>1. f \in [1..n -> Bodies]
    OBVIOUS
  <2>2. f \in Seq(Bodies)
    BY <2>1, SeqDef
  <2> QED BY <2>1, <2>2, LenProperties
<1>2. /\ Append(f, b) \in Seq(Bodies)
      /\ Len(Append(f, b)) = n + 1
      /\ \A j \in 1..n : Append(f, b)[j] = f[j]
      /\ Append(f, b)[n + 1] = b
  BY <1>1, AppendProperties
<1>3. Append(f, b) \in [1..(n + 1) -> Bodies]
  BY <1>2, LenProperties
<1> QED BY <1>2, <1>3

\* The new entry lands in a readable file.
LEMMA InvNewEntry ==
  ASSUME IInv, TypeOK', NEW w \in Writers, NEW b \in Bodies, w \in appending,
         log' = Append(log, NewEntry(b, tail[w])), EndAppend(w),
         UNCHANGED overlapped
  PROVE  IInv'
<1> DEFINE n == Len(log)
           e == NewEntry(b, tail[w])
<1>1. log \in Seq(CustodyEntry) /\ n \in Nat /\ tail[w] \in Hashes
  BY LenProperties DEF IInv, TypeOK
<1>2. /\ e \in CustodyEntry /\ e.body = b /\ e.prev_hash = tail[w]
      /\ e.entry_hash = compute_entry_hash(b, tail[w])
  BY <1>1, NewEntryType
<1>3. /\ Len(log') = n + 1
      /\ \A i \in 1..n : log'[i] = log[i]
      /\ log'[n + 1] = e
  BY <1>1, <1>2, FileAppend
<1>4. \A i \in 1..Len(log') : i \in 1..n \/ i = n + 1
  BY <1>1, <1>3
<1>5. \A v \in appending' : v \in appending /\ v # w /\ tail'[v] = tail[v]
  BY EndAppendType DEF IInv
<1>6. SelfHashed'
  BY <1>2, <1>3, <1>4 DEF IInv, SelfHashed
<1>7. EveryLinkKnown'
  <2> SUFFICES ASSUME NEW i \in 1..Len(log')
               PROVE  \/ log'[i].prev_hash = GENESIS_HASH
                      \/ \E j \in 1..(i - 1) : log'[j].entry_hash = log'[i].prev_hash
    BY DEF EveryLinkKnown
  <2>1. CASE i \in 1..n
    <3>1. log'[i] = log[i] /\ \A j \in 1..(i - 1) : log'[j] = log[j]
      BY <1>1, <1>3, <2>1
    <3>2. \/ log[i].prev_hash = GENESIS_HASH
          \/ \E j \in 1..(i - 1) : log[j].entry_hash = log[i].prev_hash
      BY <2>1 DEF IInv, EveryLinkKnown
    <3> QED BY <3>1, <3>2
  <2>2. CASE i = n + 1
    BY <1>1, <1>2, <1>3, <2>2 DEF IInv, TailKnown
  <2> QED BY <1>4, <2>1, <2>2
<1>8. TailKnown'
  <2>1. \A j \in 1..n : j \in 1..Len(log') /\ log'[j] = log[j]
    BY <1>1, <1>3
  <2> QED BY <1>5, <2>1 DEF IInv, TailKnown
<1>9. SerialTail'
  BY <1>5 DEF IInv, SerialTail
<1>10. SerialHistory'
  <2> SUFFICES ASSUME ~overlapped, NEW i \in 1..Len(log')
               PROVE  /\ log'[i].prev_hash = [j \in 1..(i - 1) |-> log'[j].body]
                      /\ log'[i].entry_hash = [j \in 1..i |-> log'[j].body]
    BY DEF SerialHistory
  <2>1. CASE i \in 1..n
    <3>1. \A j \in 1..i : log'[j] = log[j]
      BY <1>1, <1>3, <2>1
    <3>2. [j \in 1..i |-> log'[j].body] = [j \in 1..i |-> log[j].body]
      BY <3>1
    <3>3. [j \in 1..(i - 1) |-> log'[j].body] = [j \in 1..(i - 1) |-> log[j].body]
      BY <3>1
    <3>4. log'[i] = log[i]
      BY <2>1, <1>3
    <3> QED BY <2>1, <3>2, <3>3, <3>4 DEF IInv, SerialHistory
  <2>2. CASE i = n + 1
    <3>1. tail[w] = [j \in 1..n |-> log[j].body]
      BY SerialTailIsHistory DEF IInv, SerialTail
    <3>2. \A j \in 1..n : log[j].body \in Bodies
      <4>1. \A j \in 1..Len(log) : log[j] \in CustodyEntry
        BY <1>1, ElementOfSeq
      <4> QED BY <4>1 DEF CustodyEntry
    <3>3. Append(tail[w], b) =
            [j \in 1..(n + 1) |-> IF j = n + 1 THEN b ELSE tail[w][j]]
      BY <1>1, <3>1, <3>2, HistoryAppend
    <3>4. \A j \in 1..(n + 1) :
            log'[j].body = IF j = n + 1 THEN b ELSE tail[w][j]
      BY <1>1, <1>2, <1>3, <3>1
    <3>5. Append(tail[w], b) = [j \in 1..(n + 1) |-> log'[j].body]
      BY <3>3, <3>4
    <3>6. tail[w] = [j \in 1..n |-> log'[j].body]
      BY <1>3, <3>1
    <3>7. n = i - 1
      BY <1>1, <2>2
    <3> QED BY <1>2, <1>3, <2>2, <3>5, <3>6, <3>7 DEF compute_entry_hash
  <2> QED BY <1>4, <2>1, <2>2
<1> QED BY <1>6, <1>7, <1>8, <1>9, <1>10 DEF IInv

\* A power loss keeps a prefix, and nobody is left in append_entry.
LEMMA InvPowerLoss ==
  ASSUME IInv, TypeOK', NEW k \in 0..Len(log), PowerLoss(k)
  PROVE  IInv'
<1>1. /\ log \in Seq(CustodyEntry) /\ Len(log) \in Nat /\ k \in Nat
      /\ log' = SubSeq(log, 1, k)
      /\ appending' = {}
      /\ overlapped' = overlapped
  BY LenProperties DEF IInv, TypeOK, PowerLoss
<1>2. Len(log') = k /\ \A i \in 1..k : log'[i] = log[i]
  BY <1>1, PrefixOfFile
<1>3. SelfHashed'
  BY <1>1, <1>2 DEF IInv, SelfHashed
<1>4. EveryLinkKnown'
  BY <1>1, <1>2 DEF IInv, EveryLinkKnown
<1>5. TailKnown' /\ SerialTail'
  BY <1>1 DEF TailKnown, SerialTail
<1>6. SerialHistory'
  <2> SUFFICES ASSUME ~overlapped, NEW i \in 1..k
               PROVE  /\ log'[i].prev_hash = [j \in 1..(i - 1) |-> log'[j].body]
                      /\ log'[i].entry_hash = [j \in 1..i |-> log'[j].body]
    BY <1>1, <1>2 DEF SerialHistory
  <2>1. \A j \in 1..i : log'[j] = log[j]
    BY <1>1, <1>2
  <2>2. [j \in 1..i |-> log'[j].body] = [j \in 1..i |-> log[j].body]
    BY <2>1
  <2>3. [j \in 1..(i - 1) |-> log'[j].body] = [j \in 1..(i - 1) |-> log[j].body]
    BY <2>1
  <2>4. i \in 1..Len(log) /\ log'[i] = log[i]
    BY <1>1, <1>2
  <2> QED BY <2>2, <2>3, <2>4 DEF IInv, SerialHistory
<1> QED BY <1>3, <1>4, <1>5, <1>6 DEF IInv

\* The inductive invariant survives every step.
LEMMA InvStep == IInv /\ [Next]_vars => IInv'
<1> SUFFICES ASSUME IInv, [Next]_vars PROVE IInv'
  OBVIOUS
<1>0. TypeOK'
  BY TypeStep DEF IInv
<1>1. ASSUME NEW w \in Writers, ReadTail(w) PROVE IInv'
  BY <1>0, <1>1, InvReadTail
<1>2. ASSUME NEW w \in Writers, NEW b \in Bodies, WriteEntry(w, b) PROVE IInv'
  <2>1. CASE torn
    BY <1>0, <1>2, <2>1, InvNoEntry DEF WriteEntry
  <2>2. CASE ~torn
    BY <1>0, <1>2, <2>2, InvNewEntry DEF WriteEntry
  <2> QED BY <2>1, <2>2
<1>3. ASSUME NEW w \in Writers, AbandonAppend(w) PROVE IInv'
  BY <1>0, <1>3, InvNoEntry DEF AbandonAppend
<1>4. ASSUME NEW w \in Writers, TearLine(w) PROVE IInv'
  BY <1>0, <1>4, InvNoEntry DEF TearLine
<1>5. ASSUME NEW k \in 0..Len(log), PowerLoss(k) PROVE IInv'
  BY <1>0, <1>5, InvPowerLoss
<1>6. CASE UNCHANGED vars
  <2>1. SerialHistory'
    BY <1>6, HistoryKept DEF IInv, vars
  <2> QED BY <1>0, <1>6, <2>1 DEF IInv, SelfHashed, EveryLinkKnown, TailKnown,
                                  SerialTail, vars
<1> QED BY <1>1, <1>2, <1>3, <1>4, <1>5, <1>6 DEF Next

\* The inductive invariant holds in every state.
LEMMA Invariance == Spec => []IInv
<1>1. IInv /\ [Next]_vars => IInv'
  BY InvStep
<1> QED BY InvInit, <1>1, PTL DEF Spec

-----------------------------------------------------------------------------
\* An entry of chain_of_custody.log always links to the genesis hash or to an
\* entry before it, however the appends of any number of writers interleave.
THEOREM LinksKnown == Spec => []EveryLinkKnown
<1>1. IInv => EveryLinkKnown
  BY DEF IInv
<1> QED BY Invariance, <1>1, PTL

\* verify_chain accepts a file whose every hash is the history up to its entry.
LEMMA HistoryVerifies ==
  ASSUME IInv, ~overlapped
  PROVE  verify_chain(log)
<1> SUFFICES ASSUME NEW i \in 1..Len(log)
             PROVE  /\ log[i].prev_hash = last_entry_hash(SubSeq(log, 1, i - 1))
                    /\ log[i].entry_hash =
                         compute_entry_hash(log[i].body, log[i].prev_hash)
  BY DEF verify_chain
<1>1. log \in Seq(CustodyEntry) /\ Len(log) \in Nat
  BY LenProperties DEF IInv, TypeOK
<1>2. log[i].entry_hash = compute_entry_hash(log[i].body, log[i].prev_hash)
  BY DEF IInv, SelfHashed
<1>3. log[i].prev_hash = [j \in 1..(i - 1) |-> log[j].body]
  BY DEF IInv, SerialHistory
<1>4. CASE i = 1
  <2>1. 1..(i - 1) = {}
    BY <1>4
  <2>2. [j \in 1..(i - 1) |-> log[j].body] = <<>>
    BY <2>1
  <2>3. last_entry_hash(SubSeq(log, 1, i - 1)) = <<>>
    BY <1>1, <1>4, LinkOf DEF GENESIS_HASH
  <2> QED BY <1>2, <1>3, <2>2, <2>3
<1>5. CASE i # 1
  <2>1. i - 1 \in 1..Len(log)
    BY <1>1, <1>5
  <2>2. log[i - 1].entry_hash = [j \in 1..(i - 1) |-> log[j].body]
    BY <2>1 DEF IInv, SerialHistory
  <2>3. last_entry_hash(SubSeq(log, 1, i - 1)) = log[i - 1].entry_hash
    BY <1>1, <1>5, LinkOf
  <2> QED BY <1>2, <1>3, <2>2, <2>3
<1> QED BY <1>4, <1>5

\* Without overlapping appends, verify_chain accepts the log for ever, through
\* failed appends, torn lines and power losses.
THEOREM SerialVerifies == Spec => []SerialChainVerifies
<1>1. IInv => SerialChainVerifies
  BY HistoryVerifies DEF SerialChainVerifies
<1> QED BY Invariance, <1>1, PTL

\* A step that does not shorten the file leaves its entries in place.
LEMMA EntriesKept ==
  ASSUME TypeOK, [Next]_vars, Len(log') >= Len(log)
  PROVE  \A i \in 1..Len(log) : log'[i] = log[i]
<1>1. log \in Seq(CustodyEntry) /\ Len(log) \in Nat
  BY LenProperties DEF TypeOK
<1>2. CASE log' = log
  BY <1>2
<1>3. ASSUME NEW w \in Writers, NEW b \in Bodies, WriteEntry(w, b), ~torn
      PROVE  \A i \in 1..Len(log) : log'[i] = log[i]
  <2>1. NewEntry(b, tail[w]) \in CustodyEntry
    BY NewEntryType DEF TypeOK
  <2> QED BY <1>1, <1>3, <2>1, FileAppend DEF WriteEntry
<1>4. ASSUME NEW k \in 0..Len(log), PowerLoss(k)
      PROVE  \A i \in 1..Len(log) : log'[i] = log[i]
  <2>1. /\ Len(log') = k
        /\ \A i \in 1..k : log'[i] = log[i]
    BY <1>1, <1>4, PrefixOfFile DEF PowerLoss
  <2> QED BY <1>1, <2>1
<1>5. CASE Next
  <2>1. ASSUME NEW w \in Writers, ReadTail(w) PROVE log' = log
    BY <2>1 DEF ReadTail
  <2>2. ASSUME NEW w \in Writers, NEW b \in Bodies, WriteEntry(w, b), torn
        PROVE  log' = log
    BY <2>2 DEF WriteEntry
  <2>3. ASSUME NEW w \in Writers, AbandonAppend(w) \/ TearLine(w) PROVE log' = log
    BY <2>3 DEF AbandonAppend, TearLine
  <2> QED BY <1>2, <1>3, <1>4, <1>5, <2>1, <2>2, <2>3 DEF Next
<1> QED BY <1>2, <1>5 DEF vars

\* verify_chain never again accepts a file it has rejected, unless the entries
\* behind the break are lost.
THEOREM BrokenForGood == Spec => BrokenStaysBroken
<1>1. ASSUME TypeOK, TypeOK', [Next]_vars
      PROVE  ~verify_chain(log) /\ Len(log') >= Len(log) => ~verify_chain(log')
  <2> SUFFICES ASSUME Len(log') >= Len(log), verify_chain(log')
               PROVE  verify_chain(log)
    OBVIOUS
  <2>1. \A i \in 1..Len(log) : log'[i] = log[i]
    BY <1>1, EntriesKept
  <2>2. /\ log \in Seq(CustodyEntry) /\ Len(log) \in Nat
        /\ log' \in Seq(CustodyEntry) /\ Len(log') \in Nat
    BY <1>1, LenProperties DEF TypeOK
  <2> QED BY <2>1, <2>2, VerifyPrefix
<1>2. TypeOK /\ TypeOK' /\ [Next]_vars =>
        [~verify_chain(log) /\ Len(log') >= Len(log) => ~verify_chain(log')]_vars
  BY <1>1
<1> QED BY TypeCorrect, <1>2, PTL DEF Spec, BrokenStaysBroken

-----------------------------------------------------------------------------
\* Cutting a history given as a function.
LEMMA HistoryCut ==
  ASSUME NEW n \in Nat, NEW k \in 0..n, NEW f, f = [j \in 1..n |-> f[j]],
         \A j \in 1..n : f[j] \in Bodies
  PROVE  SubSeq(f, 1, k) = [j \in 1..k |-> f[j]]
<1>1. \A j \in 1..k : f[j] \in Bodies
  OBVIOUS
<1>2. /\ SubSeq(f, 1, k) \in Seq(Bodies)
      /\ Len(SubSeq(f, 1, k)) = k
      /\ \A j \in 1..k : SubSeq(f, 1, k)[j] = f[j]
  BY <1>1, SubSeqProperties
<1>3. SubSeq(f, 1, k) \in [1..k -> Bodies]
  BY <1>2, LenProperties
<1> QED BY <1>2, <1>3

\* As long as appends do not overlap, every step of the file is a step of the
\* abstract log.
LEMMA ChainStep ==
  ASSUME IInv, IInv', [Next]_vars, ~overlapped'
  PROVE  Chain!Next \/ UNCHANGED Chain!vars
<1>1. /\ log \in Seq(CustodyEntry) /\ Len(log) \in Nat
      /\ ~overlapped
  <2>1. overlapped => overlapped'
    BY DEF Next, ReadTail, WriteEntry, AbandonAppend, TearLine, PowerLoss, vars
  <2> QED BY <2>1, LenProperties DEF IInv, TypeOK
<1>2. ASSUME NEW w \in Writers, ReadTail(w) PROVE UNCHANGED Chain!vars
  BY <1>2 DEF ReadTail, Chain!vars
<1>3. ASSUME NEW w \in Writers, NEW b \in Bodies, WriteEntry(w, b)
      PROVE  Chain!Next \/ UNCHANGED Chain!vars
  <2>1. CASE torn
    BY <1>3, <2>1 DEF WriteEntry, Chain!vars
  <2>2. CASE ~torn
    <3>1. tail[w] \in Hashes /\ tail[w] = last_entry_hash(log)
      BY <1>1, <1>3 DEF IInv, TypeOK, SerialTail, WriteEntry
    <3>2. NewEntry(b, tail[w]) \in CustodyEntry
      BY <3>1, NewEntryType
    <3>3. log' = Append(log, NewEntry(b, tail[w]))
      BY <1>3, <2>2 DEF WriteEntry
    <3>4. /\ log' \in Seq(CustodyEntry) /\ Len(log') = Len(log) + 1
          /\ log'[Len(log) + 1] = NewEntry(b, tail[w])
      BY <1>1, <3>2, <3>3, FileAppend
    <3>5. last_entry_hash(log') = NewEntry(b, tail[w]).entry_hash
      BY <1>1, <3>4, LastHash
    <3>6. last_entry_hash(log') = Append(last_entry_hash(log), b)
      BY <3>1, <3>5, NewEntryType DEF compute_entry_hash
    <3>7. torn' = torn
      BY <1>3 DEF WriteEntry
    <3> QED BY <2>2, <3>6, <3>7 DEF Chain!Next, Chain!AppendEvent
  <2> QED BY <2>1, <2>2
<1>4. ASSUME NEW w \in Writers, AbandonAppend(w) PROVE UNCHANGED Chain!vars
  BY <1>4 DEF AbandonAppend, Chain!vars
<1>5. ASSUME NEW w \in Writers, TearLine(w) PROVE Chain!Next
  BY <1>5 DEF TearLine, Chain!Next, Chain!Damage
<1>6. ASSUME NEW k \in 0..Len(log), PowerLoss(k) PROVE Chain!Next
  <2> DEFINE f == [j \in 1..Len(log) |-> log[j].body]
  <2>1. last_entry_hash(log) = f
    BY <1>1, SerialTailIsHistory
  <2>2. \A j \in 1..Len(log) : log[j].body \in Bodies
    <3>1. \A j \in 1..Len(log) : log[j] \in CustodyEntry
      BY <1>1, ElementOfSeq
    <3> QED BY <3>1 DEF CustodyEntry
  <2>3. SubSeq(f, 1, k) = [j \in 1..k |-> f[j]] /\ Len(f) = Len(log)
    <3>1. f = [j \in 1..Len(log) |-> f[j]] /\ \A j \in 1..Len(log) : f[j] \in Bodies
      BY <2>2
    <3>2. f \in [1..Len(log) -> Bodies]
      BY <2>2
    <3>3. f \in Seq(Bodies)
      BY <1>1, <3>2, SeqDef
    <3> HIDE DEF f
    <3>4. DOMAIN f = 1..Len(log) /\ Len(f) = Len(log)
      BY <1>1, <3>2, <3>3, LenProperties
    <3> QED BY <1>1, <3>1, <3>4, HistoryCut
  <2>4. Len(log') = k /\ \A i \in 1..k : log'[i] = log[i]
    BY <1>1, <1>6, PrefixOfFile DEF PowerLoss
  <2>5. last_entry_hash(log') = [j \in 1..k |-> log'[j].body]
    <3>1. log' \in Seq(CustodyEntry)
      BY DEF IInv, TypeOK
    <3>2. \A i \in 1..Len(log') : log'[i].entry_hash = [j \in 1..i |-> log'[j].body]
      BY DEF IInv, SerialHistory
    <3> QED BY <2>4, <3>1, <3>2, HistoryOfFile
  <2>6. [j \in 1..k |-> log'[j].body] = [j \in 1..k |-> f[j]]
    BY <1>1, <2>4
  <2>7. last_entry_hash(log') = SubSeq(last_entry_hash(log), 1, k)
    BY <2>1, <2>3, <2>5, <2>6
  <2>8. (~torn') \in BOOLEAN
    OBVIOUS
  <2>9. k \in 0..Len(last_entry_hash(log))
    BY <2>1, <2>3
  <2> QED BY <2>7, <2>8, <2>9 DEF Chain!Next, Chain!LoseTail
<1>7. CASE UNCHANGED vars
  BY <1>7 DEF vars, Chain!vars
<1> QED BY <1>2, <1>3, <1>4, <1>5, <1>6, <1>7 DEF Next

\* Until two appends overlap, chain_of_custody.log with append_entry implements
\* the log CustodyChain promises: whole events, in order, lost only at the end.
THEOREM SerialRefinesChain == Spec => SerialAppendsImplementChain
<1>1. Init => Chain!Init
  BY DEF Init, Chain!Init, last_entry_hash, GENESIS_HASH
<1>2. IInv /\ IInv' /\ [Next]_vars =>
        [overlapped' \/ Chain!Next \/ UNCHANGED Chain!vars]_vars
  BY ChainStep
<1> QED BY Invariance, <1>1, <1>2, PTL DEF Spec, SerialAppendsImplementChain
-----------------------------------------------------------------------------
(* The log of dfirlab.                                                      *)

\* h is the last hash of a prefix of s that verifies and has at most n entries.
ExtendsVerified(s, h, n) ==
  \E k \in 0..n :
    verify_chain(SubSeq(s, 1, k)) /\ h = last_entry_hash(SubSeq(s, 1, k))

\* What a writer has read is the last hash of a prefix that verifies.
TailsExtendVerified ==
  \A w \in appending : ExtendsVerified(log, tail[w], Len(log))

LabInv == TypeOK /\ EntriesExtendVerified /\ TailsExtendVerified

-----------------------------------------------------------------------------
\* append_entry of dfirlab does to the file what that of EviForge does, when it
\* does anything.
LEMMA LabStep == [LabNext]_vars => [Next]_vars
<1>1. \A w \in Writers : read_and_verify(w) => ReadTail(w)
  BY DEF read_and_verify
<1> QED BY <1>1 DEF LabNext, Next

\* dfirlab's log implements the log of CustodyFile.
THEOREM LabRefinesFile == LabSpec => Spec
BY LabStep, PTL DEF LabSpec, Spec

\* The type invariant of CustodyFile holds of dfirlab's log.
LEMMA LabTypeCorrect == LabSpec => []TypeOK
BY LabRefinesFile, TypeCorrect, PTL

-----------------------------------------------------------------------------
\* Logs that agree on their first n entries have the same prefixes up to n.
LEMMA SamePrefix ==
  ASSUME NEW s \in Seq(CustodyEntry), NEW t \in Seq(CustodyEntry), NEW n \in Nat,
         n <= Len(s), n <= Len(t), \A i \in 1..n : t[i] = s[i], NEW k \in 0..n
  PROVE  SubSeq(t, 1, k) = SubSeq(s, 1, k)
<1> DEFINE u == SubSeq(s, 1, k)
           v == SubSeq(t, 1, k)
<1>1. Len(s) \in Nat /\ Len(t) \in Nat /\ k \in 0..Len(s) /\ k \in 0..Len(t)
  BY LenProperties
<1>2. /\ u \in Seq(CustodyEntry) /\ Len(u) = k /\ \A i \in 1..k : u[i] = s[i]
      /\ v \in Seq(CustodyEntry) /\ Len(v) = k /\ \A i \in 1..k : v[i] = t[i]
  BY <1>1, PrefixOfFile
<1>3. \A i \in 1..k : u[i] = v[i]
  BY <1>2
<1> HIDE DEF u, v
<1>4. u = v
  BY <1>2, <1>3, SeqEqual
<1> QED BY <1>4 DEF u, v

\* A hash that extends a verified prefix of s extends one of every log that
\* agrees with s that far.
LEMMA ExtendsKept ==
  ASSUME NEW s \in Seq(CustodyEntry), NEW t \in Seq(CustodyEntry),
         NEW n \in Nat, NEW m \in Nat, n <= m, n <= Len(s), n <= Len(t),
         \A i \in 1..n : t[i] = s[i], NEW h, ExtendsVerified(s, h, n)
  PROVE  ExtendsVerified(t, h, m)
<1>1. PICK k \in 0..n :
        verify_chain(SubSeq(s, 1, k)) /\ h = last_entry_hash(SubSeq(s, 1, k))
  BY DEF ExtendsVerified
<1>2. SubSeq(t, 1, k) = SubSeq(s, 1, k)
  BY SamePrefix
<1>3. k \in 0..m
  OBVIOUS
<1> QED BY <1>1, <1>2, <1>3 DEF ExtendsVerified

\* EntriesExtendVerified, in the words of this module.
LEMMA EntriesExtend ==
  EntriesExtendVerified <=>
    \A i \in 1..Len(log) : ExtendsVerified(log, log[i].prev_hash, i - 1)
BY DEF EntriesExtendVerified, ExtendsVerified, Prefix

\* A log whose old entries stay where they are keeps their part of the invariant.
LEMMA OldEntries ==
  ASSUME TypeOK, TypeOK', EntriesExtendVerified, NEW n \in 0..Len(log),
         n <= Len(log'), \A i \in 1..n : log'[i] = log[i], NEW i \in 1..n
  PROVE  ExtendsVerified(log', log'[i].prev_hash, i - 1)
<1>1. /\ log \in Seq(CustodyEntry) /\ Len(log) \in Nat
      /\ log' \in Seq(CustodyEntry) /\ Len(log') \in Nat
  BY LenProperties DEF TypeOK
<1>2. /\ i - 1 \in Nat /\ i - 1 <= Len(log) /\ i - 1 <= Len(log')
      /\ i \in 1..Len(log) /\ \A j \in 1..(i - 1) : log'[j] = log[j]
  BY <1>1
<1>3. ExtendsVerified(log, log[i].prev_hash, i - 1)
  BY <1>2, EntriesExtend
<1>4. ExtendsVerified(log', log[i].prev_hash, i - 1)
  BY <1>1, <1>2, <1>3, ExtendsKept
<1> QED BY <1>4

-----------------------------------------------------------------------------
\* An absent file has the invariant.
LEMMA LabInit == Init => LabInv
<1> SUFFICES ASSUME Init PROVE LabInv
  OBVIOUS
<1>1. 1..Len(log) = {} /\ appending = {}
  BY EmptySeq DEF Init
<1>2. TypeOK
  BY TypeInit
<1> QED BY <1>1, <1>2 DEF LabInv, EntriesExtendVerified, TailsExtendVerified

\* A writer that reads a log that verifies holds the last hash of all of it.
LEMMA LabRead ==
  ASSUME LabInv, TypeOK', NEW w \in Writers, read_and_verify(w)
  PROVE  LabInv'
<1>1. /\ log \in Seq(CustodyEntry) /\ Len(log) \in Nat
      /\ verify_chain(log) /\ log' = log
      /\ appending' = appending \cup {w}
      /\ tail'[w] = last_entry_hash(log)
      /\ \A v \in appending : v # w => tail'[v] = tail[v]
  BY LenProperties DEF LabInv, TypeOK, read_and_verify, ReadTail
<1>2. SubSeq(log, 1, Len(log)) = log
  <2> DEFINE u == SubSeq(log, 1, Len(log))
  <2>1. u \in Seq(CustodyEntry) /\ Len(u) = Len(log) /\ \A i \in 1..Len(log) : u[i] = log[i]
    BY <1>1, PrefixOfFile
  <2> HIDE DEF u
  <2>2. u = log
    BY <1>1, <2>1, SeqEqual
  <2> QED BY <2>2 DEF u
<1>3. ExtendsVerified(log, tail'[w], Len(log))
  <2>1. Len(log) \in 0..Len(log)
    BY <1>1
  <2> QED BY <1>1, <1>2, <2>1 DEF ExtendsVerified
<1>4. TailsExtendVerified'
  BY <1>1, <1>3 DEF LabInv, TailsExtendVerified
<1>5. EntriesExtendVerified'
  BY <1>1 DEF LabInv, EntriesExtendVerified, Prefix
<1> QED BY <1>4, <1>5 DEF LabInv

\* An append that ends without writing a readable entry.
LEMMA LabNoEntry ==
  ASSUME LabInv, TypeOK', NEW w \in Writers, EndAppend(w), log' = log
  PROVE  LabInv'
<1>1. \A v \in appending' : v \in appending /\ tail'[v] = tail[v]
  BY EndAppendType DEF LabInv
<1>2. TailsExtendVerified'
  BY <1>1 DEF LabInv, TailsExtendVerified
<1>3. EntriesExtendVerified'
  BY DEF LabInv, EntriesExtendVerified, Prefix
<1> QED BY <1>2, <1>3 DEF LabInv

\* The new entry extends what its writer has read.
LEMMA LabNewEntry ==
  ASSUME LabInv, TypeOK', NEW w \in Writers, NEW b \in Bodies, w \in appending,
         log' = Append(log, NewEntry(b, tail[w])), EndAppend(w)
  PROVE  LabInv'
<1> DEFINE n == Len(log)
           e == NewEntry(b, tail[w])
<1>1. log \in Seq(CustodyEntry) /\ n \in Nat /\ tail[w] \in Hashes
  BY LenProperties DEF LabInv, TypeOK
<1>2. e \in CustodyEntry /\ e.prev_hash = tail[w]
  BY <1>1, NewEntryType
<1>3. /\ log' \in Seq(CustodyEntry) /\ Len(log') = n + 1
      /\ \A i \in 1..n : log'[i] = log[i]
      /\ log'[n + 1] = e
  BY <1>1, <1>2, FileAppend
<1>4. ASSUME NEW v \in appending, NEW m \in Nat, n <= m
      PROVE  ExtendsVerified(log', tail[v], m)
  <2>1. ExtendsVerified(log, tail[v], n)
    BY DEF LabInv, TailsExtendVerified
  <2>2. n <= Len(log) /\ n <= Len(log')
    BY <1>1, <1>3
  <2> QED BY <1>1, <1>3, <1>4, <2>1, <2>2, ExtendsKept
<1>5. TailsExtendVerified'
  <2>1. \A v \in appending' : v \in appending /\ tail'[v] = tail[v]
    BY EndAppendType DEF LabInv
  <2>2. n + 1 \in Nat /\ n <= n + 1
    BY <1>1
  <2>3. \A v \in appending : ExtendsVerified(log', tail[v], Len(log'))
    BY <1>3, <1>4, <2>2
  <2> QED BY <2>1, <2>3 DEF TailsExtendVerified
<1>6. \A i \in 1..Len(log') : ExtendsVerified(log', log'[i].prev_hash, i - 1)
  <2> SUFFICES ASSUME NEW i \in 1..Len(log')
               PROVE  ExtendsVerified(log', log'[i].prev_hash, i - 1)
    OBVIOUS
  <2>1. CASE i \in 1..n
    <3>1. n \in 0..Len(log) /\ n <= Len(log')
      BY <1>1, <1>3
    <3> QED BY <1>3, <2>1, <3>1, OldEntries DEF LabInv
  <2>2. CASE i = n + 1
    <3>1. i - 1 = n /\ n <= n
      BY <1>1, <2>2
    <3>2. ExtendsVerified(log', tail[w], n)
      BY <1>1, <1>4, <3>1
    <3> QED BY <1>2, <1>3, <2>2, <3>1, <3>2
  <2>3. i \in 1..n \/ i = n + 1
    BY <1>1, <1>3
  <2> QED BY <2>1, <2>2, <2>3
<1>7. EntriesExtendVerified'
  BY <1>6 DEF EntriesExtendVerified, ExtendsVerified, Prefix
<1> QED BY <1>5, <1>7 DEF LabInv

\* A power loss keeps a prefix, and nobody is left in append_entry.
LEMMA LabPowerLoss ==
  ASSUME LabInv, TypeOK', NEW k \in 0..Len(log), PowerLoss(k)
  PROVE  LabInv'
<1>1. /\ log \in Seq(CustodyEntry) /\ Len(log) \in Nat /\ k \in Nat
      /\ log' = SubSeq(log, 1, k)
      /\ appending' = {}
  BY LenProperties DEF LabInv, TypeOK, PowerLoss
<1>2. Len(log') = k /\ \A i \in 1..k : log'[i] = log[i]
  BY <1>1, PrefixOfFile
<1>3. k <= Len(log')
  BY <1>1, <1>2
<1>4. \A i \in 1..Len(log') : ExtendsVerified(log', log'[i].prev_hash, i - 1)
  BY <1>2, <1>3, OldEntries DEF LabInv
<1>5. EntriesExtendVerified'
  BY <1>4 DEF EntriesExtendVerified, ExtendsVerified, Prefix
<1> QED BY <1>1, <1>5 DEF LabInv, TailsExtendVerified

\* The invariant survives every step.
LEMMA LabInvStep == LabInv /\ [LabNext]_vars => LabInv'
<1> SUFFICES ASSUME LabInv, [LabNext]_vars PROVE LabInv'
  OBVIOUS
<1>0. TypeOK'
  BY LabStep, TypeStep DEF LabInv
<1>1. ASSUME NEW w \in Writers, read_and_verify(w) PROVE LabInv'
  BY <1>0, <1>1, LabRead
<1>2. ASSUME NEW w \in Writers, NEW b \in Bodies, WriteEntry(w, b) PROVE LabInv'
  <2>1. CASE torn
    BY <1>0, <1>2, <2>1, LabNoEntry DEF WriteEntry
  <2>2. CASE ~torn
    BY <1>0, <1>2, <2>2, LabNewEntry DEF WriteEntry
  <2> QED BY <2>1, <2>2
<1>3. ASSUME NEW w \in Writers, AbandonAppend(w) PROVE LabInv'
  BY <1>0, <1>3, LabNoEntry DEF AbandonAppend
<1>4. ASSUME NEW w \in Writers, TearLine(w) PROVE LabInv'
  BY <1>0, <1>4, LabNoEntry DEF TearLine
<1>5. ASSUME NEW k \in 0..Len(log), PowerLoss(k) PROVE LabInv'
  BY <1>0, <1>5, LabPowerLoss
<1>6. CASE UNCHANGED vars
  BY <1>0, <1>6 DEF LabInv, EntriesExtendVerified, TailsExtendVerified, Prefix, vars
<1> QED BY <1>1, <1>2, <1>3, <1>4, <1>5, <1>6 DEF LabNext

\* However appends interleave, every entry of dfirlab's log extends a prefix of
\* the log that verifies: the log may fork, and nothing is built on the fork.
THEOREM NothingOnAFork == LabSpec => []EntriesExtendVerified
<1>1. LabInv /\ [LabNext]_vars => LabInv'
  BY LabInvStep
<1>2. LabInv => EntriesExtendVerified
  BY DEF LabInv
<1> QED BY LabInit, <1>1, <1>2, PTL DEF LabSpec
=============================================================================
