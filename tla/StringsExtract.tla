---------------------------- MODULE StringsExtract ----------------------------
(***************************************************************************)
(* Printable strings in a file: dfirlab's extract_strings                  *)
(* (dfirlab/strings_util.py), which reads one prefix of the file, and      *)
(* EviForge's StringsModule (eviforge/modules/strings.py), which reads it  *)
(* in chunks.  Both are compared with what the strings of a file are: its  *)
(* longest runs of printable bytes.                                        *)
(*                                                                         *)
(* A byte is one of four kinds: a letter, a line break (which only dfirlab *)
(* takes as printable, with tab), a zero byte, or another.  The file grows *)
(* byte by byte, so that every file up to a length is looked at.           *)
(***************************************************************************)
EXTENDS Naturals, Sequences, FiniteSets, SequencesExt

CONSTANTS
  Bytes,           \* kinds of bytes: a subset of Kinds
  MaxLen,          \* bound on the file
  MaxBytes,        \* max_bytes of extract_strings
  Chunk,           \* bytes that StringsModule reads at a time
  MinLens,         \* values of min_len and min_length
  MaxStrings       \* values of per_file_limit and max_strings

Kinds == {"letter", "newline", "zero", "other"}

ASSUME BytesAssumption == Bytes \subseteq Kinds
ASSUME LengthsAssumption ==
  /\ MaxLen \in Nat /\ MaxBytes \in Nat /\ Chunk \in Nat \ {0}
  /\ MinLens \subseteq Nat \ {0} /\ MaxStrings \subseteq Nat

VARIABLE data      \* the file

PRINTABLE == {"letter", "newline"}
PATTERN == {"letter"}

Init == data = <<>>

Grow(b) ==
  /\ Len(data) < MaxLen
  /\ data' = Append(data, b)

Next == \E b \in Bytes : Grow(b)

Spec == Init /\ [][Next]_data

-----------------------------------------------------------------------------
(* What the strings of a file are.                                          *)

\* The longest runs of bytes from P with at least min bytes, as intervals.
Runs(s, P, min) ==
  {r \in (1..Len(s)) \X (1..Len(s)) :
     /\ r[1] <= r[2] /\ r[2] - r[1] + 1 >= min
     /\ \A i \in r[1]..r[2] : s[i] \in P
     /\ r[1] = 1 \/ s[r[1] - 1] \notin P
     /\ r[2] = Len(s) \/ s[r[2] + 1] \notin P}

InOrder(runs) == SetToSortSeq(runs, LAMBDA q, r : q[1] < r[1])

\* The runs themselves, from left to right.
Strings(s, P, min) ==
  LET runs == InOrder(Runs(s, P, min))
  IN  [i \in 1..Len(runs) |-> SubSeq(s, runs[i][1], runs[i][2])]

First(n, s) == SubSeq(s, 1, IF n < Len(s) THEN n ELSE Len(s))

-----------------------------------------------------------------------------
(* dfirlab.                                                                 *)

Start == [out |-> <<>>, buf |-> <<>>, total |-> 0]

\* Mutant: the string that was too short stays in the buffer.
EndString_Keeps(st, min, limit) ==
  IF Len(st.buf) < min THEN st
  ELSE [out |-> IF Len(st.out) < limit THEN Append(st.out, st.buf) ELSE st.out,
        buf |-> <<>>, total |-> st.total + 1]

\* What a byte that does not belong to it does to the string in the buffer.
EndString(st, min, limit) ==
  IF Len(st.buf) < min THEN [st EXCEPT !.buf = <<>>]
  ELSE [out |-> IF Len(st.out) < limit THEN Append(st.out, st.buf) ELSE st.out,
        buf |-> <<>>, total |-> st.total + 1]

Result(st) == [out |-> st.out, total |-> st.total]

extract_ascii(s, min, limit) ==
  LET step(st, b) == IF b \in PRINTABLE THEN [st EXCEPT !.buf = Append(@, b)]
                     ELSE EndString(st, min, limit)
  IN  Result(EndString(FoldLeft(step, Start, s), min, limit))

\* The pairs of bytes that the loop looks at, as the character each is or "other";
\* a last byte alone is not looked at.
Units(s) ==
  [i \in 1..(Len(s) \div 2) |->
     IF s[2 * i - 1] \in PRINTABLE /\ s[2 * i] = "zero" THEN s[2 * i - 1] ELSE "other"]

extract_utf16le(s, min, limit) ==
  LET step(st, u) == IF u # "other" THEN [st EXCEPT !.buf = Append(@, u)]
                     ELSE EndString(st, min, limit)
  IN  Result(EndString(FoldLeft(step, Start, Units(s)), min, limit))

extract_strings(s, min, limit) ==
  [ascii |-> extract_ascii(First(MaxBytes, s), min, limit),
   utf16le |-> extract_utf16le(First(MaxBytes, s), min, limit)]

-----------------------------------------------------------------------------
(* EviForge.                                                                *)

\* f.read(Chunk), until there is nothing left.
Chunks(s) ==
  [k \in 1..((Len(s) + Chunk - 1) \div Chunk) |->
     SubSeq(s, (k - 1) * Chunk + 1, IF k * Chunk < Len(s) THEN k * Chunk ELSE Len(s))]

\* re.findall of the pattern.
findall(chunk, min) == Strings(chunk, PATTERN, min)

\* The inner loop takes a match and then looks whether there are max_strings, so
\* that it takes one when there may be none; the outer loop looks again.
TakeMatches(st, matches, max) ==
  IF st.full THEN st
  ELSE LET out == st.out \o First(IF max = 0 THEN 1 ELSE max - Len(st.out), matches)
       IN  [out |-> out, full |-> Len(out) >= max]

NoMatches == [out |-> <<>>, full |-> FALSE]

\* Mutant: a match that ends at the end of the chunk is left for the next one.
run_LeavesLast(s, min, max) ==
  LET step(st, chunk) == TakeMatches(st, findall(Front(chunk), min), max)
      out == FoldLeft(step, NoMatches, Chunks(s)).out
  IN  [strings |-> out, limit_reached |-> Len(out) >= max]

\* StringsModule.run.
run(s, min, max) ==
  LET step(st, chunk) == TakeMatches(st, findall(chunk, min), max)
      out == FoldLeft(step, NoMatches, Chunks(s)).out
  IN  [strings |-> out, limit_reached |-> Len(out) >= max]

-----------------------------------------------------------------------------
\* extract_strings returns the first of the ASCII strings in the bytes it reads,
\* from left to right, and the number of all of them.
AsciiFound ==
  \A min \in MinLens, limit \in MaxStrings :
    LET all == Strings(First(MaxBytes, data), PRINTABLE, min)
    IN  extract_strings(data, min, limit).ascii =
          [out |-> First(limit, all), total |-> Len(all)]

\* The zero-terminated characters of a little-endian UTF-16 text begin at places
\* of the same parity: where text[i] is its i-th character, s[j + 2i] is.
TextAt(s, j, n) ==
  \A i \in 0..(n - 1) :
    s[j + 2 * i] \in PRINTABLE /\ s[j + 2 * i + 1] = "zero"

\* Every UTF-16 text that begins at an even offset and is long enough is found, as
\* a whole; one at an odd offset is not looked for.
Utf16Found ==
  \A min \in MinLens, limit \in MaxStrings :
    LET s == First(MaxBytes, data)
        found == extract_strings(data, min, limit).utf16le
        texts == {t \in (1..Len(s)) \X (min..Len(s)) :
                    /\ t[1] % 2 = 1 /\ t[1] + 2 * t[2] - 1 <= Len(s)
                    /\ TextAt(s, t[1], t[2])
                    /\ t[1] = 1 \/ ~TextAt(s, t[1] - 2, 1)
                    /\ \/ t[1] + 2 * t[2] + 1 > Len(s)
                       \/ ~TextAt(s, t[1] + 2 * t[2], 1)}
        inOrder == InOrder(texts)
        all == [k \in 1..Len(inOrder) |->
                  [i \in 1..inOrder[k][2] |-> s[inOrder[k][1] + 2 * (i - 1)]]]
    IN  found = [out |-> First(limit, all), total |-> Len(all)]

AtLeastOne(n) == IF n = 0 THEN 1 ELSE n

\* A file of one chunk: StringsModule returns its first strings, one even if there
\* may be none, and says that it has reached its limit as soon as it has used it up.
OneChunkIsExact ==
  Len(data) <= Chunk =>
    \A min \in MinLens, max \in MaxStrings :
      LET all == Strings(data, PATTERN, min)
      IN  run(data, min, max) =
            [strings |-> First(AtLeastOne(max), all), limit_reached |-> Len(all) >= max]

\* The end of a chunk cuts the string it is in, and pieces of less than min_length
\* are lost; but a string of at least 2 * min_length - 1 bytes always leaves a piece,
\* unless the limit was reached, which the result then says.
LongStringsLeaveAPiece ==
  \A min \in {m \in MinLens : m <= Chunk}, max \in MaxStrings :
    LET result == run(data, min, max)
        long == Runs(data, PATTERN, 2 * min - 1)
    IN  result.limit_reached \/ Len(result.strings) >= Cardinality(long)

\* The pieces make up no more bytes than the strings have, and no piece is shorter
\* than min_length.
PiecesAreOfStrings ==
  \A min \in MinLens, max \in MaxStrings :
    LET result == run(data, min, max)
        bytes(strings) == FoldLeft(LAMBDA n, s : n + Len(s), 0, strings)
    IN  /\ Len(result.strings) <= AtLeastOne(max)
        /\ \A i \in 1..Len(result.strings) : Len(result.strings[i]) >= min
        /\ bytes(result.strings) <= bytes(Strings(data, PATTERN, min))

\* extract_strings of dfirlab finds the ASCII and UTF-16 strings as defined above.
ExtractorsAreReference == AsciiFound /\ Utf16Found

\* StringsModule finds them up to what the ends of chunks do to them.
ModuleFindsPieces == OneChunkIsExact /\ LongStringsLeaveAPiece /\ PiecesAreOfStrings
=============================================================================
