------------------------ MODULE LoginRateLimit_proofs ------------------------
(***************************************************************************)
(* Proofs about LoginRateLimit, for any finite set of processes, window,   *)
(* limits and bounds:                                                      *)
(*                                                                         *)
(*   LoginTypeCorrect     Spec => []TypeOK                                 *)
(*   LimitHolds           Spec => []BucketLimit                            *)
(*   NobodyRefusedEarly   Spec => []RefusedAfterLimit                      *)
(*                                                                         *)
(* What several counters add up to is the size of a set: that of the       *)
(* places (process, number) that the dictionaries have given out.          *)
(***************************************************************************)
EXTENDS LoginRateLimit, FiniteSetTheorems, TLAPS

AtMost(k) == IF k < limit THEN k ELSE limit

\* The processes that hold a number of Redis which lets them through.
InFlight(b) ==
  {p \in Procs : pc[p] \in {"reply", "expire"} /\ bucket[p] = b /\ n[p] <= limit}

\* The processes that have an attempt.
Pending(b) == {p \in Procs : pc[p] # "idle" /\ bucket[p] = b}

\* The numbers that let through, of those the dictionaries have given out.
Slots(b) == {s \in Procs \X (1..limit) : s[2] <= mem[s[1]][b].count}

\* The attempts that are over and were not refused.
Done(b) == attempts[b] - refused[b] - Cardinality(Pending(b))

\* Those, and the numbers up to the limit that Redis has given out to no purpose yet.
Seen(b) == Done(b) + resent + Cardinality(InFlight(b))

\* Every lost set of counters and every repeated command took a fault.
FaultsCounted == restarts + resent + (IF up THEN 0 ELSE 1) <= faults

\* Who was let through is one of those whose attempt is over.
Accounted == \A b \in Buckets : passed[b] <= Done(b)

\* Without a limit nobody gets into the function.
Off == limit = 0 => \A p \in Procs : pc[p] = "idle"

\* Nothing is known of a window that has not begun.
NotYet ==
  /\ \A p \in Procs : bucket[p] <= Bucket(now)
  /\ \A b \in Buckets : b > Bucket(now) => passed[b] = 0

\* A counter outlives its window, and a process that has one has fallen back.
InWindow ==
  \A b \in Buckets :
    /\ keys[b].expires # 0 => keys[b].expires >= (b + 1) * Window
    /\ \A p \in Procs :
         mem[p][b].count > 0 => mem[p][b].expires >= (b + 1) * Window /\ p \in apart[b]

\* Who was let through in this window, or will be, has a number of its own: of
\* Redis, of a dictionary, or of counters that were lost.
Spent ==
  LET b == Bucket(now)
  IN  passed[b] + Cardinality(InFlight(b)) <=
        limit * restarts + AtMost(keys[b].count) + Cardinality(Slots(b))

\* A counter has counted attempts that are seen, and a dictionary such as are over.
Counted ==
  \A b \in Buckets :
    /\ AtMost(keys[b].count) <= Seen(b)
    /\ \A p \in Procs : bucket[p] = b => AtMost(n[p]) <= Seen(b)
    /\ \A p \in Procs : AtMost(mem[p][b].count) <= Done(b)
    /\ refused[b] > 0 => limit > 0 /\ limit <= Seen(b)

\* BucketLimit, of the windows that are over.
PastLimit ==
  limit > 0 =>
    \A b \in Buckets :
      b < Bucket(now) => passed[b] <= limit * (1 + Cardinality(apart[b]) + restarts)

LoginInv ==
  /\ TypeOK /\ FaultsCounted /\ Accounted /\ Off /\ NotYet /\ InWindow /\ Spent
  /\ Counted /\ PastLimit

-----------------------------------------------------------------------------
(* Windows.                                                                 *)

\* A moment is in its window.
LEMMA BucketOf ==
  ASSUME NEW t \in Nat
  PROVE  /\ Bucket(t) \in Nat
         /\ Bucket(t) * Window <= t /\ t < (Bucket(t) + 1) * Window
<1>1. Window \in Nat \ {0}
  BY WindowAssumption
<1>2. /\ t \div Window \in Nat /\ Window * (t \div Window) <= t
      /\ t < Window * ((t \div Window) + 1)
  BY <1>1, SMT
<1> QED BY <1>1, <1>2 DEF Bucket

\* Windows follow one another.
LEMMA BucketsGrow ==
  ASSUME NEW t \in Nat, NEW u \in Nat, t <= u
  PROVE  Bucket(t) <= Bucket(u)
<1> DEFINE a == Bucket(t)
           b == Bucket(u)
<1>1. /\ Window \in Nat \ {0} /\ a \in Nat /\ b \in Nat
      /\ a * Window <= t /\ u < (b + 1) * Window
  BY BucketOf, WindowAssumption
<1> HIDE DEF a, b
<1>2. a * Window < (b + 1) * Window
  BY <1>1
<1>3. ~(b + 1 <= a)
  <2>1. b + 1 <= a => (b + 1) * Window <= a * Window
    BY <1>1
  <2> QED BY <1>1, <1>2, <2>1
<1>4. a <= b
  BY <1>1, <1>3
<1> QED BY <1>4 DEF a, b

\* The window of now is one of the windows.
LEMMA NowIsInOne == ASSUME TypeOK PROVE Bucket(now) \in Buckets
<1>1. now \in Nat /\ MaxTime \in Nat /\ now <= MaxTime
  BY BoundsAssumption DEF TypeOK
<1>2. Bucket(now) <= Bucket(MaxTime) /\ Bucket(now) \in Nat /\ Bucket(MaxTime) \in Nat
  BY <1>1, BucketOf, BucketsGrow
<1> QED BY <1>2 DEF Buckets

-----------------------------------------------------------------------------
(* Sets of processes.                                                       *)

\* What an element adds to the size of a set.
LEMMA WithAndWithout ==
  ASSUME NEW S, IsFiniteSet(S), NEW x
  PROVE  /\ Cardinality(S) \in Nat
         /\ Cardinality(S \ {x}) \in Nat
         /\ Cardinality(S) = Cardinality(S \ {x}) + (IF x \in S THEN 1 ELSE 0)
<1>1. IsFiniteSet(S \ {x})
  BY FS_RemoveElement
<1>2. Cardinality(S) \in Nat /\ Cardinality(S \ {x}) \in Nat
  BY <1>1, FS_CardinalityType
<1>3. Cardinality(S \ {x}) = IF x \in S THEN Cardinality(S) - 1 ELSE Cardinality(S)
  BY FS_RemoveElement
<1> QED BY <1>2, <1>3

\* Sets of processes are finite.
LEMMA SomeProcs ==
  ASSUME NEW S, S \subseteq Procs
  PROVE  IsFiniteSet(S) /\ Cardinality(S) \in Nat
<1>1. IsFiniteSet(S)
  BY ProcsAssumption, FS_Subset
<1> QED BY <1>1, FS_CardinalityType

\* The sizes the invariant speaks of are numbers.
LEMMA Sizes ==
  ASSUME TypeOK, NEW b \in Buckets
  PROVE  /\ IsFiniteSet(InFlight(b)) /\ Cardinality(InFlight(b)) \in Nat
         /\ IsFiniteSet(Pending(b)) /\ Cardinality(Pending(b)) \in Nat
         /\ Cardinality(InFlight(b)) <= Cardinality(Pending(b))
         /\ IsFiniteSet(apart[b]) /\ Cardinality(apart[b]) \in Nat
<1>1. InFlight(b) \subseteq Pending(b) /\ Pending(b) \subseteq Procs
  BY DEF InFlight, Pending
<1>2. apart[b] \subseteq Procs
  BY DEF TypeOK
<1>3. IsFiniteSet(Pending(b))
  BY <1>1, SomeProcs
<1> QED BY <1>1, <1>2, <1>3, SomeProcs, FS_Subset

\* The dictionaries give out no more numbers that let through than the limit, for
\* every process that has fallen back.
LEMMA SlotsOfThoseApart ==
  ASSUME TypeOK, InWindow, NEW b \in Buckets
  PROVE  /\ IsFiniteSet(Slots(b)) /\ Cardinality(Slots(b)) \in Nat
         /\ Cardinality(Slots(b)) <= Cardinality(apart[b]) * limit
<1> DEFINE T == apart[b] \X (1..limit)
<1>1. limit \in Nat
  BY BoundsAssumption DEF TypeOK
<1>2. Slots(b) \subseteq T
  <2> SUFFICES ASSUME NEW s \in Slots(b) PROVE s \in T
    OBVIOUS
  <2>1. s \in Procs \X (1..limit) /\ s[2] <= mem[s[1]][b].count
    BY DEF Slots
  <2>2. s[1] \in Procs /\ s[2] \in 1..limit
    BY <2>1
  <2>3. mem[s[1]][b].count \in Nat
    BY <2>2 DEF TypeOK, Counter
  <2>4. mem[s[1]][b].count > 0
    BY <1>1, <2>1, <2>2, <2>3
  <2>5. s[1] \in apart[b]
    BY <2>2, <2>4 DEF InWindow
  <2> QED BY <2>1, <2>5
<1>3. IsFiniteSet(1..limit) /\ Cardinality(1..limit) = limit
  BY <1>1, FS_Interval
<1>4. IsFiniteSet(T) /\ Cardinality(T) = Cardinality(apart[b]) * limit
  BY <1>3, Sizes, FS_Product
<1>5. IsFiniteSet(Slots(b)) /\ Cardinality(Slots(b)) <= Cardinality(T)
  BY <1>2, <1>4, FS_Subset
<1> QED BY <1>4, <1>5, FS_CardinalityType
-----------------------------------------------------------------------------
(* What a step of one process does to the sets.                             *)

\* What a process contributes to the sizes for its window.
InHand(p) == IF pc[p] \in {"reply", "expire"} /\ n[p] <= limit THEN 1 ELSE 0
Busy(p) == IF pc[p] # "idle" THEN 1 ELSE 0

\* The other processes are where they were.
OthersStay(p) ==
  /\ limit' = limit
  /\ \A q \in Procs \ {p} : pc'[q] = pc[q] /\ n'[q] = n[q] /\ bucket'[q] = bucket[q]

\* A process that stays in its window changes the sizes for that window by what it
\* contributes.
LEMMA OneProcess ==
  ASSUME TypeOK, NEW p \in Procs, OthersStay(p), bucket'[p] = bucket[p],
         NEW b \in Buckets
  PROVE  /\ b = bucket[p] =>
              /\ Cardinality(InFlight(b)') = Cardinality(InFlight(b)) - InHand(p) + InHand(p)'
              /\ Cardinality(Pending(b)') = Cardinality(Pending(b)) - Busy(p) + Busy(p)'
         /\ b # bucket[p] => InFlight(b)' = InFlight(b) /\ Pending(b)' = Pending(b)
<1>1. CASE b = bucket[p]
  <2>1. InFlight(b)' \ {p} = InFlight(b) \ {p} /\ Pending(b)' \ {p} = Pending(b) \ {p}
    BY DEF InFlight, Pending, OthersStay
  <2>2. /\ p \in InFlight(b) <=> InHand(p) = 1
        /\ p \in InFlight(b)' <=> InHand(p)' = 1
        /\ p \in Pending(b) <=> Busy(p) = 1
        /\ p \in Pending(b)' <=> Busy(p)' = 1
    BY <1>1 DEF InFlight, Pending, InHand, Busy
  <2>3. /\ InHand(p) \in {0, 1} /\ InHand(p)' \in {0, 1}
        /\ Busy(p) \in {0, 1} /\ Busy(p)' \in {0, 1}
    BY DEF InHand, Busy
  <2>4. /\ IsFiniteSet(InFlight(b)) /\ IsFiniteSet(InFlight(b)')
        /\ IsFiniteSet(Pending(b)) /\ IsFiniteSet(Pending(b)')
    <3>1. /\ InFlight(b) \subseteq Procs /\ InFlight(b)' \subseteq Procs
          /\ Pending(b) \subseteq Procs /\ Pending(b)' \subseteq Procs
      BY DEF InFlight, Pending
    <3> QED BY <3>1, SomeProcs
  <2>5. /\ Cardinality(InFlight(b) \ {p}) \in Nat
        /\ Cardinality(InFlight(b)) =
             Cardinality(InFlight(b) \ {p}) + (IF p \in InFlight(b) THEN 1 ELSE 0)
    BY <2>4, WithAndWithout
  <2>6. Cardinality(InFlight(b)') =
          Cardinality(InFlight(b)' \ {p}) + (IF p \in InFlight(b)' THEN 1 ELSE 0)
    BY <2>4, WithAndWithout
  <2>7. /\ Cardinality(Pending(b) \ {p}) \in Nat
        /\ Cardinality(Pending(b)) =
             Cardinality(Pending(b) \ {p}) + (IF p \in Pending(b) THEN 1 ELSE 0)
    BY <2>4, WithAndWithout
  <2>8. Cardinality(Pending(b)') =
          Cardinality(Pending(b)' \ {p}) + (IF p \in Pending(b)' THEN 1 ELSE 0)
    BY <2>4, WithAndWithout
  <2>9. Cardinality(InFlight(b)') = Cardinality(InFlight(b)) - InHand(p) + InHand(p)'
    <3>1. Cardinality(InFlight(b)) = Cardinality(InFlight(b) \ {p}) + InHand(p)
      BY <2>2, <2>3, <2>5
    <3>2. Cardinality(InFlight(b)') = Cardinality(InFlight(b) \ {p}) + InHand(p)'
      BY <2>1, <2>2, <2>3, <2>6
    <3> QED BY <2>3, <2>5, <3>1, <3>2
  <2>10. Cardinality(Pending(b)') = Cardinality(Pending(b)) - Busy(p) + Busy(p)'
    <3>1. Cardinality(Pending(b)) = Cardinality(Pending(b) \ {p}) + Busy(p)
      BY <2>2, <2>3, <2>7
    <3>2. Cardinality(Pending(b)') = Cardinality(Pending(b) \ {p}) + Busy(p)'
      BY <2>1, <2>2, <2>3, <2>8
    <3> QED BY <2>3, <2>7, <3>1, <3>2
  <2> QED BY <1>1, <2>9, <2>10
<1>2. CASE b # bucket[p]
  BY <1>2 DEF InFlight, Pending, OthersStay
<1> QED BY <1>1, <1>2

\* The variables of the counts are numbers.
LEMMA Numbers ==
  ASSUME TypeOK, NEW b \in Buckets
  PROVE  /\ limit \in Nat /\ restarts \in Nat /\ resent \in Nat /\ faults \in Nat
         /\ attempts[b] \in Nat /\ passed[b] \in Nat /\ refused[b] \in Nat
         /\ keys[b].count \in Nat /\ keys[b].expires \in Nat /\ b \in Nat /\ now \in Nat
         /\ Done(b) \in Int /\ Seen(b) \in Int
         /\ \A p \in Procs : n[p] \in Nat /\ mem[p][b].count \in Nat
                             /\ mem[p][b].expires \in Nat
<1>1. /\ limit \in Nat /\ restarts \in Nat /\ resent \in Nat /\ faults \in Nat
      /\ attempts[b] \in Nat /\ passed[b] \in Nat /\ refused[b] \in Nat
  BY BoundsAssumption DEF TypeOK
<1>2. /\ keys[b].count \in Nat /\ keys[b].expires \in Nat
      /\ \A p \in Procs : n[p] \in Nat /\ mem[p][b].count \in Nat
                          /\ mem[p][b].expires \in Nat
  BY DEF TypeOK, Counter
<1>3. b \in Nat /\ now \in Nat
  BY BoundsAssumption, BucketOf DEF TypeOK, Buckets
<1>4. Done(b) \in Int /\ Seen(b) \in Int
  BY <1>1, Sizes DEF Done, Seen
<1> QED BY <1>1, <1>2, <1>3, <1>4

\* What the end of an attempt does to the counts: who is let through is over, and
\* who is refused is not.
LEMMA Decided ==
  ASSUME TypeOK, NEW p \in Procs, NEW k \in Nat, pc[p] # "idle", Decide(p, k),
         UNCHANGED <<limit, bucket, attempts>>, NEW b \in Buckets
  PROVE  /\ b = bucket[p] =>
              /\ Cardinality(Pending(b)') = Cardinality(Pending(b)) - 1
              /\ Cardinality(InFlight(b)') = Cardinality(InFlight(b)) - InHand(p)
              /\ passed'[b] = passed[b] + (IF k <= limit /\ Bucket(now) = b THEN 1 ELSE 0)
              /\ refused'[b] = refused[b] + (IF k > limit THEN 1 ELSE 0)
              /\ Done(b)' = Done(b) + (IF k > limit THEN 0 ELSE 1)
         /\ b # bucket[p] =>
              /\ InFlight(b)' = InFlight(b)
              /\ passed'[b] = passed[b] /\ refused'[b] = refused[b] /\ Done(b)' = Done(b)
<1>1. /\ pc \in [Procs -> {"idle", "incr", "reply", "expire"}]
      /\ n \in [Procs -> Nat] /\ bucket[p] \in Buckets
      /\ passed \in [Buckets -> 0..MaxAttempts] /\ refused \in [Buckets -> 0..MaxAttempts]
  BY DEF TypeOK
<1>2. OthersStay(p) /\ bucket'[p] = bucket[p] /\ pc'[p] = "idle"
  BY <1>1 DEF OthersStay, Decide
<1>3. Busy(p) = 1 /\ Busy(p)' = 0 /\ InHand(p)' = 0 /\ InHand(p) \in {0, 1}
  BY <1>2 DEF Busy, InHand
<1>4. /\ passed' = IF k <= limit /\ Bucket(now) = bucket[p]
                   THEN Inc(passed, bucket[p]) ELSE passed
      /\ refused' = IF k > limit THEN Inc(refused, bucket[p]) ELSE refused
  BY DEF Decide
<1>5. CASE b = bucket[p]
  <2>1. /\ Cardinality(InFlight(b)') = Cardinality(InFlight(b)) - InHand(p)
        /\ Cardinality(Pending(b)') = Cardinality(Pending(b)) - 1
    BY <1>2, <1>3, <1>5, OneProcess, Sizes
  <2>2. passed'[b] = passed[b] + (IF k <= limit /\ Bucket(now) = b THEN 1 ELSE 0)
    BY <1>1, <1>4, <1>5 DEF Inc
  <2>3. refused'[b] = refused[b] + (IF k > limit THEN 1 ELSE 0)
    BY <1>1, <1>4, <1>5 DEF Inc
  <2>4. Done(b)' = Done(b) + (IF k > limit THEN 0 ELSE 1)
    BY <2>1, <2>3, Numbers, Sizes DEF Done
  <2> QED BY <1>5, <2>1, <2>2, <2>3, <2>4
<1>6. CASE b # bucket[p]
  <2>1. InFlight(b)' = InFlight(b) /\ Pending(b)' = Pending(b)
    BY <1>2, <1>6, OneProcess
  <2>2. passed'[b] = passed[b] /\ refused'[b] = refused[b]
    BY <1>1, <1>4, <1>6 DEF Inc
  <2> QED BY <1>6, <2>1, <2>2 DEF Done
<1> QED BY <1>5, <1>6

-----------------------------------------------------------------------------
(* Types.                                                                   *)

\* Empty files of counters have the invariant.
LEMMA LoginInit == Init => LoginInv
<1> SUFFICES ASSUME Init PROVE LoginInv
  OBVIOUS
<1>1. /\ limit \in Nat /\ MaxTime \in Nat /\ MaxAttempts \in Nat /\ MaxFaults \in Nat
      /\ Window \in Nat \ {0}
  BY BoundsAssumption, WindowAssumption DEF Init
<1>2. /\ Bucket(0) \in Nat /\ Bucket(MaxTime) \in Nat /\ Bucket(0) <= Bucket(MaxTime)
      /\ Bucket(0) \in Buckets /\ 0 \in Buckets /\ Buckets \subseteq Nat
  <2>1. /\ Bucket(0) \in Nat /\ Bucket(MaxTime) \in Nat /\ Bucket(0) <= Bucket(MaxTime)
    BY <1>1, BucketOf, BucketsGrow
  <2> QED BY <2>1 DEF Buckets
<1>3. TypeOK
  BY <1>1, <1>2 DEF Init, TypeOK, Counter, NoCounter
<1>4. \A b \in Buckets : InFlight(b) = {} /\ Pending(b) = {}
  BY DEF Init, InFlight, Pending
<1>5. Cardinality({}) = 0
  BY FS_EmptySet
<1>6. \A b \in Buckets : Done(b) = 0 /\ Seen(b) = 0
  <2> SUFFICES ASSUME NEW b \in Buckets PROVE Done(b) = 0 /\ Seen(b) = 0
    OBVIOUS
  <2>1. attempts[b] = 0 /\ refused[b] = 0 /\ resent = 0
    BY DEF Init
  <2>2. Cardinality(InFlight(b)) = 0 /\ Cardinality(Pending(b)) = 0
    BY <1>4, <1>5
  <2> QED BY <2>1, <2>2 DEF Done, Seen
<1>7. FaultsCounted /\ Off /\ Accounted
  BY <1>1, <1>6 DEF Init, FaultsCounted, Off, Accounted
<1>8. NotYet /\ InWindow
  BY <1>1, <1>2 DEF Init, NotYet, InWindow, NoCounter
<1>9. \A b \in Buckets : AtMost(keys[b].count) = 0
  BY <1>1 DEF Init, AtMost, NoCounter
<1>10. Counted
  BY <1>1, <1>6, <1>9 DEF Init, Counted, AtMost, NoCounter
<1>11. Spent
  <2>1. Bucket(now) \in Buckets /\ Cardinality(Slots(Bucket(now))) \in Nat
    BY <1>3, <1>8, NowIsInOne, SlotsOfThoseApart
  <2>2. passed[Bucket(now)] = 0 /\ restarts = 0
    BY <2>1 DEF Init
  <2>3. Cardinality(InFlight(Bucket(now))) = 0 /\ AtMost(keys[Bucket(now)].count) = 0
    BY <1>4, <1>5, <1>9, <2>1
  <2> QED BY <1>1, <2>1, <2>2, <2>3 DEF Spent
<1>12. PastLimit
  <2> SUFFICES ASSUME NEW b \in Buckets
               PROVE  passed[b] <= limit * (1 + Cardinality(apart[b]) + restarts)
    BY DEF PastLimit
  <2>1. passed[b] = 0 /\ restarts = 0 /\ Cardinality(apart[b]) = 0
    BY <1>5 DEF Init
  <2> QED BY <1>1, <2>1
<1> QED BY <1>3, <1>7, <1>8, <1>10, <1>11, <1>12 DEF LoginInv

\* The end of an attempt keeps the types of what it changes.
LEMMA DecideType ==
  ASSUME TypeOK, Accounted, NEW p \in Procs, NEW k \in Nat, pc[p] # "idle", Decide(p, k),
         UNCHANGED <<limit, bucket, attempts>>
  PROVE  /\ pc' \in [Procs -> {"idle", "incr", "reply", "expire"}]
         /\ n' \in [Procs -> Nat]
         /\ \A q \in Procs : n'[q] = 0 <=> pc'[q] \in {"idle", "incr"}
         /\ passed' \in [Buckets -> 0..MaxAttempts]
         /\ refused' \in [Buckets -> 0..MaxAttempts]
<1>1. /\ pc' \in [Procs -> {"idle", "incr", "reply", "expire"}]
      /\ n' \in [Procs -> Nat]
      /\ \A q \in Procs : n'[q] = 0 <=> pc'[q] \in {"idle", "incr"}
  BY DEF TypeOK, Decide
<1>2. DOMAIN passed' = Buckets /\ DOMAIN refused' = Buckets
  BY DEF TypeOK, Decide, Inc
<1>3. /\ passed' = [b \in Buckets |-> passed'[b]]
      /\ refused' = [b \in Buckets |-> refused'[b]]
  BY DEF TypeOK, Decide, Inc
<1>4. ASSUME NEW b \in Buckets
      PROVE  passed'[b] \in 0..MaxAttempts /\ refused'[b] \in 0..MaxAttempts
  <2>1. /\ passed[b] \in 0..MaxAttempts /\ refused[b] \in 0..MaxAttempts
        /\ attempts[b] \in 0..MaxAttempts /\ MaxAttempts \in Nat
    BY BoundsAssumption DEF TypeOK
  <2>2. CASE b = bucket[p]
    <3>1. p \in Pending(b) /\ IsFiniteSet(Pending(b))
      BY <2>2, Sizes DEF Pending
    <3>2. Cardinality(Pending(b)) >= 1
      <4>1. /\ Cardinality(Pending(b) \ {p}) \in Nat
            /\ Cardinality(Pending(b)) =
                 Cardinality(Pending(b) \ {p}) + (IF p \in Pending(b) THEN 1 ELSE 0)
        BY <3>1, WithAndWithout
      <4> QED BY <3>1, <4>1
    <3>3. passed[b] <= attempts[b] - refused[b] - Cardinality(Pending(b))
      BY DEF Accounted, Done
    <3>4. passed[b] + refused[b] + 1 <= MaxAttempts
      BY <2>1, <3>2, <3>3, Sizes
    <3> QED BY <2>1, <2>2, <3>4, Decided
  <2>3. CASE b # bucket[p]
    BY <2>1, <2>3, Decided
  <2> QED BY <2>2, <2>3
<1> QED BY <1>1, <1>3, <1>4

\* A fault is within its bound.
LEMMA FaultType == ASSUME TypeOK, Fault PROVE faults' \in 0..MaxFaults
BY BoundsAssumption DEF TypeOK, Fault

\* Neither the clock nor Redis disturbs the types.
LEMMA TypeWorld ==
  ASSUME TypeOK, FaultsCounted, Tick \/ RedisFails \/ RedisReturns
  PROVE  TypeOK'
<1>0. /\ MaxTime \in Nat /\ MaxFaults \in Nat /\ now \in Nat
      /\ restarts \in Nat /\ resent \in Nat /\ faults \in 0..MaxFaults
  BY BoundsAssumption DEF TypeOK
<1>1. CASE Tick
  <2>1. keys' \in [Buckets -> Counter]
    BY <1>1 DEF TypeOK, Tick, Counter, NoCounter
  <2>2. now' \in 0..MaxTime
    BY <1>0, <1>1 DEF TypeOK, Tick
  <2> QED BY <1>1, <2>1, <2>2 DEF TypeOK, Tick, histVars
<1>2. CASE RedisFails
  <2>1. faults' \in 0..MaxFaults
    BY <1>2, FaultType DEF RedisFails
  <2>2. up' \in BOOLEAN
    BY <1>2, Zenon DEF RedisFails
  <2> QED BY <1>2, <2>1, <2>2 DEF TypeOK, RedisFails, histVars
<1>3. CASE RedisReturns
  <2>1. ~up /\ restarts + 1 <= faults
    BY <1>0, <1>3 DEF RedisReturns, FaultsCounted
  <2>2. restarts' \in 0..MaxFaults
    BY <1>0, <1>3, <2>1 DEF RedisReturns, TypeOK
  <2>3. keys' \in [Buckets -> Counter]
    BY <1>3 DEF RedisReturns, TypeOK, Counter, NoCounter
  <2> QED BY <1>3, <2>2, <2>3 DEF RedisReturns, TypeOK
<1> QED BY <1>1, <1>2, <1>3

\* What SetTtl leaves is a counter.
LEMMA TtlType ==
  ASSUME TypeOK, NEW b \in Buckets, SetTtl(b)
  PROVE  /\ keys' \in [Buckets -> Counter]
         /\ \A c \in Buckets : keys'[c].count = keys[c].count
         /\ \A c \in Buckets : c # b => keys'[c].expires = keys[c].expires
         /\ keys'[b].expires = IF keys[b].count = 0 THEN 0 ELSE now + Window
<1> DEFINE ttl == IF keys[b].count = 0 THEN 0 ELSE now + Window
<1>1. /\ keys \in [Buckets -> Counter] /\ keys[b].count \in Nat /\ ttl \in Nat
  BY BoundsAssumption, WindowAssumption DEF TypeOK, Counter
<1>2. keys' = [keys EXCEPT ![b].expires = ttl]
  BY DEF SetTtl
<1> HIDE DEF ttl
<1>3. [keys[b] EXCEPT !.expires = ttl] \in Counter
  BY <1>1 DEF Counter
<1>4. keys' \in [Buckets -> Counter]
  BY <1>1, <1>2, <1>3
<1>5. keys'[b].count = keys[b].count /\ keys'[b].expires = ttl
  BY <1>1, <1>2 DEF Counter
<1>6. \A c \in Buckets : c # b => keys'[c] = keys[c]
  BY <1>1, <1>2
<1> QED BY <1>4, <1>5, <1>6 DEF ttl

\* What a dictionary has after a step back to it.
LEMMA FallBackType ==
  ASSUME TypeOK, NEW p \in Procs, FallBack(p)
  PROVE  /\ mem' \in [Procs -> [Buckets -> Counter]]
         /\ apart' \in [Buckets -> SUBSET Procs]
         /\ \A b \in Buckets : apart[b] \subseteq apart'[b]
         /\ p \in apart'[bucket[p]]
         /\ \A q \in Procs, b \in Buckets :
              q # p \/ b # bucket[p] => mem'[q][b] = mem[q][b]
         /\ \/ /\ mem'[p][bucket[p]] = [count |-> 1, expires |-> now + Window]
               /\ \/ mem[p][bucket[p]].count = 0
                  \/ now > mem[p][bucket[p]].expires
               /\ Decide(p, 1)
            \/ /\ mem'[p][bucket[p]] = [count |-> mem[p][bucket[p]].count + 1,
                                        expires |-> mem[p][bucket[p]].expires]
               /\ mem[p][bucket[p]].count > 0
               /\ Decide(p, mem[p][bucket[p]].count + 1)
<1> DEFINE b == bucket[p]
           old == mem[p][b]
           fresh == old.count = 0 \/ now > old.expires
           k == IF fresh THEN 1 ELSE old.count + 1
           r == [count |-> k, expires |-> IF fresh THEN now + Window ELSE old.expires]
<1>1. /\ mem' = [mem EXCEPT ![p][b] = r]
      /\ apart' = [apart EXCEPT ![b] = @ \cup {p}]
      /\ Decide(p, k)
  BY DEF FallBack
<1>2. /\ b \in Buckets /\ mem \in [Procs -> [Buckets -> Counter]]
      /\ old.count \in Nat /\ old.expires \in Nat /\ now \in Nat /\ Window \in Nat
      /\ apart \in [Buckets -> SUBSET Procs]
  BY BoundsAssumption, WindowAssumption DEF TypeOK, Counter
<1>3. r \in Counter
  BY <1>2 DEF Counter
<1> HIDE DEF r
<1>4. /\ mem' \in [Procs -> [Buckets -> Counter]]
      /\ mem'[p][b] = r
      /\ \A q \in Procs, c \in Buckets : q # p \/ c # b => mem'[q][c] = mem[q][c]
  BY <1>1, <1>2, <1>3
<1>5. /\ apart' \in [Buckets -> SUBSET Procs] /\ p \in apart'[b]
      /\ \A c \in Buckets : apart[c] \subseteq apart'[c]
  BY <1>1, <1>2
<1>6. CASE fresh
  BY <1>1, <1>4, <1>5, <1>6 DEF r
<1>7. CASE ~fresh
  <2>1. old.count > 0
    BY <1>2, <1>7
  <2> QED BY <1>1, <1>4, <1>5, <1>7, <2>1 DEF r
<1> QED BY <1>6, <1>7

\* No step of a process disturbs the types.
LEMMA TypeProcess ==
  ASSUME TypeOK, FaultsCounted, Accounted, NEW p \in Procs,
         \/ Begin(p) \/ Incr(p) \/ Reply(p) \/ Resend(p) \/ Expire(p)
         \/ NoAnswer(p) \/ Crash(p)
  PROVE  TypeOK'
<1>0. /\ MaxFaults \in Nat /\ MaxAttempts \in Nat /\ bucket[p] \in Buckets
      /\ n[p] \in Nat /\ restarts \in Nat /\ resent \in Nat /\ faults \in 0..MaxFaults
  BY BoundsAssumption DEF TypeOK
<1>1. CASE Begin(p)
  <2>1. Bucket(now) \in Buckets
    BY NowIsInOne
  <2>2. attempts' \in [Buckets -> 0..MaxAttempts]
    BY <1>0, <1>1, <2>1 DEF TypeOK, Begin, Inc
  <2>3. bucket' \in [Procs -> Buckets]
    BY <1>1, <2>1 DEF TypeOK, Begin, BucketOfKey
  <2>4. /\ pc' \in [Procs -> {"idle", "incr", "reply", "expire"}]
        /\ \A q \in Procs : n[q] = 0 <=> pc'[q] \in {"idle", "incr"}
    BY <1>1 DEF TypeOK, Begin
  <2> QED BY <1>1, <2>2, <2>3, <2>4 DEF TypeOK, Begin
<1>2. CASE Incr(p)
  <2> DEFINE c == keys[bucket[p]].count + 1
  <2>1. keys[bucket[p]] \in Counter /\ c \in Nat /\ c # 0
    BY <1>0 DEF TypeOK, Counter
  <2>2. keys' = [keys EXCEPT ![bucket[p]] = [@ EXCEPT !.count = c]]
    BY <1>2 DEF Incr
  <2>3. keys' \in [Buckets -> Counter] /\ keys'[bucket[p]].count = c
    BY <1>0, <2>1, <2>2 DEF TypeOK, Counter
  <2>4. n' = [n EXCEPT ![p] = c] /\ pc' = [pc EXCEPT ![p] = "reply"]
    BY <1>2, <2>3 DEF Incr
  <2> HIDE DEF c
  <2>5. /\ n' \in [Procs -> Nat]
        /\ pc' \in [Procs -> {"idle", "incr", "reply", "expire"}]
        /\ \A q \in Procs : n'[q] = 0 <=> pc'[q] \in {"idle", "incr"}
    BY <2>1, <2>4 DEF TypeOK
  <2> QED BY <1>2, <2>3, <2>5 DEF TypeOK, Incr, histVars
<1>3. CASE Reply(p)
  <2>1. CASE n[p] = 1
    BY <1>3, <2>1 DEF TypeOK, Reply
  <2>2. CASE n[p] # 1
    BY <1>0, <1>3, <2>2, DecideType DEF TypeOK, Reply
  <2> QED BY <2>1, <2>2
<1>4. CASE Resend(p)
  <2>1. faults' \in 0..MaxFaults
    BY <1>4, FaultType DEF Resend
  <2>2. resent' \in 0..MaxFaults
    BY <1>0, <1>4 DEF TypeOK, Resend, FaultsCounted, Fault
  <2> QED BY <1>4, <2>1, <2>2 DEF TypeOK, Resend
<1>5. CASE Expire(p)
  BY <1>0, <1>5, DecideType, TtlType DEF TypeOK, Expire
<1>6. CASE NoAnswer(p)
  <2>1. faults' \in 0..MaxFaults
    BY <1>6, FaultType DEF NoAnswer, TypeOK
  <2>2. keys' \in [Buckets -> Counter]
    BY <1>0, <1>6, TtlType DEF NoAnswer, TypeOK
  <2>3. FallBack(p) /\ pc[p] # "idle" /\ UNCHANGED <<limit, bucket, attempts>>
    BY <1>6 DEF NoAnswer
  <2>4. PICK k \in Nat : Decide(p, k)
    <3>1. mem[p][bucket[p]].count + 1 \in Nat
      BY <1>0 DEF TypeOK, Counter
    <3> QED BY <2>3, <3>1, FallBackType
  <2>5. \A q \in Procs, b \in Buckets :
          mem'[q][b].count > 0 => mem'[q][b].expires >= Window
    <3>1. now + Window >= Window
      BY BoundsAssumption, WindowAssumption DEF TypeOK
    <3>2. mem'[p][bucket[p]].expires >= Window
      <4> DEFINE old == mem[p][bucket[p]]
                 new == mem'[p][bucket[p]]
      <4>1. \/ new = [count |-> 1, expires |-> now + Window]
            \/ new = [count |-> old.count + 1, expires |-> old.expires] /\ old.count > 0
        BY <2>3, FallBackType
      <4>2. old.count > 0 => old.expires >= Window
        BY <1>0 DEF TypeOK
      <4> HIDE DEF old, new
      <4>3. new.expires >= Window
        BY <3>1, <4>1, <4>2
      <4> QED BY <4>3 DEF new
    <3>3. ASSUME NEW q \in Procs, NEW b \in Buckets, mem'[q][b].count > 0
          PROVE  mem'[q][b].expires >= Window
      <4>1. CASE q = p /\ b = bucket[p]
        BY <3>2, <4>1
      <4>2. CASE q # p \/ b # bucket[p]
        <5>1. mem'[q][b] = mem[q][b]
          BY <2>3, <4>2, FallBackType
        <5> QED BY <3>3, <5>1 DEF TypeOK
      <4> QED BY <4>1, <4>2
    <3> QED BY <3>3
  <2>6. /\ pc' \in [Procs -> {"idle", "incr", "reply", "expire"}]
        /\ n' \in [Procs -> Nat]
        /\ \A q \in Procs : n'[q] = 0 <=> pc'[q] \in {"idle", "incr"}
        /\ passed' \in [Buckets -> 0..MaxAttempts]
        /\ refused' \in [Buckets -> 0..MaxAttempts]
    BY <2>3, <2>4, DecideType
  <2>7. mem' \in [Procs -> [Buckets -> Counter]] /\ apart' \in [Buckets -> SUBSET Procs]
    BY <2>3, FallBackType
  <2> QED BY <1>6, <2>1, <2>2, <2>5, <2>6, <2>7 DEF TypeOK, NoAnswer
<1>7. CASE Crash(p)
  <2>1. faults' \in 0..MaxFaults
    BY <1>7, FaultType DEF Crash
  <2>2. restarts' \in 0..MaxFaults
    BY <1>0, <1>7 DEF TypeOK, Crash, FaultsCounted, Fault
  <2>3. /\ mem' \in [Procs -> [Buckets -> Counter]]
        /\ \A b \in Buckets : mem'[p][b].count = 0
        /\ \A q \in Procs : q # p => mem'[q] = mem[q]
    BY <1>7 DEF TypeOK, Crash, Counter, NoCounter
  <2>4. \A q \in Procs, b \in Buckets :
          mem'[q][b].count > 0 => mem'[q][b].expires >= Window
    BY <2>3 DEF TypeOK
  <2>5. /\ pc' \in [Procs -> {"idle", "incr", "reply", "expire"}]
        /\ n' \in [Procs -> Nat]
        /\ \A q \in Procs : n'[q] = 0 <=> pc'[q] \in {"idle", "incr"}
    BY <1>7 DEF TypeOK, Crash
  <2> QED BY <1>7, <2>1, <2>2, <2>3, <2>4, <2>5 DEF TypeOK, Crash
<1> QED BY <1>1, <1>2, <1>3, <1>4, <1>5, <1>6, <1>7

\* No step disturbs the types.
LEMMA TypeStep == LoginInv /\ [Next]_vars => TypeOK'
<1> SUFFICES ASSUME LoginInv, [Next]_vars PROVE TypeOK'
  OBVIOUS
<1>1. TypeOK /\ FaultsCounted /\ Accounted
  BY DEF LoginInv
<1>2. CASE Tick \/ RedisFails \/ RedisReturns
  BY <1>1, <1>2, TypeWorld
<1>3. ASSUME NEW p \in Procs,
             \/ Begin(p) \/ Incr(p) \/ Reply(p) \/ Resend(p) \/ Expire(p)
             \/ NoAnswer(p) \/ Crash(p)
      PROVE  TypeOK'
  BY <1>1, <1>3, TypeProcess
<1>4. CASE UNCHANGED vars
  BY <1>1, <1>4 DEF TypeOK, vars, histVars
<1> QED BY <1>2, <1>3, <1>4 DEF Next

-----------------------------------------------------------------------------
(* Attempts that are over, and those that are seen.                         *)

\* A counter's numbers up to the limit.
LEMMA AtMostType ==
  ASSUME NEW k \in Nat, TypeOK
  PROVE  AtMost(k) \in Nat /\ AtMost(k) <= limit /\ AtMost(k) <= k /\ AtMost(0) = 0
         /\ (k >= limit => AtMost(k) = limit) /\ (k <= limit => AtMost(k) = k)
BY BoundsAssumption DEF TypeOK, AtMost

\* The limit of the program never changes.
LEMMA SameLimit == [Next]_vars => limit' = limit
BY DEF Next, Tick, RedisFails, RedisReturns, Begin, Incr, Reply, Resend, Expire, NoAnswer,
       Crash, vars

\* Who takes no part in a step is where it was.
LEMMA OthersStayPut ==
  ASSUME TypeOK, NEW p \in Procs,
         \/ Begin(p) \/ Incr(p) \/ Reply(p) \/ Resend(p) \/ Expire(p)
         \/ NoAnswer(p) \/ Crash(p)
  PROVE  /\ OthersStay(p)
         /\ ~Begin(p) => bucket' = bucket
BY DEF TypeOK, OthersStay, Begin, Incr, Reply, Resend, Expire, NoAnswer, FallBack, Crash,
       Decide

\* A new attempt of a window is not over, unless there is no limit.
LEMMA SeenBegin ==
  ASSUME TypeOK, NEW p \in Procs, Begin(p), NEW b \in Buckets
  PROVE  /\ Done(b)' >= Done(b) /\ Seen(b)' >= Seen(b)
         /\ InFlight(b)' = InFlight(b)
<1>1. /\ pc[p] = "idle" /\ UNCHANGED <<limit, n, refused, resent>>
      /\ bucket' = [bucket EXCEPT ![p] = Bucket(now)]
      /\ attempts' = Inc(attempts, Bucket(now))
      /\ pc' = IF limit = 0 THEN pc ELSE [pc EXCEPT ![p] = "incr"]
  BY DEF Begin, BucketOfKey
<1>2. InFlight(b)' = InFlight(b)
  BY <1>1 DEF InFlight, TypeOK
<1>3. \/ Pending(b)' = Pending(b)
      \/ b = Bucket(now) /\ Pending(b)' = Pending(b) \cup {p}
  <2>1. CASE limit = 0
    BY <1>1, <2>1 DEF Pending, TypeOK
  <2>2. CASE limit # 0 /\ b = Bucket(now)
    BY <1>1, <2>2 DEF Pending, TypeOK
  <2>3. CASE limit # 0 /\ b # Bucket(now)
    BY <1>1, <2>3 DEF Pending, TypeOK
  <2> QED BY <2>1, <2>2, <2>3
<1>4. /\ attempts'[b] \in Nat /\ attempts'[b] >= attempts[b]
      /\ b = Bucket(now) => attempts'[b] = attempts[b] + 1
  BY <1>1, NowIsInOne, Numbers DEF Inc, TypeOK
<1>5. /\ Cardinality(Pending(b)) \in Nat /\ IsFiniteSet(Pending(b))
      /\ p \notin Pending(b)
  BY <1>1, Sizes DEF Pending
<1>6. Cardinality(Pending(b) \cup {p}) = Cardinality(Pending(b)) + 1
  BY <1>5, FS_AddElement
<1>7. Done(b)' >= Done(b)
  <2>1. refused'[b] = refused[b]
    BY <1>1
  <2>2. CASE Pending(b)' = Pending(b)
    BY <1>4, <1>5, <2>1, <2>2, Numbers DEF Done
  <2>3. CASE b = Bucket(now) /\ Pending(b)' = Pending(b) \cup {p}
    BY <1>4, <1>5, <1>6, <2>1, <2>3, Numbers DEF Done
  <2> QED BY <1>3, <2>2, <2>3
<1>8. Done(b)' \in Int
  <2>1. Cardinality(Pending(b)') \in Nat
    <3>1. Pending(b)' \subseteq Procs
      BY DEF Pending
    <3> QED BY <3>1, SomeProcs
  <2>2. refused'[b] = refused[b]
    BY <1>1
  <2> QED BY <1>4, <2>1, <2>2, Numbers DEF Done
<1> QED BY <1>1, <1>2, <1>7, <1>8, Numbers, Sizes DEF Seen

\* A number of Redis that lets through is in flight.
LEMMA SeenIncr ==
  ASSUME TypeOK, TypeOK', NEW p \in Procs, Incr(p), NEW b \in Buckets
  PROVE  /\ Done(b)' = Done(b)
         /\ b = bucket[p] =>
              /\ keys'[b].count = keys[b].count + 1 /\ n'[p] = keys[b].count + 1
              /\ Cardinality(InFlight(b)') = Cardinality(InFlight(b)) +
                                        (IF keys[b].count + 1 <= limit THEN 1 ELSE 0)
              /\ Seen(b)' = Seen(b) + (IF keys[b].count + 1 <= limit THEN 1 ELSE 0)
         /\ b # bucket[p] =>
              keys'[b] = keys[b] /\ InFlight(b)' = InFlight(b) /\ Seen(b)' = Seen(b)
<1>1. /\ pc[p] = "incr" /\ pc'[p] = "reply" /\ OthersStay(p) /\ bucket' = bucket
      /\ bucket[p] \in Buckets
  BY OthersStayPut DEF TypeOK, Incr, OthersStay, Begin
<1>2. /\ keys' = [keys EXCEPT ![bucket[p]].count = @ + 1]
      /\ n'[p] = keys'[bucket[p]].count
      /\ UNCHANGED <<attempts, refused, resent, limit>>
  BY DEF TypeOK, Incr, histVars
<1>3. /\ keys'[bucket[p]].count = keys[bucket[p]].count + 1
      /\ \A c \in Buckets : c # bucket[p] => keys'[c] = keys[c]
  BY <1>1, <1>2 DEF TypeOK, Counter
<1>4. CASE b = bucket[p]
  <2>1. Busy(p) = 1 /\ Busy(p)' = 1 /\ InHand(p) = 0
    BY <1>1 DEF Busy, InHand
  <2>2. InHand(p)' = IF keys[b].count + 1 <= limit THEN 1 ELSE 0
    BY <1>1, <1>2, <1>3, <1>4 DEF InHand
  <2>3. /\ Cardinality(InFlight(b)') = Cardinality(InFlight(b)) - InHand(p) + InHand(p)'
        /\ Cardinality(Pending(b)') = Cardinality(Pending(b)) - Busy(p) + Busy(p)'
    BY <1>1, <1>4, OneProcess
  <2>4. Cardinality(Pending(b)') = Cardinality(Pending(b))
    BY <2>1, <2>3, Sizes
  <2>5. Done(b)' = Done(b)
    BY <1>2, <2>4 DEF Done
  <2>6. Cardinality(InFlight(b)') = Cardinality(InFlight(b)) +
                                        (IF keys[b].count + 1 <= limit THEN 1 ELSE 0)
    BY <2>1, <2>2, <2>3, Sizes
  <2>7. Seen(b)' = Seen(b) + (IF keys[b].count + 1 <= limit THEN 1 ELSE 0)
    BY <1>2, <2>5, <2>6, Numbers, Sizes DEF Seen
  <2> QED BY <1>2, <1>3, <1>4, <2>5, <2>6, <2>7
<1>5. CASE b # bucket[p]
  <2>1. InFlight(b)' = InFlight(b) /\ Pending(b)' = Pending(b)
    BY <1>1, <1>5, OneProcess
  <2>2. Done(b)' = Done(b)
    BY <1>2, <2>1 DEF Done
  <2> QED BY <1>2, <1>3, <1>5, <2>1, <2>2 DEF Seen
<1> QED BY <1>4, <1>5

\* The end of an attempt: it is over if it is let through, and seen if it was.
LEMMA SeenDecide ==
  ASSUME TypeOK, NEW p \in Procs, NEW k \in Nat, pc[p] # "idle", Decide(p, k),
         UNCHANGED <<limit, bucket, attempts, resent>>, NEW b \in Buckets
  PROVE  /\ Done(b)' >= Done(b)
         /\ b # bucket[p] => Seen(b)' = Seen(b)
         /\ b = bucket[p] /\ k <= limit => Seen(b)' >= Seen(b) /\ Done(b)' = Done(b) + 1
         /\ b = bucket[p] /\ k > limit =>
              /\ Done(b)' = Done(b) /\ Seen(b)' = Seen(b) - InHand(p)
              /\ Seen(b)' >= Done(b)
<1>1. InHand(p) \in {0, 1}
  BY DEF InHand
<1>2. /\ Done(b) \in Int /\ Seen(b) \in Int /\ resent \in Nat
      /\ Cardinality(InFlight(b)) \in Nat /\ resent' = resent /\ limit \in Nat
  BY Numbers, Sizes
<1>3. CASE b = bucket[p]
  <2>1. /\ Cardinality(InFlight(b)') = Cardinality(InFlight(b)) - InHand(p)
        /\ Done(b)' = Done(b) + (IF k > limit THEN 0 ELSE 1)
    BY <1>3, Decided
  <2>2. Cardinality(InFlight(b)') \in Nat
    <3>1. InFlight(b)' \subseteq Procs
      BY DEF InFlight
    <3> QED BY <3>1, SomeProcs
  <2>3. /\ Seen(b)' = Done(b)' + resent + Cardinality(InFlight(b)')
        /\ Seen(b) = Done(b) + resent + Cardinality(InFlight(b))
    BY <1>2 DEF Seen
  <2>4. CASE k <= limit
    <3>1. Done(b)' = Done(b) + 1
      BY <1>2, <2>1, <2>4
    <3> QED BY <1>1, <1>2, <1>3, <2>1, <2>2, <2>3, <2>4, <3>1
  <2>5. CASE k > limit
    <3>1. Done(b)' = Done(b)
      BY <1>2, <2>1, <2>5
    <3> QED BY <1>1, <1>2, <1>3, <2>1, <2>2, <2>3, <2>5, <3>1
  <2> QED BY <1>2, <2>4, <2>5
<1>4. CASE b # bucket[p]
  <2>1. InFlight(b)' = InFlight(b) /\ Done(b)' = Done(b)
    BY <1>4, Decided
  <2>2. Seen(b)' = Seen(b)
    BY <1>2, <2>1 DEF Seen
  <2> QED BY <1>2, <1>4, <2>1, <2>2
<1> QED BY <1>3, <1>4

\* A command that is sent again, and a process that dies.
LEMMA SeenAgain ==
  ASSUME TypeOK, NEW p \in Procs, Resend(p) \/ Crash(p), NEW b \in Buckets
  PROVE  /\ Done(b)' >= Done(b) /\ Seen(b)' >= Seen(b)
         /\ Cardinality(InFlight(b)') <= Cardinality(InFlight(b))
<1>1. /\ OthersStay(p) /\ bucket' = bucket /\ UNCHANGED <<attempts, refused>>
      /\ bucket[p] \in Buckets
  BY OthersStayPut DEF Resend, Crash, Begin, TypeOK
<1>2. /\ Done(b) \in Int /\ Seen(b) \in Int /\ resent \in Nat
      /\ attempts[b] \in Nat /\ refused[b] \in Nat
      /\ Cardinality(InFlight(b)) \in Nat /\ Cardinality(Pending(b)) \in Nat
  BY Numbers, Sizes
<1>3. CASE b # bucket[p]
  <2>1. InFlight(b)' = InFlight(b) /\ Pending(b)' = Pending(b)
    BY <1>1, <1>3, OneProcess
  <2>2. Done(b)' = Done(b)
    BY <1>1, <2>1 DEF Done
  <2>3. resent' \in Nat /\ resent' >= resent
    BY <1>2 DEF Resend, Crash
  <2>4. Seen(b)' >= Seen(b)
    BY <1>2, <2>1, <2>2, <2>3 DEF Seen
  <2> QED BY <1>2, <2>1, <2>2, <2>4
<1>4. CASE b = bucket[p]
  <2>1. /\ Cardinality(InFlight(b)') = Cardinality(InFlight(b)) - InHand(p) + InHand(p)'
        /\ Cardinality(Pending(b)') = Cardinality(Pending(b)) - Busy(p) + Busy(p)'
    BY <1>1, <1>4, OneProcess
  <2>2. /\ attempts'[b] = attempts[b] /\ refused'[b] = refused[b]
        /\ InHand(p) \in {0, 1} /\ InHand(p)' = 0
    <3>1. pc'[p] \in {"incr", "idle"}
      BY DEF Resend, Crash, TypeOK
    <3> QED BY <1>1, <3>1 DEF InHand
  <2>3. CASE Resend(p)
    <3>1. Busy(p) = 1 /\ Busy(p)' = 1 /\ resent' = resent + 1
      BY <2>3 DEF Busy, Resend, TypeOK
    <3>2. Done(b)' = Done(b)
      BY <1>2, <2>1, <2>2, <3>1 DEF Done
    <3> QED BY <1>2, <2>1, <2>2, <3>1, <3>2 DEF Seen
  <2>4. CASE Crash(p)
    <3>1. /\ Busy(p) \in {0, 1} /\ Busy(p)' = 0 /\ InHand(p) <= Busy(p)
          /\ resent' = resent
      BY <2>4 DEF Busy, InHand, Crash, TypeOK
    <3>2. Done(b)' = Done(b) + Busy(p)
      BY <1>2, <2>1, <2>2, <3>1 DEF Done
    <3> QED BY <1>2, <2>1, <2>2, <3>1, <3>2 DEF Seen
  <2> QED BY <2>3, <2>4
<1> QED BY <1>3, <1>4

\* A dictionary that has refused has let the limit through.
LEMMA FallBackCount ==
  ASSUME TypeOK, Off, Counted, NEW p \in Procs, pc[p] # "idle", FallBack(p)
  PROVE  \E k \in Nat : /\ Decide(p, k) /\ mem'[p][bucket[p]].count = k
                        /\ k > limit => limit <= Done(bucket[p])
<1>1. /\ bucket[p] \in Buckets /\ limit \in Nat /\ limit > 0
      /\ mem[p][bucket[p]].count \in Nat
  BY Numbers DEF TypeOK, Off
<1>2. AtMost(mem[p][bucket[p]].count) <= Done(bucket[p])
  BY <1>1 DEF Counted
<1>3. CASE /\ mem'[p][bucket[p]] = [count |-> 1, expires |-> now + Window]
           /\ Decide(p, 1)
  BY <1>1, <1>3
<1>4. CASE /\ mem'[p][bucket[p]] = [count |-> mem[p][bucket[p]].count + 1,
                                    expires |-> mem[p][bucket[p]].expires]
           /\ Decide(p, mem[p][bucket[p]].count + 1)
  <2>1. mem[p][bucket[p]].count + 1 > limit => limit <= Done(bucket[p])
    BY <1>1, <1>2, AtMostType
  <2> QED BY <1>1, <1>4, <2>1
<1> QED BY <1>3, <1>4, FallBackType

-----------------------------------------------------------------------------
(* The parts of the invariant.                                              *)

\* The clock, Redis and a step that does nothing leave the attempts alone.
LEMMA WorldLeavesAttempts ==
  ASSUME TypeOK, Tick \/ RedisFails \/ RedisReturns \/ UNCHANGED vars, NEW b \in Buckets
  PROVE  /\ Done(b)' = Done(b) /\ Seen(b)' = Seen(b) /\ passed'[b] = passed[b]
         /\ InFlight(b)' = InFlight(b) /\ UNCHANGED <<limit, n, bucket, mem, refused, apart>>
BY DEF Tick, RedisFails, RedisReturns, vars, histVars, Done, Seen, InFlight, Pending

\* A reply that was number 1 moves the process on, and nothing is counted.
LEMMA ReplyFirst ==
  ASSUME TypeOK, NEW p \in Procs, Reply(p), n[p] = 1, NEW b \in Buckets
  PROVE  /\ Done(b)' = Done(b) /\ Seen(b)' = Seen(b) /\ passed' = passed
         /\ InFlight(b)' = InFlight(b)
         /\ UNCHANGED <<limit, now, n, bucket, mem, refused, keys, apart, restarts>>
<1>1. /\ pc[p] = "reply" /\ pc' = [pc EXCEPT ![p] = "expire"]
      /\ UNCHANGED <<limit, now, n, bucket, mem, refused, keys, apart, restarts, passed,
                     attempts, resent>>
  BY DEF Reply
<1>2. InFlight(b)' = InFlight(b) /\ Pending(b)' = Pending(b)
  BY <1>1 DEF InFlight, Pending, TypeOK
<1> QED BY <1>1, <1>2 DEF Done, Seen

\* The steps that end an attempt, and its number.
LEMMA Ends ==
  ASSUME TypeOK, Off, Counted, NEW p \in Procs,
         \/ Reply(p) /\ n[p] # 1
         \/ Expire(p)
         \/ NoAnswer(p)
  PROVE  \E k \in Nat :
           /\ pc[p] # "idle" /\ Decide(p, k)
           /\ UNCHANGED <<limit, now, bucket, attempts, resent, restarts>>
           /\ \/ k = n[p] /\ UNCHANGED <<mem, apart>> /\ pc[p] \in {"reply", "expire"}
              \/ /\ FallBack(p) /\ mem'[p][bucket[p]].count = k
                 /\ k > limit => limit <= Done(bucket[p])
           /\ \A b \in Buckets : keys'[b].count = keys[b].count
<1>1. n[p] \in Nat /\ bucket[p] \in Buckets
  BY DEF TypeOK
<1>2. CASE Reply(p) /\ n[p] # 1
  BY <1>1, <1>2 DEF Reply
<1>3. CASE Expire(p)
  BY <1>1, <1>3, TtlType DEF Expire
<1>4. CASE NoAnswer(p)
  <2>1. /\ pc[p] # "idle" /\ FallBack(p)
        /\ UNCHANGED <<limit, now, bucket, attempts, resent, restarts>>
        /\ keys' = keys \/ SetTtl(bucket[p])
    BY <1>4 DEF NoAnswer
  <2>2. \A b \in Buckets : keys'[b].count = keys[b].count
    BY <1>1, <2>1, TtlType
  <2>3. PICK k \in Nat : /\ Decide(p, k) /\ mem'[p][bucket[p]].count = k
                         /\ k > limit => limit <= Done(bucket[p])
    BY <2>1, FallBackCount
  <2> QED BY <2>1, <2>2, <2>3
<1> QED BY <1>2, <1>3, <1>4

\* What is over stays over; and what is seen stays seen, at least up to the limit.
LEMMA Growth ==
  ASSUME LoginInv, TypeOK', [Next]_vars, NEW b \in Buckets
  PROVE  /\ Done(b)' \in Int /\ Seen(b)' \in Int /\ limit \in Nat /\ limit' = limit
         /\ Done(b)' >= Done(b)
         /\ Seen(b)' >= Seen(b) \/ Seen(b)' >= limit
<1>0. TypeOK /\ Off /\ Counted
  BY DEF LoginInv
<1>1. limit \in Nat /\ limit' = limit /\ Done(b) \in Int /\ Seen(b) \in Int
  BY <1>0, Numbers, SameLimit
<1>2. Done(b)' \in Int /\ Seen(b)' \in Int
  <2>1. InFlight(b)' \subseteq Procs /\ Pending(b)' \subseteq Procs
    BY DEF InFlight, Pending
  <2>2. Cardinality(InFlight(b)') \in Nat /\ Cardinality(Pending(b)') \in Nat
    BY <2>1, SomeProcs
  <2>3. attempts'[b] \in Nat /\ refused'[b] \in Nat /\ resent' \in Nat
    BY BoundsAssumption DEF TypeOK
  <2> QED BY <2>2, <2>3 DEF Done, Seen
<1>3. CASE Tick \/ RedisFails \/ RedisReturns \/ UNCHANGED vars
  BY <1>0, <1>1, <1>2, <1>3, WorldLeavesAttempts
<1>4. ASSUME NEW p \in Procs, Begin(p)
      PROVE  Done(b)' >= Done(b) /\ (Seen(b)' >= Seen(b) \/ Seen(b)' >= limit)
  BY <1>0, <1>4, SeenBegin
<1>5. ASSUME NEW p \in Procs, Incr(p)
      PROVE  Done(b)' >= Done(b) /\ (Seen(b)' >= Seen(b) \/ Seen(b)' >= limit)
  BY <1>0, <1>1, <1>2, <1>5, SeenIncr
<1>6. ASSUME NEW p \in Procs, Resend(p) \/ Crash(p)
      PROVE  Done(b)' >= Done(b) /\ (Seen(b)' >= Seen(b) \/ Seen(b)' >= limit)
  BY <1>0, <1>6, SeenAgain
<1>7. ASSUME NEW p \in Procs, Reply(p), n[p] = 1
      PROVE  Done(b)' >= Done(b) /\ (Seen(b)' >= Seen(b) \/ Seen(b)' >= limit)
  BY <1>0, <1>1, <1>7, ReplyFirst
<1>8. ASSUME NEW p \in Procs, (Reply(p) /\ n[p] # 1) \/ Expire(p) \/ NoAnswer(p)
      PROVE  Done(b)' >= Done(b) /\ (Seen(b)' >= Seen(b) \/ Seen(b)' >= limit)
  <2>1. PICK k \in Nat :
           /\ pc[p] # "idle" /\ Decide(p, k)
           /\ UNCHANGED <<limit, now, bucket, attempts, resent, restarts>>
           /\ \/ k = n[p] /\ UNCHANGED <<mem, apart>> /\ pc[p] \in {"reply", "expire"}
              \/ /\ FallBack(p) /\ mem'[p][bucket[p]].count = k
                 /\ k > limit => limit <= Done(bucket[p])
    BY <1>0, <1>8, Ends
  <2>2. CASE b # bucket[p] \/ k <= limit
    BY <1>0, <1>1, <1>2, <2>1, <2>2, SeenDecide
  <2>3. CASE b = bucket[p] /\ k > limit
    <3>1. /\ Done(b)' = Done(b) /\ Seen(b)' = Seen(b) - InHand(p)
          /\ Seen(b)' >= Done(b)
      BY <1>0, <2>1, <2>3, SeenDecide
    <3>2. CASE k = n[p]
      <4>1. InHand(p) = 0
        BY <1>1, <2>3, <3>2 DEF InHand
      <4> QED BY <1>1, <3>1, <4>1
    <3>3. CASE limit <= Done(bucket[p])
      BY <1>1, <1>2, <2>3, <3>1, <3>3
    <3> QED BY <2>1, <2>3, <3>2, <3>3
  <2> QED BY <1>1, <2>2, <2>3
<1> QED BY <1>1, <1>2, <1>3, <1>4, <1>5, <1>6, <1>7, <1>8 DEF Next

\* What one step lets through is over after it, and is of the window of the moment.
LEMMA PassedStep ==
  ASSUME LoginInv, TypeOK', [Next]_vars, NEW b \in Buckets
  PROVE  /\ passed'[b] - passed[b] <= Done(b)' - Done(b)
         /\ passed'[b] # passed[b] => b = Bucket(now) /\ now' = now
<1>0. TypeOK /\ Off /\ Counted
  BY DEF LoginInv
<1>1. /\ Done(b) \in Int /\ Done(b)' \in Int /\ passed[b] \in Nat /\ Done(b)' >= Done(b)
  BY <1>0, Numbers, Growth
<1>2. CASE passed'[b] = passed[b]
  BY <1>1, <1>2
<1>3. CASE Tick \/ RedisFails \/ RedisReturns \/ UNCHANGED vars
  BY <1>0, <1>2, <1>3, WorldLeavesAttempts
<1>4. ASSUME NEW p \in Procs, Begin(p) \/ Incr(p) \/ Resend(p) \/ Crash(p)
      PROVE  passed'[b] = passed[b]
  BY <1>4 DEF Begin, Incr, Resend, Crash, histVars
<1>5. ASSUME NEW p \in Procs, Reply(p), n[p] = 1 PROVE passed'[b] = passed[b]
  BY <1>0, <1>5, ReplyFirst
<1>6. ASSUME NEW p \in Procs, (Reply(p) /\ n[p] # 1) \/ Expire(p) \/ NoAnswer(p)
      PROVE  /\ passed'[b] - passed[b] <= Done(b)' - Done(b)
             /\ passed'[b] # passed[b] => b = Bucket(now) /\ now' = now
  <2>1. PICK k \in Nat :
           /\ pc[p] # "idle" /\ Decide(p, k)
           /\ UNCHANGED <<limit, now, bucket, attempts, resent, restarts>>
    BY <1>0, <1>6, Ends
  <2>2. CASE b # bucket[p]
    <3>1. passed'[b] = passed[b]
      BY <1>0, <2>1, <2>2, Decided
    <3> QED BY <1>2, <3>1
  <2>3. CASE b = bucket[p]
    <3>1. /\ passed'[b] = passed[b] + (IF k <= limit /\ Bucket(now) = b THEN 1 ELSE 0)
          /\ Done(b)' = Done(b) + (IF k > limit THEN 0 ELSE 1)
      BY <1>0, <2>1, <2>3, Decided
    <3>2. limit \in Nat
      BY <1>0, Numbers
    <3> QED BY <1>1, <2>1, <3>1, <3>2
  <2> QED BY <2>2, <2>3
<1> QED BY <1>2, <1>3, <1>4, <1>5, <1>6 DEF Next

\* Who is let through ends an attempt in the same step.
LEMMA AccountedStep == ASSUME LoginInv, TypeOK', [Next]_vars PROVE Accounted'
<1> SUFFICES ASSUME NEW b \in Buckets PROVE passed'[b] <= Done(b)'
  BY DEF Accounted
<1>1. /\ passed'[b] - passed[b] <= Done(b)' - Done(b) /\ passed[b] <= Done(b)
  BY PassedStep DEF LoginInv, Accounted
<1>2. Done(b) \in Int /\ Done(b)' \in Int /\ passed[b] \in Nat /\ passed'[b] \in Nat
  BY Numbers, Growth, BoundsAssumption DEF LoginInv, TypeOK
<1> QED BY <1>1, <1>2

\* No step loses counters or repeats a command without a fault, now or when Redis
\* failed.
LEMMA FaultsStep == ASSUME LoginInv, TypeOK', [Next]_vars PROVE FaultsCounted'
<1>0. /\ TypeOK /\ restarts + resent + (IF up THEN 0 ELSE 1) <= faults
      /\ restarts \in Nat /\ resent \in Nat /\ faults \in Nat
  BY BoundsAssumption DEF LoginInv, FaultsCounted, TypeOK
<1>1. CASE Tick
  BY <1>0, <1>1 DEF Tick, histVars, FaultsCounted
<1>2. CASE RedisFails
  BY <1>0, <1>2 DEF RedisFails, Fault, histVars, FaultsCounted
<1>3. CASE RedisReturns
  BY <1>0, <1>3 DEF RedisReturns, FaultsCounted
<1>4. CASE UNCHANGED vars
  BY <1>0, <1>4 DEF vars, histVars, FaultsCounted
<1>5. ASSUME NEW p \in Procs, Begin(p) \/ Incr(p) \/ Reply(p) \/ Expire(p)
      PROVE  FaultsCounted'
  BY <1>0, <1>5 DEF Begin, Incr, Reply, Expire, histVars, FaultsCounted
<1>6. ASSUME NEW p \in Procs, NoAnswer(p) PROVE FaultsCounted'
  <2>1. faults' \in Nat /\ faults' >= faults /\ UNCHANGED <<up, restarts, resent>>
    BY <1>0, <1>6 DEF NoAnswer, Fault
  <2> QED BY <1>0, <2>1 DEF FaultsCounted
<1>7. ASSUME NEW p \in Procs, Resend(p) \/ Crash(p) PROVE FaultsCounted'
  BY <1>0, <1>7 DEF Resend, Crash, Fault, FaultsCounted
<1> QED BY <1>1, <1>2, <1>3, <1>4, <1>5, <1>6, <1>7 DEF Next

\* A limit of 0 lets no process into the function.
LEMMA OffStep == ASSUME LoginInv, [Next]_vars PROVE Off'
<1> SUFFICES ASSUME limit' = 0, NEW q \in Procs PROVE pc'[q] = "idle"
  BY DEF Off
<1>1. /\ TypeOK /\ limit = 0 /\ \A p \in Procs : pc[p] = "idle"
  BY SameLimit DEF LoginInv, Off
<1>2. CASE Tick \/ RedisFails \/ RedisReturns \/ UNCHANGED vars
  BY <1>1, <1>2 DEF Tick, RedisFails, RedisReturns, vars
<1>3. ASSUME NEW p \in Procs, Begin(p) PROVE pc'[q] = "idle"
  BY <1>1, <1>3 DEF Begin
<1>4. ASSUME NEW p \in Procs, Crash(p) PROVE pc'[q] = "idle"
  BY <1>1, <1>4 DEF Crash, TypeOK
<1>5. ASSUME NEW p \in Procs,
             Incr(p) \/ Reply(p) \/ Resend(p) \/ Expire(p) \/ NoAnswer(p)
      PROVE  FALSE
  BY <1>1, <1>5 DEF Incr, Reply, Resend, Expire, NoAnswer
<1> QED BY <1>2, <1>3, <1>4, <1>5 DEF Next

\* The clock does not go back, and who is let through is so in the window of now.
LEMMA NotYetStep == ASSUME LoginInv, TypeOK', [Next]_vars PROVE NotYet'
<1>0. /\ TypeOK /\ now \in Nat /\ now' \in Nat
      /\ \A p \in Procs : bucket[p] \in Nat /\ bucket[p] <= Bucket(now)
      /\ \A b \in Buckets : b > Bucket(now) => passed[b] = 0
      /\ Buckets \subseteq Nat
  <2>1. Buckets \subseteq Nat
    BY DEF Buckets
  <2>2. TypeOK /\ NotYet
    BY DEF LoginInv
  <2>3. now \in Nat /\ now' \in Nat
    BY <2>2, BoundsAssumption DEF TypeOK
  <2>4. \A p \in Procs : bucket[p] \in Nat
    BY <2>1, <2>2 DEF TypeOK
  <2> QED BY <2>1, <2>2, <2>3, <2>4 DEF NotYet
<1>1. now <= now'
  <2>1. now' = now \/ now' = now + 1
    BY DEF Next, Tick, RedisFails, RedisReturns, Begin, Incr, Reply, Resend, Expire,
           NoAnswer, Crash, vars
  <2> QED BY <1>0, <2>1
<1>2. /\ Bucket(now) \in Nat /\ Bucket(now') \in Nat /\ Bucket(now) <= Bucket(now')
  BY <1>0, <1>1, BucketOf, BucketsGrow
<1>3. \A p \in Procs : bucket'[p] <= Bucket(now')
  <2> SUFFICES ASSUME NEW q \in Procs PROVE bucket'[q] <= Bucket(now')
    OBVIOUS
  <2>1. CASE bucket' = bucket
    BY <1>0, <1>2, <2>1
  <2>2. ASSUME NEW p \in Procs, Begin(p) PROVE bucket'[q] <= Bucket(now')
    <3>1. bucket' = [bucket EXCEPT ![p] = Bucket(now)]
      BY <2>2 DEF Begin, BucketOfKey
    <3>2. bucket'[q] \in {bucket[q], Bucket(now)}
      BY <3>1 DEF TypeOK
    <3> QED BY <1>0, <1>2, <3>2
  <2>3. ASSUME NEW p \in Procs,
               \/ Incr(p) \/ Reply(p) \/ Resend(p) \/ Expire(p) \/ NoAnswer(p) \/ Crash(p)
        PROVE  bucket' = bucket
    BY <2>3 DEF Incr, Reply, Resend, Expire, NoAnswer, Crash
  <2>4. Tick \/ RedisFails \/ RedisReturns \/ UNCHANGED vars => bucket' = bucket
    BY DEF Tick, RedisFails, RedisReturns, vars
  <2> QED BY <2>1, <2>2, <2>3, <2>4 DEF Next
<1>4. ASSUME NEW b \in Buckets, b > Bucket(now') PROVE passed'[b] = 0
  <2>1. b > Bucket(now) /\ b # Bucket(now)
    BY <1>0, <1>2, <1>4
  <2>2. passed'[b] = passed[b]
    BY <2>1, PassedStep
  <2> QED BY <1>0, <2>1, <2>2
<1> QED BY <1>3, <1>4 DEF NotYet

\* A TTL or an entry of a dictionary that is written now is good for the window of
\* an attempt that has begun.
LEMMA GoodForWindow ==
  ASSUME TypeOK, NotYet, NEW p \in Procs
  PROVE  now + Window >= (bucket[p] + 1) * Window
<1> DEFINE a == bucket[p]
           c == Bucket(now)
<1>1. /\ Window \in Nat \ {0} /\ now \in Nat /\ c \in Nat /\ c * Window <= now
      /\ a \in Nat /\ a <= c
  BY WindowAssumption, BoundsAssumption, BucketOf DEF TypeOK, NotYet, Buckets
<1> HIDE DEF a, c
<1>2. a * Window <= c * Window
  BY <1>1
<1>3. (a + 1) * Window = a * Window + Window
  BY <1>1
<1>4. a * Window \in Nat /\ c * Window \in Nat
  BY <1>1
<1>5. now + Window >= (a + 1) * Window
  BY <1>1, <1>2, <1>3, <1>4
<1> QED BY <1>5 DEF a

\* Every TTL and every entry of a dictionary that a step writes is good for its
\* window.
LEMMA InWindowStep == ASSUME LoginInv, TypeOK', [Next]_vars PROVE InWindow'
<1>0. TypeOK /\ NotYet /\ InWindow
  BY DEF LoginInv
<1>1. ASSUME NEW b \in Buckets, keys'[b].expires # 0
      PROVE  keys'[b].expires >= (b + 1) * Window
  <2>1. CASE keys'[b].expires = keys[b].expires
    BY <1>0, <1>1, <2>1 DEF InWindow
  <2>2. CASE \E p \in Procs : SetTtl(bucket[p]) /\ b = bucket[p]
    <3>1. PICK p \in Procs : SetTtl(bucket[p]) /\ b = bucket[p]
      BY <2>2
    <3>2. keys'[b].expires = IF keys[b].count = 0 THEN 0 ELSE now + Window
      BY <1>0, <3>1, TtlType
    <3> QED BY <1>0, <1>1, <3>1, <3>2, GoodForWindow
  <2>3. CASE Tick \/ RedisReturns
    BY <1>0, <1>1, <2>1, <2>3 DEF Tick, RedisReturns, NoCounter
  <2>4. ASSUME NEW p \in Procs, Incr(p) PROVE keys'[b].expires = keys[b].expires
    BY <1>0, <2>4 DEF Incr, TypeOK, Counter
  <2>5. ASSUME NEW p \in Procs, Expire(p) \/ NoAnswer(p)
        PROVE  \/ keys'[b].expires = keys[b].expires
               \/ \E q \in Procs : SetTtl(bucket[q]) /\ b = bucket[q]
    <3>1. keys' = keys \/ SetTtl(bucket[p])
      BY <2>5 DEF Expire, NoAnswer
    <3>2. bucket[p] \in Buckets
      BY <1>0 DEF TypeOK
    <3> QED BY <1>0, <3>1, <3>2, TtlType
  <2>6. ASSUME NEW p \in Procs, Begin(p) \/ Reply(p) \/ Resend(p) \/ Crash(p)
        PROVE  keys' = keys
    BY <2>6 DEF Begin, Reply, Resend, Crash
  <2>7. RedisFails \/ UNCHANGED vars => keys' = keys
    BY DEF RedisFails, vars
  <2> QED BY <2>1, <2>2, <2>3, <2>4, <2>5, <2>6, <2>7 DEF Next
<1>2. ASSUME NEW b \in Buckets, NEW q \in Procs, mem'[q][b].count > 0
      PROVE  mem'[q][b].expires >= (b + 1) * Window /\ q \in apart'[b]
  <2>1. CASE mem'[q][b] = mem[q][b] /\ apart[b] \subseteq apart'[b]
    BY <1>0, <1>2, <2>1 DEF InWindow
  <2>2. ASSUME NEW p \in Procs, NoAnswer(p)
        PROVE  mem'[q][b].expires >= (b + 1) * Window /\ q \in apart'[b]
    <3>1. FallBack(p)
      BY <2>2 DEF NoAnswer
    <3>2. CASE q # p \/ b # bucket[p]
      BY <1>0, <2>1, <3>1, <3>2, FallBackType
    <3>3. CASE q = p /\ b = bucket[p]
      <4> DEFINE old == mem[q][b]
                 new == mem'[q][b]
      <4>1. \/ new = [count |-> 1, expires |-> now + Window]
            \/ new = [count |-> old.count + 1, expires |-> old.expires] /\ old.count > 0
        BY <1>0, <3>1, <3>3, FallBackType
      <4>2. now + Window >= (b + 1) * Window
        BY <1>0, <3>3, GoodForWindow
      <4>3. old.count > 0 => old.expires >= (b + 1) * Window
        BY <1>0 DEF InWindow
      <4>4. q \in apart'[b]
        BY <1>0, <3>1, <3>3, FallBackType
      <4> HIDE DEF old, new
      <4>5. new.expires >= (b + 1) * Window
        BY <4>1, <4>2, <4>3
      <4> QED BY <4>4, <4>5 DEF new
    <3> QED BY <3>2, <3>3
  <2>3. ASSUME NEW p \in Procs, Crash(p)
        PROVE  mem'[q][b] = mem[q][b] /\ apart[b] \subseteq apart'[b]
    BY <1>0, <1>2, <2>3 DEF Crash, TypeOK, NoCounter
  <2>4. ASSUME NEW p \in Procs,
               Begin(p) \/ Incr(p) \/ Reply(p) \/ Resend(p) \/ Expire(p)
        PROVE  mem' = mem /\ apart' = apart
    BY <2>4 DEF Begin, Incr, Reply, Resend, Expire, histVars
  <2>5. Tick \/ RedisFails \/ RedisReturns \/ UNCHANGED vars => mem' = mem /\ apart' = apart
    BY DEF Tick, RedisFails, RedisReturns, vars, histVars
  <2> QED BY <2>1, <2>2, <2>3, <2>4, <2>5 DEF Next
<1> QED BY <1>1, <1>2 DEF InWindow

\* What is counted up to the limit is seen after a step if it was before.
LEMMA StillSeen ==
  ASSUME LoginInv, TypeOK', [Next]_vars, NEW b \in Buckets, NEW k \in Nat
  PROVE  /\ AtMost(k) <= Seen(b) => AtMost(k) <= Seen(b)'
         /\ AtMost(k) <= Done(b) => AtMost(k) <= Done(b)'
         /\ limit <= Seen(b) => limit <= Seen(b)'
         /\ 0 <= Seen(b)' /\ 0 <= Done(b)'
<1>1. /\ Done(b)' \in Int /\ Seen(b)' \in Int /\ limit \in Nat
      /\ Done(b)' >= Done(b)
      /\ Seen(b)' >= Seen(b) \/ Seen(b)' >= limit
  BY Growth
<1>2. /\ Done(b) \in Int /\ Seen(b) \in Int /\ AtMost(k) \in Nat /\ AtMost(k) <= limit
      /\ passed[b] \in Nat /\ passed[b] <= Done(b) /\ resent \in Nat
      /\ Cardinality(InFlight(b)) \in Nat
  BY Numbers, Sizes, AtMostType DEF LoginInv, Accounted
<1>3. 0 <= Seen(b)
  BY <1>2 DEF Seen
<1> QED BY <1>1, <1>2, <1>3

\* What a step does to the counters in Redis.
LEMMA KeysStep ==
  ASSUME LoginInv, TypeOK', [Next]_vars, NEW b \in Buckets
  PROVE  \/ keys'[b].count \in {0, keys[b].count}
         \/ \E p \in Procs : Incr(p) /\ b = bucket[p]
<1>0. TypeOK /\ Off /\ Counted
  BY DEF LoginInv
<1>1. CASE Tick \/ RedisReturns
  BY <1>0, <1>1 DEF Tick, RedisReturns, NoCounter, TypeOK
<1>2. ASSUME NEW p \in Procs, Incr(p), b # bucket[p] PROVE keys'[b].count = keys[b].count
  BY <1>0, <1>2, SeenIncr
<1>3. ASSUME NEW p \in Procs, Expire(p) \/ NoAnswer(p)
      PROVE  keys'[b].count = keys[b].count
  BY <1>0, <1>3, Ends
<1>4. ASSUME NEW p \in Procs, Begin(p) \/ Reply(p) \/ Resend(p) \/ Crash(p)
      PROVE  keys' = keys
  BY <1>4 DEF Begin, Reply, Resend, Crash
<1>5. RedisFails \/ UNCHANGED vars => keys' = keys
  BY DEF RedisFails, vars
<1> QED BY <1>1, <1>2, <1>3, <1>4, <1>5 DEF Next

\* Redis counts attempts that are seen.
LEMMA CountedInRedis ==
  ASSUME LoginInv, TypeOK', [Next]_vars, NEW b \in Buckets
  PROVE  AtMost(keys'[b].count) <= Seen(b)'
<1>0. /\ TypeOK /\ keys[b].count \in Nat /\ limit \in Nat /\ Seen(b) \in Int
      /\ AtMost(keys[b].count) <= Seen(b)
  BY Numbers DEF LoginInv, Counted
<1>1. CASE keys'[b].count = keys[b].count
  BY <1>0, <1>1, StillSeen
<1>2. CASE keys'[b].count = 0
  BY <1>0, <1>2, StillSeen, AtMostType
<1>3. CASE \E p \in Procs : Incr(p) /\ b = bucket[p]
  <2>1. /\ keys'[b].count = keys[b].count + 1
        /\ Seen(b)' = Seen(b) + (IF keys[b].count + 1 <= limit THEN 1 ELSE 0)
    BY <1>0, <1>3, SeenIncr
  <2> QED BY <1>0, <2>1 DEF AtMost
<1> QED BY <1>1, <1>2, <1>3, KeysStep

\* So was what a process was told by Redis.
LEMMA CountedByReply ==
  ASSUME LoginInv, TypeOK', [Next]_vars, NEW q \in Procs, NEW b \in Buckets,
         bucket'[q] = b
  PROVE  AtMost(n'[q]) <= Seen(b)'
<1>0. /\ TypeOK /\ n[q] \in Nat /\ limit \in Nat /\ Seen(b) \in Int
      /\ keys[b].count \in Nat
      /\ bucket[q] = b => AtMost(n[q]) <= Seen(b)
  <2>1. TypeOK /\ Counted
    BY DEF LoginInv
  <2>2. bucket[q] = b => AtMost(n[q]) <= Seen(b)
    BY <2>1 DEF Counted
  <2> QED BY <2>1, <2>2, Numbers
<1>1. CASE n'[q] = 0
  BY <1>0, <1>1, StillSeen, AtMostType
<1>2. CASE n'[q] = n[q] /\ bucket[q] = b
  BY <1>0, <1>2, StillSeen
<1>3. ASSUME NEW p \in Procs, Begin(p)
      PROVE  n'[q] = 0 \/ (n'[q] = n[q] /\ bucket[q] = b)
  <2>1. CASE q = p
    BY <1>0, <1>3, <2>1 DEF Begin, TypeOK
  <2>2. CASE q # p
    BY <1>0, <1>3, <2>2 DEF Begin, TypeOK
  <2> QED BY <2>1, <2>2
<1>4. ASSUME NEW p \in Procs,
             Reply(p) \/ Resend(p) \/ Expire(p) \/ NoAnswer(p) \/ Crash(p)
      PROVE  n'[q] = 0 \/ (n'[q] = n[q] /\ bucket[q] = b)
  <2>1. bucket' = bucket
    BY <1>4 DEF Reply, Resend, Expire, NoAnswer, Crash
  <2>2. n' = n \/ n' = [n EXCEPT ![p] = 0]
    BY <1>4 DEF Reply, Resend, Expire, NoAnswer, FallBack, Crash, Decide
  <2> QED BY <1>0, <2>1, <2>2 DEF TypeOK
<1>5. ASSUME NEW p \in Procs, Incr(p) PROVE AtMost(n'[q]) <= Seen(b)'
  <2>1. bucket' = bucket /\ \A r \in Procs : r # p => n'[r] = n[r]
    BY <1>0, <1>5 DEF Incr, TypeOK
  <2>2. CASE q # p
    BY <1>2, <2>1, <2>2
  <2>3. CASE q = p
    <3>1. b = bucket[p]
      BY <2>1, <2>3
    <3>2. n'[q] = keys'[b].count
      BY <1>0, <1>5, <2>3, <3>1, SeenIncr
    <3> QED BY <3>2, CountedInRedis
  <2> QED BY <2>2, <2>3
<1>6. CASE Tick \/ RedisFails \/ RedisReturns \/ UNCHANGED vars
  BY <1>2, <1>6 DEF Tick, RedisFails, RedisReturns, vars
<1> QED BY <1>1, <1>2, <1>3, <1>4, <1>5, <1>6 DEF Next

\* A dictionary counts attempts that are over.
LEMMA CountedByItself ==
  ASSUME LoginInv, TypeOK', [Next]_vars, NEW b \in Buckets, NEW q \in Procs
  PROVE  AtMost(mem'[q][b].count) <= Done(b)'
<1>0. /\ TypeOK /\ Off /\ Counted /\ mem[q][b].count \in Nat
      /\ limit \in Nat /\ Done(b) \in Int /\ AtMost(mem[q][b].count) <= Done(b)
  BY Numbers DEF LoginInv, Counted
<1>1. CASE mem'[q][b] = mem[q][b]
  BY <1>0, <1>1, StillSeen
<1>2. CASE mem'[q][b].count = 0
  BY <1>0, <1>2, StillSeen, AtMostType
<1>3. ASSUME NEW p \in Procs, NoAnswer(p) PROVE AtMost(mem'[q][b].count) <= Done(b)'
  <2>1. FallBack(p) /\ pc[p] # "idle" /\ UNCHANGED <<limit, bucket, attempts, resent>>
    BY <1>3 DEF NoAnswer
  <2>2. CASE q # p \/ b # bucket[p]
    BY <1>0, <1>1, <2>1, <2>2, FallBackType
  <2>3. CASE q = p /\ b = bucket[p]
    <3> DEFINE c == mem[q][b].count
    <3>1. PICK k \in Nat : Decide(p, k) /\ mem'[q][b].count = k
                           /\ k <= c + 1 /\ (k > 1 => k = c + 1)
      <4>1. \/ mem'[q][b] = [count |-> 1, expires |-> now + Window] /\ Decide(p, 1)
            \/ /\ mem'[q][b] = [count |-> c + 1, expires |-> mem[q][b].expires]
               /\ c > 0 /\ Decide(p, c + 1)
        BY <1>0, <2>1, <2>3, FallBackType
      <4>2. CASE mem'[q][b] = [count |-> 1, expires |-> now + Window] /\ Decide(p, 1)
        BY <1>0, <4>2
      <4>3. CASE /\ mem'[q][b] = [count |-> c + 1, expires |-> mem[q][b].expires]
                 /\ c > 0 /\ Decide(p, c + 1)
        BY <1>0, <4>3
      <4> QED BY <4>1, <4>2, <4>3
    <3>2. CASE k <= limit
      <4>1. Done(b)' = Done(b) + 1
        BY <1>0, <2>1, <2>3, <3>1, <3>2, SeenDecide
      <4>2. 0 <= Done(b)
        BY <1>0, AtMostType
      <4>3. AtMost(k) = k /\ k <= AtMost(c) + 1
        BY <1>0, <3>1, <3>2 DEF AtMost
      <4> QED BY <1>0, <3>1, <4>1, <4>2, <4>3, AtMostType
    <3>3. CASE k > limit
      <4>1. limit > 0
        BY <1>0, <2>1 DEF Off
      <4>2. k = c + 1 /\ c >= limit
        BY <1>0, <3>1, <3>3, <4>1
      <4>3. AtMost(c) = limit /\ AtMost(k) = limit
        BY <1>0, <3>3, <4>2, AtMostType
      <4>4. AtMost(c) <= Done(b)'
        BY <1>0, StillSeen
      <4> QED BY <3>1, <4>3, <4>4
    <3> QED BY <1>0, <3>1, <3>2, <3>3
  <2> QED BY <2>2, <2>3
<1>4. ASSUME NEW p \in Procs, Crash(p)
      PROVE  mem'[q][b] = mem[q][b] \/ mem'[q][b].count = 0
  BY <1>0, <1>4 DEF Crash, TypeOK, NoCounter
<1>5. ASSUME NEW p \in Procs, Begin(p) \/ Incr(p) \/ Reply(p) \/ Resend(p) \/ Expire(p)
      PROVE  mem' = mem
  BY <1>5 DEF Begin, Incr, Reply, Resend, Expire
<1>6. Tick \/ RedisFails \/ RedisReturns \/ UNCHANGED vars => mem' = mem
  BY DEF Tick, RedisFails, RedisReturns, vars
<1> QED BY <1>1, <1>2, <1>3, <1>4, <1>5, <1>6 DEF Next

\* Who is refused has seen as many attempts as the limit allows.
LEMMA RefusedSeen ==
  ASSUME LoginInv, TypeOK', [Next]_vars, NEW b \in Buckets, refused'[b] > 0
  PROVE  limit > 0 /\ limit <= Seen(b)'
<1>0. /\ TypeOK /\ Off /\ Counted /\ limit \in Nat /\ Seen(b) \in Int /\ Done(b) \in Int
      /\ refused[b] > 0 => limit > 0 /\ limit <= Seen(b)
  BY Numbers DEF LoginInv, Counted
<1>1. CASE refused'[b] = refused[b]
  <2>1. refused[b] > 0
    BY <1>1
  <2> QED BY <1>0, <2>1, StillSeen
<1>2. CASE Tick \/ RedisFails \/ RedisReturns \/ UNCHANGED vars
  BY <1>0, <1>1, <1>2, WorldLeavesAttempts
<1>3. ASSUME NEW p \in Procs, Begin(p) \/ Incr(p) \/ Resend(p) \/ Crash(p)
      PROVE  refused' = refused
  BY <1>3 DEF Begin, Incr, Resend, Crash, histVars
<1>4. ASSUME NEW p \in Procs, Reply(p), n[p] = 1 PROVE refused' = refused
  BY <1>0, <1>4, ReplyFirst
<1>5. ASSUME NEW p \in Procs, (Reply(p) /\ n[p] # 1) \/ Expire(p) \/ NoAnswer(p)
      PROVE  limit > 0 /\ limit <= Seen(b)'
  <2>1. PICK k \in Nat :
           /\ pc[p] # "idle" /\ Decide(p, k)
           /\ UNCHANGED <<limit, now, bucket, attempts, resent, restarts>>
           /\ \/ k = n[p] /\ UNCHANGED <<mem, apart>> /\ pc[p] \in {"reply", "expire"}
              \/ /\ FallBack(p) /\ mem'[p][bucket[p]].count = k
                 /\ k > limit => limit <= Done(bucket[p])
    BY <1>0, <1>5, Ends
  <2>2. limit > 0
    BY <1>0, <2>1 DEF Off
  <2>3. CASE b # bucket[p] \/ k <= limit
    <3>1. refused'[b] = refused[b]
      BY <1>0, <2>1, <2>3, Decided, Numbers
    <3> QED BY <1>1, <3>1
  <2>4. CASE b = bucket[p] /\ k > limit
    <3>1. CASE k = n[p]
      <4>1. AtMost(n[p]) = limit
        BY <1>0, <2>4, <3>1 DEF AtMost
      <4>2. AtMost(n[p]) <= Seen(b)
        BY <1>0, <2>4 DEF Counted
      <4> QED BY <1>0, <2>2, <4>1, <4>2, StillSeen
    <3>2. CASE limit <= Done(b)
      <4>1. Seen(b)' >= Done(b)
        BY <1>0, <2>1, <2>4, SeenDecide
      <4>2. Seen(b)' \in Int
        BY Growth
      <4> QED BY <1>0, <2>2, <3>2, <4>1, <4>2
    <3> QED BY <2>1, <2>4, <3>1, <3>2
  <2> QED BY <1>0, <2>1, <2>3, <2>4
<1> QED BY <1>1, <1>2, <1>3, <1>4, <1>5 DEF Next

\* No counter runs ahead of the attempts it has counted.
LEMMA CountedStep == ASSUME LoginInv, TypeOK', [Next]_vars PROVE Counted'
<1>1. limit' = limit
  BY SameLimit
<1>2. ASSUME NEW b \in Buckets
      PROVE  /\ AtMost(keys'[b].count) <= Seen(b)'
             /\ \A p \in Procs : bucket'[p] = b => AtMost(n'[p]) <= Seen(b)'
             /\ \A p \in Procs : AtMost(mem'[p][b].count) <= Done(b)'
             /\ refused'[b] > 0 => limit > 0 /\ limit <= Seen(b)'
  BY CountedInRedis, CountedByReply, CountedByItself, RefusedSeen
<1> QED BY <1>1, <1>2 DEF Counted, AtMost

-----------------------------------------------------------------------------
(* The window of the moment.                                                *)

\* A dictionary that counts on in the window of the moment gives out one number.
LEMMA SlotsFallBack ==
  ASSUME TypeOK, InWindow, NEW p \in Procs, FallBack(p), limit' = limit,
         NEW b \in Buckets, b = Bucket(now)
  PROVE  \E k \in Nat :
           /\ b = bucket[p] => Decide(p, k)
           /\ Cardinality(Slots(b)') = Cardinality(Slots(b)) +
                (IF b = bucket[p] /\ k <= limit THEN 1 ELSE 0)
<1>0. /\ limit \in Nat /\ now \in Nat /\ Cardinality(Slots(b)) \in Nat
      /\ IsFiniteSet(Slots(b))
      /\ \A q \in Procs : mem[q][b].count \in Nat /\ mem[q][b].expires \in Nat
  BY Numbers, SlotsOfThoseApart
<1>1. CASE b # bucket[p]
  <2>1. \A q \in Procs : mem'[q][b] = mem[q][b]
    BY <1>1, FallBackType
  <2>2. Slots(b)' = Slots(b)
    BY <2>1 DEF Slots
  <2> QED BY <1>0, <1>1, <2>2
<1>2. CASE b = bucket[p]
  <2> DEFINE k == mem[p][b].count + 1
  <2>1. /\ mem'[p][b].count = k /\ Decide(p, k)
        /\ \A q \in Procs : q # p => mem'[q][b] = mem[q][b]
    <3>1. mem[p][b].count > 0 => ~(now > mem[p][b].expires)
      <4>1. ASSUME mem[p][b].count > 0, now > mem[p][b].expires PROVE FALSE
        <5>1. mem[p][b].expires >= (b + 1) * Window
          BY <4>1 DEF InWindow
        <5>2. b \in Nat /\ Window \in Nat
          BY WindowAssumption, Numbers
        <5>3. (b + 1) * Window <= now
          BY <1>0, <4>1, <5>1, <5>2
        <5>4. now < (b + 1) * Window
          BY <1>0, BucketOf
        <5>5. (b + 1) * Window \in Nat
          BY <5>2
        <5> QED BY <1>0, <5>3, <5>4, <5>5
      <4> QED BY <4>1
    <3>2. \/ /\ mem'[p][b] = [count |-> 1, expires |-> now + Window]
             /\ mem[p][b].count = 0 \/ now > mem[p][b].expires
             /\ Decide(p, 1)
          \/ /\ mem'[p][b] = [count |-> k, expires |-> mem[p][b].expires]
             /\ Decide(p, k)
      BY <1>2, FallBackType
    <3>3. CASE /\ mem'[p][b] = [count |-> 1, expires |-> now + Window]
               /\ mem[p][b].count = 0 \/ now > mem[p][b].expires
               /\ Decide(p, 1)
      <4>1. mem[p][b].count = 0
        BY <1>0, <3>1, <3>3
      <4>2. k = 1
        BY <4>1
      <4> HIDE DEF k
      <4>3. mem'[p][b].count = k /\ Decide(p, k)
        BY <3>3, <4>2
      <4>4. \A q \in Procs : q # p => mem'[q][b] = mem[q][b]
        BY <1>2, FallBackType
      <4> QED BY <4>3, <4>4
    <3>4. CASE /\ mem'[p][b] = [count |-> k, expires |-> mem[p][b].expires]
               /\ Decide(p, k)
      BY <1>2, <3>4, FallBackType
    <3> QED BY <3>2, <3>3, <3>4
  <2>2. k \in Nat /\ k > 0 /\ mem[p][b].count = k - 1
    BY <1>0
  <2> HIDE DEF k
  <2>3. CASE k <= limit
    <3>1. Slots(b)' = Slots(b) \cup {<<p, k>>}
      <4>1. ASSUME NEW s \in Procs \X (1..limit)
            PROVE  s[2] <= mem'[s[1]][b].count <=>
                     s[2] <= mem[s[1]][b].count \/ s = <<p, k>>
        <5>1. s[1] \in Procs /\ s[2] \in 1..limit /\ s = <<s[1], s[2]>>
          OBVIOUS
        <5>2. CASE s[1] = p
          <6>1. s[2] <= k <=> (s[2] <= k - 1 \/ s[2] = k)
            BY <1>0, <2>2, <5>1
          <6> QED BY <2>1, <2>2, <5>1, <5>2, <6>1
        <5>3. CASE s[1] # p
          BY <2>1, <5>1, <5>3
        <5> QED BY <5>2, <5>3
      <4>2. <<p, k>> \in Procs \X (1..limit)
        BY <1>0, <2>2, <2>3
      <4> QED BY <4>1, <4>2 DEF Slots
    <3>2. <<p, k>> \notin Slots(b)
      BY <1>0, <2>2 DEF Slots
    <3>3. Cardinality(Slots(b)') = Cardinality(Slots(b)) + 1
      BY <1>0, <3>1, <3>2, FS_AddElement
    <3> QED BY <1>2, <2>1, <2>2, <2>3, <3>3
  <2>4. CASE k > limit
    <3>1. Slots(b)' = Slots(b)
      <4>1. ASSUME NEW s \in Procs \X (1..limit)
            PROVE  s[2] <= mem'[s[1]][b].count <=> s[2] <= mem[s[1]][b].count
        <5>1. s[1] \in Procs /\ s[2] \in 1..limit
          OBVIOUS
        <5>2. CASE s[1] = p
          <6>1. s[2] <= k /\ s[2] <= k - 1
            BY <1>0, <2>2, <2>4, <5>1
          <6> QED BY <2>1, <2>2, <5>2, <6>1
        <5>3. CASE s[1] # p
          BY <2>1, <5>1, <5>3
        <5> QED BY <5>2, <5>3
      <4> QED BY <4>1 DEF Slots
    <3> QED BY <1>0, <1>2, <2>1, <2>2, <2>4, <3>1
  <2> QED BY <1>0, <2>2, <2>3, <2>4
<1> QED BY <1>1, <1>2

\* A process that dies takes at most the limit with it.
LEMMA SlotsCrash ==
  ASSUME TypeOK, InWindow, TypeOK', InWindow', NEW p \in Procs, Crash(p), NEW b \in Buckets
  PROVE  Cardinality(Slots(b)) <= Cardinality(Slots(b)') + limit
<1> DEFINE T == {p} \X (1..limit)
<1>1. /\ limit \in Nat /\ limit' = limit
      /\ IsFiniteSet(Slots(b)) /\ Cardinality(Slots(b)) \in Nat
      /\ \A q \in Procs : mem[q][b].count \in Nat
  BY Numbers, SlotsOfThoseApart DEF Crash
<1>2. \A q \in Procs : q # p => mem'[q][b] = mem[q][b]
  BY DEF Crash, TypeOK
<1>3. IsFiniteSet(1..limit) /\ Cardinality(1..limit) = limit
  BY <1>1, FS_Interval
<1>4. IsFiniteSet({p}) /\ Cardinality({p}) = 1
  BY FS_Singleton
<1>5. IsFiniteSet(T) /\ Cardinality(T) = limit
  <2>1. IsFiniteSet(T) /\ Cardinality(T) = Cardinality({p}) * Cardinality(1..limit)
    BY <1>3, <1>4, FS_Product
  <2> QED BY <1>1, <1>3, <1>4, <2>1
<1>6. Slots(b) \subseteq Slots(b)' \cup T
  <2> SUFFICES ASSUME NEW s \in Slots(b), s \notin T PROVE s \in Slots(b)'
    OBVIOUS
  <2>1. s \in Procs \X (1..limit) /\ s[2] <= mem[s[1]][b].count
    BY DEF Slots
  <2>2. s[1] # p
    BY <2>1
  <2>3. mem'[s[1]][b] = mem[s[1]][b]
    BY <1>2, <2>1, <2>2
  <2> QED BY <1>1, <2>1, <2>3 DEF Slots
<1>7. IsFiniteSet(Slots(b)')
  <2>1. IsFiniteSet(Procs \X (1..limit))
    BY <1>3, ProcsAssumption, FS_Product
  <2>2. Slots(b)' \subseteq Procs \X (1..limit)
    BY <1>1 DEF Slots
  <2> QED BY <2>1, <2>2, FS_Subset
<1> HIDE DEF T
<1>8. /\ IsFiniteSet(Slots(b)' \cup T)
      /\ Cardinality(Slots(b)' \cup T) =
           Cardinality(Slots(b)') + Cardinality(T) - Cardinality(Slots(b)' \cap T)
  BY <1>5, <1>7, FS_Union
<1>9. /\ Cardinality(Slots(b)' \cap T) \in Nat /\ Cardinality(Slots(b)') \in Nat
  BY <1>7, FS_Intersection, FS_CardinalityType
<1>10. Cardinality(Slots(b)) <= Cardinality(Slots(b)' \cup T)
  BY <1>6, <1>8, FS_Subset
<1> QED BY <1>1, <1>5, <1>8, <1>9, <1>10

\* Spent, of one window.
SpentIn(b) ==
  passed[b] + Cardinality(InFlight(b)) <=
    limit * restarts + AtMost(keys[b].count) + Cardinality(Slots(b))

\* The sizes after a step are numbers, too.
LEMMA SizesNext ==
  ASSUME TypeOK', InWindow', NEW b \in Buckets
  PROVE  /\ Cardinality(InFlight(b)') \in Nat /\ Cardinality(Slots(b)') \in Nat
         /\ IsFiniteSet(Slots(b)')
         /\ passed'[b] \in Nat /\ restarts' \in Nat /\ limit' \in Nat
         /\ keys'[b].count \in Nat
<1>1. /\ passed'[b] \in Nat /\ restarts' \in Nat /\ limit' \in Nat
      /\ keys'[b].count \in Nat
  BY BoundsAssumption DEF TypeOK, Counter
<1>2. InFlight(b)' \subseteq Procs
  BY DEF InFlight
<1>3. IsFiniteSet(Procs \X (1..(limit')))
  <2>1. IsFiniteSet(1..(limit'))
    BY <1>1, FS_Interval
  <2> QED BY <2>1, FS_Product, ProcsAssumption
<1>4. Slots(b)' \subseteq Procs \X (1..(limit'))
  BY DEF Slots
<1>5. IsFiniteSet(Slots(b)')
  BY <1>3, <1>4, FS_Subset
<1> QED BY <1>1, <1>2, <1>5, SomeProcs, FS_CardinalityType

\* A limit's worth for every set of counters that was lost.
LEMMA Times ==
  ASSUME NEW l \in Nat, NEW k \in Nat
  PROVE  l * k \in Nat /\ l * (k + 1) = l * k + l
OBVIOUS

\* Within its window, no step lets through more than it counts.
LEMMA SpentProcess ==
  ASSUME LoginInv, TypeOK', InWindow', NEW p \in Procs,
         \/ Begin(p) \/ Incr(p) \/ Reply(p) \/ Resend(p) \/ Expire(p)
         \/ NoAnswer(p) \/ Crash(p),
         NEW b \in Buckets, b = Bucket(now)
  PROVE  SpentIn(b)'
<1> DEFINE lost == limit * restarts
           flight == Cardinality(InFlight(b))
           slots == Cardinality(Slots(b))
           flight2 == Cardinality(InFlight(b)')
           slots2 == Cardinality(Slots(b)')
<1>0. TypeOK /\ Off /\ Counted /\ InWindow
  BY DEF LoginInv
<1>1. /\ limit \in Nat /\ restarts \in Nat /\ passed[b] \in Nat /\ passed'[b] \in Nat
      /\ lost \in Nat /\ flight \in Nat /\ slots \in Nat /\ flight2 \in Nat /\ slots2 \in Nat
      /\ keys[b].count \in Nat /\ AtMost(keys[b].count) \in Nat /\ limit' = limit
  <2>1. limit' = limit
    BY OthersStayPut, <1>0 DEF OthersStay
  <2>2. /\ limit \in Nat /\ restarts \in Nat /\ passed[b] \in Nat /\ passed'[b] \in Nat
        /\ flight \in Nat /\ slots \in Nat /\ flight2 \in Nat /\ slots2 \in Nat
        /\ keys[b].count \in Nat /\ AtMost(keys[b].count) \in Nat
    BY <1>0, Numbers, Sizes, SlotsOfThoseApart, SizesNext, AtMostType
  <2> QED BY <2>1, <2>2, Times
<1>2. passed[b] + flight <= lost + AtMost(keys[b].count) + slots
  BY DEF LoginInv, Spent
<1> HIDE DEF lost, flight, slots, flight2, slots2
<1>3. ASSUME restarts' = restarts, mem' = mem,
             passed'[b] + flight2 + AtMost(keys[b].count) <=
               passed[b] + flight + AtMost(keys'[b].count)
      PROVE  SpentIn(b)'
  <2>1. slots2 = slots
    BY <1>1, <1>3 DEF slots, slots2, Slots
  <2>2. AtMost(keys'[b].count) \in Nat
    BY <1>0, SizesNext, AtMostType
  <2>3. passed'[b] + flight2 <= lost + AtMost(keys'[b].count) + slots2
    BY <1>1, <1>2, <1>3, <2>1, <2>2
  <2> QED BY <1>1, <1>3, <2>3 DEF SpentIn, lost, flight2, slots2, AtMost
<1>4. CASE Begin(p)
  <2>1. flight2 = flight /\ passed' = passed /\ keys' = keys /\ mem' = mem
        /\ restarts' = restarts
    BY <1>0, <1>4, SeenBegin DEF Begin, flight, flight2
  <2> QED BY <1>1, <1>3, <2>1
<1>5. CASE Incr(p)
  <2>1. passed' = passed /\ mem' = mem /\ restarts' = restarts
    BY <1>5 DEF Incr, histVars
  <2>2. CASE b = bucket[p]
    <3>1. /\ keys'[b].count = keys[b].count + 1
          /\ flight2 = flight + (IF keys[b].count + 1 <= limit THEN 1 ELSE 0)
      BY <1>0, <1>5, <2>2, SeenIncr DEF flight, flight2
    <3>2. AtMost(keys'[b].count) =
            AtMost(keys[b].count) + (IF keys[b].count + 1 <= limit THEN 1 ELSE 0)
      BY <1>1, <3>1 DEF AtMost
    <3> QED BY <1>1, <1>3, <2>1, <3>1, <3>2
  <2>3. CASE b # bucket[p]
    <3>1. keys'[b] = keys[b] /\ flight2 = flight
      BY <1>0, <1>5, <2>3, SeenIncr DEF flight, flight2
    <3> QED BY <1>1, <1>3, <2>1, <3>1
  <2> QED BY <2>2, <2>3
<1>6. CASE Resend(p)
  <2>1. /\ flight2 <= flight /\ passed' = passed /\ keys' = keys /\ mem' = mem
        /\ restarts' = restarts
    BY <1>0, <1>6, SeenAgain DEF Resend, flight, flight2
  <2> QED BY <1>1, <1>3, <2>1
<1>7. CASE Reply(p) /\ n[p] = 1
  <2>1. /\ flight2 = flight /\ passed' = passed /\ keys' = keys /\ mem' = mem
        /\ restarts' = restarts
    BY <1>0, <1>7, ReplyFirst DEF flight, flight2
  <2> QED BY <1>1, <1>3, <2>1
<1>8. CASE (Reply(p) /\ n[p] # 1) \/ Expire(p)
  <2>1. /\ pc[p] \in {"reply", "expire"} /\ Decide(p, n[p]) /\ n[p] \in Nat
        /\ UNCHANGED <<limit, bucket, attempts, mem, restarts>>
    BY <1>0, <1>8 DEF Reply, Expire, TypeOK
  <2>2. keys'[b].count = keys[b].count
    BY <1>0, <1>8, Ends
  <2>3. passed'[b] + flight2 <= passed[b] + flight
    <3>1. CASE b = bucket[p]
      <4>1. /\ flight2 = flight - InHand(p)
            /\ passed'[b] = passed[b] + (IF n[p] <= limit /\ Bucket(now) = b THEN 1 ELSE 0)
        BY <1>0, <2>1, <3>1, Decided DEF flight, flight2
      <4>2. InHand(p) = IF n[p] <= limit THEN 1 ELSE 0
        BY <2>1 DEF InHand
      <4> QED BY <1>1, <2>1, <4>1, <4>2
    <3>2. CASE b # bucket[p]
      <4>1. flight2 = flight /\ passed'[b] = passed[b]
        BY <1>0, <2>1, <3>2, Decided DEF flight, flight2
      <4> QED BY <1>1, <4>1
    <3> QED BY <3>1, <3>2
  <2> QED BY <1>1, <1>3, <2>1, <2>2, <2>3
<1>9. CASE NoAnswer(p)
  <2>1. /\ pc[p] # "idle" /\ FallBack(p)
        /\ UNCHANGED <<limit, bucket, attempts, restarts>>
    BY <1>9 DEF NoAnswer
  <2>2. keys'[b].count = keys[b].count
    BY <1>0, <1>9, Ends
  <2>3. PICK k \in Nat : /\ b = bucket[p] => Decide(p, k)
                         /\ slots2 = slots + (IF b = bucket[p] /\ k <= limit THEN 1 ELSE 0)
    BY <1>0, <1>1, <2>1, SlotsFallBack DEF slots, slots2
  <2>4. passed'[b] + flight2 + slots <= passed[b] + flight + slots2
    <3>1. CASE b = bucket[p]
      <4>1. /\ flight2 = flight - InHand(p) /\ InHand(p) \in {0, 1}
            /\ passed'[b] = passed[b] + (IF k <= limit /\ Bucket(now) = b THEN 1 ELSE 0)
        BY <1>0, <2>1, <2>3, <3>1, Decided DEF flight, flight2, InHand
      <4> QED BY <1>1, <2>3, <3>1, <4>1
    <3>2. CASE b # bucket[p]
      <4>1. PICK m \in Nat : Decide(p, m)
        BY <1>0, <2>1, FallBackCount
      <4>2. flight2 = flight /\ passed'[b] = passed[b]
        BY <1>0, <2>1, <3>2, <4>1, Decided DEF flight, flight2
      <4> QED BY <1>1, <2>3, <3>2, <4>2
    <3> QED BY <3>1, <3>2
  <2>5. passed'[b] + flight2 <= lost + AtMost(keys[b].count) + slots2
    BY <1>1, <1>2, <2>4
  <2> QED BY <1>1, <2>1, <2>2, <2>5 DEF SpentIn, lost, flight2, slots2, AtMost
<1>10. CASE Crash(p)
  <2>1. slots <= slots2 + limit
    BY <1>0, <1>10, SlotsCrash DEF slots, slots2
  <2>2. /\ flight2 <= flight /\ passed' = passed /\ keys' = keys
        /\ restarts' = restarts + 1
    BY <1>0, <1>10, SeenAgain DEF Crash, flight, flight2
  <2>3. limit * restarts' = lost + limit
    BY <1>1, <2>2, Times DEF lost
  <2>4. passed'[b] + flight2 <= lost + limit + AtMost(keys[b].count) + slots2
    BY <1>1, <1>2, <2>1, <2>2
  <2> QED BY <1>1, <2>2, <2>3, <2>4 DEF SpentIn, flight2, slots2, AtMost
<1> QED BY <1>4, <1>5, <1>6, <1>7, <1>8, <1>9, <1>10

\* The clock and Redis let nobody through; a window that begins has let nobody
\* through yet, and the counter of one that goes on does not expire.
LEMMA SpentWorld ==
  ASSUME LoginInv, TypeOK', InWindow',
         Tick \/ RedisFails \/ RedisReturns \/ UNCHANGED vars,
         NEW b \in Buckets, b = Bucket(now')
  PROVE  SpentIn(b)'
<1>0. TypeOK /\ NotYet /\ InWindow
  BY DEF LoginInv
<1>1. /\ UNCHANGED <<limit, n, bucket, mem>> /\ passed'[b] = passed[b]
      /\ InFlight(b)' = InFlight(b)
  BY <1>0, WorldLeavesAttempts
<1>2. Slots(b)' = Slots(b)
  BY <1>1 DEF Slots
<1>3. /\ limit \in Nat /\ restarts \in Nat /\ restarts' \in Nat /\ passed[b] \in Nat
      /\ Cardinality(InFlight(b)) \in Nat /\ Cardinality(Slots(b)) \in Nat
      /\ keys[b].count \in Nat /\ keys'[b].count \in Nat
      /\ AtMost(keys[b].count) \in Nat /\ AtMost(keys'[b].count) \in Nat
      /\ AtMost(keys[b].count) <= limit
      /\ limit * restarts \in Nat /\ limit * restarts' \in Nat
  <2>1. /\ limit \in Nat /\ restarts \in Nat /\ restarts' \in Nat /\ passed[b] \in Nat
        /\ Cardinality(InFlight(b)) \in Nat /\ Cardinality(Slots(b)) \in Nat
        /\ keys[b].count \in Nat /\ keys'[b].count \in Nat
    BY <1>0, Numbers, Sizes, SlotsOfThoseApart, SizesNext
  <2> QED BY <1>0, <2>1, AtMostType, Times
<1>4. CASE b # Bucket(now)
  <2>1. now' = now + 1 /\ now \in Nat
    BY <1>0, <1>4, Numbers DEF Tick, RedisFails, RedisReturns, vars
  <2>2. /\ Bucket(now) \in Nat /\ Bucket(now') \in Nat /\ Bucket(now) <= Bucket(now')
    <3>1. now + 1 \in Nat /\ now <= now + 1
      BY <2>1
    <3> QED BY <2>1, <3>1, BucketOf, BucketsGrow
  <2>3. b > Bucket(now)
    BY <1>4, <2>2
  <2>4. passed[b] = 0 /\ InFlight(b) = {}
    <3>1. \A p \in Procs : bucket[p] # b
      <4>1. \A p \in Procs : bucket[p] \in Nat /\ bucket[p] <= Bucket(now)
        BY <1>0 DEF TypeOK, NotYet, Buckets
      <4> QED BY <2>2, <2>3, <4>1
    <3> QED BY <1>0, <2>3, <3>1 DEF NotYet, InFlight
  <2>5. Cardinality(InFlight(b)) = 0
    BY <2>4, FS_EmptySet
  <2>6. passed'[b] + Cardinality(InFlight(b)') <=
          limit * restarts' + AtMost(keys'[b].count) + Cardinality(Slots(b)')
    BY <1>1, <1>2, <1>3, <2>4, <2>5
  <2> QED BY <1>1, <2>6 DEF SpentIn, AtMost
<1>5. CASE b = Bucket(now)
  <2>1. passed[b] + Cardinality(InFlight(b)) <=
          limit * restarts + AtMost(keys[b].count) + Cardinality(Slots(b))
    BY <1>5 DEF LoginInv, Spent
  <2>2. CASE keys'[b] = keys[b] /\ restarts' = restarts
    BY <1>1, <1>2, <2>1, <2>2 DEF SpentIn, AtMost
  <2>3. CASE restarts' = restarts + 1
    <3>1. limit * restarts' = limit * restarts + limit
      BY <1>3, <2>3, Times
    <3>2. passed[b] + Cardinality(InFlight(b)) <=
            limit * restarts' + AtMost(keys'[b].count) + Cardinality(Slots(b))
      <4> DEFINE lost == limit * restarts
                 lost2 == limit * restarts'
                 count == AtMost(keys[b].count)
                 count2 == AtMost(keys'[b].count)
                 flight == Cardinality(InFlight(b))
                 slots == Cardinality(Slots(b))
      <4>1. /\ lost \in Nat /\ lost2 \in Nat /\ count \in Nat /\ count2 \in Nat
            /\ flight \in Nat /\ slots \in Nat /\ passed[b] \in Nat /\ limit \in Nat
            /\ count <= limit /\ lost2 = lost + limit
        BY <1>3, <3>1
      <4>2. passed[b] + flight <= lost + count + slots
        BY <2>1
      <4> HIDE DEF lost, lost2, count, count2, flight, slots
      <4>3. passed[b] + flight <= lost2 + count2 + slots
        BY <4>1, <4>2
      <4> QED BY <4>3 DEF lost2, count2, flight, slots
    <3>3. passed'[b] + Cardinality(InFlight(b)') <=
            limit * restarts' + AtMost(keys'[b].count) + Cardinality(Slots(b)')
      BY <1>1, <1>2, <3>2
    <3> QED BY <1>1, <3>3 DEF SpentIn, AtMost
  <2>4. CASE Tick
    <3>1. restarts' = restarts
      BY <2>4 DEF Tick, histVars
    <3>2. keys'[b] = IF keys[b].expires # 0 /\ keys[b].expires <= now'
                     THEN NoCounter ELSE keys[b]
      BY <2>4 DEF Tick
    <3>3. ~(keys[b].expires # 0 /\ keys[b].expires <= now')
      <4>1. now' \in Nat
        BY BoundsAssumption DEF TypeOK
      <4>2. now' < (b + 1) * Window
        BY <4>1, BucketOf
      <4>3. keys[b].expires # 0 => keys[b].expires >= (b + 1) * Window
        BY <1>0 DEF InWindow
      <4>4. (b + 1) * Window \in Nat /\ keys[b].expires \in Nat
        <5>1. b \in Nat /\ Window \in Nat /\ keys[b].expires \in Nat
          BY <1>0, Numbers, WindowAssumption
        <5> QED BY <5>1
      <4> QED BY <4>1, <4>2, <4>3, <4>4
    <3> QED BY <2>2, <3>1, <3>2, <3>3
  <2>5. RedisReturns => (keys' = keys /\ restarts' = restarts) \/ restarts' = restarts + 1
    BY DEF RedisReturns
  <2>6. RedisFails \/ UNCHANGED vars => keys' = keys /\ restarts' = restarts
    BY DEF RedisFails, vars, histVars
  <2> QED BY <2>2, <2>3, <2>4, <2>5, <2>6
<1> QED BY <1>4, <1>5

\* Every step leaves the current window with no more let through than counted.
LEMMA SpentStep == ASSUME LoginInv, TypeOK', InWindow', [Next]_vars PROVE Spent'
<1> SUFFICES ASSUME NEW b, b = Bucket(now') PROVE SpentIn(b)'
  BY DEF Spent, SpentIn
<1>1. b \in Buckets
  <2>1. now' \in Nat /\ MaxTime \in Nat /\ now' <= MaxTime
    BY BoundsAssumption DEF TypeOK
  <2>2. Bucket(now') <= Bucket(MaxTime) /\ Bucket(now') \in Nat /\ Bucket(MaxTime) \in Nat
    BY <2>1, BucketOf, BucketsGrow
  <2> QED BY <2>2 DEF Buckets
<1>2. CASE Tick \/ RedisFails \/ RedisReturns \/ UNCHANGED vars
  BY <1>1, <1>2, SpentWorld
<1>3. ASSUME NEW p \in Procs,
             \/ Begin(p) \/ Incr(p) \/ Reply(p) \/ Resend(p) \/ Expire(p)
             \/ NoAnswer(p) \/ Crash(p)
      PROVE  SpentIn(b)'
  <2>1. now' = now
    BY <1>3 DEF Begin, Incr, Reply, Resend, Expire, NoAnswer, Crash
  <2>2. b = Bucket(now)
    BY <2>1
  <2> QED BY <1>1, <1>3, <2>2, SpentProcess
<1> QED BY <1>2, <1>3 DEF Next

-----------------------------------------------------------------------------
(* The invariant, and what it says.                                         *)

\* The limit holds in the window of the moment, too: its dictionaries are of
\* processes that fell back in it.
LEMMA LimitFollows == LoginInv => BucketLimit
<1> SUFFICES ASSUME LoginInv, limit > 0, NEW b \in Buckets
             PROVE  passed[b] <= limit * (1 + Cardinality(apart[b]) + restarts)
  BY DEF BucketLimit
<1>0. TypeOK /\ NotYet /\ InWindow /\ PastLimit /\ Spent
  BY DEF LoginInv
<1> DEFINE a == Cardinality(apart[b])
           flight == Cardinality(InFlight(b))
           slots == Cardinality(Slots(b))
           count == AtMost(keys[b].count)
<1>1. /\ limit \in Nat /\ restarts \in Nat /\ a \in Nat /\ flight \in Nat /\ slots \in Nat
      /\ slots <= a * limit /\ passed[b] \in Nat /\ count \in Nat /\ count <= limit
  <2>1. /\ limit \in Nat /\ restarts \in Nat /\ passed[b] \in Nat /\ keys[b].count \in Nat
    BY <1>0, Numbers
  <2>2. /\ a \in Nat /\ flight \in Nat
    BY <1>0, Sizes
  <2>3. slots \in Nat /\ slots <= a * limit
    BY <1>0, SlotsOfThoseApart
  <2> QED BY <1>0, <2>1, <2>2, <2>3, AtMostType
<1>2. b \in Nat /\ Bucket(now) \in Nat
  <2>1. now \in Nat /\ b \in Nat
    BY <1>0, Numbers
  <2> QED BY <2>1, BucketOf
<1>3. limit * (1 + a + restarts) = limit + a * limit + limit * restarts
  <2> HIDE DEF a
  <2> QED BY <1>1
<1>4. CASE b < Bucket(now)
  BY <1>0, <1>4 DEF PastLimit
<1>5. CASE b = Bucket(now)
  <2>1. passed[b] + flight <= limit * restarts + count + slots
    BY <1>0, <1>5 DEF Spent
  <2> DEFINE lost == limit * restarts
             most == a * limit
  <2>2. lost \in Nat /\ most \in Nat
    BY <1>1
  <2>3. passed[b] + flight <= lost + count + slots /\ slots <= most
    BY <1>1, <2>1
  <2> HIDE DEF lost, most, a, flight, slots, count
  <2>4. passed[b] <= limit + most + lost
    BY <1>1, <2>2, <2>3
  <2> QED BY <1>3, <2>4 DEF lost, most, a
<1>6. CASE b > Bucket(now)
  <2>1. passed[b] = 0
    BY <1>0, <1>6 DEF NotYet
  <2> HIDE DEF a
  <2>2. limit * (1 + a + restarts) >= 0
    BY <1>1
  <2> QED BY <2>1, <2>2 DEF a
<1> QED BY <1>2, <1>4, <1>5, <1>6

\* More processes on their own and more lost counters make the product larger.
LEMMA MoreTimes ==
  ASSUME NEW l \in Nat, NEW a1 \in Nat, NEW a2 \in Nat, NEW r1 \in Nat, NEW r2 \in Nat,
         a1 <= a2, r1 <= r2
  PROVE  /\ l * (1 + a1 + r1) \in Nat /\ l * (1 + a2 + r2) \in Nat
         /\ l * (1 + a1 + r1) <= l * (1 + a2 + r2)
<1> DEFINE k1 == 1 + a1 + r1
           k2 == 1 + a2 + r2
<1>1. k1 \in Nat /\ k2 \in Nat /\ k1 <= k2
  OBVIOUS
<1> HIDE DEF k1, k2
<1>2. l * k1 \in Nat /\ l * k2 \in Nat /\ l * k1 <= l * k2
  BY <1>1
<1> QED BY <1>2 DEF k1, k2

\* A window that is over keeps who was let through, and what that is held against
\* only grows.
LEMMA PastStep == ASSUME LoginInv, TypeOK', [Next]_vars PROVE PastLimit'
<1> SUFFICES ASSUME limit' > 0, NEW b \in Buckets, b < Bucket(now')
             PROVE  passed'[b] <= limit' * (1 + Cardinality(apart'[b]) + restarts')
  BY DEF PastLimit
<1>0. TypeOK /\ Off /\ NotYet
  BY DEF LoginInv
<1> DEFINE a == Cardinality(apart[b])
           a2 == Cardinality(apart'[b])
<1>1. /\ limit \in Nat /\ limit' = limit /\ restarts \in Nat /\ restarts' \in Nat
      /\ passed[b] \in Nat
  BY <1>0, Numbers, SameLimit, BoundsAssumption DEF TypeOK
<1>2. restarts <= restarts'
  <2>1. restarts' = restarts \/ restarts' = restarts + 1
    BY DEF Next, Tick, RedisFails, RedisReturns, Begin, Incr, Reply, Resend, Expire,
           NoAnswer, Crash, vars, histVars
  <2> QED BY <1>1, <2>1
<1>3. apart[b] \subseteq apart'[b]
  <2>1. CASE apart' = apart
    BY <2>1
  <2>2. ASSUME NEW p \in Procs, NoAnswer(p) PROVE apart[b] \subseteq apart'[b]
    BY <1>0, <2>2 DEF NoAnswer, FallBack, TypeOK
  <2>3. ASSUME NEW p \in Procs,
               Begin(p) \/ Incr(p) \/ Reply(p) \/ Resend(p) \/ Expire(p) \/ Crash(p)
        PROVE  apart' = apart
    BY <2>3 DEF Begin, Incr, Reply, Resend, Expire, Crash, histVars
  <2>4. Tick \/ RedisFails \/ RedisReturns \/ UNCHANGED vars => apart' = apart
    BY DEF Tick, RedisFails, RedisReturns, vars, histVars
  <2> QED BY <2>1, <2>2, <2>3, <2>4 DEF Next
<1>4. a \in Nat /\ a2 \in Nat /\ a <= a2
  <2>1. apart'[b] \subseteq Procs
    BY DEF TypeOK
  <2>2. IsFiniteSet(apart'[b]) /\ a2 \in Nat
    BY <2>1, SomeProcs
  <2> QED BY <1>0, <1>3, <2>2, Sizes, FS_Subset
<1>5. passed[b] <= limit * (1 + a + restarts)
  BY <1>1, LimitFollows DEF BucketLimit
<1> HIDE DEF a, a2
<1>6. /\ limit * (1 + a + restarts) \in Nat /\ limit * (1 + a2 + restarts') \in Nat
      /\ limit * (1 + a + restarts) <= limit * (1 + a2 + restarts')
  BY <1>1, <1>2, <1>4, MoreTimes
<1>7. passed'[b] = passed[b]
  <2>1. b # Bucket(now) \/ now' # now
    BY DEF Buckets
  <2> QED BY <2>1, PassedStep
<1>8. passed'[b] <= limit * (1 + a2 + restarts')
  BY <1>1, <1>5, <1>6, <1>7
<1> QED BY <1>1, <1>8 DEF a2

\* Every step keeps the invariant.
LEMMA LoginStep == LoginInv /\ [Next]_vars => LoginInv'
<1> SUFFICES ASSUME LoginInv, [Next]_vars PROVE LoginInv'
  OBVIOUS
<1>1. TypeOK'
  BY TypeStep
<1>2. InWindow'
  BY <1>1, InWindowStep
<1>3. Spent'
  BY <1>1, <1>2, SpentStep
<1>4. FaultsCounted' /\ Accounted' /\ Off' /\ NotYet' /\ Counted' /\ PastLimit'
  BY <1>1, FaultsStep, AccountedStep, OffStep, NotYetStep, CountedStep, PastStep
<1> QED BY <1>1, <1>2, <1>3, <1>4 DEF LoginInv

\* Every reachable state has the invariant.
LEMMA LoginInvariance == Spec => []LoginInv
<1> QED BY LoginInit, LoginStep, PTL DEF Spec

\* Nobody is refused before as many attempts were let through or are under way.
LEMMA RefusalsFollow == LoginInv => RefusedAfterLimit
<1> SUFFICES ASSUME LoginInv, NEW b \in Buckets, refused[b] > 0
             PROVE  limit > 0 /\ attempts[b] - refused[b] + resent >= limit
  BY DEF RefusedAfterLimit
<1>1. TypeOK /\ limit > 0 /\ limit <= Seen(b)
  BY DEF LoginInv, Counted
<1>2. /\ limit \in Nat /\ resent \in Nat /\ attempts[b] \in Nat /\ refused[b] \in Nat
      /\ Cardinality(InFlight(b)) \in Nat /\ Cardinality(Pending(b)) \in Nat
      /\ Cardinality(InFlight(b)) <= Cardinality(Pending(b))
  BY <1>1, Numbers, Sizes
<1>3. Seen(b) <= attempts[b] - refused[b] + resent /\ Seen(b) \in Int
  BY <1>2 DEF Seen, Done
<1> QED BY <1>1, <1>2, <1>3

-----------------------------------------------------------------------------
(* Theorems.                                                                *)

\* The variables of the function, its counters in Redis and in the processes, and
\* the histories of a window have their types.
THEOREM LoginTypeCorrect == Spec => []TypeOK
<1>1. LoginInv => TypeOK
  BY DEF LoginInv
<1> QED BY <1>1, LoginInvariance, PTL

\* However Redis and the processes fail, the attempts let through in a window are
\* at most the limit, times one for Redis, one for every process that counted by
\* itself, and one for each set of counters that was lost.
THEOREM LimitHolds == Spec => []BucketLimit
<1> QED BY LimitFollows, LoginInvariance, PTL

\* Nobody is answered 429 in a window that has not seen the attempts the limit
\* allows, a command that was sent twice counting as one.
THEOREM NobodyRefusedEarly == Spec => []RefusedAfterLimit
<1> QED BY RefusalsFollow, LoginInvariance, PTL
=============================================================================
