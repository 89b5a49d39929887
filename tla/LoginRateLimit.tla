--------------------------- MODULE LoginRateLimit ---------------------------
(***************************************************************************)
(* _enforce_login_rate_limit of api/routes/auth.py, for one client         *)
(* address: how many login attempts are let through in a window.           *)
(*                                                                         *)
(* An attempt is counted under the number of its window (its "bucket") in  *)
(* Redis, and if Redis does not answer, in a dictionary of the process.    *)
(* login_for_access_token never awaits, so a process has one attempt at a  *)
(* time; several processes share Redis.  Redis may be unreachable, restart *)
(* and lose its keys, or execute a command whose reply is lost; clients    *)
(* from redis-py 6 on, which pyproject.toml allows, then send it again.    *)
(***************************************************************************)
EXTENDS Naturals, FiniteSets

CONSTANTS
  Procs,           \* processes of the API, finitely many
  Window,          \* EVIFORGE_LOGIN_RATE_WINDOW_SECONDS, in ticks of the clock
  Limits,          \* values EVIFORGE_LOGIN_RATE_LIMIT may have
  MaxTime,         \* bound on the clock
  MaxAttempts,     \* bound on the attempts of a window
  MaxFaults        \* bound on crashes, outages and lost replies

ASSUME ProcsAssumption == IsFiniteSet(Procs)
ASSUME WindowAssumption == Window \in Nat \ {0}
ASSUME BoundsAssumption ==
  Limits \subseteq Nat /\ MaxTime \in Nat /\ MaxAttempts \in Nat /\ MaxFaults \in Nat

VARIABLES
  limit,           \* EVIFORGE_LOGIN_RATE_LIMIT
  now,             \* the clock
  up,              \* can Redis be reached?
  keys,            \* the counters in Redis
  mem,             \* _MEM_RATE_LIMIT of each process
  pc, bucket, n,   \* where a process is in the function, and its variables
  attempts,        \* history: attempts of each bucket
  passed,          \* history: those let through before the bucket was over
  refused,         \* history: those answered 429
  apart,           \* history: processes that fell back to their dictionary
  restarts,        \* history: Redis restarts that lost the keys, and crashes
  resent,          \* history: commands sent twice
  faults

histVars == <<attempts, passed, refused, apart, restarts, resent>>
vars == <<limit, now, up, keys, mem, pc, bucket, n, histVars, faults>>

Bucket(t) == t \div Window
Buckets == 0..Bucket(MaxTime)

\* expires is 0 for a key without a TTL; count is 0 for no key.
Counter == [count : Nat, expires : Nat]
NoCounter == [count |-> 0, expires |-> 0]

TypeOK ==
  /\ limit \in Limits
  /\ now \in 0..MaxTime
  /\ up \in BOOLEAN
  /\ keys \in [Buckets -> Counter]
  /\ mem \in [Procs -> [Buckets -> Counter]]
  /\ \A p \in Procs, b \in Buckets : mem[p][b].count > 0 => mem[p][b].expires >= Window
  /\ pc \in [Procs -> {"idle", "incr", "reply", "expire"}]
  /\ bucket \in [Procs -> Buckets]
  /\ n \in [Procs -> Nat]
  /\ \A p \in Procs : n[p] = 0 <=> pc[p] \in {"idle", "incr"}
  /\ attempts \in [Buckets -> 0..MaxAttempts]
  /\ passed \in [Buckets -> 0..MaxAttempts]
  /\ refused \in [Buckets -> 0..MaxAttempts]
  /\ apart \in [Buckets -> SUBSET Procs]
  /\ restarts \in 0..MaxFaults
  /\ resent \in 0..MaxFaults
  /\ faults \in 0..MaxFaults

Init ==
  /\ limit \in Limits
  /\ now = 0
  /\ up = TRUE
  /\ keys = [b \in Buckets |-> NoCounter]
  /\ mem = [p \in Procs |-> [b \in Buckets |-> NoCounter]]
  /\ pc = [p \in Procs |-> "idle"]
  /\ bucket = [p \in Procs |-> 0]
  /\ n = [p \in Procs |-> 0]
  /\ attempts = [b \in Buckets |-> 0]
  /\ passed = [b \in Buckets |-> 0]
  /\ refused = [b \in Buckets |-> 0]
  /\ apart = [b \in Buckets |-> {}]
  /\ restarts = 0
  /\ resent = 0
  /\ faults = 0

Fault ==
  /\ faults < MaxFaults
  /\ faults' = faults + 1

Inc(counts, b) == [counts EXCEPT ![b] = @ + 1]

-----------------------------------------------------------------------------
(* The clock, and Redis.                                                    *)

\* Redis forgets a key when its time has come.
Tick ==
  /\ now < MaxTime
  /\ now' = now + 1
  /\ keys' = [b \in Buckets |->
                IF keys[b].expires # 0 /\ keys[b].expires <= now'
                THEN NoCounter ELSE keys[b]]
  /\ UNCHANGED <<limit, up, mem, pc, bucket, n, histVars, faults>>

RedisFails ==
  /\ Fault
  /\ up
  /\ up' = FALSE
  /\ UNCHANGED <<limit, now, keys, mem, pc, bucket, n, histVars>>

RedisReturns ==
  /\ ~up
  /\ up' = TRUE
  /\ \/ UNCHANGED <<keys, restarts>>
     \/ /\ keys' = [b \in Buckets |-> NoCounter]
        /\ restarts' = restarts + 1
  /\ UNCHANGED <<limit, now, mem, pc, bucket, n, attempts, passed, refused, apart,
                 resent, faults>>

-----------------------------------------------------------------------------
(* The function.                                                            *)

\* The end of an attempt that was number k of its bucket.
Decide(p, k) ==
  /\ pc' = [pc EXCEPT ![p] = "idle"]
  /\ n' = [n EXCEPT ![p] = 0]
  /\ passed' = IF k <= limit /\ Bucket(now) = bucket[p]
               THEN Inc(passed, bucket[p]) ELSE passed
  /\ refused' = IF k > limit THEN Inc(refused, bucket[p]) ELSE refused

\* Mutant: the window is not in the key.
BucketOfKey_None(t) == 0

BucketOfKey(t) == Bucket(t)

\* Lines 48-55.  A limit of 0 switches the function off.
Begin(p) ==
  LET b == BucketOfKey(now)
  IN  /\ pc[p] = "idle"
      /\ \A c \in Buckets : attempts[c] < MaxAttempts
      /\ attempts' = Inc(attempts, Bucket(now))
      /\ bucket' = [bucket EXCEPT ![p] = b]
      /\ pc' = IF limit = 0 THEN pc ELSE [pc EXCEPT ![p] = "incr"]
      /\ UNCHANGED <<limit, now, up, keys, mem, n, passed, refused, apart, restarts,
                     resent, faults>>

\* INCR, in Redis; the reply is on its way.
Incr(p) ==
  /\ pc[p] = "incr"
  /\ up
  /\ keys' = [keys EXCEPT ![bucket[p]].count = @ + 1]
  /\ n' = [n EXCEPT ![p] = keys'[bucket[p]].count]
  /\ pc' = [pc EXCEPT ![p] = "reply"]
  /\ UNCHANGED <<limit, now, up, mem, bucket, histVars, faults>>

\* The reply to INCR: lines 60, 62-64.
Reply(p) ==
  /\ pc[p] = "reply"
  /\ IF n[p] = 1
     THEN /\ pc' = [pc EXCEPT ![p] = "expire"]
          /\ UNCHANGED <<n, passed, refused>>
     ELSE Decide(p, n[p])
  /\ UNCHANGED <<limit, now, up, keys, mem, bucket, attempts, apart, restarts, resent,
                 faults>>

\* The client sends INCR once more.
Resend(p) ==
  /\ Fault
  /\ pc[p] = "reply"
  /\ pc' = [pc EXCEPT ![p] = "incr"]
  /\ n' = [n EXCEPT ![p] = 0]
  /\ resent' = resent + 1
  /\ UNCHANGED <<limit, now, up, keys, mem, bucket, attempts, passed, refused, apart,
                 restarts>>

\* EXPIRE, which does nothing to a key that is gone.
SetTtl(b) ==
  keys' = [keys EXCEPT ![b].expires = IF keys[b].count = 0 THEN 0 ELSE now + Window]

Expire(p) ==
  /\ pc[p] = "expire"
  /\ up
  /\ SetTtl(bucket[p])
  /\ Decide(p, n[p])
  /\ UNCHANGED <<limit, now, up, mem, bucket, attempts, apart, restarts, resent, faults>>

\* Mutant: an entry of the dictionary is good for no time at all.
FallBack_ExpiresNow(p) ==
  LET b == bucket[p]
      old == mem[p][b]
      fresh == old.count = 0 \/ now > old.expires
      k == IF fresh THEN 1 ELSE old.count + 1
  IN  /\ mem' = [mem EXCEPT ![p][b] =
                   [count |-> k, expires |-> IF fresh THEN now ELSE old.expires]]
      /\ apart' = [apart EXCEPT ![b] = @ \cup {p}]
      /\ Decide(p, k)

\* Lines 67-76, the counters of the process: whatever Redis has counted already.
FallBack(p) ==
  LET b == bucket[p]
      old == mem[p][b]
      fresh == old.count = 0 \/ now > old.expires
      k == IF fresh THEN 1 ELSE old.count + 1
  IN  /\ mem' = [mem EXCEPT ![p][b] =
                   [count |-> k, expires |-> IF fresh THEN now + Window ELSE old.expires]]
      /\ apart' = [apart EXCEPT ![b] = @ \cup {p}]
      /\ Decide(p, k)

\* Redis does not answer; a command that has reached it has taken effect.
NoAnswer(p) ==
  /\ pc[p] # "idle"
  /\ IF up \/ pc[p] = "reply" THEN Fault ELSE UNCHANGED faults
  /\ \/ UNCHANGED keys
     \/ up /\ pc[p] = "expire" /\ SetTtl(bucket[p])
  /\ FallBack(p)
  /\ UNCHANGED <<limit, now, up, bucket, attempts, restarts, resent>>

\* The process dies and is started again, with an empty dictionary.
Crash(p) ==
  /\ Fault
  /\ pc' = [pc EXCEPT ![p] = "idle"]
  /\ n' = [n EXCEPT ![p] = 0]
  /\ mem' = [mem EXCEPT ![p] = [b \in Buckets |-> NoCounter]]
  /\ restarts' = restarts + 1
  /\ UNCHANGED <<limit, now, up, keys, bucket, attempts, passed, refused, apart, resent>>

-----------------------------------------------------------------------------
Next ==
  \/ Tick \/ RedisFails \/ RedisReturns
  \/ \E p \in Procs :
       \/ Begin(p) \/ Incr(p) \/ Reply(p) \/ Resend(p) \/ Expire(p)
       \/ NoAnswer(p) \/ Crash(p)

Spec == Init /\ [][Next]_vars

-----------------------------------------------------------------------------
\* With a limit, the attempts that are let through within a window are no more
\* than that, times one for Redis, one for every process that counted by itself
\* in that window, and one for each set of counters that was lost.
BucketLimit ==
  limit > 0 =>
    \A b \in Buckets :
      passed[b] <= limit * (1 + Cardinality(apart[b]) + restarts)

\* Nobody is refused early: whatever fails, there have been as many attempts in
\* the window that were not refused as the limit allows, a command that was sent
\* twice counting as one.  In particular a counter that never got its TTL, left by
\* a process that died between INCR and EXPIRE, shuts nobody out of later windows.
RefusedAfterLimit ==
  \A b \in Buckets :
    refused[b] > 0 => limit > 0 /\ attempts[b] - refused[b] + resent >= limit
=============================================================================
