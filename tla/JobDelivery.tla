---------------------------- MODULE JobDelivery ----------------------------
(***************************************************************************)
(* What the job queue promises: a job is pushed once and handed to one     *)
(* worker, once; only the worker that has it moves its record on, from     *)
(* RUNNING to one outcome; and a job that a worker gives up without having *)
(* completed it is filed as failed.  The record may come after the job     *)
(* itself, at any time.  A restart of the queue loses what it holds, the   *)
(* failed jobs included, but nothing that a worker has.                    *)
(***************************************************************************)
CONSTANT Jobs

VARIABLES
  place,           \* where each job is
  status           \* of its record, "none" without one

vars == <<place, status>>

Init ==
  /\ place = [j \in Jobs |-> "outside"]
  /\ status = [j \in Jobs |-> "none"]

Move(j, from, to) ==
  /\ place[j] = from
  /\ place' = [place EXCEPT ![j] = to]

Advance(j, from, to) ==
  /\ status[j] = from
  /\ status' = [status EXCEPT ![j] = to]

Push(j) ==
  /\ status[j] = "none"
  /\ Move(j, "outside", "queued")
  /\ UNCHANGED status

\* The record of a job becomes visible, wherever the job is by then.
Record(j) ==
  /\ Advance(j, "none", "PENDING")
  /\ place[j] # "outside"
  /\ UNCHANGED place

Take(j) ==
  /\ status[j] \in {"none", "PENDING"}
  /\ Move(j, "queued", "taken")
  /\ UNCHANGED status

Start(j) ==
  /\ Advance(j, "PENDING", "RUNNING")
  /\ place[j] = "taken"
  /\ UNCHANGED place

Finish(j) ==
  /\ \E outcome \in {"COMPLETED", "FAILED"} : Advance(j, "RUNNING", outcome)
  /\ place[j] = "taken"
  /\ UNCHANGED place

\* The worker fails the job and gives it up at once.
Reject(j) ==
  /\ Advance(j, "RUNNING", "FAILED")
  /\ Move(j, "taken", "filed")

Return(j) ==
  /\ status[j] = "COMPLETED"
  /\ Move(j, "taken", "over")
  /\ UNCHANGED status

\* The worker gives up, or dies, whatever it has recorded.
File(j) ==
  /\ Move(j, "taken", "filed")
  /\ UNCHANGED status

Lose ==
  /\ place' = [j \in Jobs |->
                 IF place[j] \in {"queued", "filed"} THEN "lost" ELSE place[j]]
  /\ UNCHANGED status

Next ==
  \/ \E j \in Jobs :
       \/ Push(j) \/ Record(j) \/ Take(j) \/ Start(j) \/ Finish(j) \/ Reject(j)
       \/ Return(j) \/ File(j)
  \/ Lose

Spec == Init /\ [][Next]_vars
=============================================================================
