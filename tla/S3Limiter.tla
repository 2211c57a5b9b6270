------------------------------ MODULE S3Limiter ------------------------------
(***************************************************************************)
(* server/s3-limiter.ts: the queue in front of the S3 calls of one route   *)
(* module.  A job is the request that waits for its call.  The finally     *)
(* block runs in the turn in which the promise of the call settles, so the *)
(* end of a call and the pump after it are one step.                       *)
(***************************************************************************)
EXTENDS Naturals, FiniteSets, Sequences

CONSTANTS MaxConcurrent  \* the limit of createS3Limiter

ASSUME LimiterAssumption == MaxConcurrent \in Nat \ {0}

VARIABLES queue,    \* jobs that wait, in order
          active,   \* calls counted as running
          running   \* jobs whose call S3 has not answered

limiterVars == <<queue, active, running>>

LimiterInit == queue = <<>> /\ active = 0 /\ running = {}

Lower(a, b) == IF a < b THEN a ELSE b

(* pump: shift jobs while a slot is free; r is what runs already.          *)
Pump(q, n, r) ==
  LET k == Lower(MaxConcurrent - n, Len(q))
  IN /\ queue' = SubSeq(q, k + 1, Len(q))
     /\ active' = n + k
     /\ running' = r \cup {q[i] : i \in 1 .. k}

(* run: push the job, then pump.                                           *)
Enqueue(j) == Pump(Append(queue, j), active, running)

(* The call of j has resolved or rejected: finally frees the slot.         *)
Finish(j) == Pump(queue, active - 1, running \ {j})
=============================================================================
