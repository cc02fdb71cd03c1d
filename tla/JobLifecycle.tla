---------------------------- MODULE JobLifecycle ----------------------------
(***************************************************************************)
(* What a client of the gateway is promised about the jobs it was given a  *)
(* 202 for: a job moves queued -> processing -> done or failed, its record *)
(* is forgotten only once it has settled, and a job is lost only when the  *)
(* process ends, because nothing is persisted.  JobQueue implements this.  *)
(***************************************************************************)
CONSTANT Jobs

VARIABLE stage

Stages == {"absent", "queued", "processing", "done", "failed", "expired", "lost"}

Settled(j) == stage[j] \in {"done", "failed"}

TypeOK == stage \in [Jobs -> Stages]

Init == stage = [j \in Jobs |-> "absent"]

Move(j, from, to) ==
    /\ stage[j] = from
    /\ stage' = [stage EXCEPT ![j] = to]

Accept(j) == Move(j, "absent", "queued")

Start(j) == Move(j, "queued", "processing")

Succeed(j) == Move(j, "processing", "done")

Fail(j) == Move(j, "processing", "failed")

(* A cleanup pass forgets any number of settled jobs.                      *)
Expire ==
    \E S \in SUBSET {j \in Jobs : Settled(j)} :
        stage' = [j \in Jobs |-> IF j \in S THEN "expired" ELSE stage[j]]

(* The process ends and takes every job it had accepted with it.           *)
Lose ==
    stage' = [j \in Jobs |-> IF stage[j] = "absent" THEN "absent" ELSE "lost"]

Next ==
    \/ \E j \in Jobs : Accept(j) \/ Start(j) \/ Succeed(j) \/ Fail(j)
    \/ Expire
    \/ Lose

Spec == Init /\ [][Next]_stage
=============================================================================
