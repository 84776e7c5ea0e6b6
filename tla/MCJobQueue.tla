----------------------------- MODULE MCJobQueue -----------------------------
(***************************************************************************)
(* The job queue on a small instance: two processes, and jobs that have    *)
(* one and two attempts.  Job 2's type has no handler in process r2.       *)
(***************************************************************************)
EXTENDS JobQueue

CONSTANTS r1, r2

MCJobs == 1..2
MCRunners == {r1, r2}
MCMaxAttempts == [j \in MCJobs |-> IF j = 1 THEN 1 ELSE 2]
MCHandles == [r \in MCRunners |-> IF r = r1 THEN MCJobs ELSE MCJobs \ {2}]
=============================================================================
