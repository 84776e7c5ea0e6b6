------------------------------ MODULE JobQueue ------------------------------
(***************************************************************************)
(* The planning job queue: the planning_job table and the runners that     *)
(* drain it (the API's in-process runner and any number of `fv worker`     *)
(* processes).  src/apps/api/internal/platform/queue/queue.go.             *)
(*                                                                         *)
(* A runner is one process.  Its mutex `draining` admits one drain at a    *)
(* time, so a process works on one job at a time and its control state is  *)
(* pc[r].  A claim is a transaction of its own: the row is locked by the   *)
(* UPDATE (ClaimLock) and becomes RUNNING at the commit (ClaimCommit).     *)
(* The handler runs outside any transaction of the queue, and its outcome  *)
(* is written by a later one (Succeed, Fail).  Between these steps the     *)
(* process can be killed, be told to stop, or lose the database.           *)
(***************************************************************************)
EXTENDS Integers

CONSTANTS
  Jobs,          \* jobs, numbered by enqueued_at
  NoJob,         \* no job at hand
  Runners,       \* processes that run a Runner
  MaxAttempts,   \* max_attempts of every job
  Handles,       \* [Runners -> SUBSET Jobs]: the jobs whose type has a handler
  BatchSize,     \* jobs one drain takes at most (20 in the code)
  MaxFaults      \* bound: kills, signals and database errors in a behaviour

ASSUME JobsAssumption == Jobs \subseteq Nat /\ NoJob \notin Jobs
ASSUME MaxAttemptsAssumption == MaxAttempts \in [Jobs -> Nat \ {0}]
ASSUME HandlesAssumption == Handles \in [Runners -> SUBSET Jobs]
ASSUME BoundsAssumption == BatchSize \in Nat \ {0} /\ MaxFaults \in Nat

VARIABLES
  status,     \* [Jobs -> Status]
  attempts,   \* [Jobs -> Nat]
  pc,         \* [Runners -> Control]
  job,        \* [Runners -> Jobs \cup {NoJob}]: the row a runner locks or works on
  batch,      \* [Runners -> Nat]: jobs processed by the current drain
  origin,     \* [Runners -> {"poll", "nudge"}]: whose context the drain uses
  cancelled,  \* [Runners -> BOOLEAN]: the process was told to stop
  faults,     \* faults so far
  okRuns      \* history: [Jobs -> Nat], handler runs that returned a result

table == <<status, attempts>>
runner == <<pc, job, batch, origin, cancelled>>
vars == <<status, attempts, pc, job, batch, origin, cancelled, faults, okRuns>>

Status == {"ABSENT", "PENDING", "RUNNING", "SUCCEEDED", "FAILED"}
Control == {"down", "idle", "draining", "claiming", "running", "succeeding", "failing"}
Working == {"running", "succeeding", "failing"}

TypeOK ==
  /\ status \in [Jobs -> Status]
  /\ attempts \in [Jobs -> Nat]
  /\ pc \in [Runners -> Control]
  /\ job \in [Runners -> Jobs \cup {NoJob}]
  /\ batch \in [Runners -> 0..BatchSize]
  /\ origin \in [Runners -> {"poll", "nudge"}]
  /\ cancelled \in [Runners -> BOOLEAN]
  /\ faults \in 0..MaxFaults
  /\ okRuns \in [Jobs -> Nat]

Init ==
  /\ status = [j \in Jobs |-> "ABSENT"]
  /\ attempts = [j \in Jobs |-> 0]
  /\ pc = [r \in Runners |-> "idle"]
  /\ job = [r \in Runners |-> NoJob]
  /\ batch = [r \in Runners |-> 0]
  /\ origin = [r \in Runners |-> "poll"]
  /\ cancelled = [r \in Runners |-> FALSE]
  /\ faults = 0
  /\ okRuns = [j \in Jobs |-> 0]

-----------------------------------------------------------------------------
\* The commit of a transaction that enqueued a job.
Enqueue(j) ==
  /\ status[j] = "ABSENT"
  /\ status' = [status EXCEPT ![j] = "PENDING"]
  /\ UNCHANGED <<attempts, runner, faults, okRuns>>

Holds(r) == pc[r] \in Working \cup {"claiming"}

Locked == {job[r] : r \in {q \in Runners : pc[q] = "claiming"}}

\* Two faulty claims: one without SKIP LOCKED, one that also takes RUNNING rows.
EligibleThoughLocked == {j \in Jobs : status[j] = "PENDING" /\ attempts[j] < MaxAttempts[j]}

EligibleThoughRunning ==
  {j \in Jobs : status[j] \in {"PENDING", "RUNNING"} /\ attempts[j] < MaxAttempts[j]} \ Locked

\* Rows the claim's subselect returns: FOR UPDATE SKIP LOCKED.
Eligible == {j \in Jobs : status[j] = "PENDING" /\ attempts[j] < MaxAttempts[j]} \ Locked

\* The poll loop drains under the process's signal context, which is dead
\* once the process is told to stop; a nudged drain has a context of its own.
CanQuery(r) == cancelled[r] => origin[r] = "nudge"

StartDrain(r, o) ==
  /\ pc[r] = "idle"
  /\ o = "poll" => ~cancelled[r]
  /\ pc' = [pc EXCEPT ![r] = "draining"]
  /\ origin' = [origin EXCEPT ![r] = o]
  /\ UNCHANGED <<table, job, batch, cancelled, faults, okRuns>>

\* The drain of process r is over, and its local variables with it.
Leave(r, control) ==
  /\ pc' = [pc EXCEPT ![r] = control]
  /\ job' = [job EXCEPT ![r] = NoJob]
  /\ batch' = [batch EXCEPT ![r] = 0]
  /\ origin' = [origin EXCEPT ![r] = "poll"]
  /\ UNCHANGED <<table, cancelled, okRuns>>

\* A faulty drain that forgets its batch limit.
ClaimLockUnlimited(r) ==
  /\ pc[r] = "draining" /\ CanQuery(r)
  /\ \E j \in Eligible :
       /\ \A k \in Eligible : j <= k
       /\ job' = [job EXCEPT ![r] = j]
  /\ pc' = [pc EXCEPT ![r] = "claiming"]
  /\ UNCHANGED <<table, batch, origin, cancelled, faults, okRuns>>

ClaimLock(r) ==
  /\ pc[r] = "draining" /\ batch[r] < BatchSize /\ CanQuery(r)
  /\ \E j \in Eligible :
       /\ \A k \in Eligible : j <= k
       /\ job' = [job EXCEPT ![r] = j]
  /\ pc' = [pc EXCEPT ![r] = "claiming"]
  /\ UNCHANGED <<table, batch, origin, cancelled, faults, okRuns>>

\* A job whose type has no handler goes straight to Fail.
ClaimCommit(r) ==
  /\ pc[r] = "claiming" /\ CanQuery(r)
  /\ status' = [status EXCEPT ![job[r]] = "RUNNING"]
  /\ attempts' = [attempts EXCEPT ![job[r]] = @ + 1]
  /\ pc' = [pc EXCEPT ![r] = IF job[r] \in Handles[r] THEN "running" ELSE "failing"]
  /\ UNCHANGED <<job, batch, origin, cancelled, faults, okRuns>>

\* The drain ends: the batch is full, or no job was found.
EndDrain(r) ==
  /\ pc[r] = "draining"
  /\ batch[r] = BatchSize \/ (CanQuery(r) /\ Eligible = {})
  /\ Leave(r, "idle")
  /\ UNCHANGED faults

HandlerReturns(r) ==
  /\ pc[r] = "running"
  /\ \/ /\ pc' = [pc EXCEPT ![r] = "succeeding"]
        /\ okRuns' = [okRuns EXCEPT ![job[r]] = @ + 1]
     \/ /\ pc' = [pc EXCEPT ![r] = "failing"]
        /\ UNCHANGED okRuns
  /\ UNCHANGED <<table, job, batch, origin, cancelled, faults>>

\* One job processed: the drain goes on.
Processed(r) ==
  /\ pc' = [pc EXCEPT ![r] = "draining"]
  /\ job' = [job EXCEPT ![r] = NoJob]
  /\ batch' = [batch EXCEPT ![r] = @ + 1]
  /\ UNCHANGED <<origin, cancelled, faults, okRuns>>

Succeed(r) ==
  /\ pc[r] = "succeeding" /\ CanQuery(r)
  /\ status' = [status EXCEPT ![job[r]] = "SUCCEEDED"]
  /\ Processed(r)
  /\ UNCHANGED attempts

\* A faulty limit, off by one.
AfterFailureLate(j) == IF attempts[j] > MaxAttempts[j] THEN "FAILED" ELSE "PENDING"

AfterFailure(j) == IF attempts[j] >= MaxAttempts[j] THEN "FAILED" ELSE "PENDING"

Fail(r) ==
  /\ pc[r] = "failing" /\ CanQuery(r)
  /\ status' = [status EXCEPT ![job[r]] = AfterFailure(job[r])]
  /\ Processed(r)
  /\ UNCHANGED attempts

\* RunOnce returns an error (the claim or the outcome could not be written):
\* the drain breaks, and whatever the row says stays.
RunOnceError(r) ==
  /\ pc[r] \in {"draining", "claiming", "succeeding", "failing"}
  /\ IF CanQuery(r) THEN faults < MaxFaults /\ faults' = faults + 1
                    ELSE UNCHANGED faults
  /\ Leave(r, "idle")

\* SIGTERM: the signal context is cancelled.
Signal(r) ==
  /\ pc[r] # "down" /\ ~cancelled[r] /\ faults < MaxFaults
  /\ faults' = faults + 1
  /\ cancelled' = [cancelled EXCEPT ![r] = TRUE]
  /\ UNCHANGED <<table, pc, job, batch, origin, okRuns>>

\* Stop waits for the poll loop's drain, not for a nudged one.
Exit(r) ==
  /\ cancelled[r] /\ pc[r] # "down"
  /\ pc[r] = "idle" \/ origin[r] = "nudge"
  /\ Leave(r, "down")
  /\ UNCHANGED faults

\* The process dies, by a kill or by a handler's panic, which nothing recovers.
Crash(r) ==
  /\ pc[r] # "down" /\ faults < MaxFaults
  /\ faults' = faults + 1
  /\ Leave(r, "down")

Restart(r) ==
  /\ pc[r] = "down"
  /\ pc' = [pc EXCEPT ![r] = "idle"]
  /\ cancelled' = [cancelled EXCEPT ![r] = FALSE]
  /\ UNCHANGED <<table, job, batch, origin, faults, okRuns>>

-----------------------------------------------------------------------------
DrainStep(r) ==
  \/ ClaimLock(r) \/ ClaimCommit(r) \/ EndDrain(r) \/ HandlerReturns(r)
  \/ Succeed(r) \/ Fail(r)
  \/ ~CanQuery(r) /\ RunOnceError(r)

Next ==
  \/ \E j \in Jobs : Enqueue(j)
  \/ \E r \in Runners :
       \/ StartDrain(r, "poll") \/ StartDrain(r, "nudge")
       \/ ClaimLock(r) \/ ClaimCommit(r) \/ EndDrain(r) \/ HandlerReturns(r)
       \/ Succeed(r) \/ Fail(r) \/ RunOnceError(r)
       \/ Signal(r) \/ Exit(r) \/ Crash(r) \/ Restart(r)

Spec == Init /\ [][Next]_vars

\* A ticker drives every live runner, a drain runs to its end, and a stopped
\* process exits and is started again by the container's restart policy.
Fairness ==
  \A r \in Runners :
    /\ WF_vars(StartDrain(r, "poll"))
    /\ WF_vars(DrainStep(r))
    /\ WF_vars(Exit(r))
    /\ WF_vars(Restart(r))

FairSpec == Spec /\ Fairness

-----------------------------------------------------------------------------
\* Two processes never work on, or hold the lock of, one job: SKIP LOCKED
\* makes the API's runner and the workers share the queue without racing.
ClaimIsExclusive ==
  \A r, q \in Runners : r # q /\ Holds(r) /\ Holds(q) => job[r] # job[q]

\* The table's verdict is the handlers' verdict: SUCCEEDED means exactly one
\* run returned a result, FAILED that every allowed attempt was used up and
\* none did; and a job is never run again after a run that succeeded.
VerdictIsTrue ==
  \A j \in Jobs :
    /\ okRuns[j] <= 1
    /\ status[j] = "SUCCEEDED" => okRuns[j] = 1
    /\ status[j] = "FAILED" => okRuns[j] = 0 /\ attempts[j] = MaxAttempts[j]
    /\ status[j] = "PENDING" => okRuns[j] = 0 /\ attempts[j] < MaxAttempts[j]

\* Succeed and Fail update by id alone, whatever the row's status: a settled
\* job must all the same never change again.
SettledIsFinal ==
  [][\A j \in Jobs : status[j] \in {"SUCCEEDED", "FAILED"} =>
       status'[j] = status[j] /\ attempts'[j] = attempts[j]]_vars

\* RUNNING in the table, and no process that works on it.
Stranded(j) ==
  status[j] = "RUNNING" /\ \A r \in Runners : ~(Holds(r) /\ job[r] = j)

\* Every waiting job is settled in the end, unless a fault strands it: a
\* failing job does not starve the ones behind it, and no job waits with its
\* attempts used up.
WaitingIsSettled ==
  \A j \in Jobs :
    status[j] = "PENDING" ~> (status[j] \in {"SUCCEEDED", "FAILED"} \/ Stranded(j))

\* Migration 016 chooses a table for the queue because "the job survives a
\* restart": a job that was enqueued is settled in the end.
JobSurvivesRestart ==
  \A j \in Jobs : status[j] = "PENDING" ~> status[j] \in {"SUCCEEDED", "FAILED"}

-----------------------------------------------------------------------------
\* What the queue promises its callers (JobContract): the locks, batches and
\* processes are hidden.
Contract == INSTANCE JobContract WITH phase <- status, tries <- attempts

ImplementsContract == Contract!Spec
=============================================================================
