--------------------------- MODULE JobQueueProofs ---------------------------
(***************************************************************************)
(* Theorems about the job queue, for any set of jobs, any number of        *)
(* processes and any bound on the faults.                                  *)
(***************************************************************************)
EXTENDS JobQueue, TLAPS

\* What a process that holds a row knows of it.
OwnerKnows(r) ==
  /\ pc[r] = "claiming" =>
       /\ job[r] \in Jobs
       /\ status[job[r]] = "PENDING"
  /\ pc[r] \in Working =>
       /\ job[r] \in Jobs
       /\ status[job[r]] = "RUNNING"
  /\ pc[r] = "succeeding" => okRuns[job[r]] = 1
  /\ pc[r] \in {"running", "failing"} => okRuns[job[r]] = 0
  /\ Holds(r) => batch[r] < BatchSize

\* What the status of a row says of its attempts.
RowCounts(j) ==
  /\ status[j] = "ABSENT" => okRuns[j] = 0 /\ attempts[j] = 0
  /\ attempts[j] <= MaxAttempts[j]

IInv ==
  /\ TypeOK
  /\ ClaimIsExclusive
  /\ VerdictIsTrue
  /\ \A r \in Runners : OwnerKnows(r)
  /\ \A j \in Jobs : RowCounts(j)

-----------------------------------------------------------------------------
LEMMA InitEstablishesIInv == Init => IInv
BY JobsAssumption, MaxAttemptsAssumption, BoundsAssumption
   DEF Init, IInv, TypeOK, ClaimIsExclusive, VerdictIsTrue, OwnerKnows, RowCounts,
       Holds, Working, Status, Control

\* Ending a drain lets go of the row, if there is one, and changes no row.
LEMMA LeavePreservesIInv ==
  ASSUME IInv, NEW r \in Runners, NEW control \in {"idle", "down"},
         Leave(r, control), faults' \in 0..MaxFaults
  PROVE  IInv'
BY JobsAssumption, MaxAttemptsAssumption, BoundsAssumption
   DEF Leave, table, IInv, TypeOK, ClaimIsExclusive, VerdictIsTrue, OwnerKnows, RowCounts,
       Holds, Working, Status, Control

LEMMA StepPreservesIInv == IInv /\ [Next]_vars => IInv'
<1> SUFFICES ASSUME IInv, [Next]_vars PROVE IInv'
  OBVIOUS
<1> USE JobsAssumption, MaxAttemptsAssumption, BoundsAssumption
    DEF IInv, TypeOK, ClaimIsExclusive, VerdictIsTrue, OwnerKnows, RowCounts,
        Holds, Working, Status, Control, table, runner
<1>1. ASSUME NEW j \in Jobs, Enqueue(j) PROVE IInv'
  BY <1>1 DEF Enqueue
<1>2. ASSUME NEW r \in Runners, NEW o \in {"poll", "nudge"}, StartDrain(r, o)
      PROVE  IInv'
  BY <1>2 DEF StartDrain
<1>3. ASSUME NEW r \in Runners, ClaimLock(r) PROVE IInv'
  BY <1>3 DEF ClaimLock, Eligible, Locked
<1>4. ASSUME NEW r \in Runners, ClaimCommit(r) PROVE IInv'
  <2>1. /\ job[r] \in Jobs /\ status[job[r]] = "PENDING" /\ okRuns[job[r]] = 0
        /\ attempts[job[r]] \in Nat /\ attempts[job[r]] < MaxAttempts[job[r]]
        /\ MaxAttempts[job[r]] \in Nat /\ batch[r] < BatchSize
        /\ pc[r] = "claiming"
    BY <1>4 DEF ClaimCommit
  <2>2. /\ status' = [status EXCEPT ![job[r]] = "RUNNING"]
        /\ attempts' = [attempts EXCEPT ![job[r]] = @ + 1]
        /\ pc'[r] \in {"running", "failing"}
        /\ pc' = [pc EXCEPT ![r] = pc'[r]]
        /\ UNCHANGED <<job, batch, origin, cancelled, faults, okRuns>>
    BY <1>4 DEF ClaimCommit
  <2>3. TypeOK'
    BY <2>1, <2>2
  <2>4. ClaimIsExclusive'
    BY <2>1, <2>2
  <2>5. VerdictIsTrue' /\ \A j \in Jobs : RowCounts(j)'
    BY <2>1, <2>2
  <2>6. ASSUME NEW q \in Runners PROVE OwnerKnows(q)'
    <3>1. CASE q = r
      BY <3>1, <2>1, <2>2
    <3>2. CASE q # r
      BY <3>2, <2>1, <2>2, <1>4 DEF ClaimCommit
    <3>3. QED
      BY <3>1, <3>2
  <2>7. QED
    BY <2>3, <2>4, <2>5, <2>6
<1>5. ASSUME NEW r \in Runners, EndDrain(r) PROVE IInv'
  BY <1>5, LeavePreservesIInv DEF EndDrain
<1>6. ASSUME NEW r \in Runners, HandlerReturns(r) PROVE IInv'
  <2>1. job[r] \in Jobs /\ status[job[r]] = "RUNNING" /\ okRuns[job[r]] = 0
    BY <1>6 DEF HandlerReturns
  <2>2. CASE pc' = [pc EXCEPT ![r] = "succeeding"]
             /\ okRuns' = [okRuns EXCEPT ![job[r]] = @ + 1]
    <3>1. okRuns' = [okRuns EXCEPT ![job[r]] = 1]
      BY <2>1, <2>2
    <3>2. QED
      BY <1>6, <2>1, <2>2, <3>1 DEF HandlerReturns
  <2>3. CASE pc' = [pc EXCEPT ![r] = "failing"] /\ UNCHANGED okRuns
    BY <1>6, <2>1, <2>3 DEF HandlerReturns
  <2>4. QED
    BY <1>6, <2>2, <2>3 DEF HandlerReturns
<1>7. ASSUME NEW r \in Runners, Succeed(r) PROVE IInv'
  BY <1>7 DEF Succeed, Processed
<1>8. ASSUME NEW r \in Runners, Fail(r) PROVE IInv'
  BY <1>8 DEF Fail, Processed, AfterFailure
<1>9. ASSUME NEW r \in Runners, RunOnceError(r) PROVE IInv'
  BY <1>9, LeavePreservesIInv DEF RunOnceError
<1>10. ASSUME NEW r \in Runners, Signal(r) PROVE IInv'
  BY <1>10 DEF Signal
<1>11. ASSUME NEW r \in Runners, Exit(r) PROVE IInv'
  BY <1>11, LeavePreservesIInv DEF Exit
<1>12. ASSUME NEW r \in Runners, Crash(r) PROVE IInv'
  BY <1>12, LeavePreservesIInv DEF Crash
<1>13. ASSUME NEW r \in Runners, Restart(r) PROVE IInv'
  BY <1>13 DEF Restart
<1>14. CASE UNCHANGED vars
  BY <1>14 DEF vars
<1>15. QED
  BY <1>1, <1>2, <1>3, <1>4, <1>5, <1>6, <1>7, <1>8, <1>9, <1>10, <1>11, <1>12,
     <1>13, <1>14 DEF Next

\* Every state of the queue satisfies the strengthened invariant.
THEOREM JobQueueInvariant == Spec => []IInv
BY InitEstablishesIInv, StepPreservesIInv, PTL DEF Spec

\* The table and the processes are well typed: a process is in one place of its
\* drain, with at most a batch taken and a job or none in hand.
THEOREM TypeCorrect == Spec => []TypeOK
BY JobQueueInvariant, PTL DEF IInv

\* Two processes never work on, or hold the lock of, one job.
THEOREM ClaimsAreExclusive == Spec => []ClaimIsExclusive
BY JobQueueInvariant, PTL DEF IInv

\* The verdict in the table is what the handlers' runs say, and a job is never
\* run again after a run that succeeded.
THEOREM VerdictsAreTrue == Spec => []VerdictIsTrue
BY JobQueueInvariant, PTL DEF IInv

-----------------------------------------------------------------------------
\* Ending a drain leaves the table alone.
LEMMA LeaveKeepsTable ==
  ASSUME NEW r, NEW control, Leave(r, control) PROVE UNCHANGED table
BY DEF Leave

\* A runner writes an outcome only to a row that is RUNNING, so a step of the
\* table is one of the contract's.
LEMMA StepIsContractStep ==
  IInv /\ [Next]_vars => [Contract!Next]_<<status, attempts>>
<1> SUFFICES ASSUME IInv, Next PROVE Contract!Next \/ UNCHANGED table
  BY DEF vars, table
<1> USE JobsAssumption, MaxAttemptsAssumption
    DEF IInv, TypeOK, VerdictIsTrue, OwnerKnows, RowCounts, Working, Contract!Next,
        Contract!Move, table
<1>1. ASSUME NEW j \in Jobs, Enqueue(j) PROVE Contract!Submit(j)
  BY <1>1 DEF Enqueue, Contract!Submit
<1>2. ASSUME NEW r \in Runners, ClaimCommit(r) PROVE Contract!Take(job[r]) /\ job[r] \in Jobs
  BY <1>2 DEF ClaimCommit, Contract!Take
<1>3. ASSUME NEW r \in Runners, Succeed(r) PROVE Contract!Complete(job[r]) /\ job[r] \in Jobs
  BY <1>3 DEF Succeed, Contract!Complete
<1>4. ASSUME NEW r \in Runners, Fail(r)
      PROVE  (Contract!Retry(job[r]) \/ Contract!Bury(job[r])) /\ job[r] \in Jobs
  <2>1. /\ job[r] \in Jobs /\ status[job[r]] = "RUNNING"
        /\ attempts[job[r]] \in Nat /\ MaxAttempts[job[r]] \in Nat
        /\ attempts[job[r]] <= MaxAttempts[job[r]]
    BY <1>4 DEF Fail
  <2>2. CASE attempts[job[r]] >= MaxAttempts[job[r]]
    <3>1. attempts[job[r]] = MaxAttempts[job[r]]
      BY <2>1, <2>2
    <3>2. status' = [status EXCEPT ![job[r]] = "FAILED"] /\ UNCHANGED attempts
      BY <1>4, <2>2 DEF Fail, AfterFailure
    <3>3. QED
      BY <2>1, <3>1, <3>2 DEF Contract!Bury
  <2>3. CASE attempts[job[r]] < MaxAttempts[job[r]]
    <3>1. ~(attempts[job[r]] >= MaxAttempts[job[r]])
      BY <2>1, <2>3
    <3>2. AfterFailure(job[r]) = "PENDING"
      BY <3>1 DEF AfterFailure
    <3>3. status' = [status EXCEPT ![job[r]] = "PENDING"] /\ UNCHANGED attempts
      BY <1>4, <3>2 DEF Fail
    <3>4. QED
      BY <2>1, <2>3, <3>3 DEF Contract!Retry
  <2>4. QED
    BY <2>1, <2>2, <2>3
<1>5. ASSUME NEW r \in Runners,
             \/ StartDrain(r, "poll") \/ StartDrain(r, "nudge") \/ ClaimLock(r)
             \/ EndDrain(r) \/ HandlerReturns(r) \/ RunOnceError(r)
             \/ Signal(r) \/ Exit(r) \/ Crash(r) \/ Restart(r)
      PROVE  UNCHANGED table
  BY <1>5, LeaveKeepsTable
     DEF StartDrain, ClaimLock, EndDrain, HandlerReturns, RunOnceError, Signal, Exit,
         Crash, Restart
<1>6. QED
  BY <1>1, <1>2, <1>3, <1>4, <1>5 DEF Next

\* The queue with its locks, batches, stops and crashes implements the
\* contract its callers rely on.
THEOREM JobQueueImplementsContract == Spec => ImplementsContract
<1>1. Init => Contract!Init
  BY DEF Init, Contract!Init
<1>2. QED
  BY <1>1, StepIsContractStep, JobQueueInvariant, PTL
     DEF Spec, ImplementsContract, Contract!Spec

\* A settled job never changes again, though Succeed and Fail update by id.
THEOREM SettledStaysSettled == Spec => SettledIsFinal
<1>1. IInv /\ [Next]_vars =>
        [\A j \in Jobs : status[j] \in {"SUCCEEDED", "FAILED"} =>
           status'[j] = status[j] /\ attempts'[j] = attempts[j]]_vars
  <2>1. [Contract!Next]_<<status, attempts>> /\ TypeOK =>
          \A j \in Jobs : status[j] \in {"SUCCEEDED", "FAILED"} =>
            status'[j] = status[j] /\ attempts'[j] = attempts[j]
    BY DEF TypeOK, Contract!Next, Contract!Submit, Contract!Take, Contract!Complete,
           Contract!Retry, Contract!Bury, Contract!Move
  <2>2. QED
    BY <2>1, StepIsContractStep DEF IInv
<1>2. QED
  BY <1>1, JobQueueInvariant, PTL DEF Spec, SettledIsFinal
=============================================================================
