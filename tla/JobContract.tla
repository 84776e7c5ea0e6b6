---------------------------- MODULE JobContract ----------------------------
(***************************************************************************)
(* What the planning job queue promises, whoever runs it: a job is waiting *)
(* until it is taken, each taking costs one of its attempts, a taking ends *)
(* at most once, and only the last attempt may bury the job.               *)
(***************************************************************************)
EXTENDS Integers

CONSTANTS Jobs, MaxAttempts

VARIABLES phase, tries

Init ==
  /\ phase = [j \in Jobs |-> "ABSENT"]
  /\ tries = [j \in Jobs |-> 0]

Move(j, from, to) ==
  /\ phase[j] = from
  /\ phase' = [phase EXCEPT ![j] = to]

Submit(j) == Move(j, "ABSENT", "PENDING") /\ UNCHANGED tries

Take(j) ==
  /\ Move(j, "PENDING", "RUNNING")
  /\ tries[j] < MaxAttempts[j]
  /\ tries' = [tries EXCEPT ![j] = @ + 1]

Complete(j) == Move(j, "RUNNING", "SUCCEEDED") /\ UNCHANGED tries

Retry(j) ==
  /\ Move(j, "RUNNING", "PENDING")
  /\ tries[j] < MaxAttempts[j]
  /\ UNCHANGED tries

Bury(j) ==
  /\ Move(j, "RUNNING", "FAILED")
  /\ tries[j] = MaxAttempts[j]
  /\ UNCHANGED tries

Next == \E j \in Jobs : Submit(j) \/ Take(j) \/ Complete(j) \/ Retry(j) \/ Bury(j)

Spec == Init /\ [][Next]_<<phase, tries>>
=============================================================================
