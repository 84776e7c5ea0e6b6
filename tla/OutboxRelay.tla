---------------------------- MODULE OutboxRelay ----------------------------
(***************************************************************************)
(* The transactional outbox: modules append events in the transaction of   *)
(* the change they announce, and the relay of every API process hands them *)
(* to its subscribers.  src/apps/api/internal/platform/outbox/.            *)
(*                                                                         *)
(* A pass of a relay visits the tenants that had something pending.  For   *)
(* each it opens one transaction that locks a batch of rows, delivers them *)
(* one by one, marks those delivered PUBLISHED and commits; only after the *)
(* commit, when the locks are gone, does it record the deliveries that     *)
(* failed, each in a transaction of its own.                               *)
(***************************************************************************)
EXTENDS Integers, FiniteSets

CONSTANTS
  Events,        \* outbox rows, numbered by occurred_at
  Backlog,       \* rows already PENDING when the relays start
  Tenants,
  TenantOf,      \* [Events -> Tenants]
  Relays,        \* API processes
  MaxAttempts,   \* 5 in the code
  BatchSize,     \* rows of one tenant a pass takes (50 in the code)
  MaxFaults      \* bound: kills and database errors in a behaviour

ASSUME EventsAssumption ==
  Events \subseteq Nat /\ IsFiniteSet(Events) /\ Backlog \subseteq Events
ASSUME TenantAssumption == TenantOf \in [Events -> Tenants]
ASSUME BoundsAssumption ==
  MaxAttempts \in Nat \ {0} /\ BatchSize \in Nat \ {0} /\ MaxFaults \in Nat

VARIABLES
  status,     \* [Events -> Status]
  attempts,   \* [Events -> Nat]
  pc,         \* [Relays -> Control]
  todo,       \* [Relays -> SUBSET Tenants]: tenants left in this pass
  locked,     \* [Relays -> SUBSET Events]: rows the open transaction locks
  waiting,    \* [Relays -> SUBSET Events]: those of them not yet delivered
  failed,     \* [Relays -> SUBSET Events]: failures to be recorded
  faults,     \* faults so far
  heard       \* history: events every subscriber of some relay has accepted

table == <<status, attempts>>
relay == <<pc, todo, locked, waiting, failed>>
vars == <<status, attempts, pc, todo, locked, waiting, failed, faults, heard>>

Status == {"ABSENT", "PENDING", "PUBLISHED", "FAILED"}
Control == {"idle", "pass", "delivering"}

TypeOK ==
  /\ status \in [Events -> Status]
  /\ attempts \in [Events -> Nat]
  /\ pc \in [Relays -> Control]
  /\ todo \in [Relays -> SUBSET Tenants]
  /\ locked \in [Relays -> SUBSET Events]
  /\ waiting \in [Relays -> SUBSET Events]
  /\ failed \in [Relays -> SUBSET Events]
  /\ faults \in 0..MaxFaults
  /\ heard \in SUBSET Events

Init ==
  /\ status = [e \in Events |-> IF e \in Backlog THEN "PENDING" ELSE "ABSENT"]
  /\ attempts = [e \in Events |-> 0]
  /\ pc = [r \in Relays |-> "idle"]
  /\ todo = [r \in Relays |-> {}]
  /\ locked = [r \in Relays |-> {}]
  /\ waiting = [r \in Relays |-> {}]
  /\ failed = [r \in Relays |-> {}]
  /\ faults = 0
  /\ heard = {}

-----------------------------------------------------------------------------
\* The commit of a transaction that published an event.
Publish(e) ==
  /\ status[e] = "ABSENT"
  /\ status' = [status EXCEPT ![e] = "PENDING"]
  /\ UNCHANGED <<attempts, relay, faults, heard>>

Due(t) == {e \in Events : TenantOf[e] = t /\ status[e] = "PENDING" /\ attempts[e] < MaxAttempts}

LockedRows == UNION {locked[r] : r \in Relays}

\* A faulty claim, without FOR UPDATE SKIP LOCKED.
FreeOrLocked(t) == Due(t)

\* The rows a claim may take now: FOR UPDATE SKIP LOCKED.
Free(t) == Due(t) \ LockedRows

\* ... ORDER BY occurred_at LIMIT BatchSize.
Batch(t) == {e \in Free(t) : Cardinality({d \in Free(t) : d < e}) < BatchSize}

\* Tick: one pass at a time, over the tenants with something pending.
Tick(r) ==
  /\ pc[r] = "idle"
  /\ \E e \in Events : e \in Due(TenantOf[e])
  /\ todo' = [todo EXCEPT ![r] = {t \in Tenants : Due(t) # {}}]
  /\ pc' = [pc EXCEPT ![r] = "pass"]
  /\ UNCHANGED <<table, locked, waiting, failed, faults, heard>>

BeginTenant(r, t) ==
  /\ pc[r] = "pass" /\ failed[r] = {} /\ t \in todo[r]
  /\ todo' = [todo EXCEPT ![r] = @ \ {t}]
  /\ locked' = [locked EXCEPT ![r] = Batch(t)]
  /\ waiting' = [waiting EXCEPT ![r] = Batch(t)]
  /\ pc' = [pc EXCEPT ![r] = "delivering"]
  /\ UNCHANGED <<table, failed, faults, heard>>

Oldest(S, e) == e \in S /\ \A d \in S : e <= d

\* deliver: the subscribers accept the event, or one refuses it or panics.
Deliver(r, e) ==
  /\ pc[r] = "delivering" /\ Oldest(waiting[r], e)
  /\ waiting' = [waiting EXCEPT ![r] = @ \ {e}]
  /\ \/ heard' = heard \cup {e} /\ UNCHANGED failed
     \/ failed' = [failed EXCEPT ![r] = @ \cup {e}] /\ UNCHANGED heard
  /\ UNCHANGED <<table, pc, todo, locked, faults>>

\* A faulty commit, which marks the failed deliveries too.
CommitAll(r) ==
  /\ pc[r] = "delivering" /\ waiting[r] = {}
  /\ status' = [e \in Events |-> IF e \in locked[r] THEN "PUBLISHED" ELSE status[e]]
  /\ attempts' = [e \in Events |-> IF e \in locked[r] THEN attempts[e] + 1 ELSE attempts[e]]
  /\ locked' = [locked EXCEPT ![r] = {}]
  /\ pc' = [pc EXCEPT ![r] = "pass"]
  /\ UNCHANGED <<todo, waiting, failed, faults, heard>>

\* The transaction commits: what was delivered is PUBLISHED, the locks go.
CommitBatch(r) ==
  /\ pc[r] = "delivering" /\ waiting[r] = {}
  /\ LET delivered == locked[r] \ failed[r]
     IN  /\ status' = [e \in Events |-> IF e \in delivered THEN "PUBLISHED" ELSE status[e]]
         /\ attempts' = [e \in Events |-> IF e \in delivered THEN attempts[e] + 1 ELSE attempts[e]]
  /\ locked' = [locked EXCEPT ![r] = {}]
  /\ pc' = [pc EXCEPT ![r] = "pass"]
  /\ UNCHANGED <<todo, waiting, failed, faults, heard>>

\* Faulty outcomes of a failure: a status the schema does not have, and a limit
\* that a count which overshot it passes by.
AfterFailureDead(e) == IF attempts[e] + 1 >= MaxAttempts THEN "DEAD" ELSE "PENDING"

AfterFailureAtLimit(e) == IF attempts[e] + 1 = MaxAttempts THEN "FAILED" ELSE "PENDING"

AfterFailure(e) == IF attempts[e] + 1 >= MaxAttempts THEN "FAILED" ELSE "PENDING"

\* A faulty record of a failure, which does not count it.
RecordFailureUncounted(r, e) ==
  /\ pc[r] = "pass" /\ Oldest(failed[r], e)
  /\ e \notin LockedRows
  /\ status' = [status EXCEPT ![e] = AfterFailure(e)]
  /\ failed' = [failed EXCEPT ![r] = @ \ {e}]
  /\ UNCHANGED <<attempts, pc, todo, locked, waiting, faults, heard>>

\* The update waits for whoever locks the row, and names it by id alone.
RecordFailure(r, e) ==
  /\ pc[r] = "pass" /\ Oldest(failed[r], e)
  /\ e \notin LockedRows
  /\ status' = [status EXCEPT ![e] = AfterFailure(e)]
  /\ attempts' = [attempts EXCEPT ![e] = @ + 1]
  /\ failed' = [failed EXCEPT ![r] = @ \ {e}]
  /\ UNCHANGED <<pc, todo, locked, waiting, faults, heard>>

EndPass(r) ==
  /\ pc[r] = "pass" /\ failed[r] = {} /\ todo[r] = {}
  /\ pc' = [pc EXCEPT ![r] = "idle"]
  /\ UNCHANGED <<table, todo, locked, waiting, failed, faults, heard>>

\* A database error ends the whole pass, and so does a kill of the process,
\* which comes back idle: an open batch rolls back, and the failures not yet
\* recorded are forgotten.
Abandon(r) ==
  /\ pc[r] # "idle" /\ faults < MaxFaults
  /\ faults' = faults + 1
  /\ pc' = [pc EXCEPT ![r] = "idle"]
  /\ todo' = [todo EXCEPT ![r] = {}]
  /\ locked' = [locked EXCEPT ![r] = {}]
  /\ waiting' = [waiting EXCEPT ![r] = {}]
  /\ failed' = [failed EXCEPT ![r] = {}]
  /\ UNCHANGED <<table, heard>>

-----------------------------------------------------------------------------
PassStep(r) ==
  \/ Tick(r)
  \/ \E t \in Tenants : BeginTenant(r, t)
  \/ \E e \in Events : Deliver(r, e) \/ RecordFailure(r, e)
  \/ CommitBatch(r)
  \/ EndPass(r)

Next ==
  \/ \E e \in Events : Publish(e)
  \/ \E r \in Relays : PassStep(r) \/ Abandon(r)

Spec == Init /\ [][Next]_vars

\* A ticker drives the relay of every process.
FairSpec == Spec /\ \A r \in Relays : WF_vars(PassStep(r))

-----------------------------------------------------------------------------
\* SKIP LOCKED: two relays never have one event in their open batches, so
\* they never deliver it at the same time.
BatchesAreDisjoint ==
  \A r, q \in Relays : r # q => locked[r] \cap locked[q] = {}

\* A committed event is never marked PUBLISHED without having been accepted by
\* the subscribers: a failure or a rollback in between leaves it PENDING.
PublishedWasHeard == \A e \in Events : status[e] = "PUBLISHED" => e \in heard

\* An event that used up its attempts stays FAILED: no relay still delivering
\* it, or still to record an older failure, brings it back.
FailedIsFinal ==
  [][\A e \in Events : status[e] = "FAILED" => status'[e] = "FAILED"]_vars

\* Every announced event is delivered or given up in the end, whatever relays
\* die and whatever its neighbours in the batch do.
EveryEventEnds ==
  \A e \in Events : status[e] = "PENDING" ~> (e \in heard \/ status[e] = "FAILED")
=============================================================================
