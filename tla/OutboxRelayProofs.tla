-------------------------- MODULE OutboxRelayProofs --------------------------
(***************************************************************************)
(* Theorems about the outbox, for any events, tenants and number of relays.*)
(***************************************************************************)
EXTENDS OutboxRelay, TLAPS

\* What an open batch knows of its rows: nobody else touches them, and those
\* already handled were either accepted by the subscribers or failed.
BatchKnows(r) ==
  /\ pc[r] # "delivering" => locked[r] = {}
  /\ waiting[r] \subseteq locked[r]
  /\ pc[r] = "delivering" => failed[r] \subseteq locked[r]
  /\ \A e \in locked[r] :
       /\ status[e] = "PENDING"
       /\ attempts[e] < MaxAttempts
       /\ e \notin waiting[r] /\ e \notin failed[r] => e \in heard

GivenUp == \A e \in Events : status[e] = "FAILED" => attempts[e] >= MaxAttempts

IInv ==
  /\ TypeOK
  /\ BatchesAreDisjoint
  /\ PublishedWasHeard
  /\ \A r \in Relays : BatchKnows(r)
  /\ GivenUp

-----------------------------------------------------------------------------
\* A claim takes only rows that are due and that nobody locks.
LEMMA BatchIsFree ==
  ASSUME NEW t
  PROVE  \A e \in Batch(t) :
           /\ e \in Events /\ status[e] = "PENDING" /\ attempts[e] < MaxAttempts
           /\ \A q \in Relays : e \notin locked[q]
BY DEF Batch, Free, Due, LockedRows

LEMMA InitEstablishesIInv == Init => IInv
BY BoundsAssumption
   DEF Init, IInv, TypeOK, BatchesAreDisjoint, PublishedWasHeard, BatchKnows, GivenUp,
       Status, Control

LEMMA StepPreservesIInv == IInv /\ [Next]_vars => IInv'
<1> SUFFICES ASSUME IInv, [Next]_vars PROVE IInv'
  OBVIOUS
<1> USE BoundsAssumption
    DEF IInv, TypeOK, BatchesAreDisjoint, PublishedWasHeard, BatchKnows, GivenUp,
        Status, Control, table, relay
<1>1. ASSUME NEW e \in Events, Publish(e) PROVE IInv'
  BY <1>1 DEF Publish
<1>2. ASSUME NEW r \in Relays, Tick(r) PROVE IInv'
  BY <1>2 DEF Tick
<1>3. ASSUME NEW r \in Relays, NEW t \in Tenants, BeginTenant(r, t) PROVE IInv'
  <2>1. Batch(t) \in SUBSET Events
    BY BatchIsFree
  <2>2. TypeOK' /\ PublishedWasHeard' /\ GivenUp'
    BY <1>3, <2>1 DEF BeginTenant
  <2>3. BatchesAreDisjoint'
    BY <1>3, BatchIsFree DEF BeginTenant
  <2>4. ASSUME NEW q \in Relays PROVE BatchKnows(q)'
    BY <1>3, BatchIsFree DEF BeginTenant
  <2>5. QED
    BY <2>2, <2>3, <2>4
<1>4. ASSUME NEW r \in Relays, NEW e \in Events, Deliver(r, e) PROVE IInv'
  BY <1>4 DEF Deliver, Oldest
<1>5. ASSUME NEW r \in Relays, CommitBatch(r) PROVE IInv'
  BY <1>5 DEF CommitBatch
<1>6. ASSUME NEW r \in Relays, NEW e \in Events, RecordFailure(r, e) PROVE IInv'
  BY <1>6 DEF RecordFailure, Oldest, AfterFailure, LockedRows
<1>7. ASSUME NEW r \in Relays, EndPass(r) PROVE IInv'
  BY <1>7 DEF EndPass
<1>8. ASSUME NEW r \in Relays, Abandon(r) PROVE IInv'
  BY <1>8 DEF Abandon
<1>9. CASE UNCHANGED vars
  BY <1>9 DEF vars
<1>10. QED
  BY <1>1, <1>2, <1>3, <1>4, <1>5, <1>6, <1>7, <1>8, <1>9 DEF Next, PassStep

\* Every state of the outbox satisfies the strengthened invariant.
THEOREM OutboxInvariant == Spec => []IInv
BY InitEstablishesIInv, StepPreservesIInv, PTL DEF Spec

\* The outbox and the relays are well typed: what a relay has locked, still to
\* deliver or failed are events, what it has still to visit are tenants.
THEOREM TypeCorrect == Spec => []TypeOK
BY OutboxInvariant, PTL DEF IInv

\* No event is in the open batches of two relays.
THEOREM OpenBatchesAreDisjoint == Spec => []BatchesAreDisjoint
BY OutboxInvariant, PTL DEF IInv

\* No event is PUBLISHED that the subscribers of some relay did not accept.
THEOREM PublishedEventsWereHeard == Spec => []PublishedWasHeard
BY OutboxInvariant, PTL DEF IInv

\* An event that is given up stays FAILED, whatever other relays still do.
THEOREM FailedStaysFailed == Spec => FailedIsFinal
<1>1. IInv /\ [Next]_vars =>
        [\A e \in Events : status[e] = "FAILED" => status'[e] = "FAILED"]_vars
  <2> SUFFICES ASSUME IInv, Next, NEW e \in Events, status[e] = "FAILED"
               PROVE  status'[e] = "FAILED"
    BY DEF vars
  <2> USE DEF IInv, TypeOK, BatchKnows, GivenUp, table, relay
  <2>1. ASSUME NEW r \in Relays, CommitBatch(r) PROVE status'[e] = "FAILED"
    BY <2>1 DEF CommitBatch
  <2>2. ASSUME NEW r \in Relays, NEW d \in Events, RecordFailure(r, d)
        PROVE  status'[e] = "FAILED"
    <3>1. attempts[e] + 1 >= MaxAttempts
      BY BoundsAssumption
    <3>2. QED
      BY <2>2, <3>1 DEF RecordFailure, AfterFailure
  <2>3. QED
    BY <2>1, <2>2 DEF Next, PassStep, Publish, Tick, BeginTenant, Deliver, EndPass, Abandon
<1>2. QED
  BY <1>1, OutboxInvariant, PTL DEF Spec, FailedIsFinal
=============================================================================
