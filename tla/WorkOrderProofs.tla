--------------------------- MODULE WorkOrderProofs ---------------------------
(***************************************************************************)
(* Proofs about WorkOrder, for any number of requests, children and        *)
(* machines: the machine is exclusive, a split parent holds no production  *)
(* of its own, a counter is the number of its records, and a roll-up never *)
(* credits more than they are.                                             *)
(*                                                                         *)
(* A roll-up reads a sum, which AddUp folds in an arbitrary order.  The    *)
(* order does not matter: some function adds up in every order (Additive), *)
(* and the fold is it, by a smallest counterexample (FiniteSetTheorems).   *)
(***************************************************************************)
EXTENDS WorkOrder, FiniteSetTheorems, TLAPS

\* What the first parts need of the types.  The bounds of output, records and
\* of what a roll-up has read come with the sums, in Bounded.
RowsTyped ==
  /\ status \in [WorkOrders -> Status]
  /\ DOMAIN output = WorkOrders
  /\ records \in [WorkOrders -> Nat]
  /\ hasChild \in BOOLEAN

RequestsTyped ==
  /\ at \in [Requests -> Steps]
  /\ kind \in [Requests -> Kinds]
  /\ wo \in [Requests -> WorkOrders]
  /\ to \in [Requests -> Status]

\* A transaction is about a row its kind can be about.
Shape ==
  \A q \in Requests :
    /\ kind[q] = "split" => wo[q] = Parent /\ to[q] \in {"ABSENT", "SCHEDULED", "CONFIRMED"}
    /\ at[q] = "summed" => wo[q] \in Children
    /\ at[q] # "idle" /\ wo[q] \in Children => hasChild

ChildrenNeedSplit == \A c \in Children : Exists(c) => hasChild

LocksAreExclusive ==
  \A q, r \in Requests : q # r /\ Holds(q) /\ Holds(r) => wo[q] # wo[r]

\* What a constraint established stays true while the row is locked.
OutputHasRoom ==
  \A q \in Requests : Holds(q) /\ kind[q] = "output" /\ wo[q] = Parent => ~hasChild

SplitHasNoRecords ==
  \A q \in Requests : Holds(q) /\ kind[q] = "split" => records[Parent] = 0

Starts(q) == Holds(q) /\ kind[q] = "move" /\ to[q] = "IN_PRODUCTION"

StartHasMachine ==
  /\ \A q \in Requests, v \in WorkOrders :
       Starts(q) /\ status[v] = "IN_PRODUCTION" => ~SameMachine(v, wo[q])
  /\ \A q, r \in Requests : Starts(q) /\ Starts(r) => ~SameMachine(wo[q], wo[r])

Typed == RowsTyped /\ RequestsTyped /\ Shape /\ ChildrenNeedSplit

Exclusion == StartHasMachine /\ MachineIsExclusive
-----------------------------------------------------------------------------
LEMMA ChildIsNotParent == Parent \notin Children
BY PartsAssumption DEF Children

LEMMA PartsAreChildren == \A q \in Requests : Parts[q] \subseteq Children
BY DEF Children

LEMMA InitTyped == Init => Typed
<1> SUFFICES ASSUME Init PROVE Typed
    OBVIOUS
<1>1. RowsTyped
  <2>1. PICK s \in Starting : status = [w \in WorkOrders |-> IF w = Parent THEN s ELSE "ABSENT"]
        BY DEF Init
  <2>2. status \in [WorkOrders -> Status]
        BY <2>1, StartingAssumption DEF Status
  <2> QED  BY <2>2 DEF Init, RowsTyped
<1>2. RequestsTyped
      BY DEF Init, RequestsTyped, WorkOrders, Status, Steps, Kinds
<1>3. Shape
      BY DEF Init, Shape
<1>4. ChildrenNeedSplit
      BY ChildIsNotParent DEF Init, ChildrenNeedSplit, Exists, WorkOrders
<1> QED  BY <1>1, <1>2, <1>3, <1>4 DEF Typed

\* A request that begins: its row exists, and a child exists after a split only.
LEMMA BeginTyped ==
  ASSUME Typed, NEW q \in Requests, NEW k \in Kinds, NEW w \in WorkOrders, NEW s \in Status,
         Begin(q, k, w, s), Exists(w),
         k = "split" => w = Parent /\ s \in {"SCHEDULED", "CONFIRMED"}
  PROVE  Typed'
<1>1. RowsTyped' /\ ChildrenNeedSplit'
      BY DEF Typed, RowsTyped, ChildrenNeedSplit, Exists, Begin, rows
<1>2. RequestsTyped'
      BY DEF Typed, RequestsTyped, Begin, Steps
<1>3. Shape'
      BY DEF Typed, RequestsTyped, Shape, ChildrenNeedSplit, Exists, Begin, rows
<1> QED  BY <1>1, <1>2, <1>3 DEF Typed

LEMMA WrittenTyped ==
  ASSUME Typed, NEW q \in Requests, at[q] = "judged", Written(q)
  PROVE  Typed'
<1>1. RowsTyped' /\ ChildrenNeedSplit'
      BY DEF Typed, RowsTyped, ChildrenNeedSplit, Exists, Written, rows
<1>2. RequestsTyped' /\ Shape'
      BY DEF Typed, RequestsTyped, Shape, Written, rows, Steps
<1> QED  BY <1>1, <1>2 DEF Typed

LEMMA EndTyped ==
  ASSUME Typed, NEW q \in Requests, End(q), hasChild => hasChild'
  PROVE  RequestsTyped' /\ Shape'
<1>1. RequestsTyped'
      BY DEF Typed, RequestsTyped, End, Steps, Kinds, Status, WorkOrders
<1>2. Shape'
      BY <1>1, ChildIsNotParent DEF Typed, RequestsTyped, Shape, End
<1> QED  BY <1>1, <1>2

LEMMA CommitChildTyped ==
  ASSUME Typed, NEW q \in Requests, CommitChild(q)
  PROVE  Typed'
<1>1. wo[q] \in WorkOrders /\ StatusIn(q, wo[q]) \in Status /\ Rolled(q) \in Status
      BY DEF Typed, RowsTyped, RequestsTyped, StatusIn, Rolled, Status, WorkOrders
<1>2. wo[q] \in Children /\ hasChild
      BY DEF Typed, Shape, CommitChild
<1>3. RowsTyped'
  <2>1. status' \in [WorkOrders -> Status] /\ hasChild' \in BOOLEAN
        BY <1>1 DEF Typed, RowsTyped, CommitChild
  <2>2. DOMAIN output' = WorkOrders
        BY Zenon DEF Typed, RowsTyped, CommitChild
  <2>3. records' \in [WorkOrders -> Nat]
        BY <1>1 DEF Typed, RowsTyped, CommitChild
  <2> QED  BY <2>1, <2>2, <2>3 DEF RowsTyped
<1>4. RequestsTyped' /\ Shape'
      BY EndTyped DEF CommitChild
<1>5. ChildrenNeedSplit'
      BY <1>2 DEF ChildrenNeedSplit, CommitChild
<1> QED  BY <1>3, <1>4, <1>5 DEF Typed

LEMMA TypedInductive == Typed /\ [Next]_vars => Typed'
<1> SUFFICES ASSUME Typed, [Next]_vars
             PROVE  Typed'
    OBVIOUS
<1>1. ASSUME NEW q \in Requests, NEW w \in WorkOrders, NEW s \in Status, JudgeMove(q, w, s)
      PROVE  Typed'
  <2>1. Exists(w)
        BY <1>1 DEF JudgeMove, Legal, Exists
  <2> QED  BY <1>1, <2>1, BeginTyped DEF JudgeMove, Kinds
<1>2. ASSUME NEW q \in Requests, NEW w \in WorkOrders, JudgeOutput(q, w)
      PROVE  Typed'
      BY <1>2, BeginTyped DEF JudgeOutput, Kinds, Status
<1>3. ASSUME NEW q \in Requests, JudgeSplit(q)
      PROVE  Typed'
  <2>1. Exists(Parent) /\ Parent \in WorkOrders
        BY <1>3 DEF JudgeSplit, Splittable, Exists, WorkOrders
  <2> QED  BY <1>3, <2>1, BeginTyped DEF JudgeSplit, Kinds, Status
<1>4. ASSUME NEW q \in Requests, WriteMove(q) \/ WriteOutput(q) \/ WriteSplit(q)
      PROVE  Typed'
      BY <1>4, WrittenTyped DEF WriteMove, WriteOutput, WriteSplit, CanWrite
<1>5. ASSUME NEW q \in Requests, Sum(q)
      PROVE  Typed'
  <2>1. RowsTyped' /\ ChildrenNeedSplit'
        BY <1>5 DEF Typed, RowsTyped, ChildrenNeedSplit, Exists, Sum, rows
  <2>2. RequestsTyped' /\ Shape'
        BY <1>5 DEF Typed, RequestsTyped, Shape, Sum, rows, Steps
  <2> QED  BY <2>1, <2>2 DEF Typed
<1>6. ASSUME NEW q \in Requests, CommitMove(q)
      PROVE  Typed'
  <2>1. RowsTyped' /\ ChildrenNeedSplit'
        BY <1>6, ChildIsNotParent
           DEF Typed, RowsTyped, RequestsTyped, ChildrenNeedSplit, Exists, CommitMove, WorkOrders
  <2> QED  BY <1>6, <2>1, EndTyped DEF Typed, CommitMove
<1>7. ASSUME NEW q \in Requests, CommitOutput(q)
      PROVE  Typed'
  <2>1. ChildrenNeedSplit'
        BY <1>7 DEF Typed, ChildrenNeedSplit, Exists, CommitOutput
  <2>2. DOMAIN output' = WorkOrders
        BY <1>7, Zenon DEF Typed, RowsTyped, CommitOutput
  <2>3. records' \in [WorkOrders -> Nat]
        BY <1>7 DEF Typed, RowsTyped, CommitOutput, WorkOrders
  <2>4. RowsTyped'
        BY <1>7, <2>2, <2>3 DEF Typed, RowsTyped, CommitOutput
  <2> QED  BY <1>7, <2>1, <2>4, EndTyped DEF Typed, CommitOutput
<1>8. ASSUME NEW q \in Requests, CommitSplit(q)
      PROVE  Typed'
  <2>1. RowsTyped' /\ ChildrenNeedSplit'
        BY <1>8 DEF Typed, RowsTyped, RequestsTyped, ChildrenNeedSplit, CommitSplit
  <2> QED  BY <1>8, <2>1, EndTyped DEF Typed, CommitSplit
<1>9. ASSUME NEW q \in Requests, CommitChild(q)
      PROVE  Typed'
      BY <1>9, CommitChildTyped
<1>10. ASSUME NEW q \in Requests, Rollback(q)
       PROVE  Typed'
  <2>1. RowsTyped' /\ ChildrenNeedSplit'
        BY <1>10 DEF Typed, RowsTyped, ChildrenNeedSplit, Exists, Rollback, rows
  <2> QED  BY <1>10, <2>1, EndTyped DEF Typed, Rollback, rows
<1>11. CASE UNCHANGED vars
       BY <1>11 DEF Typed, RowsTyped, RequestsTyped, Shape, ChildrenNeedSplit, Exists, vars, rows
<1> QED  BY <1>1, <1>2, <1>3, <1>4, <1>5, <1>6, <1>7, <1>8, <1>9, <1>10, <1>11 DEF Next

-----------------------------------------------------------------------------
(* Production                                                              *)

\* A step of q that writes no row and begins, waits or gives up.
LEMMA LocksStep == Typed /\ LocksAreExclusive /\ [Next]_vars => LocksAreExclusive'
<1> SUFFICES ASSUME Typed, LocksAreExclusive, [Next]_vars
             PROVE  LocksAreExclusive'
    OBVIOUS
<1>1. ASSUME NEW q \in Requests, NEW k, NEW w, NEW s, Begin(q, k, w, s)
      PROVE  LocksAreExclusive'
      BY <1>1 DEF Typed, RequestsTyped, LocksAreExclusive, Holds, Begin
<1>2. ASSUME NEW q \in Requests, CanWrite(q), Written(q)
      PROVE  LocksAreExclusive'
      BY <1>2 DEF Typed, RequestsTyped, LocksAreExclusive, Holds, CanWrite, LockedFor, Written
<1>3. ASSUME NEW q \in Requests, Sum(q)
      PROVE  LocksAreExclusive'
      BY <1>3 DEF Typed, RequestsTyped, LocksAreExclusive, Holds, Sum
<1>4. ASSUME NEW q \in Requests, End(q)
      PROVE  LocksAreExclusive'
      BY <1>4 DEF Typed, RequestsTyped, LocksAreExclusive, Holds, End
<1>5. CASE UNCHANGED vars
      BY <1>5 DEF LocksAreExclusive, Holds, vars
<1> QED
    BY <1>1, <1>2, <1>3, <1>4, <1>5
       DEF Next, JudgeMove, JudgeOutput, JudgeSplit, WriteMove, WriteOutput, WriteSplit,
           CommitMove, CommitOutput, CommitSplit, CommitChild, Rollback

\* What the rows and the open transactions together say of production.
Counted ==
  /\ OutputHasRoom /\ SplitHasNoRecords
  /\ ParentHoldsNoProduction /\ CounterMatchesRecords

LEMMA BeginCounted ==
  ASSUME Typed, Counted, NEW q \in Requests, NEW k, NEW w, NEW s, Begin(q, k, w, s)
  PROVE  Counted'
<1>1. OutputHasRoom' /\ SplitHasNoRecords'
      BY DEF Typed, RequestsTyped, Counted, OutputHasRoom, SplitHasNoRecords, Holds, Begin, rows
<1>2. ParentHoldsNoProduction' /\ CounterMatchesRecords'
      BY DEF Counted, ParentHoldsNoProduction, CounterMatchesRecords, Begin, rows
<1> QED  BY <1>1, <1>2 DEF Counted

LEMMA WrittenCounted ==
  ASSUME Typed, Counted, NEW q \in Requests, Written(q),
         kind[q] = "output" => ~(wo[q] = Parent /\ hasChild),
         kind[q] = "split" => records[Parent] = 0
  PROVE  Counted'
<1>1. OutputHasRoom' /\ SplitHasNoRecords'
      BY DEF Typed, RequestsTyped, Counted, OutputHasRoom, SplitHasNoRecords, Holds, Written, rows
<1>2. ParentHoldsNoProduction' /\ CounterMatchesRecords'
      BY DEF Counted, ParentHoldsNoProduction, CounterMatchesRecords, Written, rows
<1> QED  BY <1>1, <1>2 DEF Counted

\* Once q has ended, what it held is of no account; the others' locks keep it
\* from having touched what their constraints established.
LEMMA EndHolds ==
  ASSUME Typed, NEW q \in Requests, End(q)
  PROVE  /\ ~Holds(q)'
         /\ \A r \in Requests \ {q} :
              /\ Holds(r)' <=> Holds(r)
              /\ kind'[r] = kind[r] /\ wo'[r] = wo[r] /\ to'[r] = to[r]
BY DEF Typed, RequestsTyped, End, Holds

LEMMA CountedInductive == Typed /\ LocksAreExclusive /\ Counted /\ [Next]_vars => Counted'
<1> SUFFICES ASSUME Typed, LocksAreExclusive, Counted, [Next]_vars
             PROVE  Counted'
    OBVIOUS
<1>1. ASSUME NEW q \in Requests, NEW k, NEW w, NEW s, Begin(q, k, w, s)
      PROVE  Counted'
      BY <1>1, BeginCounted
<1>2. ASSUME NEW q \in Requests, WriteMove(q) \/ WriteOutput(q) \/ WriteSplit(q)
      PROVE  Counted'
      BY <1>2, WrittenCounted DEF WriteMove, WriteOutput, WriteSplit
<1>3. ASSUME NEW q \in Requests, Sum(q)
      PROVE  Counted'
  <2>1. OutputHasRoom' /\ SplitHasNoRecords'
        BY <1>3 DEF Typed, RequestsTyped, Counted, OutputHasRoom, SplitHasNoRecords, Holds, Sum, rows
  <2>2. ParentHoldsNoProduction' /\ CounterMatchesRecords'
        BY <1>3 DEF Counted, ParentHoldsNoProduction, CounterMatchesRecords, Sum, rows
  <2> QED  BY <2>1, <2>2 DEF Counted
<1>4. ASSUME NEW q \in Requests, CommitMove(q)
      PROVE  Counted'
  <2>1. OutputHasRoom' /\ SplitHasNoRecords'
        BY <1>4, EndHolds DEF Counted, OutputHasRoom, SplitHasNoRecords, CommitMove
  <2>2. ParentHoldsNoProduction' /\ CounterMatchesRecords'
        BY <1>4 DEF Counted, ParentHoldsNoProduction, CounterMatchesRecords, CommitMove
  <2> QED  BY <2>1, <2>2 DEF Counted
<1>5. ASSUME NEW q \in Requests, CommitOutput(q)
      PROVE  Counted'
  <2>1. Holds(q) /\ kind[q] = "output" /\ wo[q] = Parent
        BY <1>5 DEF CommitOutput, Holds
  <2>2. ~hasChild
        BY <2>1 DEF Counted, OutputHasRoom
  <2>3. \A r \in Requests \ {q} : ~(Holds(r) /\ kind[r] = "split")
        BY <2>1 DEF LocksAreExclusive, Typed, Shape
  <2>4. OutputHasRoom' /\ SplitHasNoRecords'
        BY <1>5, <2>2, <2>3, EndHolds DEF OutputHasRoom, SplitHasNoRecords, CommitOutput
  <2>5. ParentHoldsNoProduction'
        BY <1>5, <2>2 DEF ParentHoldsNoProduction, CommitOutput
  <2>6. CounterMatchesRecords'
        BY <1>5, <2>2 DEF Typed, RowsTyped, Counted, CounterMatchesRecords, CommitOutput, WorkOrders
  <2> QED  BY <2>4, <2>5, <2>6 DEF Counted
<1>6. ASSUME NEW q \in Requests, CommitSplit(q)
      PROVE  Counted'
  <2>1. Holds(q) /\ kind[q] = "split" /\ wo[q] = Parent
        BY <1>6 DEF CommitSplit, Holds, Typed, Shape
  <2>2. records[Parent] = 0
        BY <2>1 DEF Counted, SplitHasNoRecords
  <2>3. \A r \in Requests \ {q} : ~(Holds(r) /\ wo[r] = Parent)
        BY <2>1 DEF LocksAreExclusive
  <2>4. OutputHasRoom' /\ SplitHasNoRecords'
        BY <1>6, <2>2, <2>3, EndHolds DEF OutputHasRoom, SplitHasNoRecords, CommitSplit
  <2>5. ParentHoldsNoProduction' /\ CounterMatchesRecords'
        BY <1>6, <2>2 DEF Counted, ParentHoldsNoProduction, CounterMatchesRecords, CommitSplit
  <2> QED  BY <2>4, <2>5 DEF Counted
<1>7. ASSUME NEW q \in Requests, CommitChild(q)
      PROVE  Counted'
  <2>1. wo[q] \in Children /\ wo[q] # Parent /\ hasChild /\ wo[q] \in WorkOrders
        BY <1>7, ChildIsNotParent DEF CommitChild, Typed, Shape, WorkOrders
  <2>2. records'[Parent] = records[Parent] /\ UNCHANGED hasChild
        BY <1>7, <2>1 DEF CommitChild, Typed, RowsTyped, WorkOrders
  <2>3. OutputHasRoom' /\ SplitHasNoRecords'
        BY <1>7, <2>2, EndHolds DEF Counted, OutputHasRoom, SplitHasNoRecords, CommitChild
  <2>4. ASSUME NEW w \in WorkOrders, w # Parent
        PROVE  output'[w] = records'[w]
    <3>1. output[w] = records[w] /\ records[w] \in Nat
          BY <2>4 DEF Counted, CounterMatchesRecords, Typed, RowsTyped
    <3>2. CASE w = wo[q] /\ kind[q] = "output"
          BY <1>7, <2>4, <3>1, <3>2 DEF CommitChild, OutputIn, Typed, RowsTyped
    <3>3. CASE ~(w = wo[q] /\ kind[q] = "output")
          BY <1>7, <2>4, <3>1, <3>3 DEF CommitChild, OutputIn, Typed, RowsTyped
    <3> QED  BY <3>2, <3>3
  <2>5. ParentHoldsNoProduction' /\ CounterMatchesRecords'
        BY <2>1, <2>2, <2>4 DEF Counted, ParentHoldsNoProduction, CounterMatchesRecords
  <2> QED  BY <2>3, <2>5 DEF Counted
<1>8. ASSUME NEW q \in Requests, Rollback(q)
      PROVE  Counted'
  <2>1. OutputHasRoom' /\ SplitHasNoRecords'
        BY <1>8, EndHolds DEF Counted, OutputHasRoom, SplitHasNoRecords, Rollback, rows
  <2>2. ParentHoldsNoProduction' /\ CounterMatchesRecords'
        BY <1>8 DEF Counted, ParentHoldsNoProduction, CounterMatchesRecords, Rollback, rows
  <2> QED  BY <2>1, <2>2 DEF Counted
<1>9. CASE UNCHANGED vars
      BY <1>9 DEF Counted, OutputHasRoom, SplitHasNoRecords, ParentHoldsNoProduction,
                  CounterMatchesRecords, Holds, vars, rows
<1> QED
    BY <1>1, <1>2, <1>3, <1>4, <1>5, <1>6, <1>7, <1>8, <1>9
       DEF Next, JudgeMove, JudgeOutput, JudgeSplit

-----------------------------------------------------------------------------
(* Machines                                                                *)

\* The machines of the work orders stay, or the split takes the parent's.
LEMMA SameMachineStep ==
  ASSUME hasChild' = hasChild \/ hasChild' = TRUE, hasChild \in BOOLEAN,
         NEW v, NEW w, SameMachine(v, w)'
  PROVE  SameMachine(v, w)
BY DEF SameMachine, Machine

LEMMA SplitParentHasNoMachine ==
  ASSUME hasChild, NEW w
  PROVE  ~SameMachine(Parent, w) /\ ~SameMachine(w, Parent)
BY DEF SameMachine, Machine

LEMMA ExclusionInductive == Typed /\ Exclusion /\ [Next]_vars => Exclusion'
<1> SUFFICES ASSUME Typed, Exclusion, [Next]_vars
             PROVE  Exclusion'
    OBVIOUS
<1> USE DEF Exclusion, StartHasMachine, MachineIsExclusive
<1>1. ASSUME NEW q \in Requests, NEW k, NEW w, NEW s, Begin(q, k, w, s)
      PROVE  Exclusion'
      BY <1>1 DEF Typed, RequestsTyped, Starts, Holds, Begin, rows, SameMachine, Machine
<1>2. ASSUME NEW q \in Requests, WriteMove(q)
      PROVE  Exclusion'
  <2>1. UNCHANGED <<rows, kind, wo, to>>
        BY <1>2 DEF WriteMove, Written
  <2>2. \A r \in Requests \ {q} : Starts(r)' <=> Starts(r)
        BY <1>2 DEF Typed, RequestsTyped, WriteMove, Written, Starts, Holds
  <2>3. \A v, w \in WorkOrders : SameMachine(v, w)' <=> SameMachine(v, w)
        BY <2>1 DEF SameMachine, Machine, rows
  <2>4. MachineIsExclusive'
        BY <2>1, <2>3 DEF rows
  <2>5. CASE to[q] # "IN_PRODUCTION"
    <3>1. ~Starts(q)'
          BY <2>1, <2>5 DEF Starts
    <3> QED  BY <2>1, <2>2, <2>3, <2>4, <3>1 DEF rows, Typed, RequestsTyped
  <2>6. CASE to[q] = "IN_PRODUCTION"
    <3>1. Occupants(wo[q]) = {} /\ Undecided(q, wo[q]) = {}
          BY <1>2, <2>6 DEF WriteMove
    <3>2. \A v \in WorkOrders : status[v] = "IN_PRODUCTION" => ~SameMachine(v, wo[q])
          BY <3>1 DEF Occupants
    <3>3. \A r \in Requests \ {q} :
            Starts(r) => ~SameMachine(wo[r], wo[q]) /\ ~SameMachine(wo[q], wo[r])
          BY <3>1 DEF Undecided, Starts, SameMachine
    <3>4. ~SameMachine(wo[q], wo[q])
          BY DEF SameMachine
    <3> QED  BY <2>1, <2>2, <2>3, <2>4, <3>2, <3>3, <3>4 DEF rows, Typed, RequestsTyped
  <2> QED  BY <2>5, <2>6
<1>3. ASSUME NEW q \in Requests, WriteOutput(q) \/ WriteSplit(q)
      PROVE  Exclusion'
      BY <1>3 DEF Typed, RequestsTyped, WriteOutput, WriteSplit, Written, Starts, Holds,
                  rows, SameMachine, Machine
<1>4. ASSUME NEW q \in Requests, Sum(q)
      PROVE  Exclusion'
      BY <1>4 DEF Typed, RequestsTyped, Sum, Starts, Holds, rows, SameMachine, Machine
<1>5. ASSUME NEW q \in Requests, CommitMove(q)
      PROVE  Exclusion'
  <2>1. /\ \A r \in Requests : Starts(r)' => Starts(r) /\ r # q /\ wo'[r] = wo[r]
        /\ \A v, w \in WorkOrders : SameMachine(v, w)' <=> SameMachine(v, w)
        BY <1>5, EndHolds DEF CommitMove, Starts, SameMachine, Machine
  <2>2. \A v \in WorkOrders : status'[v] = "IN_PRODUCTION" =>
          status[v] = "IN_PRODUCTION" \/ (v = wo[q] /\ Starts(q))
        BY <1>5 DEF Typed, RowsTyped, CommitMove, Starts, Holds
  <2> QED  BY <2>1, <2>2 DEF Typed, RequestsTyped, SameMachine
<1>6. ASSUME NEW q \in Requests, CommitOutput(q) \/ Rollback(q)
      PROVE  Exclusion'
  <2>1. \A r \in Requests : Starts(r)' => Starts(r) /\ wo'[r] = wo[r]
        BY <1>6, EndHolds DEF CommitOutput, Rollback, Starts
  <2> QED  BY <1>6, <2>1 DEF CommitOutput, Rollback, rows, SameMachine, Machine
<1>7. ASSUME NEW q \in Requests, CommitSplit(q)
      PROVE  Exclusion'
  <2>1. \A r \in Requests : Starts(r)' => Starts(r) /\ wo'[r] = wo[r]
        BY <1>7, EndHolds DEF CommitSplit, Starts
  <2>2. \A v, w \in WorkOrders : SameMachine(v, w)' => SameMachine(v, w)
        BY <1>7, SameMachineStep DEF CommitSplit, Typed, RowsTyped
  <2>3. to[q] # "IN_PRODUCTION"
        BY <1>7 DEF CommitSplit, Typed, Shape
  <2>4. \A v \in WorkOrders : status'[v] = "IN_PRODUCTION" => status[v] = "IN_PRODUCTION"
        BY <1>7, <2>3 DEF CommitSplit
  <2> QED  BY <2>1, <2>2, <2>4 DEF Typed, RequestsTyped
<1>8. ASSUME NEW q \in Requests, CommitChild(q)
      PROVE  Exclusion'
  <2>1. hasChild /\ UNCHANGED hasChild /\ wo[q] \in WorkOrders
        BY <1>8 DEF CommitChild, Typed, Shape, RequestsTyped
  <2>2. /\ \A r \in Requests : Starts(r)' => Starts(r) /\ r # q /\ wo'[r] = wo[r]
        /\ \A v, w \in WorkOrders : SameMachine(v, w)' <=> SameMachine(v, w)
        BY <1>8, <2>1, EndHolds DEF CommitChild, Starts, SameMachine, Machine
  <2>3. \A v \in WorkOrders : status'[v] = "IN_PRODUCTION" =>
          status[v] = "IN_PRODUCTION" \/ v = Parent \/ (v = wo[q] /\ Starts(q))
        BY <1>8 DEF Typed, RowsTyped, CommitChild, StatusIn, Starts, Holds
  <2>4. \A w \in WorkOrders : ~SameMachine(Parent, w) /\ ~SameMachine(w, Parent)
        BY <2>1, SplitParentHasNoMachine
  <2> QED  BY <2>1, <2>2, <2>3, <2>4 DEF Typed, RequestsTyped, SameMachine
<1>9. CASE UNCHANGED vars
      BY <1>9 DEF Starts, Holds, SameMachine, Machine, vars, rows
<1> QED
    BY <1>1, <1>2, <1>3, <1>4, <1>5, <1>6, <1>7, <1>8, <1>9
       DEF Next, JudgeMove, JudgeOutput, JudgeSplit

-----------------------------------------------------------------------------
(* Sums                                                                    *)

\* A nonempty set of subsets of a finite set has a smallest one.
LEMMA Smallest ==
  ASSUME NEW S, IsFiniteSet(S), NEW H \in SUBSET (SUBSET S), H # {}
  PROVE  \E s \in H : \A t \in H : t \subseteq s => t = s
<1>1. IsWellFoundedOn(StrictSubsetOrdering(S), SUBSET S)
  BY FS_StrictSubsetOrderingWellFounded, FS_FiniteSubsetsOfFinite
<1>2. PICK s \in H : \A t \in H : <<t, s>> \notin StrictSubsetOrdering(S)
  BY <1>1, WFMin
<1>3. QED
  BY <1>2, Zenon DEF StrictSubsetOrdering

\* A adds up the terms of f over every subset of S, in every order.
Additive(f, A, S) ==
  /\ A \in [SUBSET S -> Int]
  /\ A[{}] = 0
  /\ \A s \in SUBSET S : \A x \in s : A[s] = f[x] + A[s \ {x}]

\* Such a function exists: one that adds up over all elements but x is
\* extended to x.
LEMMA AdditiveExists ==
  ASSUME NEW f, NEW S, IsFiniteSet(S), \A x \in S : f[x] \in Int
  PROVE  \E A : Additive(f, A, S)
<1> DEFINE H == {s \in SUBSET S : ~ \E A : Additive(f, A, s)}
<1>1. SUFFICES ASSUME H # {} PROVE FALSE
  OBVIOUS
<1>2. PICK s \in H : \A t \in H : t \subseteq s => t = s
  <2>1. H \in SUBSET (SUBSET S)
    OBVIOUS
  <2> HIDE DEF H
  <2>2. QED
    BY <1>1, <2>1, Smallest
<1>3. s # {}
  <2>1. Additive(f, [t \in SUBSET {} |-> 0], {})
    BY DEF Additive
  <2>2. QED
    BY <2>1
<1>4. PICK x \in s : TRUE
  BY <1>3
<1>5. PICK A : Additive(f, A, s \ {x})
  BY <1>2
<1> DEFINE B == [t \in SUBSET s |-> IF x \in t THEN f[x] + A[t \ {x}] ELSE A[t]]
<1>6. ASSUME NEW t \in SUBSET s, NEW y \in t
      PROVE  B[t] = f[y] + B[t \ {y}]
  <2>1. CASE y = x
    BY <2>1
  <2>2. CASE y # x /\ x \in t
    <3>1. A[(t \ {x}) \ {y}] = A[(t \ {y}) \ {x}]
      <4>1. (t \ {x}) \ {y} = (t \ {y}) \ {x}
        OBVIOUS
      <4>2. QED
        BY <4>1, Zenon
    <3>2. A[t \ {x}] = f[y] + A[(t \ {x}) \ {y}]
      BY <1>5, <2>2 DEF Additive
    <3>3. A[(t \ {x}) \ {y}] \in Int
      BY <1>5, <2>2 DEF Additive
    <3>4. f[x] \in Int /\ f[y] \in Int
      BY <1>2
    <3>5. B[t] = f[x] + A[t \ {x}] /\ B[t \ {y}] = f[x] + A[(t \ {y}) \ {x}]
      BY <2>2
    <3> HIDE DEF B
    <3>6. QED
      BY <3>1, <3>2, <3>3, <3>4, <3>5
  <2>3. CASE x \notin t
    BY <1>5, <2>3 DEF Additive
  <2>4. QED
    BY <2>1, <2>2, <2>3
<1>7. B \in [SUBSET s -> Int] /\ B[{}] = 0
  <2>1. ASSUME NEW t \in SUBSET s PROVE B[t] \in Int
    <3>1. A[t \ {x}] \in Int /\ (x \notin t => A[t] \in Int)
      BY <1>5 DEF Additive
    <3>2. f[x] \in Int
      BY <1>2
    <3>3. QED
      BY <3>1, <3>2
  <2>2. QED
    BY <2>1, <1>5 DEF Additive
<1>8. Additive(f, B, s)
  <2> HIDE DEF B
  <2>1. QED
    BY <1>6, <1>7 DEF Additive
<1>9. QED
  BY <1>8

\* The recursion the sum is defined by: it takes the elements in an order of
\* its own.
Unfolds(f, S, a) == a = [s \in SUBSET S |->
   IF s = {} THEN 0 ELSE f[CHOOSE x \in s : TRUE] + a[s \ {CHOOSE x \in s : TRUE}]]
Iter(f, S) == CHOOSE iter : Unfolds(f, S, iter)

\* The sum is what any such function says.
LEMMA SumIsAdditive ==
  ASSUME NEW f, NEW S, IsFiniteSet(S), NEW A, Additive(f, A, S)
  PROVE  AddUp(f, S) = A[S]
<1> DEFINE I == Iter(f, S)
<1>1. AddUp(f, S) = I[S]
  BY DEF AddUp, MapThenSumSet, MapThenFoldSet, Iter, Unfolds
<1>2. Unfolds(f, S, A)
  <2>1. ASSUME NEW s \in SUBSET S, s # {}
        PROVE  A[s] = f[CHOOSE x \in s : TRUE] + A[s \ {CHOOSE x \in s : TRUE}]
    BY <2>1 DEF Additive
  <2>2. QED
    BY <2>1 DEF Additive, Unfolds
<1>3. Unfolds(f, S, I)
  BY <1>2 DEF Iter
<1>4. I[{}] = 0 /\ \A s \in SUBSET S : s # {} => \E x \in s : I[s] = f[x] + I[s \ {x}]
  <2> HIDE DEF I
  <2>1. \A s \in SUBSET S : s # {} => I[s] = f[CHOOSE x \in s : TRUE] + I[s \ {CHOOSE x \in s : TRUE}]
    BY <1>3 DEF Unfolds
  <2>2. I[{}] = 0
    BY <1>3 DEF Unfolds
  <2>3. \A s \in SUBSET S : s # {} => (CHOOSE x \in s : TRUE) \in s
    OBVIOUS
  <2>4. QED
    BY <2>1, <2>2, <2>3
<1> HIDE DEF I
<1> DEFINE H == {s \in SUBSET S : I[s] # A[s]}
<1>5. ASSUME H # {} PROVE FALSE
  <2>1. PICK s \in H : \A t \in H : t \subseteq s => t = s
    <3>1. H \in SUBSET (SUBSET S)
      OBVIOUS
    <3> HIDE DEF H
    <3>2. QED
      BY <1>5, <3>1, Smallest
  <2>2. s # {}
    BY <1>4 DEF Additive
  <2>3. PICK x \in s : I[s] = f[x] + I[s \ {x}]
    BY <1>4, <2>2
  <2>4. I[s \ {x}] = A[s \ {x}]
    BY <2>1
  <2>5. QED
    BY <2>3, <2>4 DEF Additive
<1>6. QED
  BY <1>1, <1>5

\* Any element may be taken out of a sum first.
\* One function adds up every part of a finite set.
LEMMA SumsAreAdditive ==
  ASSUME NEW f, NEW S, IsFiniteSet(S), \A x \in S : f[x] \in Int
  PROVE  \E A : Additive(f, A, S) /\ \A T \in SUBSET S : AddUp(f, T) = A[T]
<1>1. PICK A : Additive(f, A, S)
      BY AdditiveExists
<1>2. ASSUME NEW T \in SUBSET S PROVE AddUp(f, T) = A[T]
  <2> DEFINE B == [t \in SUBSET T |-> A[t]]
  <2>1. Additive(f, B, T)
        BY <1>1 DEF Additive
  <2>2. IsFiniteSet(T)
        BY FS_Subset
  <2>3. AddUp(f, T) = B[T]
        BY <2>1, <2>2, SumIsAdditive
  <2> QED  BY <2>3
<1> QED  BY <1>1, <1>2

\* The same terms add up to the same.
LEMMA SumEqual ==
  ASSUME NEW f, NEW g, NEW S, IsFiniteSet(S), \A x \in S : f[x] \in Int /\ f[x] = g[x]
  PROVE  AddUp(f, S) = AddUp(g, S)
<1>1. PICK A : Additive(f, A, S)
      BY AdditiveExists
<1>2. Additive(g, A, S)
      BY <1>1 DEF Additive
<1> QED  BY <1>1, <1>2, SumIsAdditive

\* A sum grows with its terms, and with the set.
LEMMA SumGrows ==
  ASSUME NEW f, NEW g, NEW T, IsFiniteSet(T), NEW S \in SUBSET T,
         \A x \in T : f[x] \in Nat /\ g[x] \in Nat /\ f[x] <= g[x]
  PROVE  /\ AddUp(f, S) \in Nat /\ AddUp(g, T) \in Nat
         /\ AddUp(f, S) <= AddUp(g, T)
<1>1. PICK A : Additive(f, A, T) /\ \A R \in SUBSET T : AddUp(f, R) = A[R]
      BY SumsAreAdditive
<1>2. PICK B : Additive(g, B, T) /\ \A R \in SUBSET T : AddUp(g, R) = B[R]
      BY SumsAreAdditive
<1> DEFINE H == {t \in SUBSET T : ~ (A[t \cap S] \in Nat /\ B[t] \in Nat /\ A[t \cap S] <= B[t])}
<1>3. ASSUME H # {} PROVE FALSE
  <2>1. PICK t \in H : \A r \in H : r \subseteq t => r = t
    <3>1. H \in SUBSET (SUBSET T)
          OBVIOUS
    <3> HIDE DEF H
    <3> QED  BY <1>3, <3>1, Smallest
  <2>2. t # {}
    <3>1. ASSUME t = {} PROVE FALSE
      <4>1. A[{}] = 0 /\ B[{}] = 0
            BY <1>1, <1>2 DEF Additive
      <4>2. t \cap S = {}
            BY <3>1
      <4>3. A[t \cap S] = 0 /\ B[t] = 0
            BY <3>1, <4>1, <4>2, Zenon
      <4> QED  BY <2>1, <4>3
    <3> QED  BY <3>1
  <2>3. PICK x \in t : TRUE
        BY <2>2
  <2> DEFINE u == t \ {x}
  <2>4. A[u \cap S] \in Nat /\ B[u] \in Nat /\ A[u \cap S] <= B[u]
    <3>1. u \in SUBSET T /\ u \subseteq t /\ u # t
          BY <2>1, <2>3
    <3>2. u \notin H
          BY <2>1, <3>1
    <3> HIDE DEF u
    <3> QED  BY <3>1, <3>2
  <2>5. B[t] = g[x] + B[u]
        BY <1>2 DEF Additive
  <2>6. A[t \cap S] = A[u \cap S] \/ A[t \cap S] = f[x] + A[u \cap S]
    <3>1. CASE x \in S
      <4>1. (t \cap S) \ {x} = u \cap S /\ x \in t \cap S /\ t \cap S \in SUBSET T
            BY <3>1
      <4>2. A[t \cap S] = f[x] + A[(t \cap S) \ {x}]
            BY <1>1, <4>1 DEF Additive
      <4> HIDE DEF u
      <4> QED  BY <4>1, <4>2
    <3>2. CASE x \notin S
      <4>1. t \cap S = u \cap S
            BY <3>2
      <4> QED  BY <4>1, Zenon
    <3> QED  BY <3>1, <3>2
  <2>7. f[x] \in Nat /\ g[x] \in Nat /\ f[x] <= g[x]
        BY <2>1, <2>3
  <2> HIDE DEF u
  <2>8. A[t \cap S] \in Nat /\ B[t] \in Nat /\ A[t \cap S] <= B[t]
        BY <2>4, <2>5, <2>6, <2>7
  <2> QED  BY <2>1, <2>8
<1>4. A[T \cap S] \in Nat /\ B[T] \in Nat /\ A[T \cap S] <= B[T]
      BY <1>3
<1>5. T \cap S = S
      OBVIOUS
<1>6. A[S] \in Nat /\ A[S] <= B[T]
      BY <1>4, <1>5
<1> QED  BY <1>1, <1>2, <1>4, <1>6

-----------------------------------------------------------------------------
(* What a roll-up credits the parent with                                  *)

Seen == [sum : Nat, done : BOOLEAN, start : BOOLEAN]

\* The records of the children once q has stored its own.
Recorded(q) ==
  [c \in Children |-> IF c = wo[q] /\ kind[q] = "output" THEN records[c] + 1 ELSE records[c]]

Bounded ==
  /\ output \in [WorkOrders -> Nat]
  /\ records \in [WorkOrders -> 0..MaxOutput]
  /\ seen \in [Requests -> Seen]

\* What the checks established stays true while the row is locked, a status to
\* be written is that of a row, and a sum that waits for the parent's row is
\* covered by the records as they are now.
RoomIsKept == \A q \in Requests : Holds(q) /\ kind[q] = "output" => records[wo[q]] < MaxOutput
TargetsExist == \A q \in Requests : at[q] # "idle" /\ kind[q] # "output" => to[q] # "ABSENT"
SumsAreBacked == \A q \in Requests : at[q] = "summed" => seen[q].sum <= AddUp(Recorded(q), Family)

Backed == Bounded /\ RoomIsKept /\ TargetsExist /\ SumsAreBacked /\ RollUpInventsNothing

LEMMA FamilyIsFinite == \A S \in SUBSET Children : IsFiniteSet(S)
<1> DEFINE Sets == {Parts[q] : q \in Requests}
           split == [q \in Requests |-> Parts[q]]
<1>1. split \in Surjection(Requests, Sets)
      BY DEF Surjection
<1>2. IsFiniteSet(Sets)
  <2> HIDE DEF Sets, split
  <2> QED  BY <1>1, RequestsAssumption, FS_Surjection
<1>3. \A S \in Sets : IsFiniteSet(S)
      BY PartsAssumption
<1>4. IsFiniteSet(Children)
      BY <1>2, <1>3, FS_UNION DEF Children
<1> QED  BY <1>4, FS_Subset

\* Records only grow, and so does the family: a sum that was covered stays so.
LEMMA RecordsCover ==
  ASSUME NEW f, NEW g, NEW S, NEW T \in SUBSET Children, S \subseteq T,
         \A c \in Children : f[c] \in Nat /\ g[c] \in Nat /\ f[c] <= g[c]
  PROVE  AddUp(f, S) <= AddUp(g, T) /\ AddUp(f, S) \in Nat /\ AddUp(g, T) \in Nat
<1>1. IsFiniteSet(T) /\ S \in SUBSET T
      BY FamilyIsFinite
<1>2. \A c \in T : f[c] \in Nat /\ g[c] \in Nat /\ f[c] <= g[c]
      OBVIOUS
<1> QED  BY <1>1, <1>2, SumGrows

\* A step of q that leaves records and family as they were, or lets them grow,
\* keeps the sums that others have read.
LEMMA OthersStayBacked ==
  ASSUME Typed, Bounded, Bounded', NEW r \in Requests,
         at[r] = "summed" => seen[r].sum <= AddUp(Recorded(r), Family),
         at'[r] = at[r], kind'[r] = kind[r], wo'[r] = wo[r], seen'[r] = seen[r],
         \A c \in Children : records[c] <= records'[c],
         Family \subseteq Family'
  PROVE  at'[r] = "summed" => seen'[r].sum <= AddUp(Recorded(r)', Family')
<1> DEFINE f == Recorded(r)
           g == Recorded(r)'
<1>1. \A c \in Children : records[c] \in Nat /\ records'[c] \in Nat
      BY BoundsAssumption DEF Bounded, WorkOrders
<1>2. \A c \in Children : f[c] \in Nat /\ g[c] \in Nat /\ f[c] <= g[c]
      BY <1>1 DEF Recorded
<1>3. Family' \in SUBSET Children
      BY DEF Family
<1>4. at[r] = "summed" => seen[r].sum <= AddUp(f, Family)
      OBVIOUS
<1> HIDE DEF f, g
<1>5. AddUp(f, Family) <= AddUp(g, Family') /\ AddUp(f, Family) \in Nat /\ AddUp(g, Family') \in Nat
      BY <1>2, <1>3, RecordsCover
<1>6. seen[r].sum \in Nat
      BY DEF Bounded, Seen
<1>7. at'[r] = "summed" => seen'[r].sum <= AddUp(g, Family')
      BY <1>4, <1>5, <1>6
<1> QED  BY <1>7 DEF g

\* A step of q that lets records and family grow keeps everything, as far as
\* the others are concerned.
LEMMA StepBacked ==
  ASSUME Typed, Backed, Bounded', NEW q \in Requests,
         \A r \in Requests \ {q} : /\ at'[r] = at[r] /\ kind'[r] = kind[r] /\ wo'[r] = wo[r]
                                   /\ to'[r] = to[r] /\ seen'[r] = seen[r],
         \A c \in Children : records[c] <= records'[c],
         Family \subseteq Family',
         \A r \in Requests \ {q} : Holds(r) /\ kind[r] = "output" => records'[wo[r]] = records[wo[r]],
         Holds(q)' /\ kind'[q] = "output" => records'[wo'[q]] < MaxOutput,
         at'[q] # "idle" /\ kind'[q] # "output" => to'[q] # "ABSENT",
         at'[q] = "summed" => seen'[q].sum <= AddUp(Recorded(q)', Family'),
         RollUpInventsNothing'
  PROVE  Backed'
<1>1. RoomIsKept'
      BY DEF Backed, RoomIsKept, Holds
<1>2. TargetsExist'
      BY DEF Backed, TargetsExist
<1>3. ASSUME NEW r \in Requests \ {q}
      PROVE  at'[r] = "summed" => seen'[r].sum <= AddUp(Recorded(r)', Family')
      BY <1>3, OthersStayBacked DEF Backed, SumsAreBacked
<1>4. ASSUME NEW r \in Requests
      PROVE  (at[r] = "summed" => seen[r].sum <= AddUp(Recorded(r), Family))'
      BY <1>3
<1>5. SumsAreBacked'
      BY <1>4 DEF SumsAreBacked
<1> QED  BY <1>1, <1>2, <1>5 DEF Backed

\* What the parent is credited with stays covered if it is not changed.
LEMMA CreditStays ==
  ASSUME Bounded, Bounded', RollUpInventsNothing, hasChild, output'[Parent] = output[Parent],
         \A c \in Children : records[c] <= records'[c],
         Family \subseteq Family'
  PROVE  RollUpInventsNothing'
<1>1. \A c \in Children : records[c] \in Nat /\ records'[c] \in Nat /\ records[c] <= records'[c]
      BY BoundsAssumption DEF Bounded, WorkOrders
<1>2. Family' \in SUBSET Children
      BY DEF Family
<1>3. /\ AddUp(records, Family) <= AddUp(records', Family')
      /\ AddUp(records, Family) \in Nat /\ AddUp(records', Family') \in Nat
      BY <1>1, <1>2, RecordsCover
<1>4. output[Parent] \in Nat /\ output[Parent] <= AddUp(records, Family)
      BY DEF Bounded, WorkOrders, RollUpInventsNothing
<1>5. output'[Parent] <= AddUp(records', Family')
      BY <1>3, <1>4
<1> QED  BY <1>5 DEF RollUpInventsNothing

\* A step that changes no row.
LEMMA ReadBacked ==
  ASSUME Typed, Backed, NEW q \in Requests, UNCHANGED rows,
         \A r \in Requests \ {q} : /\ at'[r] = at[r] /\ kind'[r] = kind[r] /\ wo'[r] = wo[r]
                                   /\ to'[r] = to[r] /\ seen'[r] = seen[r],
         seen' \in [Requests -> Seen],
         Holds(q)' /\ kind'[q] = "output" => records[wo'[q]] < MaxOutput,
         at'[q] # "idle" /\ kind'[q] # "output" => to'[q] # "ABSENT",
         at'[q] = "summed" => seen'[q].sum <= AddUp(Recorded(q)', Family')
  PROVE  Backed'
<1>1. UNCHANGED <<status, output, records, hasChild>>
      BY DEF rows
<1>2. Bounded /\ Bounded' /\ RollUpInventsNothing
      BY <1>1 DEF Backed, Bounded
<1>3. Family' = Family
      BY <1>1 DEF Family, Exists
<1>4. \A c \in Children : records[c] <= records'[c]
      BY <1>1, <1>2, BoundsAssumption DEF Bounded, WorkOrders
<1>5. RollUpInventsNothing'
      BY <1>1, <1>2, <1>3, <1>4, CreditStays DEF RollUpInventsNothing
<1> QED  BY <1>1, <1>2, <1>3, <1>4, <1>5, StepBacked

LEMMA NothingIsSeen == Nothing \in Seen
BY DEF Nothing, Seen

LEMMA BeginBacked ==
  ASSUME Typed, Backed, NEW q \in Requests, NEW k, NEW w, NEW s, Begin(q, k, w, s),
         k # "output" => s # "ABSENT"
  PROVE  Backed'
<1>1. /\ at'[q] = "judged" /\ kind'[q] = k /\ to'[q] = s /\ UNCHANGED <<rows, seen>>
      /\ \A r \in Requests \ {q} : /\ at'[r] = at[r] /\ kind'[r] = kind[r] /\ wo'[r] = wo[r]
                                   /\ to'[r] = to[r] /\ seen'[r] = seen[r]
      BY DEF Begin, Typed, RequestsTyped
<1>2. seen' \in [Requests -> Seen]
      BY <1>1 DEF Backed, Bounded
<1>3. ~Holds(q)'
      BY <1>1 DEF Holds
<1> QED  BY <1>1, <1>2, <1>3, ReadBacked

LEMMA WrittenBacked ==
  ASSUME Typed, Backed, NEW q \in Requests, at[q] = "judged", Written(q),
         kind[q] = "output" => records[wo[q]] < MaxOutput
  PROVE  Backed'
<1>1. /\ at'[q] = "written" /\ UNCHANGED <<rows, kind, wo, to, seen>>
      /\ \A r \in Requests \ {q} : at'[r] = at[r]
      BY DEF Written, Typed, RequestsTyped
<1>2. kind[q] # "output" => to[q] # "ABSENT"
      BY DEF Backed, TargetsExist
<1>3. seen' \in [Requests -> Seen]
      BY <1>1 DEF Backed, Bounded
<1> QED  BY <1>1, <1>2, <1>3, ReadBacked

\* A roll-up reads what the records of the children are, its own included.
LEMMA SumBacked ==
  ASSUME Typed, Counted, Backed, NEW q \in Requests, Sum(q)
  PROVE  Backed'
<1> DEFINE f == [c \in Family |-> OutputIn(q, c)]
           g == Recorded(q)
           s == AddUp(f, Family)
<1>1. PICK d \in BOOLEAN, b \in BOOLEAN :
        seen' = [seen EXCEPT ![q] = [sum |-> s, done |-> d, start |-> b]]
      BY DEF Sum
<1>2. \A c \in Family : f[c] \in Nat /\ g[c] \in Nat /\ f[c] = g[c]
  <2>1. \A c \in Family : output[c] = records[c] /\ records[c] \in Nat
        BY ChildIsNotParent DEF Family, WorkOrders, Counted, CounterMatchesRecords, Typed, RowsTyped
  <2> QED  BY <2>1 DEF OutputIn, Recorded, Family
<1> HIDE DEF f, g
<1>3. s = AddUp(g, Family) /\ s \in Nat
  <2>1. IsFiniteSet(Family) /\ Family \in SUBSET Family
        BY FamilyIsFinite DEF Family
  <2>2. \A c \in Family : f[c] \in Int /\ f[c] = g[c]
        BY <1>2
  <2>3. s = AddUp(g, Family)
        BY <2>1, <2>2, SumEqual
  <2>4. \A c \in Family : f[c] \in Nat /\ f[c] <= f[c]
        BY <1>2
  <2>5. s \in Nat
        BY <2>1, <2>4, SumGrows
  <2> QED  BY <2>3, <2>5
<1> HIDE DEF s
<1>4. seen \in [Requests -> Seen]
      BY DEF Backed, Bounded
<1>5. seen' \in [Requests -> Seen] /\ seen'[q].sum = s
      BY <1>1, <1>3, <1>4 DEF Seen
<1>6. /\ at[q] = "written" /\ UNCHANGED <<rows, kind, wo, to>>
      /\ \A r \in Requests \ {q} : at'[r] = at[r] /\ seen'[r] = seen[r]
      BY <1>1, <1>4 DEF Sum, Typed, RequestsTyped
<1>7. kind[q] = "output" => records[wo[q]] < MaxOutput
      BY <1>6 DEF Backed, RoomIsKept, Holds
<1>8. kind[q] # "output" => to[q] # "ABSENT"
      BY <1>6 DEF Backed, TargetsExist
<1>9. Recorded(q)' = g /\ Family' = Family
      BY <1>6 DEF g, Recorded, Family, Exists, rows
<1>10. s <= AddUp(Recorded(q)', Family')
      BY <1>3, <1>9
<1> QED  BY <1>5, <1>6, <1>7, <1>8, <1>10, ReadBacked

\* A transaction that ends holds nothing and has nothing to write.
LEMMA EndBacked ==
  ASSUME Typed, Backed, NEW q \in Requests, End(q),
         output' \in [WorkOrders -> Nat], records' \in [WorkOrders -> 0..MaxOutput],
         \A c \in Children : records[c] <= records'[c],
         Family \subseteq Family',
         \A r \in Requests \ {q} : Holds(r) /\ kind[r] = "output" => records'[wo[r]] = records[wo[r]],
         RollUpInventsNothing'
  PROVE  Backed'
<1>1. seen \in [Requests -> Seen]
      BY DEF Backed, Bounded
<1>2. Bounded'
      BY <1>1, NothingIsSeen DEF End, Bounded
<1>3. /\ at'[q] = "idle"
      /\ \A r \in Requests \ {q} : /\ at'[r] = at[r] /\ kind'[r] = kind[r] /\ wo'[r] = wo[r]
                                   /\ to'[r] = to[r] /\ seen'[r] = seen[r]
      BY <1>1 DEF End, Typed, RequestsTyped
<1>4. ~Holds(q)'
      BY <1>3 DEF Holds
<1> QED  BY <1>2, <1>3, <1>4, StepBacked

LEMMA RollbackBacked ==
  ASSUME Typed, Backed, NEW q \in Requests, Rollback(q)
  PROVE  Backed'
<1>1. seen \in [Requests -> Seen]
      BY DEF Backed, Bounded
<1>2. seen' \in [Requests -> Seen]
      BY <1>1, NothingIsSeen DEF Rollback, End
<1>3. /\ at'[q] = "idle" /\ UNCHANGED rows
      /\ \A r \in Requests \ {q} : /\ at'[r] = at[r] /\ kind'[r] = kind[r] /\ wo'[r] = wo[r]
                                   /\ to'[r] = to[r] /\ seen'[r] = seen[r]
      BY <1>1 DEF Rollback, End, Typed, RequestsTyped
<1>4. ~Holds(q)'
      BY <1>3 DEF Holds
<1> QED  BY <1>2, <1>3, <1>4, ReadBacked

LEMMA CommitMoveBacked ==
  ASSUME Typed, Backed, NEW q \in Requests, CommitMove(q)
  PROVE  Backed'
<1>1. UNCHANGED <<output, records, hasChild>> /\ End(q)
      BY DEF CommitMove
<1>2. Bounded
      BY DEF Backed
<1>3. Family' = Family
      BY ChildIsNotParent DEF CommitMove, Family, Exists, Typed, RowsTyped, WorkOrders
<1>4. \A c \in Children : records[c] <= records'[c]
      BY <1>1, <1>2, BoundsAssumption DEF Bounded, WorkOrders
<1>5. RollUpInventsNothing'
      BY <1>1, <1>3 DEF Backed, RollUpInventsNothing
<1> QED  BY <1>1, <1>2, <1>3, <1>4, <1>5, EndBacked DEF Bounded

LEMMA CommitOutputBacked ==
  ASSUME Typed, LocksAreExclusive, Counted, Backed, NEW q \in Requests, CommitOutput(q)
  PROVE  Backed'
<1>1. Holds(q) /\ kind[q] = "output" /\ wo[q] = Parent /\ End(q) /\ UNCHANGED <<status, hasChild>>
      BY DEF CommitOutput, Holds
<1>2. ~hasChild /\ records[Parent] < MaxOutput
      BY <1>1 DEF Counted, OutputHasRoom, Backed, RoomIsKept
<1>3. /\ output \in [WorkOrders -> Nat] /\ records \in [WorkOrders -> 0..MaxOutput]
      /\ Parent \in WorkOrders
      BY DEF Backed, Bounded, WorkOrders
<1>4. output' \in [WorkOrders -> Nat] /\ records' \in [WorkOrders -> 0..MaxOutput]
  <2>1. output[Parent] + 1 \in Nat /\ records[Parent] + 1 \in 0..MaxOutput
        BY <1>2, <1>3, BoundsAssumption
  <2> QED  BY <1>3, <2>1 DEF CommitOutput
<1>5. \A w \in WorkOrders : w # Parent => records'[w] = records[w]
      BY <1>3 DEF CommitOutput
<1>6. \A c \in Children : records[c] <= records'[c]
      BY <1>3, <1>5, ChildIsNotParent, BoundsAssumption DEF WorkOrders
<1>7. \A r \in Requests \ {q} : Holds(r) /\ kind[r] = "output" => records'[wo[r]] = records[wo[r]]
      BY <1>1, <1>5 DEF LocksAreExclusive, Typed, RequestsTyped
<1>8. Family' = Family
      BY <1>1 DEF Family, Exists
<1>9. RollUpInventsNothing'
      BY <1>1, <1>2 DEF RollUpInventsNothing
<1> QED  BY <1>1, <1>4, <1>6, <1>7, <1>8, <1>9, EndBacked

\* A parent that is split has produced nothing.
LEMMA CommitSplitBacked ==
  ASSUME Typed, Counted, Backed, NEW q \in Requests, CommitSplit(q)
  PROVE  Backed'
<1>1. /\ Holds(q) /\ kind[q] = "split" /\ at[q] # "idle" /\ End(q)
      /\ hasChild' /\ UNCHANGED <<output, records>>
      BY DEF CommitSplit, Holds
<1>2. Bounded /\ Bounded' /\ RollUpInventsNothing /\ to[q] # "ABSENT"
  <2>1. Bounded /\ RollUpInventsNothing /\ to[q] # "ABSENT"
        BY <1>1 DEF Backed, TargetsExist
  <2>2. Bounded'
        BY <1>1, <2>1, NothingIsSeen DEF Bounded, End
  <2> QED  BY <2>1, <2>2
<1>3. Family \subseteq Family'
  <2>1. status' = [w \in WorkOrders |-> IF w \in Parts[q] THEN to[q] ELSE status[w]]
        BY DEF CommitSplit
  <2> QED  BY <1>2, <2>1 DEF Family, Exists, WorkOrders
<1>4. \A c \in Children : records[c] <= records'[c]
      BY <1>1, <1>2, BoundsAssumption DEF Bounded, WorkOrders
<1>5. RollUpInventsNothing'
  <2>1. CASE hasChild
        BY <1>1, <1>2, <1>3, <1>4, <2>1, CreditStays
  <2>2. CASE ~hasChild
    <3>1. output[Parent] = 0
          BY <1>1, <2>2 DEF Counted, SplitHasNoRecords, CounterMatchesRecords, WorkOrders
    <3>2. \A c \in Children : records'[c] \in Nat /\ records'[c] <= records'[c]
          BY <1>2, BoundsAssumption DEF Bounded, WorkOrders
    <3>3. Family' \in SUBSET Children /\ Family' \subseteq Family'
          BY DEF Family
    <3>4. AddUp(records', Family') \in Nat
          BY <3>2, <3>3, RecordsCover
    <3>5. output'[Parent] <= AddUp(records', Family')
          BY <1>1, <3>1, <3>4
    <3> QED  BY <3>5 DEF RollUpInventsNothing
  <2> QED  BY <2>1, <2>2
<1> QED  BY <1>1, <1>2, <1>3, <1>4, <1>5, EndBacked DEF Bounded

\* The parent is credited with a sum that the records of the children cover,
\* the one just stored included.
LEMMA CommitChildBacked ==
  ASSUME Typed, LocksAreExclusive, Counted, Backed, NEW q \in Requests, CommitChild(q)
  PROVE  Backed'
<1>1. /\ at[q] = "summed" /\ Holds(q) /\ End(q) /\ wo[q] \in Children /\ wo[q] # Parent
      /\ wo[q] \in WorkOrders /\ Parent \in WorkOrders
      BY ChildIsNotParent DEF CommitChild, Holds, Typed, Shape, WorkOrders
<1>2. /\ output \in [WorkOrders -> Nat] /\ records \in [WorkOrders -> 0..MaxOutput]
      /\ seen[q].sum \in Nat /\ status \in [WorkOrders -> Status]
      BY DEF Backed, Bounded, Seen, Typed, RowsTyped
<1>3. kind[q] = "output" => records[wo[q]] < MaxOutput
      BY <1>1 DEF Backed, RoomIsKept
<1>4. /\ records' \in [WorkOrders -> 0..MaxOutput]
      /\ \A w \in WorkOrders : records'[w] = IF w = wo[q] /\ kind[q] = "output"
                                             THEN records[w] + 1 ELSE records[w]
  <2>1. kind[q] = "output" => records[wo[q]] + 1 \in 0..MaxOutput
        BY <1>1, <1>2, <1>3, BoundsAssumption
  <2>2. records' = [records EXCEPT ![wo[q]] =
                      IF kind[q] = "output" THEN records[wo[q]] + 1 ELSE records[wo[q]]]
        BY DEF CommitChild
  <2> QED  BY <1>1, <1>2, <2>1, <2>2
<1>5. output' \in [WorkOrders -> Nat] /\ output'[Parent] = seen[q].sum
  <2>1. OutputIn(q, wo[q]) \in Nat
        BY <1>1, <1>2 DEF OutputIn
  <2>2. output' = [output EXCEPT ![wo[q]] = OutputIn(q, wo[q]), ![Parent] = seen[q].sum]
        BY DEF CommitChild
  <2> QED  BY <1>1, <1>2, <2>1, <2>2
<1>6. \A c \in Children : records[c] <= records'[c]
      BY <1>2, <1>4, BoundsAssumption DEF WorkOrders
<1>7. Family \subseteq Family'
  <2>1. kind[q] # "output" => to[q] # "ABSENT"
        BY <1>1 DEF Backed, TargetsExist
  <2>2. \A w \in Children : status'[w] = IF w = wo[q] THEN StatusIn(q, w) ELSE status[w]
        BY <1>1, <1>2, ChildIsNotParent DEF CommitChild, WorkOrders
  <2> QED  BY <2>1, <2>2 DEF Family, Exists, StatusIn
<1>8. \A r \in Requests \ {q} : Holds(r) /\ kind[r] = "output" => records'[wo[r]] = records[wo[r]]
      BY <1>1, <1>4 DEF LocksAreExclusive, Typed, RequestsTyped
<1>9. RollUpInventsNothing'
  <2> DEFINE f == Recorded(q)
  <2>1. seen[q].sum <= AddUp(f, Family)
        BY <1>1 DEF Backed, SumsAreBacked
  <2>2. \A c \in Children : f[c] \in Nat /\ records'[c] \in Nat /\ f[c] <= records'[c]
        BY <1>2, <1>4, BoundsAssumption DEF Recorded, WorkOrders
  <2>3. Family' \in SUBSET Children
        BY DEF Family
  <2> HIDE DEF f
  <2>4. /\ AddUp(f, Family) <= AddUp(records', Family')
        /\ AddUp(f, Family) \in Nat /\ AddUp(records', Family') \in Nat
        BY <1>7, <2>2, <2>3, RecordsCover
  <2>5. output'[Parent] <= AddUp(records', Family')
        BY <1>2, <1>5, <2>1, <2>4
  <2> QED  BY <2>5 DEF RollUpInventsNothing
<1> QED  BY <1>1, <1>4, <1>5, <1>6, <1>7, <1>8, <1>9, EndBacked

LEMMA BackedInductive == Typed /\ LocksAreExclusive /\ Counted /\ Backed /\ [Next]_vars => Backed'
<1> SUFFICES ASSUME Typed, LocksAreExclusive, Counted, Backed, [Next]_vars
             PROVE  Backed'
    OBVIOUS
<1>1. ASSUME NEW q \in Requests, NEW w \in WorkOrders, NEW s \in Status, JudgeMove(q, w, s)
      PROVE  Backed'
  <2>1. s # "ABSENT"
        BY <1>1 DEF JudgeMove
  <2> QED  BY <1>1, <2>1, BeginBacked DEF JudgeMove
<1>2. ASSUME NEW q \in Requests, NEW w \in WorkOrders, JudgeOutput(q, w)
      PROVE  Backed'
      BY <1>2, BeginBacked DEF JudgeOutput
<1>3. ASSUME NEW q \in Requests, JudgeSplit(q)
      PROVE  Backed'
      BY <1>3, BeginBacked DEF JudgeSplit
<1>4. ASSUME NEW q \in Requests, WriteMove(q) \/ WriteOutput(q) \/ WriteSplit(q)
      PROVE  Backed'
      BY <1>4, WrittenBacked DEF WriteMove, WriteOutput, WriteSplit, CanWrite
<1>5. CASE UNCHANGED vars
  <2>1. UNCHANGED <<status, output, records, hasChild, at, kind, wo, to, seen>>
        BY <1>5 DEF vars
  <2>2. Family' = Family /\ \A r \in Requests : Recorded(r)' = Recorded(r)
        BY <2>1 DEF Family, Exists, Recorded
  <2>3. Bounded' /\ RoomIsKept' /\ TargetsExist' /\ RollUpInventsNothing'
        BY <2>1, <2>2 DEF Backed, Bounded, RoomIsKept, TargetsExist, Holds, RollUpInventsNothing
  <2>4. SumsAreBacked'
        BY <2>1, <2>2 DEF Backed, SumsAreBacked
  <2> QED  BY <2>3, <2>4 DEF Backed
<1> QED
    BY <1>1, <1>2, <1>3, <1>4, <1>5, SumBacked, CommitMoveBacked, CommitOutputBacked,
       CommitSplitBacked, CommitChildBacked, RollbackBacked DEF Next

-----------------------------------------------------------------------------
(* The theorems                                                            *)

IInv == Typed /\ LocksAreExclusive /\ Counted /\ Exclusion /\ Backed

LEMMA InitIInv == Init => IInv
<1> SUFFICES ASSUME Init PROVE IInv
    OBVIOUS
<1>1. LocksAreExclusive
      BY DEF Init, LocksAreExclusive, Holds
<1>2. Counted
      BY DEF Init, Counted, OutputHasRoom, SplitHasNoRecords, ParentHoldsNoProduction,
             CounterMatchesRecords, Holds
<1>3. \A w \in WorkOrders : status[w] # "IN_PRODUCTION"
      BY StartingAssumption DEF Init
<1>4. Exclusion
      BY <1>3 DEF Init, Exclusion, StartHasMachine, MachineIsExclusive, Starts, Holds
<1>5. Backed
  <2>1. Bounded
        BY NothingIsSeen, BoundsAssumption DEF Init, Bounded
  <2>2. RoomIsKept /\ TargetsExist /\ SumsAreBacked /\ RollUpInventsNothing
        BY DEF Init, RoomIsKept, TargetsExist, SumsAreBacked, RollUpInventsNothing, Holds
  <2> QED  BY <2>1, <2>2 DEF Backed
<1> QED  BY <1>1, <1>2, <1>4, <1>5, InitTyped DEF IInv

\* Every reachable state satisfies the inductive invariant: the types, the row
\* locks, what the constraints established under them, the counts, and the
\* records that cover what a roll-up has read.
THEOREM WorkOrderInvariant == Spec => []IInv
<1>1. IInv /\ [Next]_vars => IInv'
      BY TypedInductive, LocksStep, CountedInductive, ExclusionInductive, BackedInductive DEF IInv
<1> QED  BY InitIInv, <1>1, PTL DEF Spec

\* The rows and the open transactions are well typed, and no work order gets
\* more records than there is room for.
THEOREM TypeCorrect == Spec => []TypeOK
<1>1. IInv => TypeOK
      BY DEF IInv, Typed, RowsTyped, RequestsTyped, Backed, Bounded, Seen, TypeOK
<1> QED  BY WorkOrderInvariant, <1>1, PTL

\* For any requests in any interleaving, no machine ever runs two work orders.
THEOREM MachinesAreExclusive == Spec => []MachineIsExclusive
<1>1. IInv => MachineIsExclusive
      BY DEF IInv, Exclusion
<1> QED  BY WorkOrderInvariant, <1>1, PTL

\* A split parent never holds production of its own, not even when the split
\* and a record of output read each other's past.
THEOREM SplitParentsHoldNothing == Spec => []ParentHoldsNoProduction
<1>1. IInv => ParentHoldsNoProduction
      BY DEF IInv, Counted
<1> QED  BY WorkOrderInvariant, <1>1, PTL

\* The counter of a work order that is not split is the number of its records,
\* corrections apart.
THEOREM ProductionIsCountedOnce == Spec => []CounterMatchesRecords
<1>1. IInv => CounterMatchesRecords
      BY DEF IInv, Counted
<1> QED  BY WorkOrderInvariant, <1>1, PTL

\* However stale, a roll-up never credits the parent with more than the
\* children have recorded.
THEOREM RollUpsAreBacked == Spec => []RollUpInventsNothing
<1>1. IInv => RollUpInventsNothing
      BY DEF IInv, Backed
<1> QED  BY WorkOrderInvariant, <1>1, PTL
=============================================================================
