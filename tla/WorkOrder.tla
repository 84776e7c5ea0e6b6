----------------------------- MODULE WorkOrder -----------------------------
(***************************************************************************)
(* A work order, the children a supervisor splits it into, and the         *)
(* requests that move them and record output on them.  Lifecycle, split    *)
(* and roll-up: src/apps/api/internal/modules/production/; output:         *)
(* RecordOutput of modules/shopfloor/service.go.                           *)
(*                                                                         *)
(* Every request is one READ COMMITTED transaction in three steps: Judge   *)
(* reads the committed rows and decides; Write takes the row lock, which   *)
(* may wait, and is refused by a constraint or not; the roll-up of a       *)
(* child's parent sums the children as committed then (Sum), and the       *)
(* commit stores all of it.  No row is locked before it is written, so     *)
(* what Judge and Sum read may be stale.                                   *)
(*                                                                         *)
(* Left out, because nothing here reads it back: machine_state_log, the    *)
(* customer order's produced quantity and the outbox, which the same       *)
(* transactions write.  A guard on facts this module does not keep         *)
(* (planning fields, operators, active downtimes) only makes a request     *)
(* fail, as Rollback may anyway.  Left out, although the counters change:  *)
(* a correction moves a counter and stores no record, in a transaction of  *)
(* its own (modules/correction/correction.go).                             *)
(***************************************************************************)
EXTENDS Integers, FiniteSets, FiniteSetsExt

CONSTANTS
  Parent,       \* the work order that may be split
  Requests,     \* transactions that can be open at one time
  Parts,        \* [Requests -> sets of work orders]: a split's children
  Machines,
  NoMachine,
  MachineOf,    \* [WorkOrders -> Machines \cup {NoMachine}]
  Starting,     \* statuses the parent may have been created in
  MaxOutput     \* bound: records of one work order

Children == UNION {Parts[q] : q \in Requests}
WorkOrders == Children \cup {Parent}

ASSUME PartsAssumption ==
  /\ \A q \in Requests : IsFiniteSet(Parts[q]) /\ Parent \notin Parts[q]
  /\ \A q, r \in Requests : q # r => Parts[q] \cap Parts[r] = {}
ASSUME RequestsAssumption == IsFiniteSet(Requests)
ASSUME MachineAssumption ==
  NoMachine \notin Machines /\ MachineOf \in [WorkOrders -> Machines \cup {NoMachine}]
ASSUME BoundsAssumption == MaxOutput \in Nat
ASSUME StartingAssumption == Starting \subseteq {"DRAFT", "SCHEDULED"}

VARIABLES
  status,     \* [WorkOrders -> Status]
  output,     \* [WorkOrders -> Nat]: output_quantity, the counter
  records,    \* [WorkOrders -> Nat]: production_record rows on the work order
  hasChild,   \* has_child_work_order of Parent
  at,         \* [Requests -> Steps]: how far the transaction is
  kind,       \* [Requests -> Kinds]
  wo,         \* [Requests -> WorkOrders]: the row it is about
  to,         \* [Requests -> Status]: the status it will write
  seen        \* [Requests -> what the roll-up read]

rows == <<status, output, records, hasChild>>
vars == <<status, output, records, hasChild, at, kind, wo, to, seen>>

Status == {"ABSENT", "DRAFT", "SCHEDULED", "CONFIRMED", "IN_PRODUCTION", "COMPLETED", "CANCELLED"}

Steps == {"idle", "judged", "written", "summed"}
Kinds == {"move", "output", "split"}

Nothing == [sum |-> 0, done |-> FALSE, start |-> FALSE]

TypeOK ==
  /\ status \in [WorkOrders -> Status]
  /\ output \in [WorkOrders -> Nat]
  /\ records \in [WorkOrders -> 0..MaxOutput]
  /\ hasChild \in BOOLEAN
  /\ at \in [Requests -> Steps]
  /\ kind \in [Requests -> Kinds]
  /\ wo \in [Requests -> WorkOrders]
  /\ to \in [Requests -> Status]
  /\ seen \in [Requests -> [sum : Nat, done : BOOLEAN, start : BOOLEAN]]

Init ==
  /\ \E s \in Starting : status = [w \in WorkOrders |-> IF w = Parent THEN s ELSE "ABSENT"]
  /\ output = [w \in WorkOrders |-> 0]
  /\ records = [w \in WorkOrders |-> 0]
  /\ hasChild = FALSE
  /\ at = [q \in Requests |-> "idle"]
  /\ kind = [q \in Requests |-> "move"]
  /\ wo = [q \in Requests |-> Parent]
  /\ to = [q \in Requests |-> "ABSENT"]
  /\ seen = [q \in Requests |-> Nothing]

-----------------------------------------------------------------------------
Legal ==
  {<<"DRAFT", "SCHEDULED">>, <<"DRAFT", "CANCELLED">>,
   <<"SCHEDULED", "CONFIRMED">>, <<"SCHEDULED", "DRAFT">>, <<"SCHEDULED", "CANCELLED">>,
   <<"CONFIRMED", "IN_PRODUCTION">>, <<"CONFIRMED", "SCHEDULED">>, <<"CONFIRMED", "CANCELLED">>,
   <<"IN_PRODUCTION", "COMPLETED">>, <<"IN_PRODUCTION", "CANCELLED">>}

Splittable == {"SCHEDULED", "CONFIRMED", "IN_PRODUCTION"}

\* The split releases the parent's machine to the children.
Machine(w) == IF w = Parent /\ hasChild THEN NoMachine ELSE MachineOf[w]

Exists(w) == status[w] # "ABSENT"

Begin(q, k, w, next) ==
  /\ at[q] = "idle"
  /\ at' = [at EXCEPT ![q] = "judged"]
  /\ kind' = [kind EXCEPT ![q] = k]
  /\ wo' = [wo EXCEPT ![q] = w]
  /\ to' = [to EXCEPT ![q] = next]
  /\ UNCHANGED <<rows, seen>>

\* Confirm, start, complete and cancel are the moves the API offers.
JudgeMove(q, w, next) ==
  /\ <<status[w], next>> \in Legal
  /\ next \in {"CONFIRMED", "IN_PRODUCTION", "COMPLETED", "CANCELLED"}
  /\ next = "CONFIRMED" => Machine(w) # NoMachine
  /\ Begin(q, "move", w, next)

\* Output is accepted in any status.
JudgeOutput(q, w) ==
  /\ Exists(w) /\ records[w] < MaxOutput
  /\ ~(w = Parent /\ hasChild)
  /\ Begin(q, "output", w, "ABSENT")

\* to[q] is the status of the children.
JudgeSplit(q) ==
  /\ ~hasChild /\ status[Parent] \in Splittable /\ output[Parent] = 0
  /\ Cardinality(Parts[q]) >= 2 /\ \A c \in Parts[q] : ~Exists(c)
  /\ Begin(q, "split", Parent, IF status[Parent] = "SCHEDULED" THEN "SCHEDULED" ELSE "CONFIRMED")

Holds(q) == at[q] \in {"written", "summed"}

\* Rows that another open transaction has written.
LockedFor(q) == {wo[r] : r \in {r \in Requests : r # q /\ Holds(r)}}

\* The unique index on (machine, IN_PRODUCTION): work orders that occupy the
\* machine of w, and those for which an open transaction has yet to decide it.
SameMachine(v, w) == v # w /\ Machine(v) = Machine(w) /\ Machine(w) # NoMachine

\* A faulty schema, without the index on the machine.
OccupantsUnindexed(w) == {}

Occupants(w) == {v \in WorkOrders : SameMachine(v, w) /\ status[v] = "IN_PRODUCTION"}

Undecided(q, w) ==
  {r \in Requests \ {q} :
     Holds(r) /\ SameMachine(wo[r], w) /\ kind[r] = "move" /\
       (to[r] = "IN_PRODUCTION" \/ status[wo[r]] = "IN_PRODUCTION")}

CanWrite(q) == at[q] = "judged" /\ wo[q] \notin LockedFor(q)

Written(q) ==
  /\ at' = [at EXCEPT ![q] = "written"]
  /\ UNCHANGED <<rows, kind, wo, to, seen>>

\* UpdateStatus names the row by id, whatever its status is by now.
WriteMove(q) ==
  /\ CanWrite(q) /\ kind[q] = "move"
  /\ to[q] = "IN_PRODUCTION" => Occupants(wo[q]) = {} /\ Undecided(q, wo[q]) = {}
  /\ Written(q)

\* The record's foreign key: the work order must still have no children.
WriteOutput(q) ==
  /\ CanWrite(q) /\ kind[q] = "output"
  /\ ~(wo[q] = Parent /\ hasChild) /\ records[wo[q]] < MaxOutput
  /\ Written(q)

\* A faulty schema, without the cascade that confronts the flag with records.
WriteSplitUnchecked(q) ==
  /\ CanWrite(q) /\ kind[q] = "split"
  /\ Written(q)

\* ... and cascades the flag to its records, which may not carry it.
WriteSplit(q) ==
  /\ CanWrite(q) /\ kind[q] = "split"
  /\ records[Parent] = 0
  /\ Written(q)

\* The committed status and output of w as transaction q sees them.
StatusIn(q, w) == IF w = wo[q] /\ kind[q] = "move" THEN to[q] ELSE status[w]
OutputIn(q, w) == IF w = wo[q] /\ kind[q] = "output" THEN output[w] + 1 ELSE output[w]

Family == {c \in Children : Exists(c)}
AddUp(f, S) == MapThenSumSet(LAMBDA c : f[c], S)

\* rollUp, its reads: what the children add up to.
Sum(q) ==
  /\ at[q] = "written" /\ wo[q] \in Children
  /\ LET active == {c \in Family : StatusIn(q, c) # "CANCELLED"}
         completed == {c \in Family : StatusIn(q, c) = "COMPLETED"}
         started == {c \in Family : StatusIn(q, c) = "IN_PRODUCTION"}
         allDone == active # {} /\ completed = active
     IN  seen' = [seen EXCEPT ![q] =
                    [sum |-> AddUp([c \in Family |-> OutputIn(q, c)], Family),
                     done |-> allDone,
                     start |-> ~allDone /\ started \cup completed # {}
                               /\ status[Parent] = "CONFIRMED"]]
  /\ at' = [at EXCEPT ![q] = "summed"]
  /\ UNCHANGED <<rows, kind, wo, to>>

End(q) ==
  /\ at' = [at EXCEPT ![q] = "idle"]
  /\ kind' = [kind EXCEPT ![q] = "move"]
  /\ wo' = [wo EXCEPT ![q] = Parent]
  /\ to' = [to EXCEPT ![q] = "ABSENT"]
  /\ seen' = [seen EXCEPT ![q] = Nothing]

\* The commit of a request on a work order that has no parent.
CommitMove(q) ==
  /\ at[q] = "written" /\ kind[q] = "move" /\ wo[q] = Parent
  /\ status' = [status EXCEPT ![Parent] = to[q]]
  /\ End(q)
  /\ UNCHANGED <<output, records, hasChild>>

CommitOutputTwice(q) ==  \* a faulty handler that stores the record twice
  /\ at[q] = "written" /\ kind[q] = "output" /\ wo[q] = Parent
  /\ output' = [output EXCEPT ![Parent] = @ + 2]
  /\ records' = [records EXCEPT ![Parent] = @ + 2]
  /\ End(q)
  /\ UNCHANGED <<status, hasChild>>

CommitOutput(q) ==
  /\ at[q] = "written" /\ kind[q] = "output" /\ wo[q] = Parent
  /\ output' = [output EXCEPT ![Parent] = @ + 1]
  /\ records' = [records EXCEPT ![Parent] = @ + 1]
  /\ End(q)
  /\ UNCHANGED <<status, hasChild>>

CommitSplit(q) ==
  /\ at[q] = "written" /\ kind[q] = "split"
  /\ status' = [w \in WorkOrders |-> IF w \in Parts[q] THEN to[q] ELSE status[w]]
  /\ hasChild' = TRUE
  /\ End(q)
  /\ UNCHANGED <<output, records>>

\* The status the roll-up writes: it asks for no particular current status.
Rolled(q) ==
  CASE seen[q].done -> "COMPLETED"
    [] seen[q].start -> "IN_PRODUCTION"
    [] OTHER -> status[Parent]

\* A faulty roll-up that adds the children's sum to what the parent has.
CommitChildAdds(q) ==
  /\ at[q] = "summed" /\ Parent \notin LockedFor(q)
  /\ status' = [status EXCEPT ![wo[q]] = StatusIn(q, wo[q]), ![Parent] = Rolled(q)]
  /\ output' = [output EXCEPT ![wo[q]] = OutputIn(q, wo[q]), ![Parent] = @ + seen[q].sum]
  /\ records' = [records EXCEPT ![wo[q]] = IF kind[q] = "output" THEN @ + 1 ELSE @]
  /\ End(q)
  /\ UNCHANGED hasChild

\* The commit of a request on a child: the parent's row, locked last.
CommitChild(q) ==
  /\ at[q] = "summed" /\ Parent \notin LockedFor(q)
  /\ status' = [status EXCEPT ![wo[q]] = StatusIn(q, wo[q]), ![Parent] = Rolled(q)]
  /\ output' = [output EXCEPT ![wo[q]] = OutputIn(q, wo[q]), ![Parent] = seen[q].sum]
  /\ records' = [records EXCEPT ![wo[q]] = IF kind[q] = "output" THEN @ + 1 ELSE @]
  /\ End(q)
  /\ UNCHANGED hasChild

\* A faulty handler that stores the record in a transaction of its own.
RollbackKeepsRecord(q) ==
  /\ at[q] # "idle"
  /\ records' = [records EXCEPT ![wo[q]] =
                   IF Holds(q) /\ kind[q] = "output" THEN @ + 1 ELSE @]
  /\ End(q)
  /\ UNCHANGED <<status, output, hasChild>>

\* A guard, a constraint, an error or a lost client ends the transaction.
Rollback(q) ==
  /\ at[q] # "idle"
  /\ End(q)
  /\ UNCHANGED rows

-----------------------------------------------------------------------------
Next ==
  \E q \in Requests :
    \/ \E w \in WorkOrders, next \in Status : JudgeMove(q, w, next)
    \/ \E w \in WorkOrders : JudgeOutput(q, w)
    \/ JudgeSplit(q)
    \/ WriteMove(q) \/ WriteOutput(q) \/ WriteSplit(q) \/ Sum(q)
    \/ CommitMove(q) \/ CommitOutput(q) \/ CommitSplit(q) \/ CommitChild(q)
    \/ Rollback(q)

Spec == Init /\ [][Next]_vars

-----------------------------------------------------------------------------
\* One machine runs one work order, however requests interleave and even
\* while a split hands the parent's machine to its children.
MachineIsExclusive ==
  \A v, w \in WorkOrders :
    status[v] = "IN_PRODUCTION" /\ status[w] = "IN_PRODUCTION" => ~SameMachine(v, w)

\* A split parent holds no production of its own, which its children's would
\* be added to: not even when the split and a record read each other's past.
ParentHoldsNoProduction == hasChild => records[Parent] = 0

\* The counter of a work order that records production is the number of its
\* records until one is corrected: no concurrent or failed request of the
\* kinds modelled here makes the two differ.
CounterMatchesRecords ==
  \A w \in WorkOrders : ~(w = Parent /\ hasChild) => output[w] = records[w]

\* Stale or not, a roll-up never credits the parent with more than its
\* children have recorded (a correction may raise a child's counter above it).
RollUpInventsNothing ==
  hasChild => output[Parent] <= AddUp(records, Family)

\* rollUp keeps a split parent's totals equal to the sum of its children.
ParentIsSumOfChildren ==
  hasChild /\ (\A q \in Requests : at[q] = "idle") =>
    output[Parent] = AddUp(records, Family)
=============================================================================
