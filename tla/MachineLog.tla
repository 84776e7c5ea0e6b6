----------------------------- MODULE MachineLog -----------------------------
(***************************************************************************)
(* The state log of one machine and the stops recorded on it.  The log:    *)
(* src/apps/api/internal/modules/machinestate/; stops and output:          *)
(* modules/shopfloor/; the work orders whose start and completion drive    *)
(* the machine: modules/production/.                                       *)
(*                                                                         *)
(* A request is one READ COMMITTED transaction.  Judge reads what it       *)
(* decides on, without a lock; Write takes the row it changes (a work      *)
(* order or a stop; it waits for a transaction that holds it), then looks  *)
(* up the machine's open state; Commit closes the row it found, appends    *)
(* the new one and makes everything visible.  Nothing locks the log and no *)
(* index allows one open row only, so the row found may be out of date.    *)
(*                                                                         *)
(* `open' holds the rows without an end.  A closed row is dropped once no  *)
(* transaction remembers it, and its id is free again.  A started_at is    *)
(* the terminal's clock for output, stops and resolutions and the server's *)
(* for moves of work orders: any element of Times, in any order.  Output   *)
(* quantities, reasons, shifts and durations are left out.  The replay of  *)
(* a stop is the conflict on its client event; that of other commands is   *)
(* ShopFloorSync's.                                                        *)
(***************************************************************************)
EXTENDS Integers, FiniteSets

CONSTANTS
  WorkOrders,   \* the work orders planned on the machine
  Stops,        \* client events that record a downtime
  OrderOf,      \* [Stops -> WorkOrders \cup {Nothing}]: a stop may name no work order
  Requests,     \* transactions that can be open at one time
  RowIds,       \* bound: rows that are open or remembered at one time
  Times,        \* bound: instants that are told apart
  Nothing       \* no row, no stop, no work order

ASSUME OrderAssumption == OrderOf \in [Stops -> WorkOrders \cup {Nothing}]
ASSUME TimesAssumption == Times \subseteq Int
ASSUME NothingAssumption ==
  Nothing \notin WorkOrders /\ Nothing \notin Stops /\ Nothing \notin RowIds

VARIABLES
  status,    \* [WorkOrders -> Status]
  stop,      \* [Stops -> what downtime_record holds]
  open,      \* rows of machine_state_log whose ended_at is null
  req,       \* [Requests -> the transaction]
  raced,     \* history: a transaction committed on an outdated open state
  outdone    \* history: stops that were active when something else was logged

vars == <<status, stop, open, req, raced, outdone>>

Status == {"CONFIRMED", "IN_PRODUCTION", "COMPLETED", "CANCELLED"}
States == {"RUNNING", "IDLE", "DOWNTIME"}
Ops == {"start", "complete", "cancel", "output", "stop", "resolve"}
Rows == [id : RowIds, state : States, started : Times]
NoStop == [status |-> "NONE", end |-> Nothing]

\* A row of downtime_record, or none: it has an end once it is resolved.
StopRecords == [status : {"NONE", "ACTIVE"}, end : {Nothing}] \cup [status : {"RESOLVED"}, end : Times]

Free == [at |-> "free", op |-> Nothing, wo |-> Nothing, stop |-> Nothing,
         time |-> Nothing, found |-> Nothing, known |-> {}]

TypeOK ==
  /\ status \in [WorkOrders -> Status]
  /\ stop \in [Stops -> StopRecords]
  /\ open \subseteq Rows
  /\ req \in [Requests ->
       [at : {"free", "judged", "written"}, op : Ops \cup {Nothing},
        wo : WorkOrders \cup {Nothing}, stop : Stops \cup {Nothing},
        time : Times \cup {Nothing}, found : Rows \cup {Nothing}, known : SUBSET Stops]]
  /\ raced \in BOOLEAN
  /\ outdone \subseteq Stops

Init ==
  /\ status = [w \in WorkOrders |-> "CONFIRMED"]
  /\ stop = [d \in Stops |-> NoStop]
  /\ open = {}
  /\ req = [q \in Requests |-> Free]
  /\ raced = FALSE
  /\ outdone = {}

Active == {d \in Stops : stop[d].status = "ACTIVE"}
Recorded == {d \in Stops : stop[d].status # "NONE"}

-----------------------------------------------------------------------------
(* Reading                                                                  *)

\* FindOpen: the newest row without an end; the query does not break ties.
Newest == {r \in open : \A s \in open : s.started <= r.started}
FindOpen == IF open = {} THEN {Nothing} ELSE Newest

Holds(q, field, x) == req[q].at = "written" /\ req[q][field] = x
LockFree(field, x) == \A q \in Requests : ~Holds(q, field, x)

\* A faulty form: completion does not count the active stops.
AllowedOverStops(op, w) ==
  \/ op = "start" /\ status[w] = "CONFIRMED"
  \/ op = "complete" /\ status[w] = "IN_PRODUCTION"
  \/ op = "cancel" /\ status[w] \in {"CONFIRMED", "IN_PRODUCTION"}

\* Evaluate, over what transitionContext counted.
Allowed(op, w) ==
  \/ op = "start" /\ status[w] = "CONFIRMED"
  \/ op = "complete" /\ status[w] = "IN_PRODUCTION" /\ \A d \in Active : OrderOf[d] # w
  \/ op = "cancel" /\ status[w] \in {"CONFIRMED", "IN_PRODUCTION"}

JudgeMove(q, op, w) ==
  /\ req[q] = Free
  /\ Allowed(op, w)
  /\ \E t \in (IF op = "cancel" THEN {Nothing} ELSE Times) :
       req' = [req EXCEPT ![q] = [Free EXCEPT !.at = "judged", !.op = op, !.wo = w, !.time = t,
                                    !.known = IF op = "complete" THEN Recorded ELSE {}]]
  /\ UNCHANGED <<status, stop, open, raced, outdone>>

\* ResolveDowntime returns early for a stop that is resolved already.  Which
\* stop: the caller names it, or the newest active one of its work order was
\* looked up in a transaction before this one.
JudgeResolve(q, d) ==
  /\ req[q] = Free
  /\ d \in Active
  /\ \E t \in Times :
       req' = [req EXCEPT ![q] = [Free EXCEPT !.at = "judged", !.op = "resolve",
                                              !.stop = d, !.time = t]]
  /\ UNCHANGED <<status, stop, open, raced, outdone>>

-----------------------------------------------------------------------------
(* Writing                                                                  *)

Looks(q, r) ==
  /\ \E row \in (IF r.op = "cancel" THEN {Nothing} ELSE FindOpen) :
       req' = [req EXCEPT ![q] = [r EXCEPT !.at = "written", !.found = row]]
  /\ UNCHANGED <<status, stop, open, raced, outdone>>

\* UpdateStatus names the row by id, whatever its status is by now.  That one
\* work order at a time is in production on a machine is WorkOrder's.
WriteMove(q) ==
  /\ req[q].at = "judged" /\ req[q].op \in {"start", "complete", "cancel"}
  /\ LockFree("wo", req[q].wo)
  /\ Looks(q, req[q])

\* The UPDATE waits for another resolution of the stop and then finds it
\* resolved: it changes no row, and the request goes on with the stored one.
WriteResolve(q) ==
  /\ req[q].at = "judged" /\ req[q].op = "resolve"
  /\ LockFree("stop", req[q].stop)
  /\ Looks(q, req[q])

\* RecordOutput: the status of the work order is not looked at; the counter's
\* UPDATE takes its row.
Output(q, w) ==
  /\ req[q] = Free
  /\ LockFree("wo", w)
  /\ \E t \in Times : Looks(q, [Free EXCEPT !.op = "output", !.wo = w, !.time = t])

\* A faulty form: the conflict updates the stored stop.
StartStopAgain(q, d) ==
  /\ req[q] = Free
  /\ LockFree("stop", d)
  /\ \E t \in Times : Looks(q, [Free EXCEPT !.op = "stop", !.stop = d, !.time = t])

\* StartDowntime: an insert that conflicts on the client event waits, and
\* then returns the stored stop.  The work order is not locked.
StartStop(q, d) ==
  /\ req[q] = Free
  /\ stop[d] = NoStop
  /\ LockFree("stop", d)
  /\ \E t \in Times : Looks(q, [Free EXCEPT !.op = "stop", !.stop = d, !.time = t])

-----------------------------------------------------------------------------
(* Transition and commit                                                    *)

Target(op) ==
  CASE op \in {"start", "output"} -> "RUNNING"
    [] op \in {"complete", "resolve"} -> "IDLE"
    [] op = "stop" -> "DOWNTIME"

UsedIds == {r.id : r \in open} \cup {req[q].found.id : q \in {p \in Requests : req[p].found # Nothing}}

\* A faulty form: the row found is left open.
TransitionAppends(found, state, time) ==
  IF found # Nothing /\ found.state = state
  THEN open' = open
  ELSE \E i \in RowIds \ UsedIds : open' = open \cup {[id |-> i, state |-> state, started |-> time]}

\* A faulty form: an entry older than the open row is not logged.
TransitionInOrder(found, state, time) ==
  IF found # Nothing /\ (found.state = state \/ time < found.started)
  THEN open' = open
  ELSE \E i \in RowIds \ UsedIds :
         open' = (open \ {found}) \cup {[id |-> i, state |-> state, started |-> time]}

\* A repeat of the open state is a no-op; otherwise the row found is closed
\* by its id, also one that somebody else has closed, and a row is appended.
Transition(found, state, time) ==
  IF found # Nothing /\ found.state = state
  THEN open' = open
  ELSE \E i \in RowIds \ UsedIds :
         open' = (open \ {found}) \cup {[id |-> i, state |-> state, started |-> time]}

Logged(q) ==
  /\ Transition(req[q].found, Target(req[q].op), req[q].time)
  /\ raced' = (raced \/ req[q].found \notin FindOpen)
  /\ outdone' = outdone \cup (IF req[q].op = "stop" THEN {} ELSE Active)

Moved(op) ==
  CASE op = "start" -> "IN_PRODUCTION" [] op = "complete" -> "COMPLETED" [] op = "cancel" -> "CANCELLED"

Ends(q) == req' = [req EXCEPT ![q] = Free]

CommitMove(q) ==
  /\ req[q].at = "written" /\ req[q].op \in {"start", "complete"}
  /\ status' = [status EXCEPT ![req[q].wo] = Moved(req[q].op)]
  /\ Logged(q) /\ Ends(q) /\ UNCHANGED stop

\* Cancelling has no effect on the machine: what it ran, it still shows.
CommitCancel(q) ==
  /\ req[q].at = "written" /\ req[q].op = "cancel"
  /\ status' = [status EXCEPT ![req[q].wo] = Moved(req[q].op)]
  /\ Ends(q) /\ UNCHANGED <<stop, open, raced, outdone>>

CommitOutput(q) ==
  /\ req[q].at = "written" /\ req[q].op = "output"
  /\ Logged(q) /\ Ends(q) /\ UNCHANGED <<status, stop>>

CommitStop(q) ==
  /\ req[q].at = "written" /\ req[q].op = "stop"
  /\ stop' = [stop EXCEPT ![req[q].stop].status = "ACTIVE"]
  /\ Logged(q) /\ Ends(q) /\ UNCHANGED status

\* A faulty form: a resolution sets the end whatever the status is.
ResolvedAnyway(d, time) == [status |-> "RESOLVED", end |-> time]

\* Resolve: UPDATE ... WHERE status = 'ACTIVE'.
Resolved(d, time) ==
  IF stop[d].status = "ACTIVE" THEN [status |-> "RESOLVED", end |-> time] ELSE stop[d]

CommitResolve(q) ==
  /\ req[q].at = "written" /\ req[q].op = "resolve"
  /\ stop' = [stop EXCEPT ![req[q].stop] = Resolved(req[q].stop, req[q].time)]
  /\ Logged(q) /\ Ends(q) /\ UNCHANGED status

\* A guard not modelled here, a lost connection or the request's deadline.
Rollback(q) ==
  /\ req[q] # Free
  /\ Ends(q)
  /\ UNCHANGED <<status, stop, open, raced, outdone>>

Next == \E q \in Requests :
  \/ \E op \in {"start", "complete", "cancel"}, w \in WorkOrders : JudgeMove(q, op, w)
  \/ \E d \in Stops : JudgeResolve(q, d) \/ StartStop(q, d)
  \/ \E w \in WorkOrders : Output(q, w)
  \/ WriteMove(q) \/ WriteResolve(q)
  \/ CommitMove(q) \/ CommitCancel(q) \/ CommitOutput(q) \/ CommitStop(q) \/ CommitResolve(q)
  \/ Rollback(q)

Spec == Init /\ [][Next]_vars

-----------------------------------------------------------------------------
(* Properties                                                               *)

\* "What is this machine doing" is the row with no end (the package's
\* comment): as long as no two transitions of the machine have overlapped,
\* there is at most one such row, and from its first entry on a machine is
\* never left without one.
OneOpenState ==
  [][~raced' => \/ open = {} /\ open' = {}
               \/ \E r \in Rows : open' = {r}]_vars

\* While a stop is active and nothing else has been logged for the machine
\* since the stop was, the machine shows as down.  Output, a start, a
\* completion or the end of another stop may each hide it.
ActiveStopShows ==
  raced \/ \A d \in Active \ outdone : \E r \in open : r.state = "DOWNTIME"

\* The end of a stop is settled once: neither a replayed nor a concurrent
\* resolution stretches the duration, and a replayed start does not reopen it.
ResolvedIsFinal ==
  [][\A d \in Stops : stop[d].status = "RESOLVED" => stop'[d] = stop[d]]_vars

\* US-020: a work order is completed over an active stop only if the stop was
\* committed after the completion had been judged.
CompletionSawNoStop ==
  [][\A w \in WorkOrders : status[w] # "COMPLETED" /\ status'[w] = "COMPLETED" =>
       \E q \in Requests : /\ req[q].op = "complete" /\ req[q].wo = w
                           /\ \A d \in req[q].known \cap Active : OrderOf[d] # w]_vars

=============================================================================
