---------------------------- MODULE OrderDemand ----------------------------
(***************************************************************************)
(* Customer orders, the production plans that take up their demand and the *)
(* finished goods that come back.  Source: planning and production/ under  *)
(* src/apps/api/internal/modules/.                                         *)
(*                                                                         *)
(* One product, made by one process: a plan has at most one plan line and  *)
(* one work order.  Every request is a READ COMMITTED transaction.  Begin  *)
(* reads what it decides on, and of that locks only the plan and the row   *)
(* that a removal deletes; Write touches the order lines and holds them    *)
(* from then on, and is the first step of a request that reads no line;    *)
(* RefreshStatusIn locks an order, counts its lines and derives its        *)
(* status; Commit makes it all visible.                                    *)
(*                                                                         *)
(* Left out: capacity and the quantity a planner chooses for a plan line,  *)
(* changes to the lines of an order, the events published, and the shared  *)
(* locks of foreign keys, which only delay a request or end it as a        *)
(* deadlock.                                                               *)
(***************************************************************************)
EXTENDS Integers, FiniteSets, FiniteSetsExt

CONSTANTS
  Orders,
  Lines,        \* rows of customer_order_line, numbered by requested delivery date
  OrderOf,      \* [Lines -> Orders]
  Plans,
  Requests,     \* transactions that can be open at one time
  Ordered,      \* [Lines -> Nat]: the quantity ordered
  ManualLogisticsStatuses,  \* of the statuses only a human sets
  MaxWorkOrders,\* bound: the work orders generated
  MaxCancelled, \* bound: plans, orders and work orders cancelled, together
  MaxOutput,    \* bound: the largest output of a work order
  MaxLapses,    \* bound: a request begins only while there are no more lapses
  Nothing

ASSUME LinesAssumption == Lines \subseteq Nat /\ IsFiniteSet(Lines) /\ IsFiniteSet(Plans)
ASSUME OrderOfAssumption == OrderOf \in [Lines -> Orders]
ASSUME OrderedAssumption == Ordered \in [Lines -> Nat \ {0}]
ASSUME ManualAssumption == ManualLogisticsStatuses \subseteq {"READY_TO_SHIP", "SHIPPED", "COMPLETED"}
ASSUME BoundsAssumption == MaxOutput \in Nat /\ MaxLapses \in Nat /\ MaxWorkOrders \in Nat /\ MaxCancelled \in Nat

VARIABLES
  line,      \* [Lines -> row of customer_order_line]
  status,    \* [Orders -> status of the order]
  plan,      \* [Plans -> status]; DRAFT stands for every status that may be edited
  demand,    \* [Plans -> [Lines -> quantity of the row of production_plan_demand, 0 without]]
  wo,        \* [Plans -> status of the work order]; DRAFT stands for SCHEDULED too
  output,    \* [Plans -> output_quantity of the work order]
  req,       \* [Requests -> the transaction]
  overtaken, \* history: a move of a work order was written over one it had not seen
  strayed    \* history: lines with a row removed that a removal should have left alone

history == <<overtaken, strayed>>
vars == <<line, status, plan, demand, wo, output, req, history>>
table == <<line, status, plan, demand, wo, output, history>>

derivedOrder == <<"RECEIVED", "PLANNED", "IN_PRODUCTION", "PRODUCED">>
OrderStatus == {derivedOrder[i] : i \in 1..4} \cup ManualLogisticsStatuses \cup {"CANCELLED"}
WorkOrderStatus == {"NONE", "DRAFT", "CONFIRMED", "IN_PRODUCTION", "COMPLETED", "CANCELLED"}
Ops == {"add", "remove", "confirm", "cancel", "move", "refresh"}

ASSUME NothingAssumption == Nothing \notin OrderStatus \cup Ops

Free == [at |-> "free", op |-> Nothing, plan |-> Nothing, line |-> Nothing, qty |-> 0,
         from |-> Nothing, last |-> FALSE, to |-> Nothing, held |-> {}, add |-> [l \in Lines |-> 0], made |-> [l \in Lines |-> 0],
         todo |-> {}, derived |-> [o \in Orders |-> Nothing]]

TypeOK ==
  /\ line \in [Lines -> [planned : Int, produced : Nat]]
  /\ \A l \in Lines : line[l].planned <= Ordered[l]   \* ck_cust_order_line_planned, no lower bound
  /\ status \in [Orders -> OrderStatus]
  /\ plan \in [Plans -> {"DRAFT", "CONFIRMED", "CANCELLED"}]
  /\ demand \in [Plans -> [Lines -> Nat]]
  /\ wo \in [Plans -> WorkOrderStatus] /\ output \in [Plans -> 0..MaxOutput]
  /\ req \in [Requests -> [at : {"free", "begun", "written"}, op : Ops \cup {Nothing},
                           plan : Plans \cup {Nothing}, line : Lines \cup {Nothing},
                           qty : Nat, from : Plans \cup {Nothing}, last : BOOLEAN,
                           to : WorkOrderStatus \cup {Nothing},
                           held : SUBSET Lines, add : [Lines -> Int], made : [Lines -> Nat],
                           todo : SUBSET Orders, derived : [Orders -> OrderStatus \cup {Nothing}]]]
  /\ overtaken \in BOOLEAN /\ strayed \in SUBSET Lines

Init ==
  /\ line = [l \in Lines |-> [planned |-> 0, produced |-> 0]]
  /\ status = [o \in Orders |-> "RECEIVED"]
  /\ plan = [p \in Plans |-> "DRAFT"]
  /\ demand = [p \in Plans |-> [l \in Lines |-> 0]]
  /\ wo = [p \in Plans |-> "NONE"] /\ output = [p \in Plans |-> 0]
  /\ req = [q \in Requests |-> Free]
  /\ overtaken = FALSE /\ strayed = {}

-----------------------------------------------------------------------------
(* Locks                                                                    *)

\* A faulty form: the plan is read with FindByID.
PlanIsFreeUnlocked(p) == TRUE

\* FindByIDForUpdate: one request at a time works on a plan.
PlanIsFree(p) == \A q \in Requests : req[q].op \in {"add", "remove", "confirm", "cancel"} => req[q].plan # p

LineIsFree(l) == \A q \in Requests : l \notin req[q].held
OrderIsFree(o) == \A q \in Requests : req[q].derived[o] = Nothing
WorkOrderIsFree(p) == \A q \in Requests : ~(req[q].op = "move" /\ req[q].at = "written" /\ req[q].plan = p)

\* A removal deletes its row first, from whatever plan, and the plan line of
\* that row later.
Removes(q, p) == req[q].op = "remove" /\ req[q].from = p
RowIsFree(p, l) == \A q \in Requests : Removes(q, p) => req[q].line # l
PlanLineIsFree(p) == \A q \in Requests :
  req[q].at = "written" => ~Removes(q, p) /\ ~(req[q].op = "add" /\ req[q].plan = p)
PlanLineIsKept(p) == \A q \in Requests : Removes(q, p) /\ req[q].at = "written" => ~req[q].last

-----------------------------------------------------------------------------
(* Begin: what a request is judged on                                       *)

Served(p) == {l \in Lines : demand[p][l] > 0}
OrdersOf(L) == {OrderOf[l] : l \in L}
Outstanding(l) == Ordered[l] - line[l].planned

\* MaxCancelled, as a guard of every cancellation.
MayCancel == Quantify(Orders, LAMBDA o : status[o] = "CANCELLED")
             + Quantify(Plans, LAMBDA p : plan[p] = "CANCELLED")
             + Quantify(Plans, LAMBDA p : wo[p] = "CANCELLED") < MaxCancelled

\* MaxLapses, as a guard of every beginning.
Lapses == Cardinality(strayed) + (IF overtaken THEN 1 ELSE 0)
MayOpen(q) == req[q] = Free /\ Lapses <= MaxLapses

Opens(q, r) == req' = [req EXCEPT ![q] = r] /\ UNCHANGED table
Request(op, p) == [Free EXCEPT !.at = "begun", !.op = op, !.plan = p]

\* AddDemand: the plan is locked, the order and its line are not.
BeginAdd(q) ==
  /\ MayOpen(q)
  /\ \E p \in Plans, l \in Lines : \E n \in 1..Outstanding(l) :
       /\ PlanIsFree(p) /\ plan[p] = "DRAFT"
       /\ status[OrderOf[l]] # "CANCELLED"
       /\ demand[p][l] = 0
       /\ Opens(q, [Request("add", p) EXCEPT !.line = l, !.qty = n])

\* RemoveDemand locks and judges the plan p of its URL and deletes the row by
\* its id, whatever the plan it is from.
BeginRemove(q) ==
  /\ MayOpen(q)
  /\ \E p, f \in Plans : \E l \in Served(f) :
       /\ PlanIsFree(p) /\ plan[p] = "DRAFT"
       /\ RowIsFree(f, l) /\ PlanLineIsKept(f)
       /\ Opens(q, [Request("remove", p) EXCEPT !.from = f, !.line = l, !.last = (Served(f) = {l})])

\* CancelPlan lists the demand before it waits for the lines.
BeginCancel(q) ==
  /\ MayOpen(q)
  /\ \E p \in Plans :
       /\ PlanIsFree(p) /\ plan[p] # "CANCELLED" /\ MayCancel
       /\ wo[p] \notin {"IN_PRODUCTION", "COMPLETED"}
       /\ Opens(q, [Request("cancel", p) EXCEPT
            !.add = [l \in Lines |-> -demand[p][l]], !.todo = OrdersOf(Served(p))])

legalTransitions == [s \in WorkOrderStatus |->
  CASE s = "DRAFT" -> {"CONFIRMED", "CANCELLED"}
    [] s = "CONFIRMED" -> {"IN_PRODUCTION", "DRAFT", "CANCELLED"}
    [] s = "IN_PRODUCTION" -> {"COMPLETED", "CANCELLED"}
    [] OTHER -> {}]

\* A transition of the work order, judged on a status that is not locked.
BeginMove(q) ==
  /\ MayOpen(q)
  /\ \E p \in Plans : \E s \in legalTransitions[wo[p]] :
       /\ s = "CANCELLED" => MayCancel
       /\ Opens(q, [Request("move", p) EXCEPT !.to = s])

\* RefreshOrdersForPlanLine, started by every transition once it committed,
\* or by hand for one order: neither writes a line.
BeginRefresh(q) ==
  /\ MayOpen(q)
  /\ \E O \in {OrdersOf(Served(p)) : p \in Plans} \cup {{o} : o \in Orders} :
       O # {} /\ Opens(q, [Request("refresh", Nothing) EXCEPT !.at = "written", !.todo = O])

-----------------------------------------------------------------------------
(* Write: the lines                                                         *)

Sum(f, S) == MapThenSumSet(LAMBDA x : f[x], S)

\* Finished goods go to the lines the plan serves in proportion to what each
\* asked for; what rounding leaves goes to the earliest.  No line gets more
\* than it still lacks.
Shares(p, n) ==
  LET total == Sum(demand[p], Lines)
      remaining == [l \in Lines |-> Max({0, Ordered[l] - line[l].produced})]
      prorata == [l \in Lines |-> IF total = 0 THEN 0
                                  ELSE Min({(n * demand[p][l]) \div total, remaining[l]})]
      leftover == Min({n, total}) - Sum(prorata, Lines)
      room == [l \in Lines |-> IF l \in Served(p) THEN remaining[l] - prorata[l] ELSE 0]
      before(l) == Sum(room, {m \in Lines : m < l})
  IN [l \in Lines |-> prorata[l] + Min({room[l], Max({0, leftover - before(l)})})]

Writes(q, L, r) ==
  /\ \A l \in L : LineIsFree(l)
  /\ req' = [req EXCEPT ![q] = [r EXCEPT !.at = "written", !.held = L]]
  /\ UNCHANGED table

Of(l, n) == [[m \in Lines |-> 0] EXCEPT ![l] = n]

\* A faulty form: planned_quantity without ck_cust_order_line_planned.
WriteAddUnchecked(q) ==
  LET l == req[q].line
  IN  /\ req[q].at = "begun" /\ req[q].op = "add"
      /\ PlanLineIsFree(req[q].plan)
      /\ Writes(q, {l}, [req[q] EXCEPT !.add = Of(l, req[q].qty), !.todo = {OrderOf[l]}])

\* The line refuses to be planned above what was ordered.
WriteAdd(q) ==
  LET l == req[q].line
  IN  /\ req[q].at = "begun" /\ req[q].op = "add"
      /\ PlanLineIsFree(req[q].plan)
      /\ req[q].qty <= Outstanding(l)
      /\ Writes(q, {l}, [req[q] EXCEPT !.add = Of(l, req[q].qty), !.todo = {OrderOf[l]}])

\* A plan line left without rows goes, unless it has a work order; what rows
\* it got since go with it, once nobody else is removing one.
WriteRemove(q) ==
  LET l == req[q].line
      f == req[q].from
  IN  /\ req[q].at = "begun" /\ req[q].op = "remove"
      /\ PlanLineIsFree(f)
      /\ req[q].last => wo[f] = "NONE" /\ \A r \in Requests \ {q} : ~Removes(r, f)
      /\ Writes(q, {l}, [req[q] EXCEPT !.add = Of(l, -demand[f][l]), !.todo = {OrderOf[l]}])

WriteCancel(q) ==
  /\ req[q].at = "begun" /\ req[q].op = "cancel"
  /\ Writes(q, {l \in Lines : req[q].add[l] # 0}, req[q])

\* What it decides on is under the lock of the plan, but for the work order,
\* which is counted without one and left as it is.
ConfirmPlan(q, p) ==
  /\ MayOpen(q) /\ PlanIsFree(p) /\ plan[p] = "DRAFT" /\ Served(p) # {}
  /\ wo[p] \notin {"NONE", "DRAFT"}
  /\ Writes(q, {}, [Request("confirm", p) EXCEPT !.todo = OrdersOf(Served(p))])

\* The work order is locked from here on; completing it hands its output over.
WriteMove(q) ==
  LET p == req[q].plan
      made == Shares(p, output[p])
  IN  /\ req[q].at = "begun" /\ req[q].op = "move" /\ WorkOrderIsFree(p)
      /\ IF req[q].to = "COMPLETED" /\ output[p] > 0
         THEN Writes(q, Served(p), [req[q] EXCEPT !.made = made,
                                      !.todo = OrdersOf({l \in Lines : made[l] > 0})])
         ELSE Writes(q, {}, req[q])

-----------------------------------------------------------------------------
(* Refresh and Commit                                                       *)

\* What the tables hold once the request has committed; the request itself
\* sees them so before.
LineAfter(q) == [l \in Lines |-> [line[l] EXCEPT !.planned = @ + req[q].add[l],
                                                 !.produced = @ + req[q].made[l]]]
NoRow(q, p, l) == Removes(q, p) /\ (req[q].last \/ req[q].line = l)
DemandAfter(q) == IF req[q].op = "add"
                  THEN [demand EXCEPT ![req[q].plan][req[q].line] = req[q].qty]
                  ELSE [p \in Plans |-> [l \in Lines |-> IF NoRow(q, p, l) THEN 0 ELSE demand[p][l]]]
WorkOrderAfter(q) == IF req[q].op = "move" THEN [wo EXCEPT ![req[q].plan] = req[q].to] ELSE wo
PlanAfter(q) == IF req[q].op \in {"confirm", "cancel"}
                THEN [plan EXCEPT ![req[q].plan] = IF req[q].op = "confirm" THEN "CONFIRMED" ELSE "CANCELLED"]
                ELSE plan

LinesOf(o) == {l \in Lines : OrderOf[l] = o}
AllPlanned(o, rows) == LinesOf(o) # {} /\ \A l \in LinesOf(o) : rows[l].planned >= Ordered[l]
AllProduced(o, rows) == LinesOf(o) # {} /\ \A l \in LinesOf(o) : rows[l].produced >= Ordered[l]
InProduction(o, orders, rows) ==
  \E p \in Plans, l \in LinesOf(o) : orders[p] \in {"IN_PRODUCTION", "COMPLETED"} /\ rows[p][l] > 0

Position(s) == CHOOSE i \in 1..4 : derivedOrder[i] = s

\* An order moves forward only, and never on from what a human has set.
DeriveCustomerOrderStatus(current, planned, running, produced) ==
  LET candidate == IF produced THEN 4 ELSE IF running THEN 3 ELSE IF planned THEN 2 ELSE 1
  IN  IF current = "CANCELLED" \/ current \in ManualLogisticsStatuses THEN current
      ELSE derivedOrder[Max({candidate, Position(current)})]

Derived(q, o) ==
  DeriveCustomerOrderStatus(status[o], AllPlanned(o, LineAfter(q)),
    InProduction(o, WorkOrderAfter(q), DemandAfter(q)), AllProduced(o, LineAfter(q)))

\* A faulty form: the lines are counted before the order is locked.
RefreshStatusUnlocked(q, o) ==
  /\ req[q].at = "written" /\ o \in req[q].todo
  /\ req' = [req EXCEPT ![q].todo = @ \ {o}, ![q].derived[o] = Derived(q, o)]
  /\ UNCHANGED table

\* RefreshStatusIn: first the lock on the order, then its facts.
RefreshStatusIn(q, o) ==
  /\ req[q].at = "written" /\ o \in req[q].todo
  /\ OrderIsFree(o)
  /\ req' = [req EXCEPT ![q].todo = @ \ {o}, ![q].derived[o] = Derived(q, o)]
  /\ UNCHANGED table

\* A move is written by id, even if it is no longer legal.
Overtaken(q) == req[q].op = "move" /\ req[q].to \notin legalTransitions[wo[req[q].plan]]

\* What a removal should have left alone: a row of a plan that is cancelled,
\* or that somebody is about to cancel, and gives its demand back twice; and
\* the rows that went unseen with the plan line, and never give theirs back.
Strayed(q) ==
  {l \in Lines : \E f \in Plans :
     /\ demand[f][l] > 0 /\ NoRow(q, f, l)
     /\ req[q].line = l => plan[f] = "CANCELLED"
                            \/ \E r \in Requests : req[r].op = "cancel" /\ req[r].plan = f}

Commit(q) ==
  /\ req[q].at = "written" /\ req[q].todo = {}
  /\ line' = LineAfter(q) /\ demand' = DemandAfter(q)
  /\ wo' = WorkOrderAfter(q) /\ plan' = PlanAfter(q)
  /\ status' = [o \in Orders |-> IF req[q].derived[o] = Nothing THEN status[o] ELSE req[q].derived[o]]
  /\ overtaken' = (overtaken \/ Overtaken(q)) /\ strayed' = strayed \cup Strayed(q)
  /\ req' = [req EXCEPT ![q] = Free]
  /\ UNCHANGED output

\* A refusal after the reads, a constraint, a deadlock, a lost connection.
Rollback(q) == req[q] # Free /\ req' = [req EXCEPT ![q] = Free] /\ UNCHANGED table

-----------------------------------------------------------------------------
(* Requests of one step                                                     *)

\* The plan is locked while its work orders are made; one is made only once.
GenerateForPlan(p) ==
  /\ PlanIsFree(p) /\ plan[p] = "DRAFT" /\ PlanLineIsKept(p)
  /\ Served(p) # {} /\ wo[p] = "NONE"
  /\ Quantify(Plans, LAMBDA r : wo[r] # "NONE") < MaxWorkOrders
  /\ wo' = [wo EXCEPT ![p] = "DRAFT"]
  /\ UNCHANGED <<line, status, plan, demand, output, req, history>>

\* Output is accepted whatever the status of the work order.
RecordOutput(p) ==
  /\ wo[p] # "NONE" /\ WorkOrderIsFree(p) /\ output[p] < MaxOutput
  /\ output' = [output EXCEPT ![p] = @ + 1]
  /\ UNCHANGED <<line, status, plan, demand, wo, req, history>>

SetsStatus(o, s) ==
  /\ OrderIsFree(o)
  /\ status' = [status EXCEPT ![o] = s]
  /\ UNCHANGED <<line, plan, demand, wo, output, req, history>>

\* Refused while a work order runs; the demand it planned stays.
CancelOrder(o) ==
  /\ status[o] \notin {"CANCELLED", "COMPLETED", "SHIPPED"} /\ ~InProduction(o, wo, demand)
  /\ MayCancel /\ SetsStatus(o, "CANCELLED")

SetLogisticsStatus(o) ==
  \E s \in ManualLogisticsStatuses :
    /\ status[o] \in ManualLogisticsStatuses \cup {"PRODUCED"} /\ s # status[o]
    /\ SetsStatus(o, s)

Next ==
  \/ \E q \in Requests :
       \/ BeginAdd(q) \/ WriteAdd(q) \/ BeginRemove(q) \/ WriteRemove(q)
       \/ BeginCancel(q) \/ WriteCancel(q) \/ \E p \in Plans : ConfirmPlan(q, p)
       \/ BeginMove(q) \/ WriteMove(q) \/ BeginRefresh(q)
       \/ \E o \in Orders : RefreshStatusIn(q, o)
       \/ Commit(q) \/ Rollback(q)
  \/ \E p \in Plans : GenerateForPlan(p) \/ RecordOutput(p)
  \/ \E o \in Orders : CancelOrder(o) \/ SetLogisticsStatus(o)

Spec == Init /\ [][Next]_vars

-----------------------------------------------------------------------------
(* Properties                                                               *)

\* The three places that count an order line agree however requests overlap:
\* its planned quantity is what the plans that are not cancelled ask for, no
\* more is produced than was ordered, and no more than the work orders put
\* out.  Two exceptions.  A work order moved by two requests at a time may be
\* completed twice, and hands its output over twice.  And a row of demand is
\* deleted by its id, whatever the plan in the URL: the demand of a cancelled
\* plan can be given back a second time, and a row added to a plan line that
\* is being deleted is lost with it (strayed).
BooksAgree ==
  /\ \A l \in Lines :
       /\ l \in strayed \/ line[l].planned
            = Sum([p \in Plans |-> demand[p][l]], {p \in Plans : plan[p] # "CANCELLED"})
       /\ line[l].produced <= Ordered[l]
  /\ overtaken \/ Sum([l \in Lines |-> line[l].produced], Lines) <= Sum(output, Plans)

\* An order whose last line was planned has left RECEIVED, and one whose last
\* line was produced has arrived at PRODUCED, although each line is written by
\* a request that does not see the other.
StatusFollows ==
  \A o \in Orders :
    /\ AllPlanned(o, line) => status[o] # "RECEIVED"
    /\ AllProduced(o, line) => status[o] \notin {"RECEIVED", "PLANNED", "IN_PRODUCTION"}
=============================================================================
