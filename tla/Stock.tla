------------------------------- MODULE Stock -------------------------------
(***************************************************************************)
(* The stock of one material in one warehouse: material_inventory, the     *)
(* ledger that explains it, the reservations of work orders and the        *)
(* requests that move it.  Source: src/apps/api/internal/modules/material/ *)
(*                                                                         *)
(* A request is a READ COMMITTED transaction (reserving is two) in three   *)
(* steps: Begin and Check read what the request decides on, each at its    *)
(* own moment and without a lock; Commit moves the stock.  ApplyMovement   *)
(* adds its deltas to the row as it finds it, under the row's lock, so     *)
(* writers do not overwrite each other there; what they decided may be out *)
(* of date.  Nothing in the schema keeps a quantity from going below zero. *)
(*                                                                         *)
(* Quantities are small integers (NUMERIC(16,4) in the table, floats in    *)
(* the service).  available_quantity is what both writers compute from the *)
(* other three and is left out.  The ledger is kept as its number of rows  *)
(* and the balance the newest one carries.  The requirements of a work     *)
(* order are constant; exploding the BOM, MRP, units, variances and the    *)
(* events recorded afterwards are left out, and so is the warehouse.       *)
(***************************************************************************)
EXTENDS Integers, FiniteSets, FiniteSetsExt

CONSTANTS
  WorkOrders,
  Required,       \* [WorkOrders -> Nat]: what the BOM asks of the material
  Reservations,   \* set of naturals: rows of material_reservation, in the order of reserved_at
  Keys,           \* idempotency keys of consumptions
  Requests,       \* transactions that can be open at one time
  MaxStock,       \* bound: the largest quantity of a request, and of a supply
  MaxMoves,       \* bound: rows of the ledger
  Nothing

ASSUME RequiredAssumption == Required \in [WorkOrders -> Nat]
ASSUME ReservationsAssumption == Reservations \subseteq Nat /\ IsFiniteSet(Reservations)
ASSUME BoundsAssumption == MaxStock \in Nat /\ MaxMoves \in Nat

VARIABLES
  stock,      \* the row of material_inventory
  moves,      \* rows of material_transaction
  balance,    \* balance_after of the newest of them; what there was before the first
  resv,       \* [Reservations -> row of material_reservation]
  consumed,   \* keys of the rows of material_consumption
  req,        \* [Requests -> the transaction]
  history     \* what has happened that a property makes an exception for

vars == <<stock, moves, balance, resv, consumed, req, history>>

Quantities == 1..MaxStock
NoResv == [status |-> "NONE", wo |-> Nothing, qty |-> 0]
Free == [at |-> "free", op |-> Nothing, qty |-> 0, key |-> Nothing, wo |-> Nothing, res |-> Nothing,
         seen |-> 0, after |-> Nothing, full |-> {}, taken |-> 0]
Ops == {"incoming", "receive", "adjust", "settings", "reserve", "release", "consume", "override", "return"}

Rows == [onHand : Int, reserved : Int, incoming : Int]

TypeOK ==
  /\ stock \in Rows
  /\ moves \in 0..MaxMoves /\ balance \in Int
  /\ resv \in [Reservations -> [status : {"NONE", "RESERVED", "CONSUMED", "RELEASED"},
                                wo : WorkOrders \cup {Nothing}, qty : 0..MaxStock]]
  /\ consumed \subseteq Keys
  /\ req \in [Requests -> [at : {"free", "begun", "ready"}, op : Ops \cup {Nothing},
                           qty : 0..MaxStock, key : Keys \cup {Nothing},
                           wo : WorkOrders \cup {Nothing}, res : Reservations \cup {Nothing},
                           seen : Int, after : Rows \cup {Nothing},
                           full : SUBSET Reservations, taken : Nat]]
  /\ history \in [oversold : BOOLEAN, torn : BOOLEAN, overwritten : BOOLEAN]

Init ==
  /\ \E n \in 0..MaxStock :
       /\ stock = [onHand |-> n, reserved |-> 0, incoming |-> 0]
       /\ balance = n
  /\ moves = 0
  /\ resv = [r \in Reservations |-> NoResv]
  /\ consumed = {}
  /\ req = [q \in Requests |-> Free]
  /\ history = [oversold |-> FALSE, torn |-> FALSE, overwritten |-> FALSE]

table == <<stock, moves, balance, resv, consumed, history>>

-----------------------------------------------------------------------------
(* Begin and Check: what a request reads                                    *)

\* A faulty form: nobody compares the issue with the stock.
IssuableUnchecked(op, qty) == TRUE

\* RecordConsumption refuses an issue above the stock on hand, unless the
\* caller overrides it.
Issuable(op, qty) == op = "consume" => qty <= stock.onHand

Reads(q, r) == req' = [req EXCEPT ![q] = r] /\ UNCHANGED table

\* What Check has nothing to read for is ready.
After(op) == IF op \in {"settings", "reserve", "consume", "override"} THEN "begun" ELSE "ready"
Fresh(op, n) == [Free EXCEPT !.at = After(op), !.op = op, !.qty = n]

BeginSupply(q) ==
  \E op \in {"incoming", "receive"}, n \in Quantities :
    /\ req[q] = Free
    /\ stock.onHand + n <= MaxStock /\ stock.incoming + n <= MaxStock
    /\ Reads(q, [Fresh(op, n) EXCEPT !.seen = IF op = "receive" THEN stock.incoming ELSE 0])

\* AdjustInventory: a stock take.  When it finds no difference and carries
\* settings of the row, it only writes those; when it finds one, writing them
\* under the lock it holds changes no quantity.
BeginAdjust(q) ==
  \/ \E n \in 0..MaxStock :
       /\ req[q] = Free /\ n # stock.onHand
       /\ Reads(q, [Fresh("adjust", n) EXCEPT !.seen = stock.onHand])
  \/ req[q] = Free /\ Reads(q, Fresh("settings", 0))

\* A faulty form: a negative stock on hand is taken as it is.
BeginReserveUnfloored(q) ==
  \E w \in WorkOrders :
    LET n == Min({Required[w], stock.onHand, MaxStock})
    IN  /\ req[q] = Free /\ n # 0
        /\ Reads(q, [Fresh("reserve", n) EXCEPT !.wo = w])

\* ReserveForWorkOrder takes the stock on hand from the readiness check.
BeginReserve(q) ==
  \E w \in WorkOrders, n \in Quantities :
    /\ req[q] = Free
    /\ n = Min({Required[w], Max({stock.onHand, 0}), MaxStock})
    /\ Reads(q, [Fresh("reserve", n) EXCEPT !.wo = w])

BeginConsumption(q) ==
  \E op \in {"consume", "override", "return"}, n \in Quantities, k \in Keys \ consumed, w \in WorkOrders :
    /\ req[q] = Free
    /\ Issuable(op, n)
    /\ Reads(q, [Fresh(op, n) EXCEPT !.key = k, !.wo = w,
                                     !.seen = IF op = "consume" THEN stock.onHand ELSE 0])

BeginRelease(q) ==
  \E r \in Reservations :
    /\ req[q] = Free
    /\ resv[r].status = "RESERVED"
    /\ Reads(q, [Fresh("release", 0) EXCEPT !.res = r])

Held(w) == {r \in Reservations : resv[r].status = "RESERVED" /\ resv[r].wo = w}
Sum(R) == MapThenSumSet(LAMBDA r : resv[r].qty, R)

\* reservedAgainst goes through the reservations of the work order, newest
\* first, until the quantity is used up; one used up itself is CONSUMED.
Full(w, n) == {r \in Held(w) : Sum({s \in Held(w) : s >= r}) <= n}

\* A work order reserves once: an open reservation is answered as it is.
CheckReserve(q) ==
  /\ req[q].at = "begun" /\ req[q].op = "reserve"
  /\ Held(req[q].wo) = {}
  /\ Reads(q, [req[q] EXCEPT !.at = "ready"])

\* What a request for settings will write back is read once more, after the
\* difference was computed.
CheckSettings(q) ==
  /\ req[q].at = "begun" /\ req[q].op = "settings"
  /\ Reads(q, [req[q] EXCEPT !.at = "ready", !.after = stock])

CheckIssue(q) ==
  /\ req[q].at = "begun" /\ req[q].op \in {"consume", "override"}
  /\ Reads(q, [req[q] EXCEPT !.at = "ready", !.full = Full(req[q].wo, req[q].qty),
                  !.taken = Min({req[q].qty, Sum(Held(req[q].wo))})])

-----------------------------------------------------------------------------
(* Commit: what it moves                                                    *)

\* Adds to the row what it holds now, and appends to the ledger a row with the
\* balance RETURNING gives back.
ApplyMovement(on, res, inc) ==
  /\ moves < MaxMoves
  /\ moves' = moves + 1
  /\ stock' = [onHand |-> stock.onHand + on, reserved |-> stock.reserved + res,
               incoming |-> stock.incoming + inc]
  /\ balance' = stock'.onHand

Ready(q, ops) == req[q].at = "ready" /\ req[q].op \in ops
Ends(q) == req' = [req EXCEPT ![q] = Free]

\* RecordIncoming; ReceiveMaterial uses up what was scheduled when it read.
CommitSupply(q) ==
  /\ \/ Ready(q, {"incoming"}) /\ ApplyMovement(0, 0, req[q].qty)
     \/ Ready(q, {"receive"}) /\ ApplyMovement(req[q].qty, 0, -Min({req[q].qty, req[q].seen}))
  /\ Ends(q) /\ UNCHANGED <<resv, consumed, history>>

\* A stock take moves the difference from the figure that was read.
CommitAdjust(q) ==
  /\ Ready(q, {"adjust"})
  /\ ApplyMovement(req[q].qty - req[q].seen, 0, 0)
  /\ history' = [history EXCEPT !.oversold = @ \/ stock.onHand # req[q].seen]
  /\ Ends(q) /\ UNCHANGED <<resv, consumed>>

\* Without a difference nothing has locked the row: UpsertInventory writes
\* back the quantities read before, and the ledger gets no row.
CommitSettings(q) ==
  /\ Ready(q, {"settings"})
  /\ stock' = req[q].after
  /\ history' = [history EXCEPT !.overwritten = @ \/ stock # req[q].after]
  /\ Ends(q) /\ UNCHANGED <<moves, balance, resv, consumed>>

CommitReserve(q) ==
  /\ Ready(q, {"reserve"})
  /\ \E r \in Reservations :
       /\ resv[r] = NoResv /\ \A s \in Reservations : s < r => resv[s] # NoResv
       /\ resv' = [resv EXCEPT ![r] = [status |-> "RESERVED", wo |-> req[q].wo, qty |-> req[q].qty]]
  /\ ApplyMovement(0, req[q].qty, 0)
  /\ Ends(q) /\ UNCHANGED <<consumed, history>>

\* A faulty form: the reservation is released, its quantity is not.
CommitReleaseAlone(q) ==
  /\ Ready(q, {"release"})
  /\ resv' = [resv EXCEPT ![req[q].res].status = "RELEASED"]
  /\ ApplyMovement(0, 0, 0)
  /\ history' = [history EXCEPT !.torn = @ \/ resv[req[q].res].status # "RESERVED"]
  /\ Ends(q) /\ UNCHANGED consumed

\* SetReservationStatus names the row by id, whatever its status is by now.
CommitRelease(q) ==
  /\ Ready(q, {"release"})
  /\ resv' = [resv EXCEPT ![req[q].res].status = "RELEASED"]
  /\ ApplyMovement(0, -resv[req[q].res].qty, 0)
  /\ history' = [history EXCEPT !.torn = @ \/ resv[req[q].res].status # "RESERVED"]
  /\ Ends(q) /\ UNCHANGED consumed

\* A reservation used in part stays RESERVED with its whole quantity.
CommitIssue(q) ==
  /\ Ready(q, {"consume", "override"}) /\ req[q].key \notin consumed
  /\ consumed' = consumed \cup {req[q].key}
  /\ resv' = [r \in Reservations |->
       IF r \in req[q].full THEN [resv[r] EXCEPT !.status = "CONSUMED"] ELSE resv[r]]
  /\ ApplyMovement(-req[q].qty, -req[q].taken, 0)
  /\ history' = [history EXCEPT
       !.oversold = @ \/ req[q].op = "override" \/ stock.onHand # req[q].seen,
       !.torn = @ \/ req[q].taken # Sum(req[q].full)
                  \/ \E r \in req[q].full : resv[r].status # "RESERVED"]
  /\ Ends(q)

CommitReturn(q) ==
  /\ Ready(q, {"return"}) /\ req[q].key \notin consumed
  /\ consumed' = consumed \cup {req[q].key}
  /\ ApplyMovement(req[q].qty, 0, 0)
  /\ Ends(q) /\ UNCHANGED <<resv, history>>

\* A refusal after the reads (the work order holds a reservation, the key
\* was inserted meanwhile), a lost connection, the request's deadline.
Rollback(q) == req[q] # Free /\ Ends(q) /\ UNCHANGED table

Next == \E q \in Requests :
  \/ BeginSupply(q) \/ BeginAdjust(q) \/ BeginReserve(q) \/ BeginConsumption(q) \/ BeginRelease(q)
  \/ CheckReserve(q) \/ CheckSettings(q) \/ CheckIssue(q)
  \/ CommitSupply(q) \/ CommitAdjust(q) \/ CommitSettings(q)
  \/ CommitReserve(q) \/ CommitRelease(q) \/ CommitIssue(q) \/ CommitReturn(q)
  \/ Rollback(q)

Spec == Init /\ [][Next]_vars

-----------------------------------------------------------------------------
(* Properties                                                               *)

\* "Every change to material_inventory writes one [row], carrying the balance
\* it produced" (migration 027:10): the newest row has the stock on hand.  The
\* code does not keep it: settings write the row and append nothing.
LedgerCarriesBalance == stock.onHand = balance

\* The stock on hand goes below zero only through an override, or when a
\* consumption or a stock take commits on a figure that has changed since.
NotOversold == history.oversold \/ history.overwritten \/ stock.onHand >= 0

\* What is reserved is what the open reservations add up to, unless one was
\* used in part, or one was settled by two requests at a time.
ReservedAgrees ==
  \/ history.torn \/ history.overwritten
  \/ stock.reserved = Sum({r \in Reservations : resv[r].status = "RESERVED"})
=============================================================================
