# Factory Vision: specifications, model checks and proofs

TLA+ specifications of the parts of Factory Vision where several actors meet:
the planning job queue, the transactional outbox, the operator terminal's
offline queue with the endpoint that drains it, the terminal's database and its
upgrade, the work order with its split and roll-up, the machine's state log and
stops, the stock of a material, and customer orders with the plans that serve
them. Every definition is translated from the code under `src/`;
`PROJECT.json` names the lines each one stands for (`map`), the runs, the
mutants that show a property can fail, the hazards and the theorems.

## 1. Inventory

Factory Vision is a manufacturing execution system. One Go binary
(`src/apps/api`, `fv serve | worker | migrate`) talks to PostgreSQL in
READ COMMITTED transactions; operators use a PWA (`src/apps/operator`) that
works offline; planners and vendors use React consoles that only call the API.

| Component | State | Operations | Interacts with |
|---|---|---|---|
| Planning job queue, `platform/queue` | table `planning_job`; per process: `draining`, the job at hand | enqueue in the caller's transaction, claim (SKIP LOCKED), run the handler, succeed, fail/retry, drain, nudge, poll, stop | planning enqueues and nudges; API processes and `fv worker` drain it |
| Outbox and relay, `platform/outbox` | table `outbox_event`; per process: the open batch, failures to record | publish in the caller's transaction, relay pass, deliver, record failure | every module publishes; the hub subscribes |
| Terminal queue, `apps/operator/src/offline/queue.ts` | IndexedDB `commands`; in memory: the run in flight | enqueue, sync run, settle, retry by hand, prune, start | sync endpoint |
| Terminal database, `apps/operator/src/offline/db.ts`, `bootstrap.ts`, `retention.ts` | IndexedDB schema and catalogues; per page: the connection, `deferred` | start up, count, flush, upgrade or defer, cache, log out, sweep | terminal queue, other pages of the terminal |
| Sync endpoint, `modules/shopfloor` | `sync_event` (ledger), `sync_exception`, and what the commands write | SyncBatch, one handler per command type, exception filing | terminal; production, material, quality, wip |
| Work orders, `modules/production` | `work_order`, `production_record` | confirm, start, complete, cancel, record output, split, roll-up | shop floor, planning, machine log, outbox |
| Machine log and downtime, `modules/machinestate`, `shopfloor` | `machine_state_log`, `downtime_record` | transition, start and resolve a stop | work orders, output |
| Orders and plans, `modules/planning`, `production/generation.go` | orders, their lines, plans, demand links, forecasts | add and remove demand, confirm, cancel, generate work orders, propagate produced quantity, derive the order's status | job queue, work orders |
| Material and WIP, `modules/material`, `modules/wip` | inventory, movements, consumption, WIP records, transfers | receive, reserve, consume, transfer | shop floor, work orders |
| Quality, maintenance, workforce, shift, mold, master data, identity, onboarding, client management, roles, alerts, board | their own tables | create, read, update, small state machines | audit, events, outbox |
| Hub, caches, detached tasks | client buffers, cached values, slots | broadcast, load/invalidate, run | relay, every module |
| Vision service, `apps/vision` | zone status and its candidate, crowd episode, weapon windows, tracks; tables of its own | observe a frame, hold, alert, reconnect, flush every minute | camera, its own database and page |
| Circuit breaker, rate limits, tenancy, permissions | counters under a mutex | admit or refuse | every request |
| Analytics, OEE, CSV, front ends, shared packages | none that is shared | read, render | |

Hard behaviours: several processes drain one queue; a process can be killed or
told to stop between any two transactions; effects and the ledger of a command
commit separately; responses are lost and whole batches are replayed; requests
read rows without locking them and write them by id; failures are recorded
after the locks that protected the rows are gone; two pages of a terminal share
one database whose upgrade waits for every connection; a terminal's clock may be
hours behind the order in which its commands arrive. What makes each component
correct is stated by the properties of section 3; `hazards` in `PROJECT.json`
lists what is hard to test, each at its line.

## 2. Modules

| Module | What it models |
|---|---|
| `JobContract` | what the job queue promises its callers (abstract) |
| `JobQueue` | `planning_job` and the runners: one variable per column that matters, `pc[r]` for where process `r` is, one action per transaction or step of `Drain`/`RunOnce` |
| `OutboxRelay` | `outbox_event` and the relays: `locked`, `waiting`, `failed` are the rows of the open transaction, those still to deliver, and the `failures` slice |
| `ShopFloorSync` | terminal and server: `st`, `retry` are IndexedDB, `run`, `left`, `batch`, `answer` the variables of `runSync`; `req`, `todo`, `known`, `result` the requests in hand; `effects`, `stage`, `ledger`, `exc` the database |
| `WorkOrder` | a work order and the children of a split; each request is a transaction in steps: judge (reads), write (takes the row lock, meets the constraints), sum (the roll-up's reads), commit or rollback |
| `TerminalStorage` | the terminal's database and the pages that share it: `disk`, `st`, `cache` are IndexedDB, `conns` its open connections; `handle`, `deferred`, `boot`, `run` the module variables and the start-up of each page |
| `MachineLog` | the log of one machine and the stops recorded on it: `open` the rows without an end, `stop` `downtime_record`, `req` the transactions |
| `Stock` | one material in one warehouse: `stock` the row of `material_inventory`, `moves` and `balance` the rows of its ledger and the balance the newest carries, `resv` the reservations, `consumed` the idempotency keys |
| `OrderDemand` | orders, plans, demand and finished goods: `line`, `status`, `plan`, `demand`, `wo`, `output` are the tables, `req` the transactions with what they will write |
| `*Proofs` | the theorems about the module of that name |
| `MC*` | the small instances TLC checks |

Definitions whose comment calls them *faulty* are mutants: no specification
uses them. Each takes the place of the definition below it in the mutant runs.

How the code's actions correspond to the model's:

- **Claims.** `UPDATE ... WHERE id = (SELECT ... FOR UPDATE SKIP LOCKED)` is
  two steps, `ClaimLock` (the row is locked, others skip it) and `ClaimCommit`.
- **Drain.** The mutex `draining` admits one drain per process, so a process is
  one control state. A polled drain runs under the signal context (`CanQuery`),
  a nudged one under `context.Background()` and is not waited for by `Stop`.
- **Relay.** `RelayTenant` is `BeginTenant`, `Deliver` for each row in order,
  `CommitBatch`, then `RecordFailure` for each failure. The updates to
  PUBLISHED happen inside the open transaction and are invisible before it
  commits, so they are part of `CommitBatch`.
- **Terminal.** Each `await` on IndexedDB or the network is a step, so a reload
  can fall between any two. The deletion of old synced rows is part of the
  start of the page (`Reload`).
- **Sync endpoint.** Each command is decided and applied in one or two
  transactions, according to how its handler resists a replay (`Kind`).
  `Die` is a killed process or the deadline of the request.
- **Work order.** Row locks are held from the write to the commit
  (`LockedFor`). The unique index on (machine, IN_PRODUCTION) waits for an
  undecided writer (`Undecided`) and refuses when the machine is occupied
  (`Occupants`). The composite foreign key with its cascade and the CHECK on
  `production_record` are the guards of `WriteOutput` and `WriteSplit`.
- **Terminal database.** Every `await` of `prepareOperatorDb` ends a step of
  `boot`. Opening with a version waits until no other connection is left
  (`OpenV2`) and holds up every open behind it; a connection that was closed
  refuses the transactions of the sync run that still uses it (`Usable`). Each
  page has its own `deferred`, `handle` and `syncInFlight`.
- **Machine log.** `Transition` reads the open row without a lock, closes it by
  id and inserts a new one; the look (`Looks`) and the effect are two steps.
  `started_at` is the clock of the terminal for what operators record, so it is
  any element of `Times`.
- **Stock.** `ApplyMovement` is an upsert that adds deltas to the row it locks:
  one step, part of each Commit. What a request decides on is read in steps
  before, each at its own moment, as in the code.
- **Orders and plans.** A request reads (`Begin`), touches the order lines and
  holds them (`Write`), locks each order, counts its lines and derives its
  status (`RefreshStatusIn`), and commits. `PlanIsFree`, `LineIsFree`,
  `OrderIsFree` and `WorkOrderIsFree` are the row locks. Requests that lock
  first and decide on nothing else are one step.

- **Demand removed.** `RemoveDemand` locks and judges the plan of its URL and
  deletes the row by its id, whatever plan the row is from (`BeginRemove` has a
  plan `p` and a plan `f`); `WriteRemove` deletes the plan line that is left
  without rows, and by ON DELETE CASCADE the rows it got since (`NoRow`).

`raced`, `outdone`, `history`, `overtaken` and `strayed` are history variables.
Each records that something happened which the code does not prevent, and which
a property therefore makes an exception for: those properties do not catch that
case, and what they say without the exception is false. The notes of the hazards
say what each still catches, section 5 lists the cases:

| Variable | The exception | Property |
|---|---|---|
| `raced` | a transition committed on an open row that was outdated | `OneOpenState`, `ActiveStopShows` |
| `outdone` | something was logged while a stop was active | `ActiveStopShows` |
| `req[q].known` | a stop committed after the completion was judged | `CompletionSawNoStop` |
| `history.oversold` | an override, or a commit on a stock figure that had changed | `NotOversold` |
| `history.torn` | a reservation used in part, or settled by two requests | `ReservedAgrees` |
| `history.overwritten` | settings overwrote a movement (run `StockLedger`) | `NotOversold`, `ReservedAgrees` |
| `overtaken` | a work order moved by two requests at a time | `BooksAgree`, the last conjunct |
| `strayed` | lines with a row removed that belonged to a plan cancelled or being cancelled, or that went unseen with its plan line | `BooksAgree`, the first conjunct of those lines |

## 3. Runs

| Run | Instance | Shows |
|---|---|---|
| `JobQueue` | 2 processes, 2 jobs (1 and 2 attempts, one unhandled by one process), batch 2, 2 faults | `ClaimIsExclusive`, `VerdictIsTrue`, `SettledIsFinal`, `WaitingIsSettled`, refinement of `JobContract` |
| `OutboxRelay` | 2 relays, 2 tenants, 3 events, batch 2, 2 attempts, 1 fault | `BatchesAreDisjoint`, `PublishedWasHeard`, `FailedIsFinal`, `EveryEventEnds` |
| `ShopFloorSync` | 2 commands in 4 workloads that cover every kind, 2 requests, batch 2, 2 retries, 2 faults, 1 retry by hand | `AppliedAtMostOnce`, `NoSilentLoss`, `LedgerIsTrue`, `WaitingIsSettled` |
| `WorkOrder` | parent and 2 children on one machine, 2 requests, 1 record each | `MachineIsExclusive`, `ParentHoldsNoProduction`, `CounterMatchesRecords`, `RollUpInventsNothing` |
| `TerminalStorage` | 2 pages, 1 command, a terminal that has no database, version 1 or version 2, 2 page loads | `NoSelfBlock`, `DeferredStillRecords`, `CountedFirst`, `QueueSurvives`, `BootEnds`, `OldCacheGoes` |
| `MachineLog` | 1 work order, a stop of it and a stop of none, 2 requests, 2 instants, 3 row ids | `OneOpenState`, `ActiveStopShows`, `ResolvedIsFinal`, `CompletionSawNoStop` |
| `Stock` | stock of at most 2, 1 work order that needs 2, 2 reservations, 2 keys, 2 requests, 3 movements | `NotOversold`, `ReservedAgrees` |
| `OrderDemand` | 1 order of 2 lines of 1 piece, 2 plans, 2 requests, 1 work order with an output of at most 2, 1 cancellation, no request begun after a lapse | `BooksAgree`, `StatusFollows` |
| `JobRestart`, `TerminalReload`, `StockLedger`, `WorkOrderRollUp` | as the run of the same module | a statement of the code's own comments that the code does not keep (section 5) |

Why the bounds are enough: each hazard needs at most two actors and one or two
faults (a lost response and a replay; a late failure and a second relay; two
stale readers). Two jobs, commands or children are what is needed for one to
overtake or starve another; two attempts or retries are the least for which
the first, the last and one past the last differ; a batch of two is smaller
than the events of one pass and large enough for a batch to be partly
delivered. Two pages are what it takes for one to hold the connection the
upgrade of the other waits for; two stops for one to end while the other goes
on; two instants for an arrival out of order; two lines of an order for each to
be the last; a stock of two for a reservation to be used in part. `MaxFaults`,
`MaxTaps`, `MaxOutput`, `MaxLoads`, `MaxStock`, `MaxMoves`, `MaxWorkOrders`,
`MaxCancelled`, `MaxLapses` and the numbers of `Slots` and `RowIds` bound the
model, not the code. An order stays open after the bound on work orders is
reached, so a second plan serves it without producing for it. With `MaxLapses`
of 0 the requests that are open when a line strays or a work order is overtaken
go on to their end, in every order, and no new one begins; what holds beyond
that is the theorem's to say.

Where a run names a symmetry (`MachineLog`, `Stock`, `OrderDemand`) it permutes
requests, keys, row ids or plans, which no definition tells apart, and the run
checks safety only. Lines, stops and reservations are told apart (their order,
their work order) and are not permuted.

`CHECK_DEADLOCK FALSE` is used where the system may come to rest: no event,
command or request left. The job queue never rests, its ticker fires for ever.

Fairness, and why the code justifies it:

- `JobQueue`: weak fairness of polling, of the steps of a drain, of exit after
  a signal and of restart. A ticker drives `Drain`; handlers are assumed to
  return; the container's restart policy starts a process again. Handlers are
  free to fail every time, faults are never fair and never forced.
- `OutboxRelay`: weak fairness of the steps of each relay (its ticker).
- `ShopFloorSync`: weak fairness of the terminal as a whole (the 15 s sweep,
  the online event, enqueue) and of each request. That the connection comes
  back is part of it: a terminal that is offline for ever settles nothing.
- `TerminalStorage`: weak fairness of the start-up and of the sync run of each
  page (promises resolve, fetches end or fail) and of the daily sweep (a timer).
  Nothing makes an operator act, a page load or close, or a request succeed.
- `WorkOrder`, `MachineLog`, `Stock` and `OrderDemand` state safety only.

## 4. Proofs

Checked by TLAPS for every value of the constants that the assumptions of the
modules allow: any number of jobs, processes, events, relays, tenants, commands,
pages, requests, children, machines, stops, instants, reservations, plans, lines
and quantities. Every invariant and every safety action property that a passing
run checks is a theorem, and so is the refinement of `JobContract`. Each `*Proofs`
module has the same shape: an inductive invariant `IInv`, a lemma for the initial
states, lemmas for the actions, and the theorems, `TypeCorrect` among them.

- `JobQueueProofs`. The inductive invariant adds to the types: a process that
  works on a job finds it RUNNING; a process that holds a claim finds it
  PENDING and nobody else holds it; how many successful runs each control
  state implies. From it: `ClaimsAreExclusive`, `VerdictsAreTrue`, that every
  step is a step of `JobContract` or stutters (`JobQueueImplementsContract`),
  and `SettledStaysSettled`. Neither of the two invariants is inductive alone:
  exclusion needs to know the status of the rows held, verdicts need exclusion.
- `OutboxRelayProofs`. The invariant says that a locked row is PENDING, that
  batches are disjoint, and that what a relay has taken from `waiting` and not
  put in `failed` was heard. From it: `OpenBatchesAreDisjoint`,
  `PublishedEventsWereHeard`, `FailedStaysFailed`.
- `ShopFloorSyncProofs`. The two ends of the connection agree although the
  answer can be lost and the batch sent again: what a request has applied or
  found done is in the ledger (`OutcomesAreTrue`), every command of the batch is
  still in the terminal's request or has its outcome there (`RequestIsKept`),
  an answer of APPLIED is true when it is settled (`AnswerIsTrue`), and the
  terminal knows where its run is (`RunIsKnown`). From it: `ReplayIsHarmless`,
  `NothingIsLost`, `LedgerTellsTheTruth`. A request that was given up still
  runs, which is why the outcomes are about every slot and the rest about the
  terminal's own.
- `TerminalStorageProofs`. A connection of the old version is the one its page
  holds (`HandlesAreTrue`); only a page that counted asks for version 2 of a
  version 1 database (`CountedOrNew`); nothing is queued where there is no queue
  (`QueueIsSomewhere`); and a page that deferred keeps its connection
  (`DeferredIsConnected`). From it: `TabsDoNotBlockThemselves`,
  `DeferredTabsRecord`, `UpgradeWasCounted`, `UpgradeKeepsTheQueue`.
- `WorkOrderProofs`. The invariant says that row locks exclude each other, and
  that what a constraint established when a row was written (no children for a
  record on the parent, no records for a split, a free machine for a start)
  stays true until the transaction ends, because whoever could change it needs
  the same lock or meets the same index. From it: `MachinesAreExclusive`,
  `SplitParentsHoldNothing` and `ProductionIsCountedOnce`. A roll-up waits for
  the parent's row with a sum it read before; the sum stays covered by the
  records and the one the transaction is about to store, since records and the
  family only grow (`Backed`). From it: `RollUpsAreBacked`.
- `MachineLogProofs`. The invariant adds to the types: a transaction
  carries what its operation needs (`WellFormed`); the stops a completion knew
  of when it was judged are over (`KnownAreOver`), and they stay so because a
  resolved stop is never reopened; a stop that is being inserted does not exist
  yet and one transaction inserts it (`InsertIsNew`); and, unless transitions
  raced, at most one row is open (`SingleState`). `ActiveStopShows` needs the
  last: the row a transition leaves must be the only one, or a row left behind
  would hide the stop. From it: `OneStateIsOpen`, `StopsShow`, `StopsEndOnce`,
  `CompletionIsClear`.
- `StockProofs`. The properties are inductive once the invariant says what
  an open request remembers (`Remembers`): the figure of a consumption that was
  let through without an override covers its quantity, a return or a
  consumption has its key and a release its reservation, and settings hold a
  whole row. From it: `StockIsThere`, and `ReservationsAddUp`, for which each
  commit is shown to change the sum of the open reservations by what it changes
  `reserved`.
- `OrderDemandProofs`. The locks of lines, orders, plans, work orders and deleted
  rows exclude each other (`LocksExclude`); what a request has at each stage
  (`Stage`); and what its locks keep true until it commits: of the plan and the
  row it deletes (`PlanStands`), of what it adds to each line, which still fits,
  is on a line it holds and is what the rows say (`LinesStand`, `AddsRight`: a
  cancellation gives back what it read even where a row has strayed since), of the output it hands over (`OutputStands`) and of the status
  it derived (`StatusStands`): that was derived from the lines as they will be,
  because whoever changes a line of the order must have the order too.
  `HandedOver` says that lines were credited with no more than completed work
  orders put out. The shares of an output, handed to the lines in the order of
  the demand, add up to no more than it (`SharesFit`). From it: `TheBooksAgree`
  and `TheStatusFollows`. Neither is inductive without the locks: a status is
  derived one step and several lock waits before it is written.

Sums. `MapThenSumSet` takes the elements in an order of its own, and the
induction theorems of the library are out of the provers' reach. So the three
modules with a sum show that some function adds up in every order
(`AdditiveExists`: one that does so over all elements but `x` is extended to `x`),
that the fold is that function (`SumIs`, `SumIsAdditive`), and what follows for
sets and terms that differ in one element. Where this needs induction over finite
sets, the proof takes a smallest counterexample (`Smallest`, from the
well-foundedness of the subsets of a finite set). The lemmas stand in each of
the three modules, for its own summation.

The assumptions are the named ASSUMEs of the modules; TLC evaluates them in
the runs.

Only model-checked: liveness (`WaitingIsSettled` of the queue and of the
terminal, `EveryEventEnds`, `BootEnds`, `OldCacheGoes`), which the provers do
not reach, and the four statements of section 5, which TLC refutes.

## 5. What the runs refute

Each is a `finding` in `PROJECT.json` with the lines.

1. `JobRestart`: a job whose process dies while it is RUNNING is never taken
   again; migration 016 chose a table so that "the job survives a restart".
2. `TerminalReload`: a page closed while commands are SYNCING strands them.
3. `StockLedger`: migration 027 says that every change to `material_inventory`
   writes a row of the ledger "carrying the balance it produced". Settings saved
   without a stock difference write back the quantities they read
   (`service.go:186`): a movement in between is undone, and no row says so.
4. `WorkOrderRollUp`: two concurrent changes of two children leave the parent
   with an outdated sum.

Seen while modelling, not checked: RECORD_WIP has no idempotency key
(`wip/service.go:80`), although `shopfloor/service.go:807` says that each
improvement command has its own, so a replay after a lost ledger entry writes it
twice (the kind `UNKEYED` of `ShopFloorSync`, which `AppliedAtMostOnce` excepts);
two approvers of a correction both apply it, since its status is read
without a lock and updated by id (`correction.go:310`), and one whose second
transaction fails stays APPROVED without being applied, or applied without
being stamped; a job without a handler is meant not to be
retried (`queue.go:244`) but `Fail` returns it to PENDING while attempts
remain; a fully transferred TRANSFER_WIP that is replayed is refused as
exceeding the quantity left, since that is judged before the key is looked up;
a handler's panic is not recovered although "the loop never panics out"; the
header of `cmd/fv/main.go` says that `fv worker` runs the relay, its
code says that it does not; two splits may both pass `AssertSplittable`; parts
of a split are added as floats and truncated one by one; a roll-up completes a
parent that was cancelled; the roll-up of a child that was split itself does
not reach its grandparent.

By part:

- Outbox. A failure is recorded after the locks are gone, by id: it can turn the
  PUBLISHED of another relay back to PENDING, which delivers the event again.
- Terminal database. The start-up closes the connection a first sync run works
  on (`db.ts:146`), which leaves its rows SYNCING, as a reload does. Another page
  may record between the count and the upgrade; nothing is lost, since the
  upgrade only adds stores. A fetch in flight at logout fills the cache again;
  a session that cannot be restored clears the sign-in and not the cache.
  `retention.ts:15` says of both its rules that they refuse to run while the
  queue holds anything; `purgeExpiredCache` does not look. A page that deferred
  blocks the upgrade of another; one FAILED command defers it on every start.
- Machine log. Two transitions that overlap leave two open rows. Late commands
  are logged in the order of their arrival. Resolving one stop shows IDLE while
  another is active; cancelling a running work order leaves its machine RUNNING;
  output is accepted on a completed work order; the terminal's resume sends the
  id of the work order as that of the stop and is answered NotFound.
- Stock. The check of a consumption reads without a lock (`service.go:713`).
  A reservation used in
  part stays RESERVED for all of it; a release and a consumption that meet
  settle it twice; two requests may reserve for one work order twice; receipts
  that overlap make what is incoming negative.
- Orders and plans. What an order line still lacks is read without a lock; that
  it is not planned twice is the CHECK of migration 006. A work order moved to
  COMPLETED by two requests hands its output over twice. Cancelling a plan
  counts work orders without a lock and leaves them: one of them can start and
  produce. `RemoveDemand` deletes by the id of the row through the URL of any
  editable plan (`plan.go:638`): a confirmed plan loses demand, the demand of a
  cancelled plan, which keeps its rows, is given back a second time and
  `planned_quantity` may fall below zero. Two requests on one plan line through
  two plans can delete a row that the other has just added (migration 007:97).
  `UpdatePlanLine` judges the plan in an earlier transaction, so a confirmed plan
  can change (`plan.go:373`: a confirmed plan is a commitment). `UpdateLine`
  lowers what is ordered without deriving the status again. Two plans that add
  demand of one order can each hold its key and wait for its lock, and
  PostgreSQL ends one of them.

## 6. Plan

Done: the eight components above with their runs, and the proofs of all their
safety properties.

Next:

1. Proofs of the steps that liveness rests on and that need no fairness: a
   sync run that is waiting is answered or fails, and no relay or process is
   left without a next step of its own.
2. The promise that spans two components: a command the terminal has cleared is
   counted once by the work order it is about.
3. Further models, should the code change there: the hand-over of WIP (a transfer
   takes what another already took), batches and a second split in `WorkOrder`,
   the planned quantities and capacity of `OrderDemand`.

## 7. Not modelled, and why

Analytics, OEE, reports and CSV only read. The front ends, by far the most lines
of the repository, are JSX that renders what the API returns, forms and a typed
client with one method per endpoint; what they keep that outlives a page is the
terminal's queue and database, which are modelled. The vision
service's detection is a neural network. The HTTP
layer, configuration, storage, tracing and the migration runner are plumbing.
Master data, maintenance, workforce, onboarding, client management, roles and
alerts are validation of single rows with little that two actors share. The hub
drops messages by design and its clients refetch. In what is modelled, time is
left out: `queuedAt`, `enqueued_at` and `occurred_at` are the numbers of the
commands, jobs and events, and retention is a choice that `Reload` makes.
`RESOLVE_DOWNTIME` is modelled for a stop that only its own command resolves;
a stop that another command resolved first is answered APPLIED without an
effect or a ledger entry of its own.

Left out of modelled components: the hand-over of WIP and the material
requirements planning; batches, holds, planner edits and deletions of work
orders; corrections, which move the counters of a work order and leave its
records, so that `CounterMatchesRecords` and `RollUpInventsNothing` hold only
until one is applied; capacity, forecasts, the quantity a planner chooses,
changes to the lines of an order and routings of several processes (a plan makes
one work order of one product); the reasons, shifts, operators and quantities of stops and output
in `MachineLog`; units, prices and several warehouses in `Stock`.
