--------------------------- MODULE ShopFloorSync ---------------------------
(***************************************************************************)
(* A shop-floor terminal's offline queue and the server that applies it.   *)
(* Terminal: src/apps/operator/src/offline/queue.ts.  Server: SyncBatch of *)
(* src/apps/api/internal/modules/shopfloor/service.go.                     *)
(*                                                                         *)
(* The terminal writes every command to IndexedDB first (st, retry), and   *)
(* one sync run at a time marks a batch, sends it and settles each command *)
(* by the outcome the server reports.  The server applies the commands of  *)
(* a request one after the other, each in transactions of its own, and     *)
(* keeps a ledger (sync_event) of the ones it applied.  The page may be    *)
(* reloaded, the connection lost while the server goes on, a request die   *)
(* half way, a query fail: a second request then meets the first.          *)
(***************************************************************************)
EXTENDS Integers, FiniteSets

CONSTANTS
  Commands,    \* commands, numbered by queuedAt
  Workloads,   \* SUBSET [Commands -> Kind]: what the operator may queue
  Slots,       \* bound: requests the server has in hand at one time
  NoSlot,
  BatchSize,   \* 25 in the code
  MaxRetries,  \* 5 in the code
  MaxFaults,   \* bound: reloads, lost connections, deaths, query errors
  MaxTaps      \* bound: uses of "coba lagi"

(***************************************************************************)
(* The commands by how their handler protects itself from a replay:        *)
(*   OWN      RECORD_OUTPUT, RECORD_DOWNTIME, and RESOLVE_DOWNTIME of a    *)
(*            stop that nobody else resolves: effect and ledger entry in   *)
(*            one transaction, a replay finds its effect                   *)
(*   KEYED    RECORD_CONSUMPTION, RECORD_INSPECTION: the effect carries    *)
(*            the clientEventId under a unique index                       *)
(*   TRANSFER TRANSFER_WIP of all there is: keyed too, but the quantity    *)
(*            left is validated before the key is looked up                *)
(*   MOVE     CONFIRM_WO, START_WO, COMPLETE_WO: the nth MOVE takes the    *)
(*            work order from stage n - 1 to n                             *)
(*   UNKEYED  RECORD_WIP: the effect carries no key                        *)
(*   ACK      PAUSE_WO, RESUME_WO: no effect but the ledger entry          *)
(*   INVALID  any command the server's validation refuses for good         *)
(***************************************************************************)
Kind == {"OWN", "KEYED", "TRANSFER", "MOVE", "UNKEYED", "ACK", "INVALID"}

ASSUME CommandsAssumption == Commands \subseteq Nat
ASSUME WorkloadsAssumption == Workloads \subseteq [Commands -> Kind]
ASSUME SlotsAssumption == Slots \subseteq Nat /\ NoSlot \notin Slots
ASSUME BoundsAssumption ==
  BatchSize \in Nat \ {0} /\ MaxRetries \in Nat \ {0} /\ MaxFaults \in Nat /\ MaxTaps \in Nat

VARIABLES
  kind,      \* [Commands -> Kind], fixed
  st,        \* [Commands -> Status]: IndexedDB
  retry,     \* [Commands -> Nat]: retryCount
  run,       \* what the terminal's sync run is doing
  left,      \* commands of the batch it has still to mark or settle
  batch,     \* commands of the run
  slot,      \* the request it waits for
  answer,    \* [Commands -> Outcome]: the response it settles by
  req,       \* [Slots -> Stage of the server's work on the request]
  todo,      \* [Slots -> SUBSET Commands]: commands left in the request
  known,     \* [Slots -> SUBSET Commands]: the ledger as read at its start
  result,    \* [Slots -> [Commands -> Outcome]]
  effects,   \* [Commands -> Nat]: times the command changed the database
  stage,     \* moves the work order has made
  ledger,    \* commands in sync_event
  exc,       \* [Commands -> {"NONE", "OPEN", "RESOLVED"}]: sync_exception
  faults,
  taps

terminal == <<st, retry, run, left, batch, slot, answer>>
requests == <<req, todo, known, result>>
server == <<effects, stage, ledger, exc>>
bounds == <<faults, taps>>
vars == <<kind, st, retry, run, left, batch, slot, answer,
          req, todo, known, result, effects, stage, ledger, exc, faults, taps>>

Status == {"NEW", "PENDING", "SYNCING", "SYNCED", "FAILED", "PRUNED"}
Outcome == {"NONE", "APPLIED", "DUPLICATE", "RETRY", "REFUSED"}
Running == {"idle", "marking", "waiting", "settling", "failing"}
Serving == {"free", "sent", "next", "write", "mark", "close", "file"}

TypeOK ==
  /\ kind \in Workloads
  /\ st \in [Commands -> Status]
  /\ retry \in [Commands -> 0..MaxRetries]
  /\ run \in Running
  /\ left \subseteq batch /\ batch \subseteq Commands
  /\ slot \in Slots \cup {NoSlot}
  /\ answer \in [Commands -> Outcome]
  /\ req \in [Slots -> Serving]
  /\ todo \in [Slots -> SUBSET Commands]
  /\ known \in [Slots -> SUBSET Commands]
  /\ result \in [Slots -> [Commands -> Outcome]]
  /\ effects \in [Commands -> Nat]
  /\ stage \in Nat
  /\ ledger \subseteq Commands
  /\ exc \in [Commands -> {"NONE", "OPEN", "RESOLVED"}]
  /\ faults \in 0..MaxFaults
  /\ taps \in 0..MaxTaps

NoAnswer == [c \in Commands |-> "NONE"]

Init ==
  /\ kind \in Workloads
  /\ st = [c \in Commands |-> "NEW"]
  /\ retry = [c \in Commands |-> 0]
  /\ run = "idle" /\ left = {} /\ batch = {} /\ slot = NoSlot
  /\ answer = NoAnswer
  /\ req = [s \in Slots |-> "free"]
  /\ todo = [s \in Slots |-> {}]
  /\ known = [s \in Slots |-> {}]
  /\ result = [s \in Slots |-> NoAnswer]
  /\ effects = [c \in Commands |-> 0]
  /\ stage = 0
  /\ ledger = {}
  /\ exc = [c \in Commands |-> "NONE"]
  /\ faults = 0 /\ taps = 0

Oldest(C, c) == c \in C /\ \A d \in C : c <= d

Fault == faults < MaxFaults /\ faults' = faults + 1 /\ UNCHANGED taps

-----------------------------------------------------------------------------
(* The terminal                                                            *)

Enqueue(c) ==
  /\ Oldest({d \in Commands : st[d] = "NEW"}, c)
  /\ st' = [st EXCEPT ![c] = "PENDING"]
  /\ UNCHANGED <<kind, retry, run, left, batch, slot, answer, requests, server, bounds>>

Waiting == {c \in Commands : st[c] = "PENDING"}

\* FIFO, BATCH_SIZE at a time.
NextBatch == {c \in Waiting : Cardinality({d \in Waiting : d < c}) < BatchSize}

StartRun ==
  /\ run = "idle" /\ Waiting # {}
  /\ run' = "marking"
  /\ batch' = NextBatch /\ left' = NextBatch
  /\ UNCHANGED <<kind, st, retry, slot, answer, requests, server, bounds>>

Mark(c) ==
  /\ run = "marking" /\ Oldest(left, c)
  /\ st' = [st EXCEPT ![c] = "SYNCING"]
  /\ left' = left \ {c}
  /\ UNCHANGED <<kind, retry, run, batch, slot, answer, requests, server, bounds>>

Send(s) ==
  /\ run = "marking" /\ left = {}
  /\ Oldest({q \in Slots : req[q] = "free"}, s)
  /\ run' = "waiting" /\ slot' = s
  /\ req' = [req EXCEPT ![s] = "sent"]
  /\ todo' = [todo EXCEPT ![s] = batch]
  /\ UNCHANGED <<kind, st, retry, left, batch, answer, known, result, server, bounds>>

\* Faulty settlements: a command refused is taken for synced, or the retries
\* that the server asks for are not limited.
SettledAnyway(c) ==
  IF answer[c] = "RETRY" /\ retry[c] + 1 < MaxRetries THEN "PENDING" ELSE "SYNCED"

SettledUnlimited(c) ==
  CASE answer[c] \in {"NONE", "APPLIED", "DUPLICATE"} -> "SYNCED"
    [] answer[c] = "RETRY" -> "PENDING"
    [] OTHER -> "FAILED"

\* The response is read; no outcome for a command counts as applied.
Settled(c) ==
  CASE answer[c] \in {"NONE", "APPLIED", "DUPLICATE"} -> "SYNCED"
    [] answer[c] = "RETRY" /\ retry[c] + 1 < MaxRetries -> "PENDING"
    [] OTHER -> "FAILED"

Settle(c) ==
  /\ run = "settling" /\ Oldest(left, c)
  /\ st' = [st EXCEPT ![c] = Settled(c)]
  /\ retry' = [retry EXCEPT ![c] = IF Settled(c) = "PENDING" THEN @ + 1 ELSE @]
  /\ left' = left \ {c}
  /\ UNCHANGED <<kind, run, batch, slot, answer, requests, server, bounds>>

\* No response: every command of the batch pays with a retry.
SettleFailure(c) ==
  /\ run = "failing" /\ Oldest(left, c)
  /\ retry' = [retry EXCEPT ![c] = @ + 1]
  /\ st' = [st EXCEPT ![c] = IF retry[c] + 1 >= MaxRetries THEN "FAILED" ELSE "PENDING"]
  /\ left' = left \ {c}
  /\ UNCHANGED <<kind, run, batch, slot, answer, requests, server, bounds>>

\* The memory of a run that is over, or that the page lost.
Forget ==
  /\ run' = "idle" /\ left' = {} /\ batch' = {} /\ slot' = NoSlot
  /\ answer' = NoAnswer

\* A faulty end, which an exception bypasses: no `finally'.
EndRunIfAnswered ==
  /\ run = "settling" /\ left = {}
  /\ Forget
  /\ UNCHANGED <<kind, st, retry, requests, server, bounds>>

EndRun ==
  /\ run \in {"settling", "failing"} /\ left = {}
  /\ Forget
  /\ UNCHANGED <<kind, st, retry, requests, server, bounds>>

\* The page is reloaded: IndexedDB stays as it is, but for the synced commands
\* a day old, which the start of the engine deletes.
Reload ==
  /\ Fault
  /\ \E P \in SUBSET {c \in Commands : st[c] = "SYNCED"} :
       st' = [c \in Commands |-> IF c \in P THEN "PRUNED" ELSE st[c]]
  /\ Forget
  /\ UNCHANGED <<kind, retry, requests, server>>

RetryFailed ==
  /\ taps < MaxTaps /\ \E c \in Commands : st[c] = "FAILED"
  /\ taps' = taps + 1
  /\ st' = [c \in Commands |-> IF st[c] = "FAILED" THEN "PENDING" ELSE st[c]]
  /\ retry' = [c \in Commands |-> IF st[c] = "FAILED" THEN 0 ELSE retry[c]]
  /\ UNCHANGED <<kind, run, left, batch, slot, answer, requests, server, faults>>

-----------------------------------------------------------------------------
(* The server                                                              *)

ReadLedger(s) ==
  /\ req[s] = "sent"
  /\ known' = [known EXCEPT ![s] = ledger \cap todo[s]]
  /\ req' = [req EXCEPT ![s] = "next"]
  /\ UNCHANGED <<kind, terminal, todo, result, server, bounds>>

At(s, c, step) == req[s] = step /\ Oldest(todo[s], c)

\* Request s decides the outcome of c, and goes on to what follows.
Decide(s, c, outcome, step) ==
  /\ result' = [result EXCEPT ![s][c] = outcome]
  /\ req' = [req EXCEPT ![s] = step]
  /\ UNCHANGED <<todo, known>>

Goto(s, step) ==
  /\ req' = [req EXCEPT ![s] = step]
  /\ UNCHANGED <<todo, known, result>>

NextCommand(s, c) ==
  /\ todo' = [todo EXCEPT ![s] = @ \ {c}]
  /\ req' = [req EXCEPT ![s] = "next"]
  /\ UNCHANGED known

Duplicate(s, c) ==
  /\ At(s, c, "next") /\ c \in known[s]
  /\ result' = [result EXCEPT ![s][c] = "DUPLICATE"]
  /\ NextCommand(s, c)
  /\ UNCHANGED <<kind, terminal, server, bounds>>

\* The stage a MOVE leads to.
Target(c) == Cardinality({d \in Commands : kind[d] = "MOVE" /\ d <= c})

\* The command is refused, for good or (INVALID_STATE, CONFLICT) for now.
Refuse(s, c) ==
  /\ c \notin known[s]
  /\ \/ /\ At(s, c, "next")
        /\ kind[c] = "INVALID" \/ (kind[c] = "TRANSFER" /\ effects[c] > 0)
        /\ Decide(s, c, "REFUSED", "file")
     \/ /\ At(s, c, "next")
        /\ kind[c] = "MOVE" /\ stage # Target(c) - 1
        /\ Decide(s, c, "RETRY", "file")
     \/ /\ At(s, c, "write")
        /\ kind[c] \in {"KEYED", "TRANSFER"} /\ effects[c] > 0
        /\ Decide(s, c, "RETRY", "file")
  /\ UNCHANGED <<kind, terminal, server, bounds>>

\* A faulty handler that enters the ledger before it writes.
JudgeMarksFirst(s, c) ==
  /\ At(s, c, "next") /\ c \notin known[s]
  /\ \/ kind[c] = "MOVE" /\ stage = Target(c) - 1 /\ Goto(s, "write")
     \/ kind[c] \in {"KEYED", "TRANSFER", "ACK"} /\ Goto(s, "mark")
  /\ UNCHANGED <<kind, terminal, server, bounds>>

\* The handler's reads: nothing stands against the command.
Judge(s, c) ==
  /\ At(s, c, "next") /\ c \notin known[s]
  /\ \/ kind[c] \in {"KEYED", "TRANSFER"} /\ effects[c] = 0 /\ Goto(s, "write")
     \/ kind[c] = "MOVE" /\ stage = Target(c) - 1 /\ Goto(s, "write")
     \/ kind[c] = "KEYED" /\ effects[c] > 0 /\ Goto(s, "mark")
     \/ kind[c] = "ACK" /\ Goto(s, "mark")
  /\ UNCHANGED <<kind, terminal, server, bounds>>

\* RECORD_OUTPUT and the like: ON CONFLICT DO NOTHING, then the ledger.
ApplyOwn(s, c) ==
  /\ At(s, c, "next") /\ c \notin known[s] /\ kind[c] = "OWN"
  /\ IF effects[c] = 0
       THEN effects' = [effects EXCEPT ![c] = 1] /\ ledger' = ledger \cup {c}
       ELSE UNCHANGED <<effects, ledger>>
  /\ Decide(s, c, "APPLIED", "close")
  /\ UNCHANGED <<kind, terminal, stage, exc, bounds>>

\* A faulty write: the unique index on the idempotency key is missing.
WriteUnindexed(s, c) ==
  /\ \/ At(s, c, "write") /\ kind[c] \in {"KEYED", "TRANSFER", "MOVE"}
     \/ At(s, c, "next") /\ c \notin known[s] /\ kind[c] = "UNKEYED"
  /\ effects' = [effects EXCEPT ![c] = @ + 1]
  /\ stage' = IF kind[c] = "MOVE" THEN Target(c) ELSE stage
  /\ Goto(s, "mark")
  /\ UNCHANGED <<kind, terminal, ledger, exc, bounds>>

\* A MOVE updates the status by id, whatever it is by now.
Write(s, c) ==
  /\ \/ At(s, c, "write") /\ kind[c] \in {"KEYED", "TRANSFER"} /\ effects[c] = 0
     \/ At(s, c, "write") /\ kind[c] = "MOVE"
     \/ At(s, c, "next") /\ c \notin known[s] /\ kind[c] = "UNKEYED"
  /\ effects' = [effects EXCEPT ![c] = @ + 1]
  /\ stage' = IF kind[c] = "MOVE" THEN Target(c) ELSE stage
  /\ Goto(s, "mark")
  /\ UNCHANGED <<kind, terminal, ledger, exc, bounds>>

MarkProcessed(s, c) ==
  /\ At(s, c, "mark")
  /\ ledger' = ledger \cup {c}
  /\ Decide(s, c, "APPLIED", "close")
  /\ UNCHANGED <<kind, terminal, effects, stage, exc, bounds>>

CloseException(s, c) ==
  /\ At(s, c, "close")
  /\ exc' = [exc EXCEPT ![c] = IF @ = "OPEN" THEN "RESOLVED" ELSE @]
  /\ NextCommand(s, c)
  /\ UNCHANGED <<kind, terminal, result, effects, stage, ledger, bounds>>

RecordException(s, c) ==
  /\ At(s, c, "file")
  /\ exc' = [exc EXCEPT ![c] = "OPEN"]
  /\ NextCommand(s, c)
  /\ UNCHANGED <<kind, terminal, result, effects, stage, ledger, bounds>>

\* A query fails: a best-effort one is skipped, any other fails its command.
QueryFails(s, c) ==
  /\ Fault
  /\ \/ /\ \E step \in {"next", "write", "mark"} : At(s, c, step)
        /\ c \notin known[s]
        /\ Decide(s, c, "RETRY", "file")
     \/ /\ \E step \in {"close", "file"} : At(s, c, step)
        /\ NextCommand(s, c) /\ UNCHANGED result
  /\ UNCHANGED <<kind, terminal, server>>

Free(s) ==
  /\ req' = [req EXCEPT ![s] = "free"]
  /\ todo' = [todo EXCEPT ![s] = {}]
  /\ known' = [known EXCEPT ![s] = {}]
  /\ result' = [result EXCEPT ![s] = NoAnswer]

Reply(s) ==
  /\ req[s] = "next" /\ todo[s] = {}
  /\ Free(s)
  /\ IF slot = s
       THEN /\ run' = "settling" /\ left' = batch
            /\ slot' = NoSlot /\ answer' = result[s]
       ELSE UNCHANGED <<run, left, slot, answer>>
  /\ UNCHANGED <<kind, st, retry, batch, server, bounds>>

NoResponse ==
  /\ run' = "failing" /\ left' = batch /\ slot' = NoSlot
  /\ UNCHANGED <<st, retry, batch, answer>>

\* The request ends half way: the process dies, the deadline of the request
\* passes, or the ledger cannot be read.
Die(s) ==
  /\ req[s] # "free" /\ Fault
  /\ Free(s)
  /\ IF slot = s THEN NoResponse ELSE UNCHANGED terminal
  /\ UNCHANGED <<kind, server>>

\* The terminal's fetch fails while the server goes on.
LoseConnection ==
  /\ run = "waiting" /\ Fault
  /\ NoResponse
  /\ UNCHANGED <<kind, requests, server>>

-----------------------------------------------------------------------------
TerminalStep ==
  \/ StartRun \/ EndRun
  \/ \E c \in Commands : Mark(c) \/ Settle(c) \/ SettleFailure(c)
  \/ \E s \in Slots : Send(s)

ServerStep(s) ==
  \/ ReadLedger(s) \/ Reply(s)
  \/ \E c \in Commands :
       \/ Duplicate(s, c) \/ Refuse(s, c) \/ Judge(s, c) \/ ApplyOwn(s, c) \/ Write(s, c)
       \/ MarkProcessed(s, c) \/ CloseException(s, c) \/ RecordException(s, c)

Next ==
  \/ TerminalStep
  \/ \E s \in Slots : ServerStep(s) \/ Die(s)
  \/ \E s \in Slots, c \in Commands : QueryFails(s, c)
  \/ \E c \in Commands : Enqueue(c)
  \/ Reload \/ RetryFailed \/ LoseConnection

Spec == Init /\ [][Next]_vars

\* The sweep, the online event and enqueue drive the terminal; a request in
\* hand is worked on.
FairSpec == Spec /\ WF_vars(TerminalStep) /\ \A s \in Slots : WF_vars(ServerStep(s))

-----------------------------------------------------------------------------
\* A replay is never applied twice, not even by two requests at the same time
\* whose ledgers were read before either wrote: the terminal generates
\* clientEventId once, and the record's unique index is what decides.
AppliedAtMostOnce ==
  \A c \in Commands : kind[c] \in {"OWN", "KEYED", "TRANSFER"} => effects[c] <= 1

Held(c) == c \in ledger /\ (kind[c] = "ACK" \/ effects[c] > 0)

\* US-046, no silent loss: what the terminal clears, and later deletes, the
\* server has applied and has in its ledger.
NoSilentLoss == \A c \in Commands : st[c] \in {"SYNCED", "PRUNED"} => Held(c)

\* A ledger entry stands for an effect, so that answering DUPLICATE is honest;
\* and an output or a downtime is never stored without its entry.
LedgerIsTrue ==
  \A c \in Commands :
    /\ c \in ledger => kind[c] = "ACK" \/ effects[c] > 0
    /\ kind[c] = "OWN" /\ effects[c] > 0 => c \in ledger

\* SYNCING in IndexedDB, and no run of the page that will settle it.
Stranded(c) == st[c] = "SYNCING" /\ c \notin batch

\* A waiting command is acknowledged or surfaced in the end, unless a reload
\* stranded it: a command that keeps failing does not hold up those behind.
WaitingIsSettled ==
  \A c \in Commands :
    st[c] = "PENDING" ~> (st[c] \in {"SYNCED", "FAILED"} \/ Stranded(c))

\* queue.ts: an operator must never lose a count because the network dropped;
\* three triggers keep the queue from stalling.
CountNeverLost ==
  \A c \in Commands : st[c] = "PENDING" ~> st[c] \in {"SYNCED", "FAILED"}
=============================================================================
