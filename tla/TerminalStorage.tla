-------------------------- MODULE TerminalStorage --------------------------
(***************************************************************************)
(* The local database of an operator terminal and the browser tabs that    *)
(* share it: src/apps/operator/src/offline/ (db.ts, bootstrap.ts,          *)
(* retention.ts, queue.ts) as app/App.tsx runs them.                       *)
(*                                                                         *)
(* A tab boots: it brings the schema to version 2, after the queue has     *)
(* been flushed, and fills the offline cache.  Meanwhile it sends queued   *)
(* commands, operators record and leave, and other tabs of the same origin *)
(* do the same.  An await is where a step ends, but the three cache        *)
(* stores, written and cleared one by one, are one cache here, and who is  *)
(* signed in is not kept: whenever the page is up, somebody may be.        *)
(*                                                                         *)
(* IndexedDB is external: a version change waits until no connection is    *)
(* left, and every open behind it waits too; a closed connection refuses   *)
(* new transactions.  The details of a sync run that do not depend on the  *)
(* storage (order, batch size, retries) are in ShopFloorSync.              *)
(***************************************************************************)
EXTENDS Naturals, FiniteSets

CONSTANTS
  Tabs,
  Commands,
  OnDisk,     \* what a terminal may start with
  MaxLoads    \* bound: page loads

ASSUME BoundsAssumption == MaxLoads \in Nat
ASSUME OnDiskAssumption == OnDisk \subseteq {"absent", "v1", "v2"}

VARIABLES
  disk,       \* the database; "bare" is version 1 without a store
  st,         \* [Commands -> Status]: the rows of store commands
  cache,      \* workOrders, batches, masters: "old" is past RETENTION_MS
  conns,      \* open connections: SUBSET (Tabs \X Versions)
  handle,     \* [Tabs -> Versions \cup {"none"}]: the tab's promise of a connection
  deferred,   \* SUBSET Tabs: tabs that open without a version
  boot,       \* [Tabs -> Boot]: how far bootstrapOffline is
  counted,    \* tabs that counted no unsynced command, and have not unloaded
  run,        \* [Tabs -> Run]: the tab's syncInFlight
  judging,    \* tabs whose logout has still to look at the queue
  loads

schema == <<disk, conns, handle, deferred>>
vars == <<disk, st, cache, conns, handle, deferred, boot, counted, run, judging, loads>>

Versions == {"plain", "v2"}
Status == {"NEW", "PENDING", "SYNCING", "SYNCED", "FAILED", "GONE"}
Boot == {"closed", "detect", "count", "flush", "recount", "upgrade", "open",
         "fill", "fetch", "done"}
Run == [at : {"idle", "marking", "settling"}, left : SUBSET Commands,
        batch : SUBSET Commands, db : Versions]

Idle == [at |-> "idle", left |-> {}, batch |-> {}, db |-> "plain"]

TypeOK ==
  /\ disk \in {"absent", "bare", "v1", "v2"}
  /\ st \in [Commands -> Status]
  /\ cache \in {"empty", "fresh", "old"}
  /\ conns \subseteq Tabs \X Versions
  /\ handle \in [Tabs -> Versions \cup {"none"}]
  /\ deferred \subseteq Tabs /\ counted \subseteq Tabs
  /\ boot \in [Tabs -> Boot]
  /\ run \in [Tabs -> Run]
  /\ judging \subseteq Tabs
  /\ loads \in 0..MaxLoads

\* A terminal left by an earlier visit, perhaps with work in its queue.
Init ==
  /\ disk \in OnDisk
  /\ st \in [Commands -> {"NEW", "PENDING"}]
  /\ disk = "absent" => st = [c \in Commands |-> "NEW"]
  /\ cache = "empty" /\ conns = {}
  /\ handle = [t \in Tabs |-> "none"]
  /\ deferred = Tabs /\ counted = {}
  /\ boot = [t \in Tabs |-> "closed"]
  /\ run = [t \in Tabs |-> Idle]
  /\ judging = {}
  /\ loads = 0

Unsynced == {c \in Commands : st[c] \in {"PENDING", "SYNCING", "FAILED"}}
HasQueue == disk \in {"v1", "v2"}
Up(t) == boot[t] # "closed"

Connected(t) == handle[t] # "none" /\ <<t, handle[t]>> \in conns
Asking == {t \in Tabs : handle[t] = "v2" /\ ~Connected(t)}

-----------------------------------------------------------------------------
(* Connections: db.ts                                                      *)

\* A faulty start with `deferred' FALSE: whoever opens first upgrades.
OpenEager(t) ==
  /\ Up(t) /\ t \in deferred /\ handle[t] = "none" /\ Asking = {}
  /\ handle' = [handle EXCEPT ![t] = "v2"]
  /\ UNCHANGED <<disk, conns, st, cache, deferred, boot, counted, run, judging, loads>>

\* getOperatorDb while deferred: whatever exists is opened, nothing upgraded.
Open(t) ==
  /\ Up(t) /\ t \in deferred /\ handle[t] = "none" /\ Asking = {}
  /\ handle' = [handle EXCEPT ![t] = "plain"]
  /\ conns' = conns \cup {<<t, "plain">>}
  /\ disk' = IF disk = "absent" THEN "bare" ELSE disk
  /\ UNCHANGED <<st, cache, deferred, boot, counted, run, judging, loads>>

\* A faulty switch, which forgets the connection without closing it.
SwitchForgets(t) ==
  /\ deferred' = deferred \ {t}
  /\ handle' = [handle EXCEPT ![t] = "v2"]
  /\ UNCHANGED conns

\* setUpgradeDeferred(false), and getOperatorDb after it.
Switch(t) ==
  /\ deferred' = deferred \ {t}
  /\ handle' = [handle EXCEPT ![t] = "v2"]
  /\ conns' = conns \ {<<t, "plain">>}

\* A faulty applyUpgrade, which creates every store anew.
OpenV2Anew(t) ==
  /\ t \in Asking /\ (disk = "v2" \/ conns = {})
  /\ disk' = "v2"
  /\ st' = IF disk = "v2" THEN st
           ELSE [c \in Commands |-> IF st[c] = "NEW" THEN "NEW" ELSE "GONE"]
  /\ conns' = conns \cup {<<t, "v2">>}
  /\ boot' = [boot EXCEPT ![t] = IF @ = "open" THEN "fill" ELSE @]
  /\ UNCHANGED <<cache, handle, deferred, counted, run, judging, loads>>

\* The version 2 open succeeds; applyUpgrade adds stores and touches no row.
OpenV2(t) ==
  /\ t \in Asking /\ (disk = "v2" \/ conns = {})
  /\ disk' = "v2"
  /\ conns' = conns \cup {<<t, "v2">>}
  /\ boot' = [boot EXCEPT ![t] = IF @ = "open" THEN "fill" ELSE @]
  /\ UNCHANGED <<st, cache, handle, deferred, counted, run, judging, loads>>

-----------------------------------------------------------------------------
(* The bootstrap: bootstrap.ts                                             *)

Goto(t, b) == boot' = [boot EXCEPT ![t] = b]

\* prepareOperatorDb: only version 1 needs the queue's permission.
Detect(t) ==
  /\ boot[t] = "detect"
  /\ IF disk \in {"absent", "v2"}
       THEN Switch(t) /\ Goto(t, "open")
       ELSE UNCHANGED <<handle, deferred, conns>> /\ Goto(t, "count")
  /\ UNCHANGED <<disk, st, cache, counted, run, judging, loads>>

\* Faulty counts: one flushes again until nothing is left, the other closes
\* the database before it knows whether it will upgrade.
CountAgain(t) ==
  /\ boot[t] \in {"count", "recount"} /\ Connected(t)
  /\ IF Unsynced = {}
       THEN Goto(t, "upgrade") /\ counted' = counted \cup {t}
       ELSE Goto(t, "flush") /\ UNCHANGED counted
  /\ UNCHANGED <<schema, st, cache, run, judging, loads>>

CountCloses(t) ==
  /\ boot[t] \in {"count", "recount"} /\ Connected(t)
  /\ IF Unsynced = {}
       THEN Goto(t, "upgrade") /\ counted' = counted \cup {t}
       ELSE Goto(t, IF boot[t] = "count" THEN "flush" ELSE "fill") /\ UNCHANGED counted
  /\ IF boot[t] = "recount"
       THEN handle' = [handle EXCEPT ![t] = "none"] /\ conns' = conns \ {<<t, "plain">>}
       ELSE UNCHANGED <<handle, conns>>
  /\ UNCHANGED <<disk, deferred, st, cache, run, judging, loads>>

\* Nothing unsynced: upgrade.  Otherwise flush once, and defer if that leaves
\* anything; a deferred tab stays as it is until it is loaded again.
Count(t) ==
  /\ boot[t] \in {"count", "recount"} /\ Connected(t)
  /\ IF Unsynced = {}
       THEN Goto(t, "upgrade") /\ counted' = counted \cup {t}
       ELSE Goto(t, IF boot[t] = "count" THEN "flush" ELSE "fill") /\ UNCHANGED counted
  /\ UNCHANGED <<schema, st, cache, run, judging, loads>>

\* syncQueue has nothing to join and, offline, nothing to start.
Flush(t) ==
  /\ boot[t] = "flush" /\ run[t].at = "idle"
  /\ Goto(t, "recount")
  /\ UNCHANGED <<schema, st, cache, counted, run, judging, loads>>

Upgrade(t) ==
  /\ boot[t] = "upgrade"
  /\ Switch(t) /\ Goto(t, "open")
  /\ UNCHANGED <<disk, st, cache, counted, run, judging, loads>>

\* The 401 of any request ends the session: clearAuth, then clearCacheOnLogout.
Expire(t) == judging' = judging \cup {t}

\* cacheOfflineData: without the stores there is nowhere to put anything.
Fetch(t) ==
  /\ boot[t] = "fill" /\ Connected(t)
  /\ Goto(t, IF disk = "v2" THEN "fetch" ELSE "done")
  /\ UNCHANGED <<schema, st, cache, counted, run, judging, loads>>

FetchFails(t) ==
  /\ boot[t] = "fetch"
  /\ Goto(t, "done")
  /\ Expire(t) \/ UNCHANGED judging
  /\ UNCHANGED <<schema, st, cache, counted, run, loads>>

FetchReturns(t) ==
  /\ boot[t] = "fetch"
  /\ Goto(t, "done")
  /\ cache' = "fresh"
  /\ UNCHANGED <<schema, st, counted, run, judging, loads>>

-----------------------------------------------------------------------------
(* The cache: retention.ts                                                 *)

\* clearCacheOnLogout keeps the cache while anything is unsynced.
Judge(t) ==
  /\ t \in judging /\ Connected(t)
  /\ judging' = judging \ {t}
  /\ cache' = IF Unsynced = {} THEN "empty" ELSE cache
  /\ UNCHANGED <<schema, st, boot, counted, run, loads>>

\* 32 hours pass.
Age ==
  /\ cache = "fresh" /\ cache' = "old"
  /\ UNCHANGED <<schema, st, boot, counted, run, judging, loads>>

\* A faulty sweep, which refuses to run while the queue holds anything.
SweepWhenSynced(t) ==
  /\ Connected(t) /\ cache = "old" /\ Unsynced = {}
  /\ cache' = "empty"
  /\ UNCHANGED <<schema, st, boot, counted, run, judging, loads>>

\* purgeExpiredCache, at boot and every hour, whatever the queue holds.
Sweep(t) ==
  /\ Connected(t) /\ cache = "old"
  /\ cache' = "empty"
  /\ UNCHANGED <<schema, st, boot, counted, run, judging, loads>>

-----------------------------------------------------------------------------
(* The queue: queue.ts                                                     *)

Enqueue(t, c) ==
  /\ Connected(t) /\ HasQueue /\ st[c] = "NEW"
  /\ st' = [st EXCEPT ![c] = "PENDING"]
  /\ UNCHANGED <<schema, cache, boot, counted, run, judging, loads>>

RetryFailed(t) ==
  /\ Connected(t) /\ \E c \in Commands : st[c] = "FAILED"
  /\ st' = [c \in Commands |-> IF st[c] = "FAILED" THEN "PENDING" ELSE st[c]]
  /\ UNCHANGED <<schema, cache, boot, counted, run, judging, loads>>

\* pruneSyncedCommands: a row synced a day ago, which no run is about.
Prune(t, c) ==
  /\ Connected(t) /\ st[c] = "SYNCED" /\ \A u \in Tabs : c \notin run[u].batch
  /\ st' = [st EXCEPT ![c] = "GONE"]
  /\ UNCHANGED <<schema, cache, boot, counted, run, judging, loads>>

Waiting == {c \in Commands : st[c] = "PENDING"}

\* The run keeps the connection it began with.
StartRun(t) ==
  /\ run[t].at = "idle" /\ Connected(t) /\ Waiting # {}
  /\ run' = [run EXCEPT ![t] = [at |-> "marking", left |-> Waiting, batch |-> Waiting,
                                db |-> handle[t]]]
  /\ UNCHANGED <<schema, st, cache, boot, counted, judging, loads>>

Usable(t) == <<t, run[t].db>> \in conns

Mark(t, c) ==
  /\ run[t].at = "marking" /\ c \in run[t].left /\ Usable(t)
  /\ st' = [st EXCEPT ![c] = "SYNCING"]
  /\ run' = IF run[t].left = {c} THEN [run EXCEPT ![t].at = "settling", ![t].left = run[t].batch]
                                 ELSE [run EXCEPT ![t].left = @ \ {c}]
  /\ UNCHANGED <<schema, cache, boot, counted, judging, loads>>

\* The run is over, and with it the flush that has been waiting for it.
EndRun(t) ==
  /\ run' = [run EXCEPT ![t] = Idle]
  /\ Goto(t, IF boot[t] = "flush" THEN "recount" ELSE boot[t])

\* A faulty settlement, which stores the server's word for a refusal.
SettleRaw(t, c) ==
  /\ run[t].at = "settling" /\ c \in run[t].left /\ Usable(t)
  /\ \E s \in {"SYNCED", "PENDING", "REJECTED"} : st' = [st EXCEPT ![c] = s]
  /\ IF run[t].left = {c}
       THEN EndRun(t)
       ELSE run' = [run EXCEPT ![t].left = @ \ {c}] /\ UNCHANGED boot
  /\ UNCHANGED <<schema, cache, counted, judging, loads>>

\* The response has come or will not: SYNCED, or PENDING or FAILED again.
Settle(t, c) ==
  /\ run[t].at = "settling" /\ c \in run[t].left /\ Usable(t)
  /\ \E s \in {"SYNCED", "PENDING", "FAILED"} : st' = [st EXCEPT ![c] = s]
  /\ IF run[t].left = {c}
       THEN EndRun(t)
       ELSE run' = [run EXCEPT ![t].left = @ \ {c}] /\ UNCHANGED boot
  /\ UNCHANGED <<schema, cache, counted, judging, loads>>

\* Every put throws on the connection the bootstrap has closed, those of the
\* catch included: the run ends and its rows stay as they are.
LoseRun(t) ==
  /\ run[t].at \in {"marking", "settling"} /\ ~Usable(t)
  /\ EndRun(t)
  /\ UNCHANGED <<schema, st, cache, counted, judging, loads>>

-----------------------------------------------------------------------------
(* The page: App.tsx                                                       *)

\* The page starts deferred.
Load(t) ==
  /\ ~Up(t) /\ loads < MaxLoads
  /\ loads' = loads + 1
  /\ Goto(t, "detect")
  /\ UNCHANGED <<schema, st, cache, counted, run, judging>>

Unload(t) ==
  /\ Up(t)
  /\ Goto(t, "closed")
  /\ handle' = [handle EXCEPT ![t] = "none"]
  /\ conns' = conns \ ({t} \X Versions)
  /\ deferred' = deferred \cup {t}
  /\ counted' = counted \ {t}
  /\ run' = [run EXCEPT ![t] = Idle]
  /\ judging' = judging \ {t}
  /\ UNCHANGED <<disk, st, cache, loads>>

\* Logout, inactivity or an expired token.
EndSession(t) ==
  /\ Up(t)
  /\ Expire(t)
  /\ UNCHANGED <<schema, st, cache, boot, counted, run, loads>>

-----------------------------------------------------------------------------
BootStep(t) ==
  \/ Open(t) \/ OpenV2(t) \/ Detect(t) \/ Count(t) \/ Flush(t) \/ Upgrade(t)
  \/ Fetch(t) \/ FetchFails(t) \/ FetchReturns(t)

SyncStep(t) ==
  \/ StartRun(t) \/ LoseRun(t)
  \/ \E c \in Commands : Mark(t, c) \/ Settle(t, c)

Next ==
  \/ Age
  \/ \E t \in Tabs :
       \/ BootStep(t) \/ SyncStep(t) \/ Judge(t) \/ Sweep(t)
       \/ \E c \in Commands : Enqueue(t, c) \/ Prune(t, c)
       \/ RetryFailed(t) \/ Load(t) \/ Unload(t) \/ EndSession(t)

Spec == Init /\ [][Next]_vars

\* Promises resolve, fetches end, timers fire.
FairSpec ==
  /\ Spec
  /\ \A t \in Tabs : WF_vars(BootStep(t)) /\ WF_vars(SyncStep(t))
  /\ WF_vars(\E t \in Tabs : Sweep(t))

-----------------------------------------------------------------------------
\* db.ts, setUpgradeDeferred: the version 2 open of a tab never waits for a
\* connection of that very tab, which nothing would close.
NoSelfBlock == \A t \in Asking : <<t, "plain">> \notin conns

\* bootstrap.ts: a terminal whose upgrade is deferred still records: the tab
\* keeps a connection to a database that has the queue.
DeferredStillRecords ==
  \A t \in deferred : boot[t] \in {"fill", "done"} => Connected(t) /\ HasQueue

\* db.ts: `deferred' starts true, so that no read upgrades a version 1
\* database; it takes a tab that has counted the queue and found it empty.
CountedFirst ==
  [][disk = "v1" /\ disk' = "v2" => \E t \in counted : <<t, "v2">> \in conns']_vars

\* db.ts: the upgrade is not destructive to the queue.  Another tab may record
\* between the count and the upgrade, so it takes more than the count.
QueueSurvives ==
  [][\A c \in Commands : st[c] # "GONE" /\ st'[c] = "GONE" => st[c] = "SYNCED"]_vars

WaitsForOther(t) == t \in Asking /\ \E u \in Tabs \ {t} : Up(u)

\* The bootstrap ends though the queue cannot be flushed: only another tab
\* that keeps the old version open can hold it up.
BootEnds ==
  \A t \in Tabs : boot[t] = "detect" ~> (boot[t] \in {"done", "closed"} \/ WaitsForOther(t))

\* retention.ts, rule 2: what is past the window goes, whether or not anyone
\* logs out and whatever the queue holds, as long as a tab works.
OldCacheGoes == cache = "old" ~> (cache # "old" \/ ~\E t \in Tabs : Connected(t))
=============================================================================
