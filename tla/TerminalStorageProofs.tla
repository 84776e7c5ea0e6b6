----------------------- MODULE TerminalStorageProofs -----------------------
(***************************************************************************)
(* Theorems about the database of a terminal, for any tabs, commands and   *)
(* number of page loads, and whatever the terminal starts with.            *)
(***************************************************************************)
EXTENDS TerminalStorage, TLAPS

\* A connection of the old version is the one its tab holds, and a tab that is
\* deferred asks for no other.
HandlesAreTrue ==
  \A t \in Tabs : /\ <<t, "plain">> \in conns => handle[t] = "plain"
                  /\ t \in deferred => handle[t] # "v2"

\* Only a tab that has counted asks for version 2 of a version 1 database.
CountedOrNew ==
  \A t \in Tabs : /\ boot[t] = "upgrade" => t \in counted
                  /\ handle[t] = "v2" => t \in counted \/ disk # "v1"

\* What is queued is queued somewhere, and a run is about nothing else.
QueueIsSomewhere ==
  /\ \A c \in Commands : st[c] # "NEW" => HasQueue
  /\ \A t \in Tabs : \A c \in run[t].left \cup run[t].batch : st[c] # "NEW"

\* A tab that has decided against the upgrade keeps what it needs to record.
DeferredIsConnected ==
  \A t \in deferred : boot[t] \in {"fill", "fetch", "done"} => Connected(t) /\ HasQueue

IInv == TypeOK /\ HandlesAreTrue /\ CountedOrNew /\ QueueIsSomewhere /\ DeferredIsConnected

LEMMA InitEstablishes == Init => IInv
BY OnDiskAssumption, BoundsAssumption
   DEF Init, IInv, TypeOK, HandlesAreTrue, CountedOrNew, QueueIsSomewhere, DeferredIsConnected,
       Unsynced, HasQueue, Connected, Idle, Run, Versions, Status, Boot

-----------------------------------------------------------------------------
(* The steps                                                               *)

LEMMA ConnectionsKeep ==
  ASSUME IInv, NEW t \in Tabs, Open(t) \/ OpenV2(t) \/ Detect(t) \/ Upgrade(t) \/ Unload(t)
  PROVE  IInv'
<1> USE DEF IInv, TypeOK, HandlesAreTrue, CountedOrNew, QueueIsSomewhere, DeferredIsConnected,
            Unsynced, HasQueue, Connected, Versions
<1>1. CASE Open(t)
  <2>1. /\ t \in deferred /\ handle' = [handle EXCEPT ![t] = "plain"] /\ conns' = conns \cup {<<t, "plain">>}
        /\ disk' \in {disk, "bare"} /\ (disk # "absent" => disk' = disk)
        /\ UNCHANGED <<st, cache, deferred, boot, counted, run, judging, loads>>
    BY <1>1 DEF Open
  <2>2. TypeOK' /\ HandlesAreTrue'
    BY <2>1
  <2>3. CountedOrNew' /\ QueueIsSomewhere' /\ DeferredIsConnected'
    BY <2>1
  <2>4. QED
    BY <2>2, <2>3
<1>2. CASE OpenV2(t)
  BY <1>2 DEF OpenV2, Asking, Boot
<1>3. CASE Detect(t)
  BY <1>3 DEF Detect, Switch, Goto, Boot
<1>4. CASE Upgrade(t)
  BY <1>4 DEF Upgrade, Switch, Goto, Boot
<1>5. CASE Unload(t)
  BY <1>5 DEF Unload, Up, Goto, Boot, Idle, Run
<1>6. QED
  BY <1>1, <1>2, <1>3, <1>4, <1>5

LEMMA BootKeeps ==
  ASSUME IInv, NEW t \in Tabs,
         \/ Count(t) \/ Flush(t) \/ Fetch(t) \/ FetchFails(t) \/ FetchReturns(t)
         \/ Load(t) \/ EndSession(t) \/ Judge(t) \/ Sweep(t)
  PROVE  IInv'
<1> USE DEF IInv, TypeOK, HandlesAreTrue, CountedOrNew, QueueIsSomewhere, DeferredIsConnected,
            Unsynced, HasQueue, Connected, Boot, Goto, Expire, schema
<1>1. CASE Count(t)
  BY <1>1 DEF Count
<1>2. CASE Flush(t) \/ Fetch(t) \/ FetchFails(t) \/ FetchReturns(t)
  BY <1>2 DEF Flush, Fetch, FetchFails, FetchReturns
<1>3. CASE Load(t)
  BY <1>3, BoundsAssumption DEF Load, Up
<1>4. CASE EndSession(t) \/ Judge(t) \/ Sweep(t)
  BY <1>4 DEF EndSession, Judge, Sweep
<1>5. QED
  BY <1>1, <1>2, <1>3, <1>4

LEMMA QueueKeeps ==
  ASSUME IInv, NEW t \in Tabs,
         \/ StartRun(t) \/ LoseRun(t) \/ RetryFailed(t)
         \/ \E c \in Commands : Mark(t, c) \/ Settle(t, c) \/ Enqueue(t, c) \/ Prune(t, c)
  PROVE  IInv'
<1> USE DEF IInv, TypeOK, HandlesAreTrue, CountedOrNew, QueueIsSomewhere, DeferredIsConnected,
            Unsynced, HasQueue, Connected, Status, Run, Versions, schema
<1>1. CASE StartRun(t)
  BY <1>1 DEF StartRun, Waiting
<1>2. CASE LoseRun(t)
  BY <1>2 DEF LoseRun, EndRun, Goto, Boot, Idle
<1>3. CASE RetryFailed(t)
  BY <1>3 DEF RetryFailed
<1>4. ASSUME NEW c \in Commands, Mark(t, c) PROVE IInv'
  <2>1. /\ run[t].at = "marking" /\ c \in run[t].left
        /\ st' = [st EXCEPT ![c] = "SYNCING"]
        /\ UNCHANGED <<schema, cache, boot, counted, judging, loads>>
    BY <1>4 DEF Mark
  <2>2. run' \in [Tabs -> Run]
    BY <1>4 DEF Mark
  <2>3. \A u \in Tabs : run'[u].left \cup run'[u].batch \subseteq run[u].left \cup run[u].batch
    BY <1>4 DEF Mark
  <2>4. QED
    BY <2>1, <2>2, <2>3
<1>5. ASSUME NEW c \in Commands, Settle(t, c) PROVE IInv'
  <2>1. /\ c \in run[t].left /\ UNCHANGED <<schema, cache, counted, judging, loads>>
        /\ \E s \in {"SYNCED", "PENDING", "FAILED"} : st' = [st EXCEPT ![c] = s]
    BY <1>5 DEF Settle
  <2>2. boot' \in {boot, [boot EXCEPT ![t] = IF boot[t] = "flush" THEN "recount" ELSE boot[t]]}
    BY <1>5 DEF Settle, EndRun, Goto
  <2>3. run' \in [Tabs -> Run]
    BY <1>5 DEF Settle, EndRun, Idle
  <2>4. \A u \in Tabs : run'[u].left \cup run'[u].batch \subseteq run[u].left \cup run[u].batch
    BY <1>5 DEF Settle, EndRun, Idle
  <2>5. \A u \in Tabs : boot'[u] = boot[u] \/ boot'[u] = "recount"
    BY <2>2
  <2>6. boot' \in [Tabs -> Boot]
    BY <2>2 DEF Boot
  <2>7. QED
    BY <2>1, <2>3, <2>4, <2>5, <2>6
<1>6. ASSUME NEW c \in Commands, Enqueue(t, c) \/ Prune(t, c) PROVE IInv'
  BY <1>6 DEF Enqueue, Prune
<1>7. QED
  BY <1>1, <1>2, <1>3, <1>4, <1>5, <1>6

LEMMA NextKeeps == IInv /\ [Next]_vars => IInv'
<1> USE DEF IInv, TypeOK, HandlesAreTrue, CountedOrNew, QueueIsSomewhere, DeferredIsConnected,
            HasQueue, Connected
<1>1. ASSUME IInv, Age PROVE IInv'
  BY <1>1 DEF Age, schema
<1>2. ASSUME IInv, UNCHANGED vars PROVE IInv'
  BY <1>2 DEF vars
<1>3. QED
  BY <1>1, <1>2, ConnectionsKeep, BootKeeps, QueueKeeps DEF Next, BootStep, SyncStep

-----------------------------------------------------------------------------
(* The theorems                                                            *)

\* The invariant the other five rest on.
THEOREM StorageInvariant == Spec => []IInv
BY InitEstablishes, NextKeeps, PTL DEF Spec

\* Everything has its type: no row of the queue has a status the code lacks.
THEOREM TypeCorrect == Spec => []TypeOK
<1>1. IInv => TypeOK
  BY DEF IInv
<1>2. QED
  BY StorageInvariant, <1>1, PTL

\* With any number of tabs, none waits for a connection of its own.
THEOREM TabsDoNotBlockThemselves == Spec => []NoSelfBlock
<1>1. IInv => NoSelfBlock
  BY DEF IInv, HandlesAreTrue, NoSelfBlock, Asking
<1>2. QED
  BY StorageInvariant, <1>1, PTL

\* Whatever the other tabs do, a tab whose upgrade is deferred can record.
THEOREM DeferredTabsRecord == Spec => []DeferredStillRecords
<1>1. IInv => DeferredStillRecords
  BY DEF IInv, DeferredIsConnected, DeferredStillRecords
<1>2. QED
  BY StorageInvariant, <1>1, PTL

\* A version 1 database is upgraded for a tab that found the queue empty.
THEOREM UpgradeWasCounted == Spec => CountedFirst
<1> DEFINE A == disk = "v1" /\ disk' = "v2" => \E t \in counted : <<t, "v2">> \in conns'
<1>1. ASSUME IInv, Next, disk = "v1", disk' = "v2" PROVE \E t \in counted : <<t, "v2">> \in conns'
  <2>1. PICK t \in Tabs : OpenV2(t)
    BY <1>1 DEF Next, BootStep, SyncStep, schema, Age, Open, Detect, Count, Flush, Upgrade, Fetch,
                FetchFails, FetchReturns, StartRun, LoseRun, Mark, Settle, Judge, Sweep, Enqueue, Prune,
                RetryFailed, Load, Unload, EndSession
  <2>2. t \in counted /\ <<t, "v2">> \in conns'
    BY <1>1, <2>1 DEF OpenV2, Asking, IInv, CountedOrNew
  <2>3. QED
    BY <2>2
<1>2. IInv /\ [Next]_vars => [A]_vars
  BY <1>1 DEF vars
<1>3. QED
  BY <1>2, StorageInvariant, PTL DEF Spec, CountedFirst

\* No step, an upgrade least of all, takes a command out of the queue before
\* it is synced.
THEOREM UpgradeKeepsTheQueue == Spec => QueueSurvives
<1> DEFINE A == \A c \in Commands : st[c] # "GONE" /\ st'[c] = "GONE" => st[c] = "SYNCED"
<1>1. ASSUME IInv, Next, NEW c \in Commands, st[c] # "GONE", st'[c] = "GONE" PROVE st[c] = "SYNCED"
  <2>1. st \in [Commands -> Status]
    BY <1>1 DEF IInv, TypeOK
  <2>2. PICK t \in Tabs : \E d \in Commands : Prune(t, d) \/ Enqueue(t, d) \/ Mark(t, d) \/ Settle(t, d)
                                               \/ RetryFailed(t)
    BY <1>1 DEF Next, BootStep, SyncStep, Age, Open, OpenV2, Detect, Count, Flush, Upgrade, Fetch,
                FetchFails, FetchReturns, StartRun, LoseRun, Judge, Sweep, Load, Unload, EndSession
  <2>3. QED
    BY <1>1, <2>1, <2>2 DEF Prune, Enqueue, Mark, Settle, RetryFailed
<1>2. IInv /\ [Next]_vars => [A]_vars
  BY <1>1 DEF vars
<1>3. QED
  BY <1>2, StorageInvariant, PTL DEF Spec, QueueSurvives
=============================================================================
