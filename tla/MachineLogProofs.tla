-------------------------- MODULE MachineLogProofs --------------------------
(***************************************************************************)
(* Theorems about the machine log, for any work orders, stops, instants,   *)
(* row ids and number of requests.                                         *)
(***************************************************************************)
EXTENDS MachineLog, TLAPS

\* What a transaction carries is what its operation needs.
WellFormed(q) ==
  /\ req[q].at \in {"judged", "written"} =>
       /\ req[q].op \in Ops
       /\ req[q].op \in {"start", "complete", "cancel", "output"} => req[q].wo \in WorkOrders
       /\ req[q].op \in {"stop", "resolve"} => req[q].stop \in Stops
       /\ req[q].op # "cancel" => req[q].time \in Times
  /\ req[q].at = "judged" => req[q].op \notin {"stop", "output"}

\* The stops a completion knew of when it was judged are over.
KnownAreOver(q) ==
  req[q].op = "complete" =>
    \A d \in req[q].known : stop[d].status # "NONE" /\ (OrderOf[d] = req[q].wo => d \notin Active)

Inserts(q, d) == req[q].at = "written" /\ req[q].op = "stop" /\ req[q].stop = d

\* A stop that is being inserted does not exist, and one transaction inserts it.
InsertIsNew ==
  \A q \in Requests, d \in Stops : Inserts(q, d) =>
    stop[d].status = "NONE" /\ \A p \in Requests : Inserts(p, d) => p = q

SingleState == ~raced => \A r, s \in open : r = s

IInv ==
  /\ TypeOK
  /\ \A q \in Requests : WellFormed(q) /\ KnownAreOver(q)
  /\ InsertIsNew
  /\ SingleState
  /\ ActiveStopShows

-----------------------------------------------------------------------------
(* Lemmas about a transaction that logs                                     *)

LEMMA TargetIsState ==
  ASSUME NEW op \in Ops \ {"cancel"}
  PROVE  Target(op) \in States
BY DEF Target, Ops, States

\* The log stays a set of rows, and what it shows afterwards is what was
\* asked for, unless the row found was out of date.
LEMMA TransitionLogs ==
  ASSUME open \subseteq Rows,
         NEW found \in Rows \cup {Nothing}, NEW state \in States, NEW time \in Times,
         Transition(found, state, time)
  PROVE  /\ open' \subseteq Rows
         /\ (\A r, s \in open : r = s) /\ found \in FindOpen =>
              \E r \in Rows : open' = {r} /\ r.state = state
<1>1. CASE found # Nothing /\ found.state = state
  <2>1. open' = open
    BY <1>1 DEF Transition
  <2>2. found \in FindOpen => found \in open
    BY <1>1 DEF FindOpen, Newest
  <2>3. QED
    BY <1>1, <2>1, <2>2
<1>2. CASE ~(found # Nothing /\ found.state = state)
  <2>1. PICK i \in RowIds :
          open' = (open \ {found}) \cup {[id |-> i, state |-> state, started |-> time]}
    BY <1>2 DEF Transition
  <2>2. [id |-> i, state |-> state, started |-> time] \in Rows
    BY DEF Rows
  <2>3. (\A r, s \in open : r = s) /\ found \in FindOpen => open \ {found} = {}
    BY DEF FindOpen, Newest
  <2>4. [id |-> i, state |-> state, started |-> time].state = state
    OBVIOUS
  <2>5. QED
    BY <2>1, <2>2, <2>3, <2>4
<1>3. QED
  BY <1>1, <1>2

\* A commit that logs leaves one open row unless it was raced.
LEMMA LoggedKeepsLog ==
  ASSUME IInv, NEW q \in Requests, req[q].at = "written", req[q].op # "cancel", Logged(q)
  PROVE  /\ open' \subseteq Rows
         /\ raced' \in BOOLEAN
         /\ outdone' \subseteq Stops
         /\ SingleState'
         /\ ~raced' => \E r \in Rows : open' = {r} /\ r.state = Target(req[q].op)
<1>1. req[q].found \in Rows \cup {Nothing} /\ req[q].time \in Times /\ req[q].op \in Ops \ {"cancel"}
  BY DEF IInv, TypeOK, WellFormed
<1>2. Target(req[q].op) \in States
  BY <1>1, TargetIsState
<1>3. Transition(req[q].found, Target(req[q].op), req[q].time)
  BY DEF Logged
<1>4. open \subseteq Rows
  BY DEF IInv, TypeOK
<1>5. /\ open' \subseteq Rows
      /\ (\A r, s \in open : r = s) /\ req[q].found \in FindOpen =>
           \E r \in Rows : open' = {r} /\ r.state = Target(req[q].op)
  BY <1>1, <1>2, <1>3, <1>4, TransitionLogs
<1>6. raced' = (raced \/ req[q].found \notin FindOpen)
  BY DEF Logged
<1>7. ~raced' => \E r \in Rows : open' = {r} /\ r.state = Target(req[q].op)
  BY <1>5, <1>6 DEF IInv, SingleState
<1>8. raced' \in BOOLEAN
  BY <1>6 DEF IInv, TypeOK
<1>9. outdone' \subseteq Stops
  BY DEF Logged, IInv, TypeOK, Active
<1>10. QED
  BY <1>5, <1>7, <1>8, <1>9 DEF SingleState

-----------------------------------------------------------------------------
LEMMA InitEstablishesIInv == Init => IInv
<1> SUFFICES ASSUME Init PROVE IInv
  OBVIOUS
<1>1. TypeOK
  BY DEF Init, TypeOK, Status, NoStop, StopRecords, Free
<1>2. ASSUME NEW q \in Requests PROVE WellFormed(q) /\ KnownAreOver(q)
  BY DEF Init, WellFormed, KnownAreOver, Free
<1>3. SingleState /\ ActiveStopShows
  BY DEF Init, SingleState, ActiveStopShows, Active, NoStop
<1>4. InsertIsNew
  BY DEF Init, InsertIsNew, Inserts, Free
<1>5. QED
  BY <1>1, <1>2, <1>3, <1>4 DEF IInv

\* Reading and writing change the transaction alone.
LEMMA OwnStepPreservesIInv ==
  ASSUME IInv, UNCHANGED <<status, stop, open, raced, outdone>>,
         NEW q \in Requests,
         NEW r \in [at : {"free", "judged", "written"}, op : Ops \cup {Nothing},
                    wo : WorkOrders \cup {Nothing}, stop : Stops \cup {Nothing},
                    time : Times \cup {Nothing}, found : Rows \cup {Nothing}, known : SUBSET Stops],
         req' = [req EXCEPT ![q] = r],
         WellFormed(q)', KnownAreOver(q)',
         r.at = "written" /\ r.op = "stop" => stop[r.stop].status = "NONE" /\ LockFree("stop", r.stop)
  PROVE  IInv'
<1>1. TypeOK'
  BY DEF IInv, TypeOK
<1>2. ASSUME NEW p \in Requests PROVE WellFormed(p)' /\ KnownAreOver(p)'
  BY <1>2 DEF IInv, TypeOK, WellFormed, KnownAreOver, Active
<1>3. SingleState' /\ ActiveStopShows'
  BY DEF IInv, SingleState, ActiveStopShows, Active
<1>4. InsertIsNew'
  <2>1. req'[q] = r /\ \A p \in Requests \ {q} : req'[p] = req[p]
    BY DEF IInv, TypeOK
  <2>2. ASSUME NEW p \in Requests, NEW d \in Stops, Inserts(p, d)', p # q
        PROVE  Inserts(p, d) /\ ~Inserts(q, d)'
    BY <2>1, <2>2 DEF Inserts, LockFree, Holds
  <2>3. QED
    BY <2>1, <2>2 DEF InsertIsNew, Inserts, IInv
<1>5. QED
  BY <1>1, <1>2, <1>3, <1>4 DEF IInv

LEMMA JudgePreservesIInv ==
  ASSUME IInv, NEW q \in Requests,
         \/ \E op \in {"start", "complete", "cancel"}, w \in WorkOrders : JudgeMove(q, op, w)
         \/ \E d \in Stops : JudgeResolve(q, d)
  PROVE  IInv'
<1>1. ASSUME NEW op \in {"start", "complete", "cancel"}, NEW w \in WorkOrders, JudgeMove(q, op, w)
      PROVE  IInv'
  <2>1. PICK t \in (IF op = "cancel" THEN {Nothing} ELSE Times) :
          req' = [req EXCEPT ![q] = [Free EXCEPT !.at = "judged", !.op = op, !.wo = w, !.time = t,
                                       !.known = IF op = "complete" THEN Recorded ELSE {}]]
    BY <1>1 DEF JudgeMove
  <2> DEFINE r == [Free EXCEPT !.at = "judged", !.op = op, !.wo = w, !.time = t,
                               !.known = IF op = "complete" THEN Recorded ELSE {}]
  <2>2. /\ r \in [at : {"free", "judged", "written"}, op : Ops \cup {Nothing},
                  wo : WorkOrders \cup {Nothing}, stop : Stops \cup {Nothing},
                  time : Times \cup {Nothing}, found : Rows \cup {Nothing}, known : SUBSET Stops]
        /\ req' = [req EXCEPT ![q] = r] /\ req'[q] = r
    BY <2>1 DEF Free, Ops, Recorded, IInv, TypeOK
  <2>3. r.at = "judged" /\ r.op = op /\ r.wo = w /\ r.time = t
        /\ r.known = IF op = "complete" THEN Recorded ELSE {}
    BY DEF Free
  <2> HIDE DEF r
  <2>4. WellFormed(q)'
    BY <2>2, <2>3 DEF WellFormed, Ops
  <2>5. UNCHANGED <<status, stop, open, raced, outdone>> /\ Allowed(op, w) /\ stop' = stop
    BY <1>1 DEF JudgeMove
  <2>6. KnownAreOver(q)'
    BY <2>2, <2>3, <2>5 DEF KnownAreOver, Recorded, Allowed, Active
  <2>7. QED
    BY <2>2, <2>3, <2>4, <2>5, <2>6, OwnStepPreservesIInv
<1>2. ASSUME NEW d \in Stops, JudgeResolve(q, d) PROVE IInv'
  <2>1. PICK t \in Times :
          req' = [req EXCEPT ![q] = [Free EXCEPT !.at = "judged", !.op = "resolve", !.stop = d, !.time = t]]
    BY <1>2 DEF JudgeResolve
  <2> DEFINE r == [Free EXCEPT !.at = "judged", !.op = "resolve", !.stop = d, !.time = t]
  <2>2. /\ r \in [at : {"free", "judged", "written"}, op : Ops \cup {Nothing},
                  wo : WorkOrders \cup {Nothing}, stop : Stops \cup {Nothing},
                  time : Times \cup {Nothing}, found : Rows \cup {Nothing}, known : SUBSET Stops]
        /\ req' = [req EXCEPT ![q] = r] /\ req'[q] = r
    BY <2>1 DEF Free, Ops, IInv, TypeOK
  <2>3. r.at = "judged" /\ r.op = "resolve" /\ r.stop = d /\ r.time = t
    BY DEF Free
  <2>4. WellFormed(q)' /\ KnownAreOver(q)'
    BY <2>2, <2>3 DEF WellFormed, KnownAreOver, Ops
  <2>5. UNCHANGED <<status, stop, open, raced, outdone>>
    BY <1>2 DEF JudgeResolve
  <2>6. QED
    BY <2>2, <2>3, <2>4, <2>5, OwnStepPreservesIInv
<1>3. QED
  BY <1>1, <1>2

\* The write steps: they differ in the operation only.
LEMMA LooksPreservesIInv ==
  ASSUME IInv, NEW q \in Requests,
         NEW r \in [at : {"free", "judged", "written"}, op : Ops,
                    wo : WorkOrders \cup {Nothing}, stop : Stops \cup {Nothing},
                    time : Times \cup {Nothing}, found : Rows \cup {Nothing}, known : SUBSET Stops],
         r.op \in {"start", "complete", "cancel", "output"} => r.wo \in WorkOrders,
         r.op \in {"stop", "resolve"} => r.stop \in Stops,
         r.op # "cancel" => r.time \in Times,
         r.op = "complete" => r = req[q],
         r.op = "stop" => stop[r.stop].status = "NONE" /\ LockFree("stop", r.stop),
         Looks(q, r)
  PROVE  IInv'
<1>1. PICK row \in (IF r.op = "cancel" THEN {Nothing} ELSE FindOpen) :
        req' = [req EXCEPT ![q] = [r EXCEPT !.at = "written", !.found = row]]
  BY DEF Looks
<1> DEFINE n == [r EXCEPT !.at = "written", !.found = row]
<1>2. row \in Rows \cup {Nothing}
  BY <1>1 DEF FindOpen, Newest, IInv, TypeOK
<1>3. /\ n \in [at : {"free", "judged", "written"}, op : Ops \cup {Nothing},
               wo : WorkOrders \cup {Nothing}, stop : Stops \cup {Nothing},
               time : Times \cup {Nothing}, found : Rows \cup {Nothing}, known : SUBSET Stops]
      /\ n.at = "written" /\ n.op = r.op /\ n.wo = r.wo /\ n.stop = r.stop
      /\ n.time = r.time /\ n.known = r.known
  BY <1>2
<1>4. req' = [req EXCEPT ![q] = n] /\ req'[q] = n
  BY <1>1 DEF IInv, TypeOK
<1>5. WellFormed(q)'
  BY <1>3, <1>4 DEF WellFormed
<1>6. UNCHANGED <<status, stop, open, raced, outdone>>
  BY DEF Looks
<1>7. KnownAreOver(q)'
  BY <1>3, <1>4, <1>6 DEF KnownAreOver, Active, IInv
<1>8. QED
  BY <1>3, <1>4, <1>5, <1>6, <1>7, OwnStepPreservesIInv

LEMMA WritePreservesIInv ==
  ASSUME IInv, NEW q \in Requests,
         \/ WriteMove(q) \/ WriteResolve(q)
         \/ \E w \in WorkOrders : Output(q, w)
         \/ \E d \in Stops : StartStop(q, d)
  PROVE  IInv'
<1>1. CASE WriteMove(q) \/ WriteResolve(q)
  <2>1. req[q].at = "judged" /\ Looks(q, req[q])
    BY <1>1 DEF WriteMove, WriteResolve
  <2>2. WellFormed(q)
    BY DEF IInv
  <2>3. req[q] \in [at : {"free", "judged", "written"}, op : Ops \cup {Nothing},
                   wo : WorkOrders \cup {Nothing}, stop : Stops \cup {Nothing},
                   time : Times \cup {Nothing}, found : Rows \cup {Nothing}, known : SUBSET Stops]
    BY DEF IInv, TypeOK
  <2>4. req[q] \in [at : {"free", "judged", "written"}, op : Ops,
                   wo : WorkOrders \cup {Nothing}, stop : Stops \cup {Nothing},
                   time : Times \cup {Nothing}, found : Rows \cup {Nothing}, known : SUBSET Stops]
    BY <2>1, <2>2, <2>3 DEF WellFormed
  <2>5. QED
    BY <2>1, <2>2, <2>4, LooksPreservesIInv DEF WellFormed
<1>2. ASSUME NEW w \in WorkOrders, Output(q, w) PROVE IInv'
  <2>1. PICK t \in Times : Looks(q, [Free EXCEPT !.op = "output", !.wo = w, !.time = t])
    BY <1>2 DEF Output
  <2> DEFINE r == [Free EXCEPT !.op = "output", !.wo = w, !.time = t]
  <2>2. /\ r \in [at : {"free", "judged", "written"}, op : Ops,
                  wo : WorkOrders \cup {Nothing}, stop : Stops \cup {Nothing},
                  time : Times \cup {Nothing}, found : Rows \cup {Nothing}, known : SUBSET Stops]
        /\ r.op = "output" /\ r.wo = w /\ r.time = t
    BY DEF Free, Ops
  <2>3. QED
    BY <2>1, <2>2, LooksPreservesIInv
<1>3. ASSUME NEW d \in Stops, StartStop(q, d) PROVE IInv'
  <2>1. PICK t \in Times : Looks(q, [Free EXCEPT !.op = "stop", !.stop = d, !.time = t])
    BY <1>3 DEF StartStop
  <2> DEFINE r == [Free EXCEPT !.op = "stop", !.stop = d, !.time = t]
  <2>2. /\ r \in [at : {"free", "judged", "written"}, op : Ops,
                  wo : WorkOrders \cup {Nothing}, stop : Stops \cup {Nothing},
                  time : Times \cup {Nothing}, found : Rows \cup {Nothing}, known : SUBSET Stops]
        /\ r.op = "stop" /\ r.stop = d /\ r.time = t
    BY DEF Free, Ops
  <2> HIDE DEF r
  <2>3. stop[d] = NoStop /\ LockFree("stop", r.stop)
    BY <1>3, <2>2, Zenon DEF StartStop
  <2>4. stop[r.stop].status = "NONE"
    BY <2>2, <2>3 DEF NoStop
  <2>5. Looks(q, r)
    BY <2>1 DEF r
  <2>6. QED
    BY <2>2, <2>3, <2>4, <2>5, LooksPreservesIInv
<1>4. QED
  BY <1>1, <1>2, <1>3

-----------------------------------------------------------------------------
(* Commits                                                                  *)

\* What every commit does to the transactions: it ends its own.
LEMMA EndKeepsOthers ==
  ASSUME IInv, NEW q \in Requests, Ends(q),
         \A d \in Stops : stop[d].status # "NONE" => stop'[d].status # "NONE",
         \A d \in Stops : stop[d].status # "NONE" /\ d \notin Active => d \notin Active',
         \A d \in Stops : stop'[d].status = stop[d].status \/ stop[d].status = "ACTIVE" \/ Inserts(q, d)
  PROVE  /\ req' \in [Requests ->
              [at : {"free", "judged", "written"}, op : Ops \cup {Nothing},
               wo : WorkOrders \cup {Nothing}, stop : Stops \cup {Nothing},
               time : Times \cup {Nothing}, found : Rows \cup {Nothing}, known : SUBSET Stops]]
         /\ \A p \in Requests : WellFormed(p)' /\ KnownAreOver(p)'
         /\ InsertIsNew'
<1>1. /\ req'[q] = Free /\ \A p \in Requests \ {q} : req'[p] = req[p]
      /\ req' \in [Requests ->
           [at : {"free", "judged", "written"}, op : Ops \cup {Nothing},
            wo : WorkOrders \cup {Nothing}, stop : Stops \cup {Nothing},
            time : Times \cup {Nothing}, found : Rows \cup {Nothing}, known : SUBSET Stops]]
  BY DEF Ends, IInv, TypeOK, Free
<1>2. WellFormed(q)' /\ KnownAreOver(q)'
  BY <1>1 DEF WellFormed, KnownAreOver, Free
<1>3. ASSUME NEW p \in Requests, p # q PROVE WellFormed(p)' /\ KnownAreOver(p)'
  <2>1. req'[p] = req[p] /\ req[p].known \subseteq Stops
    BY <1>1, <1>3 DEF IInv, TypeOK
  <2>2. WellFormed(p) /\ KnownAreOver(p)
    BY DEF IInv
  <2>3. WellFormed(p)'
    BY <2>1, <2>2 DEF WellFormed
  <2>4. KnownAreOver(p)'
    BY <2>1, <2>2 DEF KnownAreOver
  <2>5. QED
    BY <2>3, <2>4
<1>4. InsertIsNew'
  <2>1. ASSUME NEW p \in Requests, NEW d \in Stops, Inserts(p, d)' PROVE p # q /\ Inserts(p, d)
    BY <1>1, <2>1 DEF Inserts, Free
  <2>2. InsertIsNew
    BY DEF IInv
  <2>3. QED
    BY <2>1, <2>2 DEF InsertIsNew
<1>5. QED
  BY <1>1, <1>2, <1>3, <1>4

\* A commit that logs and changes no stop but its own.
LEMMA LoggingPreservesIInv ==
  ASSUME IInv, NEW q \in Requests, req[q].at = "written", req[q].op # "cancel",
         Logged(q), Ends(q),
         status' \in [WorkOrders -> Status],
         stop' \in [Stops -> StopRecords],
         \A d \in Stops : \/ stop'[d] = stop[d]
                          \/ stop[d].status = "ACTIVE" /\ stop'[d].status = "RESOLVED"
                          \/ Inserts(q, d) /\ stop'[d].status = "ACTIVE"
  PROVE  IInv'
<1>1. /\ open' \subseteq Rows /\ raced' \in BOOLEAN /\ outdone' \subseteq Stops /\ SingleState'
      /\ ~raced' => \E r \in Rows : open' = {r} /\ r.state = Target(req[q].op)
  BY LoggedKeepsLog
<1>2. \A d \in Stops : Inserts(q, d) => stop[d].status = "NONE"
  BY DEF IInv, InsertIsNew
<1>3. /\ req' \in [Requests ->
           [at : {"free", "judged", "written"}, op : Ops \cup {Nothing},
            wo : WorkOrders \cup {Nothing}, stop : Stops \cup {Nothing},
            time : Times \cup {Nothing}, found : Rows \cup {Nothing}, known : SUBSET Stops]]
      /\ \A p \in Requests : WellFormed(p)' /\ KnownAreOver(p)'
      /\ InsertIsNew'
  BY <1>2, EndKeepsOthers DEF Active
<1>4. TypeOK'
  BY <1>1, <1>3 DEF TypeOK
<1>5. ActiveStopShows'
  <2>1. CASE req[q].op = "stop"
    <3>1. Target(req[q].op) = "DOWNTIME"
      BY <2>1 DEF Target
    <3>2. QED
      BY <1>1, <3>1 DEF ActiveStopShows
  <2>2. CASE req[q].op # "stop"
    <3>1. Active' \subseteq Active
      BY <2>2 DEF Active, Inserts
    <3>2. Active \subseteq outdone'
      BY <2>2 DEF Logged
    <3>3. QED
      BY <3>1, <3>2 DEF ActiveStopShows
  <2>3. QED
    BY <2>1, <2>2
<1>6. QED
  BY <1>1, <1>3, <1>4, <1>5 DEF IInv

LEMMA LoggingAlonePreservesIInv ==
  ASSUME IInv, NEW q \in Requests, req[q].at = "written", req[q].op # "cancel",
         Logged(q), Ends(q), status' \in [WorkOrders -> Status], stop' = stop
  PROVE  IInv'
<1>1. stop' \in [Stops -> StopRecords]
  BY DEF IInv, TypeOK
<1>2. \A d \in Stops : stop'[d] = stop[d]
  OBVIOUS
<1>3. QED
  BY <1>1, <1>2, LoggingPreservesIInv

LEMMA CommitPreservesIInv ==
  ASSUME IInv, NEW q \in Requests,
         \/ CommitMove(q) \/ CommitCancel(q) \/ CommitOutput(q) \/ CommitStop(q)
         \/ CommitResolve(q) \/ Rollback(q)
  PROVE  IInv'
<1>1. CASE CommitMove(q)
  <2>1. status' \in [WorkOrders -> Status]
    BY <1>1 DEF CommitMove, IInv, TypeOK, Status, Moved
  <2>2. req[q].at = "written" /\ req[q].op # "cancel" /\ Logged(q) /\ Ends(q) /\ stop' = stop
    BY <1>1 DEF CommitMove
  <2>3. QED
    BY <2>1, <2>2, LoggingAlonePreservesIInv
<1>2. CASE CommitOutput(q)
  <2>1. /\ req[q].at = "written" /\ req[q].op # "cancel" /\ Logged(q) /\ Ends(q)
        /\ stop' = stop /\ status' \in [WorkOrders -> Status]
    BY <1>2 DEF CommitOutput, IInv, TypeOK
  <2>2. QED
    BY <2>1, LoggingAlonePreservesIInv
<1>3. CASE CommitStop(q)
  <2>1. req[q].stop \in Stops /\ Inserts(q, req[q].stop)
    BY <1>3 DEF CommitStop, IInv, WellFormed, Inserts
  <2>2. stop' \in [Stops -> StopRecords]
    <3>1. stop[req[q].stop] \in StopRecords /\ stop[req[q].stop].status = "NONE"
      BY <2>1 DEF IInv, TypeOK, InsertIsNew
    <3>2. [stop[req[q].stop] EXCEPT !.status = "ACTIVE"] \in StopRecords
      BY <3>1 DEF StopRecords
    <3>3. stop' = [stop EXCEPT ![req[q].stop] = [stop[req[q].stop] EXCEPT !.status = "ACTIVE"]]
      BY <1>3 DEF CommitStop
    <3>4. QED
      BY <2>1, <3>2, <3>3 DEF IInv, TypeOK
  <2>3. stop' = [stop EXCEPT ![req[q].stop] = [stop[req[q].stop] EXCEPT !.status = "ACTIVE"]]
    BY <1>3 DEF CommitStop
  <2>4. \A d \in Stops : stop'[d] = stop[d] \/ (d = req[q].stop /\ stop'[d].status = "ACTIVE")
    BY <2>1, <2>3 DEF IInv, TypeOK
  <2>5. /\ req[q].at = "written" /\ req[q].op # "cancel" /\ Logged(q) /\ Ends(q)
        /\ status' \in [WorkOrders -> Status]
    BY <1>3 DEF CommitStop, IInv, TypeOK
  <2>6. \A d \in Stops : \/ stop'[d] = stop[d]
                         \/ stop[d].status = "ACTIVE" /\ stop'[d].status = "RESOLVED"
                         \/ Inserts(q, d) /\ stop'[d].status = "ACTIVE"
    BY <2>1, <2>4
  <2>7. QED
    BY <2>2, <2>5, <2>6, LoggingPreservesIInv
<1>4. CASE CommitResolve(q)
  <2>1. req[q].stop \in Stops /\ req[q].time \in Times
    BY <1>4 DEF CommitResolve, IInv, WellFormed
  <2>2. stop' \in [Stops -> StopRecords]
    <3>1. Resolved(req[q].stop, req[q].time) \in StopRecords
      BY <2>1 DEF Resolved, StopRecords, IInv, TypeOK
    <3>2. stop' = [stop EXCEPT ![req[q].stop] = Resolved(req[q].stop, req[q].time)]
      BY <1>4 DEF CommitResolve
    <3>3. QED
      BY <3>1, <3>2 DEF IInv, TypeOK
  <2>3. \A d \in Stops : stop'[d] = IF d = req[q].stop THEN Resolved(d, req[q].time) ELSE stop[d]
    BY <1>4, <2>1 DEF CommitResolve, IInv, TypeOK
  <2>4. \A d \in Stops : IF stop[d].status = "ACTIVE"
                        THEN Resolved(d, req[q].time).status = "RESOLVED"
                        ELSE Resolved(d, req[q].time) = stop[d]
    BY DEF Resolved
  <2>5. \A d \in Stops : \/ stop'[d] = stop[d]
                         \/ stop[d].status = "ACTIVE" /\ stop'[d].status = "RESOLVED"
                         \/ Inserts(q, d) /\ stop'[d].status = "ACTIVE"
    BY <2>3, <2>4
  <2>6. /\ req[q].at = "written" /\ req[q].op # "cancel" /\ Logged(q) /\ Ends(q)
        /\ status' \in [WorkOrders -> Status]
    BY <1>4 DEF CommitResolve, IInv, TypeOK
  <2>7. QED
    BY <2>2, <2>5, <2>6, LoggingPreservesIInv
<1>5. CASE CommitCancel(q) \/ Rollback(q)
  <2>1. Ends(q) /\ UNCHANGED <<stop, open, raced, outdone>>
    BY <1>5 DEF CommitCancel, Rollback
  <2>2. status' \in [WorkOrders -> Status]
    BY <1>5 DEF CommitCancel, Rollback, IInv, TypeOK, Status, Moved
  <2>3. /\ req' \in [Requests ->
             [at : {"free", "judged", "written"}, op : Ops \cup {Nothing},
              wo : WorkOrders \cup {Nothing}, stop : Stops \cup {Nothing},
              time : Times \cup {Nothing}, found : Rows \cup {Nothing}, known : SUBSET Stops]]
        /\ \A p \in Requests : WellFormed(p)' /\ KnownAreOver(p)'
        /\ InsertIsNew'
    BY <2>1, EndKeepsOthers DEF Active
  <2>4. TypeOK'
    BY <2>1, <2>2, <2>3 DEF IInv, TypeOK
  <2>5. SingleState' /\ ActiveStopShows'
    BY <2>1 DEF IInv, SingleState, ActiveStopShows, Active
  <2>6. QED
    BY <2>3, <2>4, <2>5 DEF IInv
<1>6. QED
  BY <1>1, <1>2, <1>3, <1>4, <1>5

LEMMA StepPreservesIInv == IInv /\ [Next]_vars => IInv'
<1> SUFFICES ASSUME IInv, [Next]_vars PROVE IInv'
  OBVIOUS
<1>1. CASE Next
  BY <1>1, JudgePreservesIInv, WritePreservesIInv, CommitPreservesIInv DEF Next
<1>2. CASE UNCHANGED vars
  BY <1>2 DEF vars, IInv, TypeOK, WellFormed, KnownAreOver, InsertIsNew, Inserts,
              SingleState, ActiveStopShows, Active
<1>3. QED
  BY <1>1, <1>2

\* The strengthened invariant holds in every state of the log.
THEOREM MachineInvariant == Spec => []IInv
BY InitEstablishesIInv, StepPreservesIInv, PTL DEF Spec

\* The variables keep their types.
THEOREM TypeCorrect == Spec => []TypeOK
<1>1. IInv => TypeOK
  BY DEF IInv
<1>2. QED
  BY <1>1, MachineInvariant, PTL

\* A stop that nothing has outdone shows, unless transitions overlapped.
THEOREM StopsShow == Spec => []ActiveStopShows
<1>1. IInv => ActiveStopShows
  BY DEF IInv
<1>2. QED
  BY <1>1, MachineInvariant, PTL

\* One open state, unless transitions overlapped.
THEOREM OneStateIsOpen == Spec => OneOpenState
<1> DEFINE A == ~raced' => \/ open = {} /\ open' = {}
                           \/ \E r \in Rows : open' = {r}
<1>1. IInv /\ [Next]_vars => [A]_vars
  <2> SUFFICES ASSUME IInv, Next PROVE A
    BY DEF vars
  <2>1. ASSUME open' = open, raced' = raced PROVE A
    <3>1. ASSUME ~raced, open # {} PROVE \E r \in Rows : open' = {r}
      <4>1. PICK r \in open : TRUE
        BY <3>1
      <4>2. open = {r}
        BY <3>1, <4>1 DEF IInv, SingleState
      <4>3. r \in Rows
        BY <4>1 DEF IInv, TypeOK
      <4>4. QED
        BY <2>1, <4>2, <4>3
    <3>2. QED
      BY <2>1, <3>1
  <2>2. ASSUME NEW q \in Requests, req[q].at = "written", req[q].op # "cancel", Logged(q) PROVE A
    BY <2>2, LoggedKeepsLog
  <2>3. QED
    BY <2>1, <2>2
       DEF Next, JudgeMove, JudgeResolve, Output, StartStop, WriteMove, WriteResolve, Looks,
           CommitMove, CommitCancel, CommitOutput, CommitStop, CommitResolve, Rollback
<1>2. QED
  BY <1>1, MachineInvariant, PTL DEF Spec, OneOpenState

\* The end of a stop is settled once.
THEOREM StopsEndOnce == Spec => ResolvedIsFinal
<1> DEFINE A == \A d \in Stops : stop[d].status = "RESOLVED" => stop'[d] = stop[d]
<1>1. IInv /\ [Next]_vars => [A]_vars
  <2> SUFFICES ASSUME IInv, Next, NEW d \in Stops, stop[d].status = "RESOLVED"
               PROVE  stop'[d] = stop[d]
    BY DEF vars
  <2>1. ASSUME NEW q \in Requests, CommitStop(q) PROVE stop'[d] = stop[d]
    <3>1. req[q].stop \in Stops /\ Inserts(q, req[q].stop)
      BY <2>1 DEF CommitStop, IInv, WellFormed, Inserts
    <3>2. d # req[q].stop
      BY <3>1 DEF IInv, InsertIsNew
    <3>3. QED
      BY <2>1, <3>2 DEF CommitStop, IInv, TypeOK
  <2>2. ASSUME NEW q \in Requests, CommitResolve(q) PROVE stop'[d] = stop[d]
    BY <2>2 DEF CommitResolve, Resolved, IInv, TypeOK
  <2>3. QED
    BY <2>1, <2>2
       DEF Next, JudgeMove, JudgeResolve, Output, StartStop, WriteMove, WriteResolve, Looks,
           CommitMove, CommitCancel, CommitOutput, Rollback
<1>2. QED
  BY <1>1, MachineInvariant, PTL DEF Spec, ResolvedIsFinal

\* A completion has seen no active stop of its work order.
THEOREM CompletionIsClear == Spec => CompletionSawNoStop
<1> DEFINE A == \A w \in WorkOrders : status[w] # "COMPLETED" /\ status'[w] = "COMPLETED" =>
                  \E q \in Requests : /\ req[q].op = "complete" /\ req[q].wo = w
                                      /\ \A d \in req[q].known \cap Active : OrderOf[d] # w
<1>1. IInv /\ [Next]_vars => [A]_vars
  <2> SUFFICES ASSUME IInv, Next, NEW w \in WorkOrders, status[w] # "COMPLETED", status'[w] = "COMPLETED"
               PROVE  \E q \in Requests : /\ req[q].op = "complete" /\ req[q].wo = w
                                          /\ \A d \in req[q].known \cap Active : OrderOf[d] # w
    BY DEF vars
  <2>1. PICK q \in Requests : CommitMove(q) \/ CommitCancel(q)
    BY DEF Next, JudgeMove, JudgeResolve, Output, StartStop, WriteMove, WriteResolve, Looks,
           CommitOutput, CommitStop, CommitResolve, Rollback
  <2>2. /\ req[q].op \in {"start", "complete", "cancel"}
        /\ status' = [status EXCEPT ![req[q].wo] = Moved(req[q].op)]
    BY <2>1 DEF CommitMove, CommitCancel
  <2>3. req[q].wo = w /\ Moved(req[q].op) = "COMPLETED"
    BY <2>2 DEF IInv, TypeOK
  <2>4. req[q].op = "complete"
    BY <2>2, <2>3 DEF Moved
  <2>5. QED
    BY <2>3, <2>4 DEF IInv, KnownAreOver
<1>2. QED
  BY <1>1, MachineInvariant, PTL DEF Spec, CompletionSawNoStop
=============================================================================
