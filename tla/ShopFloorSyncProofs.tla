------------------------ MODULE ShopFloorSyncProofs ------------------------
(***************************************************************************)
(* Theorems about the terminal's queue and the server that applies it, for *)
(* any commands and kinds, slots, batch size, retries and faults.          *)
(***************************************************************************)
EXTENDS ShopFloorSync, FiniteSetTheorems, TLAPS

\* Where the commands of a run are: those left to mark wait, those left to
\* settle are marked; and a command not given up has a retry to spare.
RunIsKnown ==
  /\ run = "marking" => \A c \in batch : st[c] = IF c \in left THEN "PENDING" ELSE "SYNCING"
  /\ run = "waiting" => \A c \in batch : st[c] = "SYNCING"
  /\ run \in {"settling", "failing"} => \A c \in left : st[c] = "SYNCING"
  /\ run = "waiting" <=> slot \in Slots
  /\ \A c \in Commands : st[c] # "FAILED" => retry[c] < MaxRetries

Applied == {"APPLIED", "DUPLICATE"}

\* Outcomes: what a request has applied is in the ledger, what it has read
\* there still is, and a command is behind it only with an outcome.
OutcomesAreTrue ==
  \A s \in Slots :
    /\ known[s] \subseteq ledger
    /\ \A c \in Commands :
         /\ result[s][c] \in Applied => c \in ledger
         /\ At(s, c, "close") \/ At(s, c, "file") => result[s][c] # "NONE"
         /\ At(s, c, "mark") => kind[c] = "ACK" \/ effects[c] > 0

\* The terminal's own request: each command of the batch is in it or answered.
RequestIsKept ==
  \A s \in Slots : slot = s =>
    /\ req[s] # "free"
    /\ req[s] = "sent" => batch \subseteq todo[s]
    /\ \A c \in batch : c \in todo[s] \/ result[s][c] # "NONE"

AnswerIsTrue ==
  run = "settling" => \A c \in left : answer[c] # "NONE" /\ (answer[c] \in Applied => c \in ledger)

IInv ==
  /\ TypeOK /\ RunIsKnown /\ OutcomesAreTrue /\ RequestIsKept /\ AnswerIsTrue
  /\ LedgerIsTrue /\ AppliedAtMostOnce /\ NoSilentLoss

\* The stage a MOVE leads to is a number although the commands may be infinite.
LEMMA TargetIsNat == ASSUME NEW c \in Commands PROVE Target(c) \in Nat
<1> DEFINE M == {d \in Commands : kind[d] = "MOVE" /\ d <= c}
<1>1. c \in Nat /\ \A d \in M : d \in Nat /\ d <= c
  BY CommandsAssumption
<1> HIDE DEF M
<1>2. M \subseteq 0..c
  BY <1>1
<1>3. IsFiniteSet(0..c)
  BY <1>1, FS_Interval
<1>4. IsFiniteSet(M)
  BY <1>2, <1>3, FS_Subset
<1>5. QED
  BY <1>4, FS_CardinalityType DEF Target, M

LEMMA InitEstablishes == Init => IInv
BY CommandsAssumption, WorkloadsAssumption, SlotsAssumption, BoundsAssumption
   DEF Init, IInv, TypeOK, RunIsKnown, OutcomesAreTrue, RequestIsKept, AnswerIsTrue, LedgerIsTrue,
       AppliedAtMostOnce, NoSilentLoss, Status, Running, Serving, Outcome, NoAnswer, At, Applied

-----------------------------------------------------------------------------
(* The steps                                                               *)

\* The terminal changes no outcome and no effect, and clears a command only by
\* an answer that is true.
LEMMA TerminalKeeps ==
  ASSUME IInv, \/ TerminalStep \/ Reload \/ RetryFailed \/ LoseConnection
               \/ \E c \in Commands : Enqueue(c)
  PROVE  IInv'
<1> USE CommandsAssumption, SlotsAssumption, BoundsAssumption
    DEF IInv, TypeOK, Status, Running, Serving, Outcome, NoAnswer, RunIsKnown, OutcomesAreTrue,
        RequestIsKept, AnswerIsTrue, LedgerIsTrue, AppliedAtMostOnce, NoSilentLoss, Held, Applied,
        At, Oldest, Fault, Forget, NoResponse, requests, server, bounds
<1>1. ASSUME NEW c \in Commands, Enqueue(c) PROVE IInv'
  BY <1>1 DEF Enqueue
<1>2. CASE StartRun
  BY <1>2 DEF StartRun, NextBatch, Waiting
<1>3. ASSUME NEW c \in Commands, Mark(c) PROVE IInv'
  BY <1>3 DEF Mark
<1>4. ASSUME NEW s \in Slots, Send(s) PROVE IInv'
  BY <1>4 DEF Send
<1>5. ASSUME NEW c \in Commands, Settle(c) PROVE IInv'
  BY <1>5 DEF Settle, Settled
<1>6. ASSUME NEW c \in Commands, SettleFailure(c) PROVE IInv'
  BY <1>6 DEF SettleFailure
<1>7. CASE EndRun
  BY <1>7 DEF EndRun
<1>8. CASE Reload
  BY <1>8 DEF Reload
<1>9. CASE RetryFailed
  BY <1>9 DEF RetryFailed
<1>10. CASE LoseConnection
  BY <1>10 DEF LoseConnection
<1>11. QED
  BY <1>1, <1>2, <1>3, <1>4, <1>5, <1>6, <1>7, <1>8, <1>9, <1>10 DEF TerminalStep

\* What the server reads and files on its way to the next command.
LEMMA ServerReads ==
  ASSUME IInv, NEW s \in Slots,
         \/ ReadLedger(s)
         \/ \E c \in Commands : \/ Duplicate(s, c) \/ Refuse(s, c) \/ Judge(s, c)
                                \/ CloseException(s, c) \/ RecordException(s, c) \/ QueryFails(s, c)
  PROVE  IInv'
<1> USE CommandsAssumption, SlotsAssumption, BoundsAssumption
    DEF IInv, TypeOK, Status, Running, Serving, Outcome, RunIsKnown, OutcomesAreTrue, RequestIsKept,
        AnswerIsTrue, LedgerIsTrue, AppliedAtMostOnce, NoSilentLoss, Held, Applied, At, Oldest,
        Decide, NextCommand, terminal, server, bounds
<1>1. CASE ReadLedger(s)
  BY <1>1 DEF ReadLedger
<1>2. ASSUME NEW c \in Commands, Duplicate(s, c) PROVE IInv'
  BY <1>2 DEF Duplicate
<1>3. ASSUME NEW c \in Commands, Refuse(s, c) PROVE IInv'
  BY <1>3 DEF Refuse
<1>4. ASSUME NEW c \in Commands, Judge(s, c) PROVE IInv'
  BY <1>4 DEF Judge, Goto
<1>5. ASSUME NEW c \in Commands, CloseException(s, c) PROVE IInv'
  BY <1>5 DEF CloseException
<1>6. ASSUME NEW c \in Commands, RecordException(s, c) PROVE IInv'
  BY <1>6 DEF RecordException
<1>7. ASSUME NEW c \in Commands, QueryFails(s, c) PROVE IInv'
  BY <1>7 DEF QueryFails, Fault
<1>8. QED
  BY <1>1, <1>2, <1>3, <1>4, <1>5, <1>6, <1>7

\* What it writes: an effect of a kind that protects itself once, the ledger
\* entry with it or after it.
LEMMA ServerWrites ==
  ASSUME IInv, NEW s \in Slots, NEW c \in Commands,
         ApplyOwn(s, c) \/ Write(s, c) \/ MarkProcessed(s, c)
  PROVE  IInv'
<1> USE DEF TypeOK, Decide, Goto, terminal, bounds
<1>1. Oldest(todo[s], c) /\ todo' = todo /\ \A step : \A d \in Commands : At(s, d, step)' => d = c
  <2>1. Oldest(todo[s], c) /\ todo' = todo
    BY DEF ApplyOwn, Write, MarkProcessed, At
  <2>2. ASSUME NEW d \in Commands, Oldest(todo[s], d) PROVE d = c
    BY <2>1, <2>2, CommandsAssumption DEF Oldest
  <2>3. QED
    BY <2>1, <2>2 DEF At, Oldest
<1>2. CASE ApplyOwn(s, c)
  <2>1. \/ effects[c] = 0 /\ effects' = [effects EXCEPT ![c] = 1] /\ ledger' = ledger \cup {c}
        \/ effects[c] > 0 /\ c \in ledger /\ UNCHANGED <<effects, ledger>>
    BY <1>2 DEF IInv, ApplyOwn, LedgerIsTrue
  <2>2. /\ kind[c] = "OWN" /\ c \in ledger' /\ UNCHANGED <<kind, terminal, todo, known, stage, exc, bounds>>
        /\ req' = [req EXCEPT ![s] = "close"] /\ result' = [result EXCEPT ![s][c] = "APPLIED"]
    BY <1>2, <2>1 DEF IInv, ApplyOwn
  <2>3. effects' \in [Commands -> Nat] /\ ledger' \subseteq Commands
    BY <2>1 DEF IInv
  <2>4. req' \in [Slots -> Serving] /\ result' \in [Slots -> [Commands -> Outcome]]
    BY <2>2 DEF IInv, Serving, Outcome
  <2>5. TypeOK'
    BY <2>2, <2>3, <2>4 DEF IInv
  <2>6. RunIsKnown' /\ RequestIsKept' /\ AnswerIsTrue'
    BY <2>1, <2>2 DEF IInv, RunIsKnown, RequestIsKept, AnswerIsTrue
  <2>7. OutcomesAreTrue'
    BY <1>1, <2>1, <2>2 DEF IInv, OutcomesAreTrue, Applied, At
  <2>8. LedgerIsTrue' /\ AppliedAtMostOnce'
    BY <2>1, <2>2 DEF IInv, LedgerIsTrue, AppliedAtMostOnce
  <2>9. NoSilentLoss'
    BY <2>1, <2>2 DEF IInv, NoSilentLoss, Held
  <2>10. QED
    BY <2>5, <2>6, <2>7, <2>8, <2>9 DEF IInv
<1>3. CASE Write(s, c)
  <2>1. TypeOK'
    BY <1>3, TargetIsNat DEF IInv, Write, Serving
  <2>2. RunIsKnown' /\ RequestIsKept' /\ AnswerIsTrue'
    BY <1>3 DEF IInv, Write, RunIsKnown, RequestIsKept, AnswerIsTrue
  <2>3. OutcomesAreTrue'
    BY <1>1, <1>3 DEF IInv, Write, OutcomesAreTrue, At
  <2>4. LedgerIsTrue' /\ AppliedAtMostOnce' /\ NoSilentLoss'
    BY <1>3 DEF IInv, Write, At, LedgerIsTrue, AppliedAtMostOnce, NoSilentLoss, Held
  <2>5. QED
    BY <2>1, <2>2, <2>3, <2>4 DEF IInv
<1>4. CASE MarkProcessed(s, c)
  <2>1. TypeOK'
    BY <1>4 DEF IInv, MarkProcessed, Serving, Outcome
  <2>2. RunIsKnown' /\ RequestIsKept' /\ AnswerIsTrue'
    BY <1>4 DEF IInv, MarkProcessed, RunIsKnown, RequestIsKept, AnswerIsTrue
  <2>3. OutcomesAreTrue'
    BY <1>1, <1>4 DEF IInv, MarkProcessed, OutcomesAreTrue, At, Applied
  <2>4. LedgerIsTrue' /\ AppliedAtMostOnce' /\ NoSilentLoss'
    BY <1>4 DEF IInv, MarkProcessed, OutcomesAreTrue, LedgerIsTrue, AppliedAtMostOnce, NoSilentLoss, Held
  <2>5. QED
    BY <2>1, <2>2, <2>3, <2>4 DEF IInv
<1>5. QED
  BY <1>2, <1>3, <1>4

\* A request that ends hands its outcomes to the terminal that waits for them.
LEMMA RequestEnds == ASSUME IInv, NEW s \in Slots, Reply(s) \/ Die(s) PROVE IInv'
<1> USE SlotsAssumption DEF TypeOK
<1>1. NoAnswer \in [Commands -> Outcome] /\ \A c \in Commands : NoAnswer[c] = "NONE"
  BY DEF NoAnswer, Outcome
<1>2. Free(s)
  BY DEF Reply, Die
<1>3. /\ req' \in [Slots -> Serving] /\ todo' \in [Slots -> SUBSET Commands]
      /\ known' \in [Slots -> SUBSET Commands] /\ result' \in [Slots -> [Commands -> Outcome]]
  BY <1>1, <1>2 DEF IInv, Free, Serving
<1>4. \A r \in Slots : r # s => /\ req'[r] = req[r] /\ todo'[r] = todo[r]
                                /\ known'[r] = known[r] /\ result'[r] = result[r]
  BY <1>2 DEF IInv, Free
<1>5. req'[s] = "free" /\ todo'[s] = {} /\ known'[s] = {} /\ result'[s] = NoAnswer
  BY <1>2 DEF IInv, Free
<1>6. UNCHANGED <<kind, st, retry, batch, server>>
  BY DEF Reply, Die, NoResponse, terminal
<1>7. LedgerIsTrue' /\ AppliedAtMostOnce' /\ NoSilentLoss'
  BY <1>6 DEF IInv, server, LedgerIsTrue, AppliedAtMostOnce, NoSilentLoss, Held
<1>8. OutcomesAreTrue'
  BY <1>1, <1>4, <1>5, <1>6 DEF IInv, server, OutcomesAreTrue, Applied, At, Oldest
<1>9. CASE slot = s /\ Reply(s)
  <2>1. /\ run' = "settling" /\ left' = batch /\ slot' = NoSlot /\ answer' = result[s]
        /\ todo[s] = {} /\ UNCHANGED bounds
    BY <1>9 DEF Reply
  <2>2. TypeOK'
    BY <1>3, <1>6, <2>1 DEF IInv, server, bounds, Running
  <2>3. RunIsKnown' /\ RequestIsKept'
    BY <1>6, <1>9, <2>1 DEF IInv, RunIsKnown, RequestIsKept
  <2>4. AnswerIsTrue'
    BY <1>6, <1>9, <2>1 DEF IInv, AnswerIsTrue, RequestIsKept, OutcomesAreTrue, server
  <2>5. QED
    BY <1>7, <1>8, <2>2, <2>3, <2>4 DEF IInv
<1>10. CASE slot = s /\ Die(s)
  <2>1. run' = "failing" /\ left' = batch /\ slot' = NoSlot /\ answer' = answer /\ Fault
    BY <1>10 DEF Die, NoResponse
  <2>2. TypeOK'
    BY <1>3, <1>6, <2>1, BoundsAssumption DEF IInv, server, Running, Fault
  <2>3. RunIsKnown' /\ RequestIsKept' /\ AnswerIsTrue'
    BY <1>6, <1>10, <2>1 DEF IInv, RunIsKnown, RequestIsKept, AnswerIsTrue
  <2>4. QED
    BY <1>7, <1>8, <2>2, <2>3 DEF IInv
<1>11. CASE slot # s
  <2>1. UNCHANGED <<run, left, slot, answer>> /\ (UNCHANGED bounds \/ Fault)
    BY <1>11 DEF Reply, Die, terminal
  <2>2. TypeOK'
    BY <1>3, <1>6, <2>1, BoundsAssumption DEF IInv, server, bounds, Fault
  <2>3. RunIsKnown' /\ RequestIsKept' /\ AnswerIsTrue'
    BY <1>4, <1>6, <1>11, <2>1 DEF IInv, server, RunIsKnown, RequestIsKept, AnswerIsTrue
  <2>4. QED
    BY <1>7, <1>8, <2>2, <2>3 DEF IInv
<1>12. QED
  BY <1>9, <1>10, <1>11

LEMMA NextKeeps == IInv /\ [Next]_vars => IInv'
<1>1. ASSUME IInv, Next PROVE IInv'
  BY <1>1, TerminalKeeps, ServerReads, ServerWrites, RequestEnds DEF Next, ServerStep
<1>2. ASSUME IInv, UNCHANGED vars PROVE IInv'
  BY <1>2 DEF vars, IInv, TypeOK, RunIsKnown, OutcomesAreTrue, RequestIsKept, AnswerIsTrue,
              LedgerIsTrue, AppliedAtMostOnce, NoSilentLoss, Held, At
<1>3. QED
  BY <1>1, <1>2

-----------------------------------------------------------------------------
(* The theorems                                                            *)

\* The invariant the other four are parts of.
THEOREM SyncInvariant == Spec => []IInv
BY InitEstablishes, NextKeeps, PTL DEF Spec

\* Everything has its type: a command is never retried beyond the limit.
THEOREM TypeCorrect == Spec => []TypeOK
<1>1. IInv => TypeOK
  BY DEF IInv
<1>2. QED
  BY SyncInvariant, <1>1, PTL

\* However requests overlap, die and are sent again, a command that carries a
\* key changes the database once.
THEOREM ReplayIsHarmless == Spec => []AppliedAtMostOnce
<1>1. IInv => AppliedAtMostOnce
  BY DEF IInv
<1>2. QED
  BY SyncInvariant, <1>1, PTL

\* What the terminal has cleared is in the server's ledger and has its effect.
THEOREM NothingIsLost == Spec => []NoSilentLoss
<1>1. IInv => NoSilentLoss
  BY DEF IInv
<1>2. QED
  BY SyncInvariant, <1>1, PTL

\* No ledger entry stands for nothing, no output or downtime is without one.
THEOREM LedgerTellsTheTruth == Spec => []LedgerIsTrue
<1>1. IInv => LedgerIsTrue
  BY DEF IInv
<1>2. QED
  BY SyncInvariant, <1>1, PTL
=============================================================================
