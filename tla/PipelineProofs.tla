--------------------------- MODULE PipelineProofs ---------------------------
(***************************************************************************)
(* Proofs about Pipeline for every source and every budget, whether it is  *)
(* large enough for both windows or not.  Its two schedulers keep what was *)
(* proved of them alone, as each is a bystander of the other's steps.      *)
(***************************************************************************)
EXTENDS Pipeline, TLAPS, FiniteSetTheorems

(* The two schedulers again, with what was proved of them. *)
RP == INSTANCE ReadSchedulerProofs WITH
          Self <- ReaderPermit, Rival <- Client, RivalSizes <- {}, Reader <- Client,
          MaxRetries <- ReaderRetries, Windows <- ReaderWindows, Faults <- ReaderFaults,
          FrameCounts <- ToSet(FileCounts),
          files <- readFiles, window <- readWindow, pc <- readPc, round <- readRound

WP == INSTANCE WriteSchedulerProofs WITH
          Self <- WriterPermit, Rival <- Client, RivalSizes <- {}, Writer <- Client,
          MaxRetries <- WriterRetries, Windows <- WriterWindows, Faults <- WriterFaults,
          FileCapacities <- {FileCapacity},
          files <- writeFiles, window <- writeWindow, pc <- writePc, round <- writeRound

LEMMA ReaderActions ==
    /\ (R!Init => RP!Init)
    /\ \A c : (R!Push(c) => RP!Push(c))
    /\ (R!Close => RP!Close)
    /\ (R!Begin("read") => RP!Begin("read"))
    /\ (R!Grow => RP!Grow)
    /\ (R!DriveStep => RP!DriveStep)
    /\ (R!Emit => RP!Emit)
    /\ (R!ReturnPending => RP!ReturnPending)
    /\ (R!ReportEnd => RP!ReportEnd)
    /\ (R!ReportError => RP!ReportError)
    /\ \A c : (R!BackendEvent(c) => RP!BackendEvent(c))
    /\ \A c : (R!BudgetThread(c) => RP!BudgetThread(c))
    /\ \A c : (R!BudgetWake(c) => RP!BudgetWake(c))
BY DEF R!Init, R!BudgetStart, R!Free, R!Permits, R!DefaultRequest, R!NoRound, R!Push,
       R!Idle, R!Callable, R!Full, R!Distance, R!Horizon, R!Most, R!NewSlot, R!Plus,
       R!budgetVars, R!pollVars, R!Close, R!Begin, R!EndedByClose, R!ReturnGrant, R!Shrink,
       R!ShrinkTo, R!GiveBack, R!Refund, R!Without, R!Grow, R!Least, R!Target, R!PollGrow,
       R!GrowSatisfied, R!GrowClaimed, R!GrowLocked, R!Held, R!GrowRepeated, R!NewestWaker,
       R!GrowImmediate, R!ServedAtOnce, R!Share, R!GrowQueued, R!Window, R!Less,
       R!WindowLimit, R!NewCell, R!outsideVars, R!DriveStep, R!AllReceived, R!HasOperation,
       R!Authorized, R!Offset, R!Continue, R!Kept, R!End, R!NextCursor, R!SelfWoken,
       R!RoundsEnd, R!With, R!Fail, R!PollBackend, R!Answers, R!Receive, R!FrameOffset,
       R!Retry, R!NextTry, R!Emit, R!InRead, R!HeadComplete, R!Adjust, R!ReturnReady,
       R!ReturnPending, R!schedulerVars, R!ReportEnd, R!ReportError, R!TakeError,
       R!BackendEvent, R!BudgetThread, R!Dispatch, R!HeadServable, R!Stale, R!Fits,
       R!Unlock, R!BudgetOnly, R!BudgetWake, R!Wake, R!Awoken, R!Woken, RP!Init,
       RP!BudgetStart, RP!Free, RP!Permits, RP!DefaultRequest, RP!NoRound, RP!Push, RP!Idle,
       RP!Callable, RP!Full, RP!Distance, RP!Horizon, RP!Most, RP!NewSlot, RP!Plus,
       RP!budgetVars, RP!pollVars, RP!Close, RP!Begin, RP!EndedByClose, RP!ReturnGrant,
       RP!Shrink, RP!ShrinkTo, RP!GiveBack, RP!Refund, RP!Without, RP!Grow, RP!Least,
       RP!Target, RP!PollGrow, RP!GrowSatisfied, RP!GrowClaimed, RP!GrowLocked, RP!Held,
       RP!GrowRepeated, RP!NewestWaker, RP!GrowImmediate, RP!ServedAtOnce, RP!Share,
       RP!GrowQueued, RP!Window, RP!Less, RP!WindowLimit, RP!NewCell, RP!outsideVars,
       RP!DriveStep, RP!AllReceived, RP!HasOperation, RP!Authorized, RP!Offset, RP!Continue,
       RP!Kept, RP!End, RP!NextCursor, RP!SelfWoken, RP!RoundsEnd, RP!With, RP!Fail,
       RP!PollBackend, RP!Answers, RP!Receive, RP!FrameOffset, RP!Retry, RP!NextTry,
       RP!Emit, RP!InRead, RP!HeadComplete, RP!Adjust, RP!ReturnReady, RP!ReturnPending,
       RP!schedulerVars, RP!ReportEnd, RP!ReportError, RP!TakeError, RP!BackendEvent,
       RP!BudgetThread, RP!Dispatch, RP!HeadServable, RP!Stale, RP!Fits, RP!Unlock,
       RP!BudgetOnly, RP!BudgetWake, RP!Wake, RP!Awoken, RP!Woken

LEMMA WriterActions ==
    /\ (W!Init => WP!Init)
    /\ \A c : (W!PushFile(c) => WP!PushFile(c))
    /\ (W!PollWrite => WP!PollWrite)
    /\ (W!DriveStep => WP!DriveStep)
    /\ (W!Reserve => WP!Reserve)
    /\ (W!Grow => WP!Grow)
    /\ (W!FillReady => WP!FillReady)
    /\ (W!FillPends => WP!FillPends)
    /\ (W!FillFails => WP!FillFails)
    /\ \A c : (W!PopSwap(c) => WP!PopSwap(c))
    /\ (W!StopInput => WP!StopInput)
    /\ (W!PollClose => WP!PollClose)
    /\ (W!FinishClose => WP!FinishClose)
    /\ (W!PopFile => WP!PopFile)
    /\ \A c : (W!BackendEvent(c) => WP!BackendEvent(c))
BY DEF W!Init, W!BudgetStart, W!Free, W!Permits, W!DefaultRequest, W!Idle, W!Callable,
       W!NoRound, W!PushFile, W!Missing, W!ValidFile, W!Replay, W!NewSlot, W!WakeStored,
       W!budgetVars, W!pollVars, W!PollWrite, W!StartDrive, W!DriveStep, W!Polled,
       W!HasOperation, W!Unwritten, W!Stepped, W!Accepted, W!Rest, W!NextFrame,
       W!FrameReleased, W!Cleared, W!FileReleased, W!Retried, W!Restarted, W!Answers,
       W!AllAssigned, W!Fail, W!ReturnGrant, W!Shrink, W!ShrinkTo, W!GiveBack, W!Refund,
       W!Without, W!DriveStepped, W!Less, W!Done, W!Kept, W!Least, W!Trimmed, W!Most,
       W!SelfWoken, W!RoundsEnd, W!Reserve, W!HoldsSpare, W!MayReserve, W!HasFillSlot, W!Needed,
       W!FillSlot, W!Limit, W!Allocate, W!outsideVars, W!BadAllocation, W!schedulerVars,
       W!Grow, W!PollGrow, W!GrowSatisfied, W!GrowClaimed, W!GrowLocked, W!Held,
       W!GrowRepeated, W!NewestWaker, W!GrowImmediate, W!ServedAtOnce, W!Share,
       W!GrowQueued, W!FillReady, W!InFill, W!FillConsumes, W!Consume, W!FlushedFiles,
       W!FlushedIndex, W!ReturnReady, W!FillPends, W!Completed, W!ReturnPending,
       W!FillFails, W!PopSwap, W!TakeHead, W!FillIndexAfterHead, W!StopInput, W!PollClose,
       W!FinishClose, W!PopFile, W!BackendEvent, W!Max, WP!Init, WP!BudgetStart, WP!Free,
       WP!Permits, WP!DefaultRequest, WP!Idle, WP!Callable, WP!NoRound, WP!PushFile,
       WP!Missing, WP!ValidFile, WP!Replay, WP!NewSlot, WP!WakeStored, WP!budgetVars,
       WP!pollVars, WP!PollWrite, WP!StartDrive, WP!DriveStep, WP!Polled, WP!HasOperation,
       WP!Unwritten, WP!Stepped, WP!Accepted, WP!Rest, WP!NextFrame, WP!FrameReleased,
       WP!Cleared, WP!FileReleased, WP!Retried, WP!Restarted, WP!Answers, WP!AllAssigned,
       WP!Fail, WP!ReturnGrant, WP!Shrink, WP!ShrinkTo, WP!GiveBack, WP!Refund, WP!Without,
       WP!DriveStepped, WP!Less, WP!Done, WP!Kept, WP!Least, WP!Trimmed, WP!Most,
       WP!SelfWoken, WP!RoundsEnd, WP!Reserve, WP!HoldsSpare, WP!MayReserve, WP!HasFillSlot, WP!Needed,
       WP!FillSlot, WP!Limit, WP!Allocate, WP!outsideVars, WP!BadAllocation,
       WP!schedulerVars, WP!Grow, WP!PollGrow, WP!GrowSatisfied, WP!GrowClaimed,
       WP!GrowLocked, WP!Held, WP!GrowRepeated, WP!NewestWaker, WP!GrowImmediate,
       WP!ServedAtOnce, WP!Share, WP!GrowQueued, WP!FillReady, WP!InFill, WP!FillConsumes,
       WP!Consume, WP!FlushedFiles, WP!FlushedIndex, WP!ReturnReady, WP!FillPends,
       WP!Completed, WP!ReturnPending, WP!FillFails, WP!PopSwap, WP!TakeHead,
       WP!FillIndexAfterHead, WP!StopInput, WP!PollClose, WP!FinishClose, WP!PopFile,
       WP!BackendEvent, WP!Max

(* What was proved of a scheduler holds under its module's assumptions.     *)
LEMMA BudgetHolds == RP!BudgetAssumption /\ WP!BudgetAssumption
BY BudgetAssumption DEF RP!BudgetAssumption, WP!BudgetAssumption

LEMMA ReaderPermitHolds == RP!SelfAssumption
BY PipelineAssumption DEF RP!SelfAssumption, RP!Permits, ReaderPermit

LEMMA WriterPermitHolds == WP!SelfAssumption
BY PipelineAssumption DEF WP!SelfAssumption, WP!Permits, WriterPermit

LEMMA NoRivals == RP!RivalAssumption /\ WP!RivalAssumption
BY PipelineAssumption DEF RP!RivalAssumption, WP!RivalAssumption

LEMMA ReaderHolds == RP!ReaderAssumption
<1>1. ToSet(FileCounts) \subseteq 0..(Modulus - 1)
  BY PipelineAssumption DEF ToSet
<1> QED BY <1>1, PipelineAssumption DEF RP!ReaderAssumption

LEMMA WriterHolds == WP!WriterAssumption
BY PipelineAssumption DEF WP!WriterAssumption

(* Both have the same invariant of the one budget. *)
LEMMA SameBudget == (RP!IInv <=> WP!IInv) /\ (RP!IInv' <=> WP!IInv')
BY DEF RP!IInv, RP!TypeOK, RP!Permits, RP!Free, RP!Request, RP!RequestShape, RP!Held,
       RP!Ledger, RP!IsLedger, RP!Holdings, RP!QueueIsWaiting, RP!HeadIsBlocked,
       RP!NoLostWakeup, WP!IInv, WP!TypeOK, WP!Permits, WP!Free, WP!Request,
       WP!RequestShape, WP!Held, WP!Ledger, WP!IsLedger, WP!Holdings, WP!QueueIsWaiting,
       WP!HeadIsBlocked, WP!NoLostWakeup

LEMMA SameThreads ==
    \A p : R!BudgetThread(p) \/ R!BudgetWake(p) => WP!Dispatch(p) \/ WP!Unlock(p) \/ WP!Wake(p)
BY DEF R!BudgetThread, R!Dispatch, R!HeadServable, R!Stale, R!Fits, R!Share, R!Unlock,
       R!Free, R!BudgetOnly, R!schedulerVars, R!pollVars, R!outsideVars, R!BudgetWake,
       R!Wake, R!Awoken, R!Permits, R!Woken, WP!Dispatch, WP!HeadServable, WP!Stale,
       WP!Fits, WP!Share, WP!Unlock, WP!Free, WP!Wake, WP!Awoken, WP!Permits

-----------------------------------------------------------------------------
(* What each scheduler keeps by itself. *)
Schedulers == RP!ReaderInv /\ RP!CallerHas /\ WP!WriterInv /\ WP!CallerHas

LEMMA ReaderAlone ==
    ASSUME RP!ReaderInv, RP!CallerHas, RP!OwnMove, RP!InPoll \/ runnable' \in BOOLEAN
    PROVE  /\ RP!ReaderInv' /\ RP!CallerHas' /\ RP!IInv' /\ UNCHANGED alive
           /\ capacity'[WriterPermit] = capacity[WriterPermit]
           /\ request'[WriterPermit] = request[WriterPermit]
           /\ runnable' \in BOOLEAN
<1>1. RP!ReaderInv' /\ RP!CallerHas'
  BY RP!OwnMoveKeeps, RP!CallerHasMore, BudgetHolds, ReaderPermitHolds, NoRivals, ReaderHolds
<1>2. RP!OwnUse(Client)
  BY RP!OwnMoveUses, BudgetHolds, ReaderPermitHolds, NoRivals, ReaderHolds
<1>3. RP!IInv /\ Client \in Tasks
  BY PipelineAssumption DEF RP!ReaderInv
<1>4. /\ RP!IInv' /\ UNCHANGED alive
      /\ \A p \in RP!Permits \ {ReaderPermit} :
            capacity'[p] = capacity[p] /\ request'[p] = request[p]
  BY <1>2, <1>3, RP!OwnStep, BudgetHolds, ReaderPermitHolds, NoRivals, ReaderHolds
<1>5. WriterPermit \in RP!Permits \ {ReaderPermit}
  BY PipelineAssumption DEF RP!Permits, ReaderPermit, WriterPermit
<1>6. runnable' \in BOOLEAN
  BY <1>1 DEF RP!ReaderInv, RP!ReaderTypeOK
<1> QED BY <1>1, <1>4, <1>5, <1>6

LEMMA WriterAlone ==
    ASSUME WP!WriterInv, WP!CallerHas, WP!OwnMove
    PROVE  /\ WP!WriterInv' /\ WP!CallerHas' /\ WP!IInv' /\ UNCHANGED alive
           /\ capacity'[ReaderPermit] = capacity[ReaderPermit]
           /\ request'[ReaderPermit] = request[ReaderPermit]
           /\ runnable' \in BOOLEAN
<1>1. WP!Next
  BY DEF WP!OwnMove, WP!Next, WP!Calls, WP!Outside
<1>2. WP!WriterInv' /\ WP!CallerHas'
  BY <1>1, WP!WriterStep, WP!CallerHasMore, BudgetHolds, WriterPermitHolds, NoRivals,
     WriterHolds
<1>3. WP!OwnUse(Client)
  BY WP!OwnMoveUses, BudgetHolds, WriterPermitHolds, NoRivals, WriterHolds
<1>4. WP!IInv /\ Client \in Tasks
  BY PipelineAssumption DEF WP!WriterInv
<1>5. /\ WP!IInv' /\ UNCHANGED alive
      /\ \A p \in WP!Permits \ {WriterPermit} :
            capacity'[p] = capacity[p] /\ request'[p] = request[p]
  BY <1>3, <1>4, WP!OwnStep, BudgetHolds, WriterPermitHolds, NoRivals, WriterHolds
<1>6. ReaderPermit \in WP!Permits \ {WriterPermit}
  BY PipelineAssumption DEF WP!Permits, ReaderPermit, WriterPermit
<1>7. runnable' \in BOOLEAN
  BY <1>2 DEF WP!WriterInv, WP!WriterTypeOK
<1> QED BY <1>2, <1>5, <1>6, <1>7

(* The other one is a bystander. *)
LEMMA ReaderMoves ==
    ASSUME Schedulers, RP!OwnMove, RP!InPoll \/ runnable' \in BOOLEAN, UNCHANGED writerVars
    PROVE  Schedulers'
<1>1. /\ RP!ReaderInv' /\ RP!CallerHas' /\ RP!IInv' /\ UNCHANGED alive
      /\ capacity'[WriterPermit] = capacity[WriterPermit]
      /\ request'[WriterPermit] = request[WriterPermit]
      /\ runnable' \in BOOLEAN
  BY ReaderAlone DEF Schedulers
<1>2. WP!WriterInv /\ WP!CallerHas /\ WP!IInv' /\ inputArmed \in BOOLEAN
  BY <1>1, SameBudget DEF Schedulers, WP!WriterInv, WP!WriterTypeOK
<1>3. /\ WP!QueueStays /\ UNCHANGED <<pollCursor, writeWindow, waker, writePc>>
      /\ inputArmed' \in BOOLEAN
  BY <1>2 DEF writerVars, WP!QueueStays
<1>4. WP!WriterInv'
  BY <1>1, <1>2, <1>3, WP!BystanderKeeps, BudgetHolds, WriterPermitHolds, NoRivals, WriterHolds
<1>5. WP!CallerHas'
  BY <1>2 DEF WP!CallerHas, writerVars
<1> QED BY <1>1, <1>4, <1>5 DEF Schedulers

LEMMA WriterMoves ==
    ASSUME Schedulers, WP!OwnMove, UNCHANGED readerVars
    PROVE  Schedulers'
<1>1. /\ WP!WriterInv' /\ WP!CallerHas' /\ WP!IInv' /\ UNCHANGED alive
      /\ capacity'[ReaderPermit] = capacity[ReaderPermit]
      /\ request'[ReaderPermit] = request[ReaderPermit]
      /\ runnable' \in BOOLEAN
  BY WriterAlone DEF Schedulers
<1>2. RP!ReaderInv /\ RP!CallerHas /\ RP!IInv'
  BY <1>1, SameBudget DEF Schedulers
<1>3. UNCHANGED <<readFiles, cells, emitted, discovered, cursor, closed, terminated, readWindow,
                  error, readPc, call, asleep, declared, output, reports>>
  BY DEF readerVars
<1>4. RP!ReaderInv'
  BY <1>1, <1>2, <1>3, RP!BystanderKeeps, BudgetHolds, ReaderPermitHolds, NoRivals, ReaderHolds
<1>5. RP!CallerHas'
  BY <1>2, <1>3 DEF RP!CallerHas
<1> QED BY <1>1, <1>4, <1>5 DEF Schedulers

(* Both are bystanders of the thread that dispatches, unlocks or wakes. *)
LEMMA BudgetMoves ==
    ASSUME Schedulers, InBudget
    PROVE  Schedulers' /\ UNCHANGED <<alive, readerVars, writerVars, clientVars>>
<1>1. PICK p \in Permits : R!BudgetThread(p) \/ R!BudgetWake(p)
  BY DEF InBudget
<1>2. p \in RP!Permits /\ p \in WP!Permits
  BY DEF Permits, RP!Permits, WP!Permits
<1>3. RP!BudgetThread(p) \/ RP!BudgetWake(p)
  BY <1>1, ReaderActions
<1>4. RP!ReaderInv'
  BY <1>2, <1>3, RP!OthersKeep, BudgetHolds, ReaderPermitHolds, NoRivals, ReaderHolds
     DEF Schedulers
<1>5. UNCHANGED <<readerVars, writerVars, clientVars>>
  BY <1>3 DEF InBudget, RP!BudgetThread, RP!BudgetWake, RP!BudgetOnly, RP!schedulerVars,
              RP!pollVars, RP!outsideVars, readerVars
<1>6. WP!IInv /\ WP!WriterInv /\ inputArmed \in BOOLEAN
  BY DEF Schedulers, WP!WriterInv, WP!WriterTypeOK
<1>7. /\ WP!IInv' /\ UNCHANGED alive
      /\ capacity'[WriterPermit] = capacity[WriterPermit]
      /\ ~request[WriterPermit].waiting => request'[WriterPermit] = request[WriterPermit]
  BY <1>1, <1>2, <1>6, SameThreads, WP!OthersStep, BudgetHolds, WriterPermitHolds, NoRivals,
     WriterHolds
<1>8. runnable' \in BOOLEAN
  BY <1>4 DEF RP!ReaderInv, RP!ReaderTypeOK
<1>9. /\ WP!QueueStays /\ UNCHANGED <<pollCursor, writeWindow, waker, writePc>>
      /\ inputArmed' \in BOOLEAN
  BY <1>5, <1>6 DEF writerVars, WP!QueueStays
<1>10. WP!WriterInv'
  BY <1>6, <1>7, <1>8, <1>9, WP!BystanderKeeps, BudgetHolds, WriterPermitHolds, NoRivals,
     WriterHolds
<1>11. RP!CallerHas' /\ WP!CallerHas'
  BY <1>5 DEF Schedulers, RP!CallerHas, WP!CallerHas, readerVars, writerVars
<1> QED BY <1>4, <1>5, <1>7, <1>10, <1>11 DEF Schedulers

-----------------------------------------------------------------------------
(* What the task adds.  The frames on their way: those the reader gave away *)
(* are in the writer, but for the one that poll_fill has just pulled.       *)
Copies ==
    /\ copied \in Seq(Nat) /\ \A k \in DOMAIN copied : copied[k] = k
    /\ Len(output) = Len(copied) + (IF pulled = "frame" THEN 1 ELSE 0)
    /\ begun = Len(copied) /\ partial # "some"

(* A poll of the reader, and its result, live within one poll_fill.         *)
Nesting ==
    /\ pulled # "none" => readPc = "idle"
    /\ pulled # "none" \/ readPc # "idle" => writePc = "fill" /\ partial # "none"

(* What the task knows at the end, and when it closes the writer.           *)
Ending ==
    /\ pushed \in 0..Len(FileCounts) /\ (closed => pushed = Len(FileCounts))
    /\ pulled = "end" \/ stage \in {"closing", "done"} =>
          terminated /\ error = "none" /\ closed /\ Len(output) = declared
    /\ reports > 0 => pulled = "error" \/ stage = "failed"
    /\ stage = "failed" => phase = "Failed"
    /\ phase = "Closing" => stage \in {"closing", "done"}
    /\ stage = "done" => phase = "Closing" /\ writeFiles = <<>> /\ writePc = "idle"

PipelineInv == Schedulers /\ Copies /\ Nesting /\ Ending

(* A poll of the reader makes nobody forget that the task was woken.        *)
LEMMA ReaderStaysAwake ==
    ASSUME RP!InPoll
    PROVE  runnable => runnable'
<1>1. CASE RP!DriveStep
  BY <1>1 DEF RP!DriveStep, RP!Continue, RP!SelfWoken, RP!Fail, RP!PollBackend, RP!Retry,
              RP!Receive, RP!outsideVars
<1>2. CASE ~RP!DriveStep
  BY <1>2 DEF RP!InPoll, RP!Grow, RP!ProgressReturns, RP!ReportError, RP!ReportEnd, RP!Emit,
              RP!ReturnPending, RP!ReturnReady, RP!outsideVars
<1> QED BY <1>1, <1>2

(* Every step is one of a scheduler, of the budget's thread, or none. *)
LEMMA PipelineMoves ==
    ASSUME Schedulers, pushed \in Nat, [Next]_vars
    PROVE  \/ /\ RP!OwnMove /\ (RP!InPoll \/ runnable' \in BOOLEAN) /\ (runnable => runnable')
              /\ UNCHANGED writerVars
           \/ WP!OwnMove /\ UNCHANGED readerVars
           \/ InBudget
           \/ UNCHANGED vars
<1>t. runnable \in BOOLEAN
  BY DEF Schedulers, RP!ReaderInv, RP!ReaderTypeOK
<1>1. CASE PushSource
  <2>1. FileCounts[pushed + 1] \in ToSet(FileCounts)
    <3>1. pushed + 1 \in DOMAIN FileCounts
      BY <1>1, PipelineAssumption DEF PushSource
    <3> QED BY <3>1 DEF ToSet
  <2>2. RP!Push(FileCounts[pushed + 1]) /\ UNCHANGED <<runnable, writerVars>>
    BY <1>1, ReaderActions DEF PushSource, Reading
  <2>3. RP!OwnMove
    BY <2>1, <2>2 DEF RP!OwnMove
  <2> QED BY <1>t, <2>2, <2>3
<1>2. CASE CloseSource \/ Pull
  <2>1. (RP!Close \/ RP!Begin("read")) /\ UNCHANGED <<runnable, writerVars>>
    BY <1>2, ReaderActions DEF CloseSource, Pull, Reading
  <2>2. RP!OwnMove
    BY <2>1 DEF RP!OwnMove
  <2> QED BY <1>t, <2>1, <2>2
<1>3. CASE DriveReader \/ ReaderReturns
  <2>1. RP!InPoll /\ UNCHANGED writerVars
    BY <1>3, ReaderActions DEF DriveReader, ReaderReturns, Reading, RP!InPoll
  <2>2. RP!OwnMove
    BY <2>1 DEF RP!OwnMove
  <2> QED BY <2>1, <2>2, ReaderStaysAwake
<1>4. CASE PushTarget \/ SwapTarget
  <2>1. (WP!PushFile(FileCapacity) \/ WP!PopSwap(FileCapacity)) /\ UNCHANGED readerVars
    BY <1>4, WriterActions DEF PushTarget, SwapTarget, Writing
  <2>2. WP!OwnMove
    BY <2>1 DEF WP!OwnMove
  <2> QED BY <2>1, <2>2
<1>5. CASE PollWriter \/ CloseWriter \/ TakeTarget
  <2>1. (WP!PollWrite \/ WP!StopInput \/ WP!PollClose \/ WP!PopFile) /\ UNCHANGED readerVars
    BY <1>5, WriterActions DEF PollWriter, CloseWriter, TakeTarget, Writing
  <2>2. WP!OwnMove
    BY <2>1 DEF WP!OwnMove
  <2> QED BY <2>1, <2>2
<1>6. CASE DriveWriter \/ FillReturns \/ WriterCloses
  <2>1. WP!InPoll /\ UNCHANGED readerVars
    BY <1>6, WriterActions DEF DriveWriter, FillReturns, FrameCopied, NothingToCopy, SourceEnded,
                               SourceFailed, WriterCloses, Writing, WP!InPoll, WP!Fill
  <2>2. WP!OwnMove
    BY <2>1 DEF WP!OwnMove
  <2> QED BY <2>1, <2>2
<1>7. CASE BackendEvents
  <2>1. CASE (\E i \in DOMAIN readFiles : R!BackendEvent(i)) /\ UNCHANGED writerVars
    <3>1. PICK i \in DOMAIN readFiles : RP!BackendEvent(i)
      BY <2>1, ReaderActions
    <3>2. RP!OwnMove
      BY <3>1 DEF RP!OwnMove
    <3>3. runnable' \in BOOLEAN /\ runnable'
      BY <3>1 DEF RP!BackendEvent
    <3> QED BY <2>1, <3>2, <3>3
  <2>2. CASE (\E i \in DOMAIN writeFiles : W!BackendEvent(i)) /\ UNCHANGED readerVars
    <3>1. PICK i \in DOMAIN writeFiles : WP!BackendEvent(i)
      BY <2>2, WriterActions
    <3>2. WP!OwnMove
      BY <3>1 DEF WP!OwnMove
    <3> QED BY <2>2, <3>2
  <2> QED BY <1>7, <2>1, <2>2 DEF BackendEvents
<1> QED BY <1>1, <1>2, <1>3, <1>4, <1>5, <1>6, <1>7 DEF Next, Run

LEMMA SchedulersKept ==
    ASSUME Schedulers, pushed \in Nat, [Next]_vars
    PROVE  Schedulers'
<1>1. CASE UNCHANGED vars
  <2>1. RP!ReaderInv'
    BY <1>1, RP!ReaderStep, BudgetHolds, ReaderPermitHolds, NoRivals, ReaderHolds
       DEF Schedulers, vars, budgetVars, readerVars, RP!vars, RP!budgetVars, RP!schedulerVars,
           RP!pollVars, RP!outsideVars
  <2>2. WP!WriterInv'
    BY <1>1, WP!WriterStep, BudgetHolds, WriterPermitHolds, NoRivals, WriterHolds
       DEF Schedulers, vars, budgetVars, writerVars, WP!vars, WP!budgetVars, WP!schedulerVars,
           WP!pollVars, WP!outsideVars
  <2>3. RP!CallerHas' /\ WP!CallerHas'
    BY <1>1 DEF Schedulers, vars, readerVars, writerVars, RP!CallerHas, WP!CallerHas
  <2> QED BY <2>1, <2>2, <2>3 DEF Schedulers
<1> QED BY <1>1, PipelineMoves, ReaderMoves, WriterMoves, BudgetMoves

(* What the parts of the invariant say of a state. *)
LEMMA PipelineFacts ==
    ASSUME PipelineInv
    PROVE  /\ RP!Control /\ WP!Control /\ Copies /\ Nesting /\ Ending
           /\ output \in Seq(1..MaxFrames) /\ Len(output) \in Nat /\ declared \in Nat
           /\ delivered \in Seq(1..MaxFrames) /\ Len(delivered) \in Nat /\ begun \in Nat
           /\ reports \in 0..1 /\ closed \in BOOLEAN /\ terminated \in BOOLEAN
           /\ partial \in {"none", "empty", "some"}
BY DEF PipelineInv, Schedulers, RP!ReaderInv, RP!ReaderTypeOK, WP!WriterInv, WP!WriterTypeOK

LEMMA CopiesStay ==
    ASSUME Copies, UNCHANGED <<output, copied, begun>>, partial' # "some",
           pulled' = "frame" <=> pulled = "frame"
    PROVE  Copies'
BY DEF Copies

(* No poll of the reader outlives the fill, and the writer fills only while *)
(* it writes.                                                               *)
LEMMA WhenFilling ==
    ASSUME PipelineInv, writePc = "fill"
    PROVE  phase = "Writing" /\ stage \notin {"failed", "done"}
           /\ (reports > 0 => pulled = "error")
BY PipelineFacts DEF WP!Control, Ending

LEMMA WhenNotFilling ==
    ASSUME PipelineInv, writePc # "fill"
    PROVE  pulled = "none" /\ readPc = "idle"
BY PipelineFacts DEF Nesting

LEMMA WhenPolled ==
    ASSUME PipelineInv, readPc # "idle"
    PROVE  pulled = "none" /\ writePc = "fill" /\ partial # "none"
BY PipelineFacts DEF Nesting

-----------------------------------------------------------------------------
(* The task's calls of the reader. *)
LEMMA PushSourceKeeps ==
    ASSUME PipelineInv, PushSource
    PROVE  Copies' /\ Nesting' /\ Ending'
<1>1. /\ stage = "copying" /\ readPc = "idle" /\ writePc = "idle" /\ pushed < Len(FileCounts)
      /\ pushed' = pushed + 1 /\ ~closed
      /\ UNCHANGED <<closed, terminated, error, output, reports, readPc, writerVars,
                     stage, pulled, copied>>
  BY ReaderActions DEF PushSource, Ready, Reading, RP!Push, RP!pollVars
<1>2. pulled = "none"
  BY <1>1, WhenNotFilling
<1>3. Copies' /\ Nesting'
  BY <1>1, PipelineFacts, CopiesStay DEF writerVars, Copies, Nesting
<1>4. Ending'
  <2>1. /\ UNCHANGED <<phase, writeFiles, writePc, reports, stage, pulled>>
        /\ stage = "copying" /\ pulled = "none" /\ ~closed'
    BY <1>1, <1>2 DEF writerVars
  <2>2. pushed' \in 0..Len(FileCounts)
    <3>1. Len(FileCounts) \in Nat /\ pushed \in 0..Len(FileCounts)
      BY PipelineFacts, PipelineAssumption DEF Ending
    <3> QED BY <1>1, <3>1
  <2> QED BY <2>1, <2>2, PipelineFacts DEF Ending
<1> QED BY <1>3, <1>4

LEMMA CloseSourceKeeps ==
    ASSUME PipelineInv, CloseSource
    PROVE  Copies' /\ Nesting' /\ Ending'
<1>1. /\ stage = "copying" /\ readPc = "idle" /\ writePc = "idle" /\ pushed = Len(FileCounts)
      /\ UNCHANGED <<terminated, error, output, reports, readPc, writerVars, clientVars>>
  BY ReaderActions DEF CloseSource, Ready, Reading, RP!Close, RP!pollVars
<1>2. pulled = "none"
  BY <1>1, WhenNotFilling
<1>3. Copies' /\ Nesting'
  BY <1>1, PipelineFacts, CopiesStay DEF writerVars, clientVars, Copies, Nesting
<1>4. Ending'
  BY <1>1, <1>2, PipelineFacts DEF writerVars, clientVars, Ending
<1> QED BY <1>3, <1>4

LEMMA PullKeeps ==
    ASSUME PipelineInv, Pull
    PROVE  Copies' /\ Nesting' /\ Ending'
<1>1. /\ writePc = "fill" /\ partial # "none" /\ pulled = "none"
      /\ RP!Begin("read") /\ UNCHANGED <<writerVars, clientVars>>
  BY ReaderActions DEF Pull, InFill, Reading
<1>2. RP!Goes \/ RP!Finishes
  BY <1>1, RP!BeginSeen, BudgetHolds, ReaderPermitHolds, NoRivals, ReaderHolds
     DEF PipelineInv, Schedulers
<1>3. UNCHANGED <<closed, error, declared, output, reports>> /\ (terminated => terminated')
  BY <1>2 DEF RP!Goes, RP!Finishes
<1>4. Copies' /\ Nesting'
  BY <1>1, <1>3, PipelineFacts, CopiesStay DEF writerVars, clientVars, Copies, Nesting
<1>5. Ending'
  BY <1>1, <1>3, WhenFilling, PipelineFacts DEF writerVars, clientVars, Ending
<1> QED BY <1>4, <1>5

LEMMA DriveReaderKeeps ==
    ASSUME PipelineInv, DriveReader
    PROVE  Copies' /\ Nesting' /\ Ending'
<1>1. (RP!Grow \/ RP!DriveStep) /\ UNCHANGED <<writerVars, clientVars>>
  BY ReaderActions DEF DriveReader, Reading
<1>2. readPc \in {"grow", "drive"}
  BY <1>1 DEF RP!Grow, RP!DriveStep
<1>3. ~terminated /\ pulled = "none" /\ writePc = "fill" /\ partial # "none"
  BY <1>2, WhenPolled, PipelineFacts DEF RP!Control
<1>4. UNCHANGED <<closed, declared, output, reports>>
  <2>1. CASE RP!Grow
    BY <2>1 DEF RP!Grow, RP!outsideVars
  <2>2. CASE RP!DriveStep
    <3>1. RP!Goes \/ RP!Breaks
      BY <2>2, RP!DriveStepKeeps, BudgetHolds, ReaderPermitHolds, NoRivals, ReaderHolds
         DEF PipelineInv, Schedulers
    <3> QED BY <3>1 DEF RP!Goes, RP!Breaks
  <2> QED BY <1>1, <2>1, <2>2
<1>5. Copies' /\ Nesting'
  BY <1>1, <1>3, <1>4, PipelineFacts, CopiesStay DEF writerVars, clientVars, Copies, Nesting
<1>6. Ending'
  BY <1>1, <1>3, <1>4, PipelineFacts DEF writerVars, clientVars, Ending
<1> QED BY <1>5, <1>6

(* The end of a poll of the reader: the one of a frame, which is the next,  *)
(* and the others.  The end of the stream is that of a reader which had no  *)
(* error, as an error would have ended the copy.                            *)
LEMMA EmitKept ==
    ASSUME PipelineInv, Reading(R!Emit), pulled' = "frame",
           UNCHANGED <<stage, finished, pushed, copied>>
    PROVE  Copies' /\ Nesting' /\ Ending'
<1>1. RP!Emit /\ UNCHANGED writerVars
  BY ReaderActions DEF Reading
<1>2. readPc = "polled" /\ readPc' = "idle"
  BY <1>1 DEF RP!Emit, RP!InRead, RP!ReturnReady
<1>3. pulled = "none" /\ writePc = "fill" /\ partial # "none"
  BY <1>2, WhenPolled
<1>4. RP!Delivers
  BY <1>1, RP!EmitSeen, BudgetHolds, ReaderPermitHolds, NoRivals, ReaderHolds
     DEF PipelineInv, Schedulers
<1>5. /\ ~terminated /\ output' = Append(output, Len(output) + 1)
      /\ UNCHANGED <<closed, terminated, error, declared, reports>>
  BY <1>4 DEF RP!Delivers
<1>6. Len(output') = Len(output) + 1
  BY <1>5, PipelineFacts
<1>7. Copies'
  BY <1>1, <1>3, <1>6, PipelineFacts DEF writerVars, Copies
<1>8. Nesting'
  BY <1>1, <1>2, <1>3, PipelineFacts DEF writerVars, Nesting
<1>9. Ending'
  BY <1>1, <1>3, <1>5, PipelineFacts DEF writerVars, Ending
<1> QED BY <1>7, <1>8, <1>9

LEMMA ReturnsKept ==
    ASSUME PipelineInv, UNCHANGED <<stage, finished, pushed, copied>>,
           \/ Reading(R!ReturnPending) /\ pulled' = "pending"
           \/ Reading(R!ReportEnd) /\ pulled' = "end"
           \/ Reading(R!ReportError) /\ pulled' = "error"
    PROVE  Copies' /\ Nesting' /\ Ending'
<1>1. /\ \/ RP!ReturnPending /\ pulled' = "pending"
         \/ RP!ReportEnd /\ pulled' = "end"
         \/ RP!ReportError /\ pulled' = "error"
      /\ UNCHANGED writerVars
  BY ReaderActions DEF Reading
<1>2. /\ readPc = "polled" /\ readPc' = "idle"
      /\ UNCHANGED <<closed, terminated, declared, output>>
  BY <1>1 DEF RP!ReturnPending, RP!ReportEnd, RP!ReportError, RP!InRead, RP!ReturnReady,
              RP!schedulerVars
<1>3. pulled = "none" /\ writePc = "fill" /\ partial # "none"
  BY <1>2, WhenPolled
<1>4. stage \notin {"failed", "done"} /\ phase = "Writing" /\ reports = 0
  BY <1>3, WhenFilling, PipelineFacts
<1>5. Copies' /\ Nesting'
  BY <1>1, <1>2, <1>3, PipelineFacts, CopiesStay DEF writerVars, Copies, Nesting
<1>6. CASE RP!ReturnPending /\ pulled' = "pending"
  <2>1. UNCHANGED <<error, reports>>
    BY <1>6 DEF RP!ReturnPending, RP!schedulerVars
  <2> QED BY <1>1, <1>2, <1>3, <1>4, <1>5, <1>6, <2>1, PipelineFacts DEF writerVars, Ending
<1>7. CASE RP!ReportEnd /\ pulled' = "end"
  <2>1. error = "none" /\ terminated /\ UNCHANGED <<error, reports>>
    BY <1>7 DEF RP!ReportEnd, RP!schedulerVars
  <2>2. closed /\ Len(output) = declared
    BY <1>4, <2>1 DEF PipelineInv, Schedulers, RP!CallerHas
  <2> QED BY <1>1, <1>2, <1>3, <1>4, <1>5, <1>7, <2>1, <2>2, PipelineFacts DEF writerVars, Ending
<1>8. CASE RP!ReportError /\ pulled' = "error"
  <2>1. error # "none"
    BY <1>8 DEF RP!ReportError
  <2>2. stage # "closing"
    BY <2>1, PipelineFacts DEF Ending
  <2> QED BY <1>1, <1>2, <1>3, <1>4, <1>5, <1>8, <2>2, PipelineFacts DEF writerVars, Ending
<1> QED BY <1>1, <1>5, <1>6, <1>7, <1>8

LEMMA ReaderReturnsKeeps ==
    ASSUME PipelineInv, ReaderReturns
    PROVE  Copies' /\ Nesting' /\ Ending'
BY EmitKept, ReturnsKept DEF ReaderReturns

-----------------------------------------------------------------------------
(* The task's calls of the writer. *)
LEMMA TargetKeeps ==
    ASSUME PipelineInv, PushTarget \/ SwapTarget \/ TakeTarget
    PROVE  Copies' /\ Nesting' /\ Ending'
<1>1. /\ UNCHANGED <<readerVars, partial, phase, writePc, begun, stage, pulled, pushed, copied>>
      /\ phase = "Writing" \/ writeFiles # <<>>
  BY WriterActions DEF PushTarget, SwapTarget, TakeTarget, Writing, clientVars, WP!PushFile,
                       WP!PopSwap, WP!PopFile, WP!TakeHead, WP!pollVars
<1>2. stage # "done"
  BY <1>1, PipelineFacts DEF Ending
<1>3. Copies' /\ Nesting'
  BY <1>1, PipelineFacts, CopiesStay DEF readerVars, Copies, Nesting
<1>4. Ending'
  BY <1>1, <1>2, PipelineFacts DEF readerVars, Ending
<1> QED BY <1>3, <1>4

LEMMA PollsKeep ==
    ASSUME PipelineInv, PollWriter \/ CloseWriter
    PROVE  Copies' /\ Nesting' /\ Ending'
<1>1. /\ writePc = "idle" /\ UNCHANGED <<readerVars, begun, clientVars>>
      /\ UNCHANGED partial \/ partial' = "none"
      /\ \/ stage = "copying" /\ UNCHANGED phase
         \/ stage = "closing" /\ phase' = "Closing"
  BY WriterActions DEF PollWriter, Ready, CloseWriter, Writing, WP!PollWrite, WP!StopInput,
                       WP!PollClose, WP!Idle
<1>2. pulled = "none" /\ readPc = "idle"
  BY <1>1, WhenNotFilling
<1>3. Copies'
  <2>1. partial' # "some"
    BY <1>1, PipelineFacts DEF Copies
  <2> QED BY <1>1, <2>1, PipelineFacts, CopiesStay DEF readerVars, clientVars
<1>4. Nesting'
  BY <1>1, <1>2 DEF readerVars, clientVars, Nesting
<1>5. Ending'
  BY <1>1, <1>2, PipelineFacts DEF readerVars, clientVars, Ending
<1> QED BY <1>3, <1>4, <1>5

LEMMA DriveWriterKeeps ==
    ASSUME PipelineInv, DriveWriter
    PROVE  Copies' /\ Nesting' /\ Ending'
<1>1. /\ WP!DriveStep \/ WP!Reserve \/ WP!Grow
      /\ UNCHANGED <<readerVars, pulled, finished, pushed, copied>>
      /\ stage' = IF phase' = "Failed" THEN "failed" ELSE stage
  BY WriterActions DEF DriveWriter, Writing
<1>2. /\ writePc \in {"drive", "driven", "grow"} /\ UNCHANGED begun
      /\ UNCHANGED partial \/ partial' \in {"none", "empty"}
      /\ UNCHANGED phase \/ phase' = "Failed"
  <2>1. CASE WP!DriveStep
    BY <2>1 DEF WP!DriveStep, WP!DriveStepped, WP!Fail
  <2>2. CASE WP!Reserve \/ WP!Grow
    BY <2>2 DEF WP!Reserve, WP!Grow, WP!Allocate, WP!BadAllocation, WP!Fail, WP!schedulerVars,
                WP!outsideVars
  <2> QED BY <1>1, <2>1, <2>2
<1>3. pulled = "none" /\ readPc = "idle"
  BY <1>2, WhenNotFilling
<1>4. stage \notin {"failed", "done"}
  BY <1>2, PipelineFacts DEF WP!Control, WP!Streaming, Ending
<1>5. Copies'
  <2>1. partial' # "some"
    BY <1>2, PipelineFacts DEF Copies
  <2> QED BY <1>1, <1>2, <2>1, PipelineFacts, CopiesStay DEF readerVars
<1>6. Nesting'
  BY <1>1, <1>3 DEF readerVars, Nesting
<1>7. Ending'
  BY <1>1, <1>2, <1>3, <1>4, PipelineFacts DEF readerVars, Ending
<1> QED BY <1>5, <1>6, <1>7

LEMMA WriterClosesKeeps ==
    ASSUME PipelineInv, WriterCloses
    PROVE  Copies' /\ Nesting' /\ Ending'
<1>1. /\ writePc = "driven" /\ writePc' = "idle" /\ phase = "Closing"
      /\ UNCHANGED <<readerVars, writeFiles, partial, phase, begun, pulled, pushed, copied>>
      /\ stage' = IF writeFiles = <<>> THEN "done" ELSE stage
  BY WriterActions DEF WriterCloses, Writing, WP!FinishClose, WP!ReturnReady, WP!ReturnPending
<1>2. pulled = "none" /\ readPc = "idle"
  BY <1>1, WhenNotFilling
<1>3. Copies' /\ Nesting'
  BY <1>1, <1>2, PipelineFacts, CopiesStay DEF readerVars, Copies, Nesting
<1>4. Ending'
  BY <1>1, <1>2, PipelineFacts DEF readerVars, Ending
<1> QED BY <1>3, <1>4

(* poll_fill completes the frame it began with the one the reader gave.     *)
LEMMA FrameCopiedKeeps ==
    ASSUME PipelineInv, FrameCopied, pulled' = "none"
    PROVE  Copies' /\ Nesting' /\ Ending'
<1>1. /\ pulled = "frame" /\ WP!FillReady /\ partial' = "none"
      /\ UNCHANGED <<readerVars, stage, pushed>> /\ copied' = Append(copied, Last(output))
  BY WriterActions DEF FrameCopied, Writing
<1>2. writePc = "fill" /\ partial # "none" /\ WP!FillConsumes /\ UNCHANGED phase
  BY <1>1 DEF WP!FillReady, WP!InFill
<1>3. readPc = "idle" /\ partial = "empty"
  BY <1>1, <1>2, PipelineFacts DEF Nesting, Copies
<1>4. begun' = begun + 1
  BY <1>1, <1>2, <1>3 DEF WP!FillConsumes, WP!Consume
<1>5. Last(output) = Len(copied) + 1 /\ Len(output) = Len(copied) + 1
  <2>1. Len(output) = Len(copied) + 1 /\ Len(copied) \in Nat
    BY <1>1, PipelineFacts DEF Copies
  <2>2. output[Len(output)] = Len(output)
    BY <2>1, PipelineFacts DEF PipelineInv, Schedulers, RP!CallerHas
  <2> QED BY <2>1, <2>2 DEF Last
<1>6. Copies'
  <2>1. copied' = Append(copied, Len(copied) + 1) /\ copied \in Seq(Nat)
    BY <1>1, <1>5, PipelineFacts DEF Copies
  <2>2. copied' \in Seq(Nat) /\ Len(copied') = Len(copied) + 1
        /\ \A k \in DOMAIN copied' : copied'[k] = k
    BY <2>1, PipelineFacts DEF Copies
  <2> QED BY <1>1, <1>4, <1>5, <2>2, PipelineFacts DEF readerVars, Copies
<1>7. Nesting'
  BY <1>1, <1>3 DEF readerVars, Nesting
<1>8. Ending'
  BY <1>1, <1>2, WhenFilling, PipelineFacts DEF readerVars, Ending
<1> QED BY <1>6, <1>7, <1>8

LEMMA FillEndsKeep ==
    ASSUME PipelineInv, NothingToCopy \/ SourceEnded \/ SourceFailed, pulled' = "none"
    PROVE  Copies' /\ Nesting' /\ Ending'
<1>1. /\ writePc = "fill" /\ UNCHANGED <<readerVars, begun, pushed, copied>>
      /\ UNCHANGED partial \/ partial' \in {"none", "empty"}
  <2>1. CASE SourceEnded
    <3>1. WP!FillReady /\ partial' = "empty" /\ UNCHANGED <<readerVars, pushed, copied>>
      BY <2>1, WriterActions DEF SourceEnded, Writing
    <3> QED BY <3>1 DEF WP!FillReady, WP!InFill, WP!FillConsumes
  <2>2. CASE NothingToCopy \/ SourceFailed
    BY <2>2, WriterActions DEF NothingToCopy, SourceFailed, Writing, WP!FillPends, WP!FillFails,
                               WP!InFill, WP!Fail
  <2> QED BY <2>1, <2>2
<1>2. readPc = "idle" /\ pulled # "frame"
  BY <1>1, PipelineFacts DEF Nesting, NothingToCopy, SourceEnded, SourceFailed
<1>3. phase = "Writing" /\ stage \notin {"failed", "done"} /\ (reports > 0 => pulled = "error")
  BY <1>1, WhenFilling
<1>4. Copies'
  <2>1. partial' # "some"
    BY <1>1, PipelineFacts DEF Copies
  <2> QED BY <1>1, <1>2, <2>1, PipelineFacts, CopiesStay DEF readerVars
<1>5. Nesting'
  BY <1>1, <1>2 DEF readerVars, Nesting
<1>6. Ending'
  <2>1. \/ pulled # "error" /\ UNCHANGED <<stage, phase>>
        \/ pulled = "end" /\ stage' = "closing" /\ UNCHANGED phase
        \/ stage' = "failed" /\ phase' = "Failed"
    <3>1. CASE NothingToCopy
      BY <1>1, <1>3, <3>1, WriterActions, PipelineFacts DEF NothingToCopy, Writing, WP!FillPends, Nesting
    <3>2. CASE SourceEnded
      BY <3>2, WriterActions DEF SourceEnded, Writing, WP!FillReady
    <3>3. CASE SourceFailed
      BY <3>3, WriterActions DEF SourceFailed, Writing, WP!FillFails, WP!Fail
    <3> QED BY <3>1, <3>2, <3>3
  <2> QED BY <1>1, <1>3, <2>1, PipelineFacts DEF readerVars, Ending
<1> QED BY <1>4, <1>5, <1>6

-----------------------------------------------------------------------------
LEMMA EventsKeep ==
    ASSUME PipelineInv, BackendEvents
    PROVE  Copies' /\ Nesting' /\ Ending'
<1>1. UNCHANGED <<output, closed, terminated, error, declared, reports, readPc, partial, phase,
                  writePc, begun, clientVars>>
      /\ (writeFiles = <<>> => UNCHANGED writeFiles)
  <2>1. CASE (\E i \in DOMAIN readFiles : R!BackendEvent(i)) /\ UNCHANGED writerVars
    BY <2>1, ReaderActions DEF BackendEvents, RP!BackendEvent, RP!pollVars, writerVars
  <2>2. CASE (\E i \in DOMAIN writeFiles : W!BackendEvent(i)) /\ UNCHANGED readerVars
    BY <2>2, WriterActions DEF BackendEvents, WP!BackendEvent, WP!pollVars, readerVars
  <2> QED BY <2>1, <2>2 DEF BackendEvents
<1>2. Copies' /\ Nesting'
  BY <1>1, PipelineFacts, CopiesStay DEF clientVars, Copies, Nesting
<1>3. Ending'
  BY <1>1, PipelineFacts DEF clientVars, Ending
<1> QED BY <1>2, <1>3

LEMMA PipelineStep ==
    ASSUME PipelineInv, [Next]_vars
    PROVE  PipelineInv'
<1>1. Schedulers'
  BY SchedulersKept, PipelineFacts DEF PipelineInv, Ending
<1>2. CASE InBudget \/ UNCHANGED vars
  <2>1. UNCHANGED <<readerVars, writerVars, clientVars>>
    BY <1>2, BudgetMoves DEF PipelineInv, vars
  <2> QED BY <1>1, <2>1 DEF PipelineInv, Copies, Nesting, Ending, readerVars, writerVars, clientVars
<1>3. CASE FillReturns
  BY <1>1, <1>3, FrameCopiedKeeps, FillEndsKeep DEF FillReturns, PipelineInv
<1> QED BY <1>1, <1>2, <1>3, PushSourceKeeps, CloseSourceKeeps, PullKeeps, DriveReaderKeeps,
           ReaderReturnsKeeps, TargetKeeps, PollsKeep, DriveWriterKeeps, WriterClosesKeeps,
           EventsKeep DEF Next, Run, PipelineInv

LEMMA PipelineStart ==
    ASSUME Init
    PROVE  PipelineInv
<1>1. RP!Init /\ WP!Init
  BY ReaderActions, WriterActions DEF Init
<1>2. RP!ReaderInv
  BY <1>1, RP!ReaderStart, BudgetHolds, ReaderPermitHolds, NoRivals, ReaderHolds
<1>3. WP!WriterInv
  BY <1>1, WP!WriterStart, BudgetHolds, WriterPermitHolds, NoRivals, WriterHolds
<1>4. RP!CallerHas /\ WP!CallerHas
  BY <1>1 DEF RP!Init, WP!Init, RP!CallerHas, WP!CallerHas
<1>5. Copies /\ Nesting
  BY <1>1 DEF Init, RP!Init, WP!Init, Copies, Nesting
<1>6. Ending
  BY <1>1, PipelineAssumption DEF Init, RP!Init, WP!Init, Ending
<1> QED BY <1>2, <1>3, <1>4, <1>5, <1>6 DEF PipelineInv, Schedulers

LEMMA PipelineInvariance == Spec => []PipelineInv
<1>1. Init => PipelineInv
  BY PipelineStart
<1>2. PipelineInv /\ [Next]_vars => PipelineInv'
  BY PipelineStep
<1> QED BY <1>1, <1>2, PTL DEF Spec

-----------------------------------------------------------------------------
(* Every frame that the reader gave away is in the writer, and the files    *)
(* handed back hold the frames of the source in order; at the end, all of   *)
(* them: poll_fill neither loses nor doubles a frame that poll_read yields. *)
THEOREM CopyStaysFaithful == Spec => []CopyIsFaithful
<1>1. ASSUME PipelineInv PROVE CopyIsFaithful
  <2>1. /\ Copies /\ Ending /\ Nesting /\ Len(delivered) \in Nat /\ begun = Len(copied)
        /\ Len(delivered) <= begun /\ \A k \in DOMAIN delivered : delivered[k] = k
    BY <1>1, PipelineFacts DEF Copies, PipelineInv, Schedulers, WP!CallerHas
  <2>2. ASSUME NEW k \in DOMAIN delivered
        PROVE  delivered[k] \in DOMAIN copied /\ copied[delivered[k]] = k
    <3>1. k \in 1..Len(delivered) /\ delivered[k] = k
      BY <1>1, <2>1, PipelineFacts
    <3>2. k \in 1..Len(copied) /\ DOMAIN copied = 1..Len(copied)
      BY <2>1, <3>1 DEF Copies
    <3> QED BY <2>1, <3>1, <3>2 DEF Copies
  <2>3. ASSUME stage = "done" PROVE pushed = Len(FileCounts) /\ Len(delivered) = declared
    <3>1. phase = "Closing" /\ writeFiles = <<>> /\ writePc = "idle" /\ closed
          /\ Len(output) = declared
      BY <2>1, <2>3 DEF Ending
    <3>2. pulled = "none"
      BY <1>1, <3>1, WhenNotFilling
    <3>3. Len(delivered) = begun
      BY <1>1, <3>1, WP!AllBack, BudgetHolds, WriterPermitHolds, NoRivals, WriterHolds
         DEF PipelineInv, Schedulers
    <3> QED BY <1>1, <2>1, <3>1, <3>2, <3>3, PipelineFacts DEF Copies, Ending
  <2> QED BY <2>1, <2>2, <2>3 DEF CopyIsFaithful, Copies
<1> QED BY <1>1, PipelineInvariance, PTL

(* The frames that are free and those that the two schedulers own are all.  *)
LEMMA FramesAreSplit ==
    ASSUME PipelineInv
    PROVE  /\ available \in Nat /\ Total \in Nat
           /\ RP!Held(ReaderPermit) \in Nat /\ WP!Held(WriterPermit) \in Nat
           /\ available + RP!Held(ReaderPermit) + WP!Held(WriterPermit) = Total
<1>1. RP!IInv
  BY DEF PipelineInv, Schedulers, RP!ReaderInv
<1>2. PICK s : RP!IsLedger(s, RP!Holdings) /\ available + s[PermitCount] = Total
  BY <1>1 DEF RP!IInv, RP!Ledger
<1>3. /\ PermitCount = 2 /\ RP!Permits = {ReaderPermit, WriterPermit}
      /\ ReaderPermit = 1 /\ WriterPermit = 2 /\ Total \in Nat
  BY PipelineAssumption, BudgetAssumption DEF RP!Permits, ReaderPermit, WriterPermit
<1>4. /\ available \in Nat
      /\ \A p \in {1, 2} : capacity[p] \in Nat /\ request[p].granted \in Nat
  BY <1>1, <1>3 DEF RP!IInv, RP!TypeOK, RP!Request
<1>5. /\ s[0] = 0 /\ s[1] = s[0] + (capacity[1] + request[1].granted)
      /\ s[2] = s[1] + (capacity[2] + request[2].granted)
  BY <1>2, <1>3 DEF RP!IsLedger, RP!Holdings, RP!Held
<1>6. available + (capacity[1] + request[1].granted) + (capacity[2] + request[2].granted) = Total
  BY <1>2, <1>3, <1>4, <1>5
<1> QED BY <1>3, <1>4, <1>6 DEF RP!Held, WP!Held

(* The frames in the reader's window and those the writer reserved are      *)
(* covered by two grants of one budget, so they never exceed it: neither    *)
(* scheduler uses a frame that the other one's permit stands for, although  *)
(* each only ever compares with its own permit's capacity.                  *)
THEOREM BudgetIsNotOvercommitted == Spec => []NeverOvercommitted
<1>1. ASSUME PipelineInv PROVE NeverOvercommitted
  <2>1. /\ RP!IInv /\ Len(cells) <= capacity[ReaderPermit] /\ used <= capacity[WriterPermit]
        /\ Len(cells) \in Nat /\ used \in Nat
    BY <1>1 DEF PipelineInv, Schedulers, RP!ReaderInv, RP!WindowFits, RP!ReaderTypeOK,
                WP!WriterInv, WP!UsedIsGranted, WP!WriterTypeOK
  <2>2. /\ available \in Nat /\ Total \in Nat /\ capacity[ReaderPermit] <= RP!Held(ReaderPermit)
        /\ capacity[WriterPermit] <= WP!Held(WriterPermit)
        /\ RP!Held(ReaderPermit) \in Nat /\ WP!Held(WriterPermit) \in Nat
        /\ available + RP!Held(ReaderPermit) + WP!Held(WriterPermit) = Total
    BY <1>1, <2>1, SameBudget, FramesAreSplit, RP!ReachType, WP!ReachType, BudgetHolds,
       ReaderPermitHolds, WriterPermitHolds, NoRivals, ReaderHolds, WriterHolds
  <2>3. /\ capacity[ReaderPermit] \in Nat /\ capacity[WriterPermit] \in Nat
    BY <2>1, SameBudget, RP!ReachType, WP!ReachType, BudgetHolds, ReaderPermitHolds,
       WriterPermitHolds, NoRivals, ReaderHolds, WriterHolds
  <2>6. capacity[ReaderPermit] + capacity[WriterPermit] <= Total
    BY <2>2, <2>3
  <2> DEFINE shown == Len(cells)
  <2>7. shown <= capacity[ReaderPermit] /\ used <= capacity[WriterPermit] /\ shown \in Nat
    BY <2>1
  <2> HIDE DEF shown
  <2>8. shown + used <= Total
    BY <2>1, <2>2, <2>3, <2>6, <2>7
  <2> QED BY <2>8 DEF NeverOvercommitted, shown
<1> QED BY <1>1, PipelineInvariance, PTL

-----------------------------------------------------------------------------
(* The promises of the schedulers' own specifications hold in the pipeline, *)
(* too: each sees the other's steps, and the budget's, as none of its own.  *)
LEMMA ReaderUnmoved ==
    ASSUME UNCHANGED <<alive, readerVars>>
    PROVE  UNCHANGED RP!StreamView
BY DEF readerVars, RP!StreamView, RP!Status

LEMMA WriterUnmoved ==
    ASSUME UNCHANGED writerVars
    PROVE  UNCHANGED WP!StreamView
BY DEF writerVars, WP!StreamView, WP!Status

LEMMA StreamsMove ==
    ASSUME PipelineInv, [Next]_vars
    PROVE  /\ [RP!Ordered!StreamNext]_RP!StreamView
           /\ [WP!Ordered!StreamNext]_WP!StreamView
<1>1. Schedulers /\ pushed \in Nat
  BY PipelineFacts DEF PipelineInv, Ending
<1>2. CASE RP!OwnMove /\ UNCHANGED writerVars
  <2>1. [RP!Ordered!StreamNext]_RP!StreamView
    BY <1>1, <1>2, RP!OwnMoveStreams, BudgetHolds, ReaderPermitHolds, NoRivals, ReaderHolds
       DEF Schedulers
  <2> QED BY <1>2, <2>1, WriterUnmoved
<1>3. CASE WP!OwnMove /\ UNCHANGED readerVars
  <2>1. WP!Next
    BY <1>3 DEF WP!OwnMove, WP!Next, WP!Calls, WP!Outside
  <2>2. [WP!Ordered!StreamNext]_WP!StreamView
    BY <1>1, <2>1, WP!StreamSeen, BudgetHolds, WriterPermitHolds, NoRivals, WriterHolds
       DEF Schedulers
  <2>3. UNCHANGED alive
    BY <1>1, <1>3, WriterAlone DEF Schedulers
  <2> QED BY <1>3, <2>2, <2>3, ReaderUnmoved
<1>4. CASE InBudget
  <2>1. UNCHANGED <<alive, readerVars, writerVars>>
    BY <1>1, <1>4, BudgetMoves
  <2> QED BY <2>1, ReaderUnmoved, WriterUnmoved
<1>5. CASE UNCHANGED vars
  BY <1>5, ReaderUnmoved, WriterUnmoved DEF vars, budgetVars
<1> QED BY <1>1, <1>2, <1>3, <1>4, <1>5, PipelineMoves

(* In the pipeline the reader still is the ordered stream, and the writer   *)
(* the ordered stream of whole files, whatever the other does to the budget *)
(* and to the task that both share.                                         *)
THEOREM PipelineKeepsStreams ==
    Spec => R!ImplementsOrderedRead /\ W!ImplementsOrderedWrite
<1>1. Init => RP!Ordered!StreamInit /\ WP!Ordered!StreamInit
  <2>1. ASSUME Init PROVE RP!Init /\ WP!Init /\ alive[ReaderPermit]
    <3>1. RP!Init /\ WP!Init
      BY <2>1, ReaderActions, WriterActions DEF Init
    <3> QED BY <3>1, ReaderPermitHolds DEF RP!Init, RP!BudgetStart, RP!SelfAssumption
  <2> QED BY <2>1 DEF RP!Init, WP!Init, RP!Ordered!StreamInit, WP!Ordered!StreamInit
<1>2. PipelineInv /\ [Next]_vars => /\ [RP!Ordered!StreamNext]_RP!StreamView
                                   /\ [WP!Ordered!StreamNext]_WP!StreamView
  BY StreamsMove
<1>3. RP!Ordered!StreamInit /\ WP!Ordered!StreamInit =>
          R!Ordered!StreamInit /\ W!Ordered!StreamInit
  BY DEF RP!Ordered!StreamInit, WP!Ordered!StreamInit, R!Ordered!StreamInit,
         W!Ordered!StreamInit
<1>4. [RP!Ordered!StreamNext]_RP!StreamView => [R!Ordered!StreamNext]_R!Ordered!streamVars
  BY DEF RP!StreamView, RP!Status, RP!Ordered!StreamNext, RP!Ordered!Admit,
         RP!Ordered!CloseAdmission, RP!Ordered!Deliver, RP!Ordered!EndOfStream,
         RP!Ordered!Break, RP!Ordered!Report, RP!Ordered!Abandon, R!Ordered!streamVars,
         R!Ordered!StreamNext, R!Ordered!Admit, R!Ordered!CloseAdmission, R!Ordered!Deliver,
         R!Ordered!EndOfStream, R!Ordered!Break, R!Ordered!Report, R!Ordered!Abandon
<1>5. [WP!Ordered!StreamNext]_WP!StreamView => [W!Ordered!StreamNext]_W!Ordered!streamVars
  BY DEF WP!StreamView, WP!Status, WP!Ordered!StreamNext, WP!Ordered!Take,
         WP!Ordered!CloseInput, WP!Ordered!HandBack, WP!Ordered!Remaining,
         WP!Ordered!ClosedStatus, WP!Ordered!Fail, WP!Ordered!Abandon, W!Ordered!streamVars,
         W!Ordered!StreamNext, W!Ordered!Take, W!Ordered!CloseInput, W!Ordered!HandBack,
         W!Ordered!Remaining, W!Ordered!ClosedStatus, W!Ordered!Fail, W!Ordered!Abandon
<1> QED BY <1>1, <1>2, <1>3, <1>4, <1>5, PipelineInvariance, PTL
        DEF Spec, R!ImplementsOrderedRead, R!Ordered!StreamSpec, W!ImplementsOrderedWrite,
            W!Ordered!StreamSpec

-----------------------------------------------------------------------------
(* The task at rest.  Its last poll was pending, and nothing woke it since. *)
Rests == stage \in {"copying", "closing"} /\ writePc = "idle" /\ ~runnable

(* There is a frame to come. *)
FrameToCome == ~terminated /\ Len(output) < declared

StageFits ==
    /\ stage \in {"copying", "closing", "done", "failed"}
    /\ stage = "copying" => phase = "Writing"
    /\ stage = "closing" =>
          phase = "Closing" \/ (phase = "Writing" /\ writePc = "idle" /\ runnable)

(* The task polls the writer only with files admitted, or admission closed. *)
AdmittedFits ==
    writePc # "idle" /\ stage = "copying" /\ pulled # "frame" =>
        closed \/ terminated \/ Len(output) < declared

(* So a reader that is pending inside the fill has a frame to give.         *)
PolledFits == readPc = "polled" /\ ~terminated => Len(output) < declared
PendingFits == pulled = "pending" => call = "read" /\ asleep /\ FrameToCome

RestFits ==
    Rests =>
        /\ waker /\ finished = 0 /\ ~WP!Completed
        /\ stage = "copying" =>
              ~WP!Missing /\ (partial # "none" => call = "read" /\ asleep /\ FrameToCome)
        /\ stage = "closing" => writeFiles # <<>>

TaskInv ==
    /\ alive[ReaderPermit] /\ alive[WriterPermit]
    /\ StageFits /\ AdmittedFits /\ PolledFits /\ PendingFits /\ RestFits

LEMMA AliveStays ==
    ASSUME PipelineInv, [Next]_vars
    PROVE  UNCHANGED alive
<1>1. Schedulers /\ pushed \in Nat
  BY PipelineFacts DEF PipelineInv, Ending
<1>2. CASE UNCHANGED vars
  BY <1>2 DEF vars, budgetVars
<1> QED BY <1>1, <1>2, PipelineMoves, ReaderAlone, WriterAlone, BudgetMoves DEF Schedulers

(* A task that runs, outside a poll, inside one, and inside its fill.       *)
LEMMA OutsidePoll ==
    ASSUME TaskInv, UNCHANGED alive, StageFits', writePc' = "idle", readPc' = "idle",
           pulled' = "none", runnable' \/ stage' \notin {"copying", "closing"}
    PROVE  TaskInv'
BY DEF TaskInv, AdmittedFits, PolledFits, PendingFits, RestFits, Rests

LEMMA InsidePoll ==
    ASSUME TaskInv, UNCHANGED alive, StageFits', AdmittedFits', writePc' # "idle",
           readPc' = "idle", pulled' = "none"
    PROVE  TaskInv'
BY DEF TaskInv, PolledFits, PendingFits, RestFits, Rests

LEMMA InsideFill ==
    ASSUME PipelineInv, TaskInv, UNCHANGED <<alive, stage, writerVars>>, writePc = "fill",
           AdmittedFits', PolledFits', PendingFits'
    PROVE  TaskInv'
<1>1. writePc' = "fill" /\ UNCHANGED phase /\ phase = "Writing"
  BY WhenFilling DEF writerVars
<1>2. StageFits'
  BY <1>1 DEF TaskInv, StageFits
<1>3. RestFits'
  BY <1>1 DEF RestFits, Rests
<1> QED BY <1>2, <1>3 DEF TaskInv

LEMMA FillCopies ==
    ASSUME PipelineInv, TaskInv, writePc = "fill"
    PROVE  stage = "copying"
BY WhenFilling DEF TaskInv, StageFits

-----------------------------------------------------------------------------
LEMMA SourceTasks ==
    ASSUME PipelineInv, TaskInv, UNCHANGED alive, PushSource \/ CloseSource
    PROVE  TaskInv'
<1>1. /\ readPc = "idle" /\ writePc = "idle" /\ runnable
      /\ UNCHANGED <<readPc, writerVars, runnable, stage, pulled>>
  BY ReaderActions DEF PushSource, CloseSource, Ready, Reading, RP!Push, RP!Close, RP!pollVars,
                       clientVars
<1>2. pulled = "none"
  BY <1>1, WhenNotFilling
<1>3. StageFits'
  BY <1>1 DEF TaskInv, StageFits, writerVars
<1> QED BY <1>1, <1>2, <1>3, OutsidePoll DEF writerVars

LEMMA TargetTasks ==
    ASSUME PipelineInv, TaskInv, UNCHANGED alive, PushTarget \/ SwapTarget \/ TakeTarget
    PROVE  TaskInv'
<1>1. /\ writePc = "idle" /\ UNCHANGED <<readerVars, writePc, phase, stage, pulled>>
      /\ runnable' = (runnable \/ waker)
      /\ phase \in {"Writing", "Closing"}
  BY WriterActions DEF PushTarget, SwapTarget, TakeTarget, Writing, clientVars, WP!PushFile,
                       WP!PopSwap, WP!PopFile, WP!WakeStored, WP!Idle, WP!pollVars
<1>2. runnable \/ finished > 0
  BY DEF PushTarget, Ready, SwapTarget, TakeTarget
<1>3. readPc = "idle" /\ pulled = "none"
  BY <1>1, WhenNotFilling
<1>4. runnable' \/ stage' \notin {"copying", "closing"}
  BY <1>1, <1>2 DEF TaskInv, RestFits, Rests
<1>5. StageFits'
  BY <1>1, <1>4 DEF TaskInv, StageFits
<1> QED BY <1>1, <1>3, <1>4, <1>5, OutsidePoll DEF readerVars

LEMMA PollTasks ==
    ASSUME PipelineInv, TaskInv, UNCHANGED alive, PollWriter \/ CloseWriter
    PROVE  TaskInv'
<1>1. /\ writePc = "idle" /\ writePc' # "idle" /\ UNCHANGED <<readerVars, stage, pulled>>
      /\ \/ stage = "copying" /\ UNCHANGED phase /\ SourceAdmitted
         \/ stage = "closing" /\ phase' = "Closing"
  BY WriterActions DEF PollWriter, Ready, CloseWriter, Writing, WP!PollWrite, WP!StopInput,
                       WP!PollClose, WP!Idle, WP!StartDrive, clientVars
<1>2. pulled = "none" /\ readPc = "idle"
  BY <1>1, WhenNotFilling
<1>3. StageFits'
  BY <1>1 DEF TaskInv, StageFits
<1>4. AdmittedFits'
  <2>1. ASSUME R!Full, ~terminated PROVE Len(output) < declared
    <3>1. RP!Full
      BY <2>1 DEF R!Full, R!Distance, R!Horizon, R!Most, RP!Full, RP!Distance, RP!Horizon, RP!Most
    <3>2. readFiles # <<>>
      BY <2>1, <3>1, RP!FullHasFiles, BudgetHolds, ReaderPermitHolds, NoRivals, ReaderHolds
         DEF PipelineInv, Schedulers, TaskInv
    <3> QED BY <3>2, RP!FilesAndFrames, BudgetHolds, ReaderPermitHolds, NoRivals, ReaderHolds
            DEF PipelineInv, Schedulers
  <2> QED BY <1>1, <2>1 DEF AdmittedFits, SourceAdmitted, readerVars
<1> QED BY <1>1, <1>2, <1>3, <1>4, InsidePoll DEF readerVars

LEMMA DriveTasks ==
    ASSUME PipelineInv, TaskInv, UNCHANGED alive, DriveWriter
    PROVE  TaskInv'
<1>1. /\ WP!DriveStep \/ WP!Reserve \/ WP!Grow
      /\ UNCHANGED <<readerVars, pulled>>
      /\ stage' = IF phase' = "Failed" THEN "failed" ELSE stage
  BY WriterActions DEF DriveWriter, Writing
<1>2. /\ writePc \in {"drive", "driven", "grow"}
      /\ \/ phase' = "Failed" /\ writePc' = "idle"
         \/ UNCHANGED phase /\ writePc' # "idle"
  <2>1. CASE WP!DriveStep
    BY <2>1 DEF WP!DriveStep, WP!DriveStepped, WP!Fail
  <2>2. CASE WP!Reserve \/ WP!Grow
    BY <2>2 DEF WP!Reserve, WP!Grow, WP!Allocate, WP!BadAllocation, WP!Fail, WP!schedulerVars
  <2> QED BY <1>1, <2>1, <2>2
<1>3. pulled = "none" /\ readPc = "idle" /\ WP!Control
  BY <1>2, WhenNotFilling, PipelineFacts
<1>4. phase \in {"Writing", "Closing"}
  BY <1>2, <1>3 DEF WP!Control, WP!Streaming
<1>5. StageFits'
  BY <1>1, <1>2, <1>4 DEF TaskInv, StageFits
<1>6. CASE phase' = "Failed" /\ writePc' = "idle"
  BY <1>1, <1>3, <1>5, <1>6, OutsidePoll DEF readerVars
<1>7. CASE UNCHANGED phase /\ writePc' # "idle"
  <2>1. UNCHANGED stage
    BY <1>1, <1>4, <1>7
  <2>2. AdmittedFits'
    BY <1>1, <1>2, <2>1 DEF TaskInv, AdmittedFits, readerVars
  <2> QED BY <1>1, <1>3, <1>5, <1>7, <2>2, InsidePoll DEF readerVars
<1> QED BY <1>2, <1>6, <1>7

-----------------------------------------------------------------------------
LEMMA PullTasks ==
    ASSUME PipelineInv, TaskInv, UNCHANGED alive, Pull
    PROVE  TaskInv'
<1>1. /\ writePc = "fill" /\ pulled = "none" /\ RP!Begin("read")
      /\ UNCHANGED <<writerVars, clientVars>>
  BY ReaderActions DEF Pull, InFill, Reading
<1>2. stage = "copying" /\ UNCHANGED <<stage, pulled>>
  BY <1>1, FillCopies DEF clientVars
<1>3. /\ UNCHANGED <<closed, output, declared>>
      /\ terminated' \in {terminated, closed}
      /\ readPc' = "polled" => terminated \/ terminated' = closed
      /\ terminated => terminated'
  BY <1>1 DEF RP!Begin, RP!EndedByClose
<1>4. closed \/ terminated \/ Len(output) < declared
  BY <1>1, <1>2 DEF TaskInv, AdmittedFits
<1>5. AdmittedFits' /\ PolledFits' /\ PendingFits'
  BY <1>1, <1>2, <1>3, <1>4 DEF AdmittedFits, PolledFits, PendingFits
<1> QED BY <1>1, <1>2, <1>5, InsideFill

LEMMA ReadTasks ==
    ASSUME PipelineInv, TaskInv, UNCHANGED alive, DriveReader
    PROVE  TaskInv'
<1>1. (RP!Grow \/ RP!DriveStep) /\ UNCHANGED <<writerVars, clientVars>>
  BY ReaderActions DEF DriveReader, Reading
<1>2. readPc \in {"grow", "drive"}
  BY <1>1 DEF RP!Grow, RP!DriveStep
<1>3. readFiles # <<>> /\ pulled = "none" /\ writePc = "fill"
  BY <1>2, WhenPolled, PipelineFacts DEF RP!Control
<1>4. Len(output) < declared
  BY <1>3, RP!FilesAndFrames, BudgetHolds, ReaderPermitHolds, NoRivals, ReaderHolds
     DEF PipelineInv, Schedulers
<1>5. UNCHANGED <<declared, output>>
  <2>1. CASE RP!Grow
    BY <2>1 DEF RP!Grow, RP!outsideVars
  <2>2. CASE RP!DriveStep
    <3>1. RP!Goes \/ RP!Breaks
      BY <2>2, RP!DriveStepKeeps, BudgetHolds, ReaderPermitHolds, NoRivals, ReaderHolds
         DEF PipelineInv, Schedulers
    <3> QED BY <3>1 DEF RP!Goes, RP!Breaks
  <2> QED BY <1>1, <2>1, <2>2
<1>6. AdmittedFits' /\ PolledFits' /\ PendingFits'
  BY <1>1, <1>3, <1>4, <1>5 DEF AdmittedFits, PolledFits, PendingFits, clientVars
<1> QED BY <1>1, <1>3, <1>6, InsideFill DEF clientVars

LEMMA ReturnTasks ==
    ASSUME PipelineInv, TaskInv, UNCHANGED alive, ReaderReturns
    PROVE  TaskInv'
<1>1. /\ \/ RP!Emit /\ pulled' = "frame"
         \/ RP!ReturnPending /\ pulled' = "pending"
         \/ RP!ReportEnd /\ pulled' = "end"
         \/ RP!ReportError /\ pulled' = "error"
      /\ UNCHANGED <<writerVars, stage>>
  BY ReaderActions DEF ReaderReturns, Reading
<1>2. readPc = "polled" /\ call = "read" /\ readPc' = "idle"
  BY <1>1 DEF RP!Emit, RP!ReturnPending, RP!ReportEnd, RP!ReportError, RP!InRead, RP!ReturnReady
<1>3. writePc = "fill" /\ pulled = "none"
  BY <1>2, WhenPolled
<1>4. PolledFits'
  BY <1>2 DEF PolledFits
<1>5. AdmittedFits'
  BY <1>1, <1>3 DEF TaskInv, AdmittedFits, RP!ReturnPending, RP!ReportEnd, RP!ReportError,
                    RP!ReturnReady, RP!schedulerVars, writerVars
<1>6. PendingFits'
  BY <1>1, <1>2 DEF TaskInv, PolledFits, PendingFits, FrameToCome, RP!ReturnPending,
                    RP!schedulerVars
<1> QED BY <1>1, <1>3, <1>4, <1>5, <1>6, InsideFill

-----------------------------------------------------------------------------
(* While the first file is not done, no finished file is reported.          *)
LEMMA NoneFinished ==
    ASSUME ~WP!Completed, writeFiles \in Seq(WP!SlotType)
    PROVE  LeadingDone = 0
<1>1. {i \in DOMAIN writeFiles : \A j \in 1..i : W!Done(writeFiles[j])} = {}
  <2>1. ASSUME NEW i \in DOMAIN writeFiles, \A j \in 1..i : W!Done(writeFiles[j])
        PROVE  FALSE
    <3>1. i \in Nat /\ 1 <= i /\ writeFiles # <<>> /\ Head(writeFiles) = writeFiles[1]
      OBVIOUS
    <3>2. W!Done(writeFiles[1])
      BY <2>1, <3>1
    <3> QED BY <3>1, <3>2 DEF WP!Completed, WP!Done, W!Done
  <2> QED BY <2>1
<1> QED BY <1>1, FS_EmptySet DEF LeadingDone

LEMMA FillTasks ==
    ASSUME PipelineInv, TaskInv, UNCHANGED alive, FillReturns
    PROVE  TaskInv'
<1>1. writePc = "fill" /\ UNCHANGED readerVars /\ pulled' = "none" /\ finished' = LeadingDone
  BY WriterActions DEF FillReturns, FrameCopied, NothingToCopy, SourceEnded, SourceFailed,
                       Writing, WP!FillReady, WP!FillPends, WP!FillFails, WP!InFill
<1>2. stage = "copying" /\ phase = "Writing" /\ readPc' = "idle"
  <2>1. readPc = "idle"
    BY PipelineFacts DEF FillReturns, FrameCopied, NothingToCopy, SourceEnded, SourceFailed,
                         Nesting
  <2> QED BY <1>1, <2>1, FillCopies, WhenFilling DEF readerVars
<1>3. CASE FrameCopied \/ SourceEnded
  <2>1. /\ writePc' = "idle" /\ runnable' /\ UNCHANGED phase
        /\ stage' \in {"copying", "closing"}
    BY <1>2, <1>3, WriterActions DEF FrameCopied, SourceEnded, Writing, WP!FillReady, WP!ReturnReady
  <2>2. StageFits'
    BY <1>2, <2>1 DEF StageFits
  <2> QED BY <1>1, <1>2, <2>1, <2>2, OutsidePoll
<1>4. CASE SourceFailed
  <2>1. writePc' = "idle" /\ runnable' /\ stage' = "failed"
    BY <1>4, WriterActions DEF SourceFailed, Writing, WP!FillFails, WP!Fail
  <2>2. StageFits'
    BY <2>1 DEF StageFits
  <2> QED BY <1>1, <1>2, <2>1, <2>2, OutsidePoll
<1>5. CASE NothingToCopy
  <2>1. /\ pulled = "pending" \/ partial = "none"
        /\ UNCHANGED <<writeFiles, partial, phase, writeWindow, stage>> /\ writePc' = "idle"
        /\ \/ runnable'
           \/ waker' /\ ~WP!Completed /\ ~WP!Missing
    BY <1>5, WriterActions DEF NothingToCopy, Writing, WP!FillPends, WP!ReturnReady, WP!ReturnPending
  <2>2. StageFits'
    BY <1>2, <2>1 DEF StageFits
  <2>3. CASE runnable'
    BY <1>1, <1>2, <2>1, <2>2, <2>3, OutsidePoll
  <2>4. CASE ~runnable'
    <3>1. /\ waker' /\ ~WP!Completed' /\ ~WP!Missing'
      BY <2>1, <2>4 DEF WP!Completed, WP!Missing
    <3>2. finished' = 0
      <4>1. writeFiles \in Seq(WP!SlotType)
        BY DEF PipelineInv, Schedulers, WP!WriterInv, WP!WriterTypeOK
      <4> QED BY <1>1, <2>1, <2>4, <4>1, NoneFinished
    <3>3. partial' # "none" => (call = "read" /\ asleep /\ FrameToCome)'
      BY <1>1, <2>1 DEF TaskInv, PendingFits, FrameToCome, readerVars
    <3>4. RestFits'
      BY <1>2, <2>1, <3>1, <3>2, <3>3 DEF RestFits
    <3> QED BY <1>1, <1>2, <2>1, <2>2, <3>4
            DEF TaskInv, AdmittedFits, PolledFits, PendingFits
  <2> QED BY <2>3, <2>4
<1> QED BY <1>3, <1>4, <1>5 DEF FillReturns

LEMMA CloseTasks ==
    ASSUME PipelineInv, TaskInv, UNCHANGED alive, WriterCloses
    PROVE  TaskInv'
<1>1. /\ writePc = "driven" /\ writePc' = "idle" /\ phase = "Closing"
      /\ UNCHANGED <<readerVars, writeFiles, partial, phase, pulled>>
      /\ stage' = IF writeFiles = <<>> THEN "done" ELSE stage
      /\ finished' = LeadingDone
      /\ runnable' \/ (waker' /\ ~WP!Completed /\ writeFiles # <<>>)
  BY WriterActions DEF WriterCloses, Writing, WP!FinishClose, WP!ReturnReady, WP!ReturnPending
<1>2. pulled = "none" /\ readPc = "idle" /\ stage \in {"closing", "done"}
  BY <1>1, WhenNotFilling, PipelineFacts DEF Ending
<1>3. StageFits'
  BY <1>1, <1>2 DEF StageFits
<1>4. CASE runnable'
  BY <1>1, <1>2, <1>3, <1>4, OutsidePoll DEF readerVars
<1>5. CASE ~runnable'
  <2>1. waker' /\ ~WP!Completed' /\ writeFiles' # <<>> /\ stage' # "copying"
    BY <1>1, <1>2, <1>5 DEF WP!Completed
  <2>2. finished' = 0
    <3>1. writeFiles \in Seq(WP!SlotType)
      BY DEF PipelineInv, Schedulers, WP!WriterInv, WP!WriterTypeOK
    <3> QED BY <1>1, <1>5, <3>1, NoneFinished
  <2>3. RestFits'
    BY <2>1, <2>2 DEF RestFits
  <2> QED BY <1>1, <1>2, <1>3, <2>3
          DEF TaskInv, AdmittedFits, PolledFits, PendingFits, readerVars
<1> QED BY <1>4, <1>5

-----------------------------------------------------------------------------
LEMMA ThreadTasks ==
    ASSUME PipelineInv, TaskInv, UNCHANGED alive, InBudget \/ UNCHANGED vars
    PROVE  TaskInv'
<1>1. UNCHANGED <<readerVars, writerVars, clientVars>> /\ (runnable => runnable')
  <2>1. CASE InBudget
    <3>1. PICK p \in Permits : RP!BudgetThread(p) \/ RP!BudgetWake(p)
      BY <2>1, ReaderActions DEF InBudget
    <3>2. runnable => runnable'
      BY <3>1 DEF RP!BudgetThread, RP!BudgetOnly, RP!outsideVars, RP!BudgetWake, RP!Woken
    <3> QED BY <2>1, <3>2, BudgetMoves DEF PipelineInv
  <2>2. CASE UNCHANGED vars
    BY <2>2 DEF vars
  <2> QED BY <2>1, <2>2
<1>2. StageFits' /\ AdmittedFits' /\ PolledFits' /\ PendingFits'
  BY <1>1 DEF TaskInv, StageFits, AdmittedFits, PolledFits, PendingFits, FrameToCome, readerVars,
              writerVars, clientVars
<1>3. RestFits'
  BY <1>1 DEF TaskInv, RestFits, Rests, FrameToCome, WP!Completed, WP!Missing, readerVars,
              writerVars, clientVars
<1> QED BY <1>2, <1>3 DEF TaskInv

LEMMA EventTasks ==
    ASSUME PipelineInv, TaskInv, UNCHANGED alive, BackendEvents
    PROVE  TaskInv'
<1>1. /\ runnable' /\ UNCHANGED clientVars
      /\ UNCHANGED <<output, closed, terminated, call, asleep, declared, readPc, phase, writePc>>
  <2>1. CASE (\E i \in DOMAIN readFiles : R!BackendEvent(i)) /\ UNCHANGED writerVars
    BY <2>1, ReaderActions DEF BackendEvents, RP!BackendEvent, RP!pollVars, writerVars
  <2>2. CASE (\E i \in DOMAIN writeFiles : W!BackendEvent(i)) /\ UNCHANGED readerVars
    BY <2>2, WriterActions DEF BackendEvents, WP!BackendEvent, WP!pollVars, readerVars
  <2> QED BY <2>1, <2>2 DEF BackendEvents
<1>2. StageFits' /\ AdmittedFits' /\ PolledFits' /\ PendingFits'
  BY <1>1 DEF TaskInv, StageFits, AdmittedFits, PolledFits, PendingFits, FrameToCome, clientVars
<1>3. RestFits'
  BY <1>1 DEF RestFits, Rests
<1> QED BY <1>2, <1>3 DEF TaskInv

LEMMA TaskMoves ==
    ASSUME PipelineInv, TaskInv, [Next]_vars
    PROVE  TaskInv'
BY AliveStays, SourceTasks, TargetTasks, PollTasks, DriveTasks, PullTasks, ReadTasks, ReturnTasks,
   FillTasks, CloseTasks, ThreadTasks, EventTasks DEF Next, Run

LEMMA TaskStarts ==
    ASSUME Init
    PROVE  TaskInv
<1>1. RP!Init /\ WP!Init
  BY ReaderActions, WriterActions DEF Init
<1>2. alive[ReaderPermit] /\ alive[WriterPermit]
  BY <1>1, ReaderPermitHolds, WriterPermitHolds
     DEF RP!Init, WP!Init, RP!BudgetStart, WP!BudgetStart, RP!SelfAssumption, WP!SelfAssumption
<1>3. readPc = "idle" /\ writePc = "idle" /\ phase = "Writing" /\ runnable
  BY <1>1 DEF RP!Init, WP!Init, WP!Idle
<1> QED BY <1>2, <1>3 DEF Init, TaskInv, StageFits, AdmittedFits, PolledFits, PendingFits, RestFits,
                          Rests

-----------------------------------------------------------------------------
(* Neither holds, or asks for, more than its share of the budget: the       *)
(* reader stays within its window and waits for a batch of it at a time, the *)
(* writer within its window or what its files and its next frame need.      *)
ShareInv == RP!KeepsToWindow /\ RP!AsksInBatches /\ WP!Modest

LEMMA WindowStays ==
    ASSUME [Next]_vars
    PROVE  UNCHANGED readWindow
<1>1. CASE PushSource \/ CloseSource \/ Pull \/ DriveReader \/ ReaderReturns
  <2>1. \/ (\E c : RP!Push(c)) \/ RP!Close \/ RP!Begin("read") \/ RP!Grow \/ RP!DriveStep
        \/ RP!Emit \/ RP!ReturnPending \/ RP!ReportEnd \/ RP!ReportError
    BY <1>1, ReaderActions DEF PushSource, CloseSource, Pull, DriveReader, ReaderReturns, Reading
  <2>2. CASE RP!DriveStep
    BY <2>2 DEF RP!DriveStep, RP!Continue, RP!Fail, RP!PollBackend, RP!Retry, RP!Receive
  <2> QED BY <2>1, <2>2 DEF RP!Push, RP!Close, RP!Begin, RP!Grow, RP!Emit, RP!ReturnPending,
                            RP!ReportEnd, RP!ReportError, RP!schedulerVars
<1>2. CASE PushTarget \/ PollWriter \/ DriveWriter \/ FillReturns \/ SwapTarget \/ CloseWriter
           \/ WriterCloses \/ TakeTarget
  BY <1>2 DEF PushTarget, PollWriter, DriveWriter, FillReturns, FrameCopied, NothingToCopy,
              SourceEnded, SourceFailed, SwapTarget, CloseWriter, WriterCloses, TakeTarget,
              Writing, readerVars
<1>3. CASE InBudget
  <2>1. PICK p \in Permits : RP!BudgetThread(p) \/ RP!BudgetWake(p)
    BY <1>3, ReaderActions DEF InBudget
  <2> QED BY <2>1 DEF RP!BudgetThread, RP!BudgetOnly, RP!BudgetWake, RP!schedulerVars
<1>4. CASE BackendEvents
  BY <1>4, ReaderActions DEF BackendEvents, RP!BackendEvent, readerVars
<1>5. CASE UNCHANGED vars
  BY <1>5 DEF vars, readerVars
<1> QED BY <1>1, <1>2, <1>3, <1>4, <1>5 DEF Next, Run

LEMMA SharesMove ==
    ASSUME PipelineInv, PipelineInv', ShareInv, [Next]_vars
    PROVE  ShareInv'
<1>1. /\ Schedulers /\ pushed \in Nat /\ RP!ReaderInv /\ WP!WriterInv /\ RP!ReaderInv'
      /\ WP!WriterInv' /\ RP!KeepsToWindow /\ RP!AsksInBatches /\ WP!Modest
      /\ RP!IInv /\ WP!IInv
  BY PipelineFacts DEF PipelineInv, Schedulers, Ending, ShareInv, RP!ReaderInv, WP!WriterInv
<1>2. /\ RP!Reach \in Nat /\ WP!Reach \in Nat
  BY <1>1, RP!ReachType, WP!ReachType, BudgetHolds, ReaderPermitHolds, WriterPermitHolds,
     NoRivals, ReaderHolds, WriterHolds
<1>3. CASE RP!OwnMove /\ (RP!InPoll \/ runnable' \in BOOLEAN) /\ UNCHANGED writerVars
  <2>1. /\ capacity'[WriterPermit] = capacity[WriterPermit]
        /\ request'[WriterPermit] = request[WriterPermit]
    BY <1>1, <1>3, ReaderAlone DEF Schedulers
  <2>2. RP!KeepsToWindow' /\ RP!AsksInBatches'
    BY <1>1, <1>3, WindowStays, RP!OwnMoveKeepsToWindow, RP!OwnMoveAsksInBatches, BudgetHolds,
       ReaderPermitHolds, NoRivals, ReaderHolds
  <2>3. WP!Reach' <= WP!Reach
    <3>1. WP!Reach' = WP!Reach
      BY <2>1 DEF WP!Reach, WP!Held
    <3> QED BY <1>2, <3>1
  <2>4. WP!QueueStays /\ UNCHANGED writeWindow
    BY <1>3 DEF writerVars, WP!QueueStays
  <2>5. WP!Modest'
    BY <1>1, <2>1, <2>3, <2>4, WP!BehindIsModest, BudgetHolds, WriterPermitHolds, NoRivals,
       WriterHolds
  <2> QED BY <2>2, <2>5 DEF ShareInv
<1>4. CASE WP!OwnMove /\ UNCHANGED readerVars
  <2>1. /\ capacity'[ReaderPermit] = capacity[ReaderPermit]
        /\ request'[ReaderPermit] = request[ReaderPermit]
    BY <1>1, <1>4, WriterAlone DEF Schedulers
  <2>2. RP!KeepsToWindow' /\ RP!AsksInBatches'
    BY <1>1, <2>1, WindowStays DEF RP!KeepsToWindow, RP!AsksInBatches, RP!Reach, RP!Held
  <2>3. WP!Modest'
    BY <1>1, <1>4, WP!OwnMoveIsModest, BudgetHolds, WriterPermitHolds, NoRivals, WriterHolds
  <2> QED BY <2>2, <2>3 DEF ShareInv
<1>5. CASE InBudget
  <2>1. PICK p \in Permits : R!BudgetThread(p) \/ R!BudgetWake(p)
    BY <1>5 DEF InBudget
  <2>2. p \in RP!Permits /\ p \in WP!Permits
    BY DEF Permits, RP!Permits, WP!Permits
  <2>3. WP!Dispatch(p) \/ WP!Unlock(p) \/ WP!Wake(p)
    BY <2>1, SameThreads
  <2>4. RP!Dispatch(p) \/ RP!Unlock(p) \/ RP!Wake(p)
    BY <2>1, ReaderActions DEF RP!BudgetThread, RP!BudgetWake
  <2>5. /\ RP!Reach' <= RP!Reach
        /\ request'[ReaderPermit].waiting => request'[ReaderPermit] = request[ReaderPermit]
    BY <1>1, <2>2, <2>4, RP!ThreadReach, BudgetHolds, ReaderPermitHolds, NoRivals, ReaderHolds
  <2>6. /\ WP!Reach' <= WP!Reach /\ capacity'[WriterPermit] = capacity[WriterPermit]
        /\ request'[WriterPermit].waiting => request'[WriterPermit] = request[WriterPermit]
    BY <1>1, <2>2, <2>3, WP!ThreadReach, BudgetHolds, WriterPermitHolds, NoRivals, WriterHolds
  <2>7. RP!KeepsToWindow' /\ RP!AsksInBatches'
    <3>1. RP!Reach' \in Nat /\ readWindow.target \in Nat
      <4>1. RP!Reach' \in Nat
        BY <1>1, RP!ReachLater, BudgetHolds, ReaderPermitHolds, NoRivals, ReaderHolds
           DEF RP!ReaderInv
      <4>2. readWindow \in ReaderWindows
        BY <1>1 DEF RP!ReaderInv, RP!ReaderTypeOK
      <4> QED BY <4>1, <4>2, PipelineAssumption
    <3> QED BY <1>1, <1>2, <2>5, <3>1, WindowStays DEF RP!KeepsToWindow, RP!AsksInBatches
  <2>8. WP!QueueStays /\ UNCHANGED writeWindow
    BY <1>1, <1>5, BudgetMoves DEF writerVars, WP!QueueStays
  <2>9. WP!Modest'
    BY <1>1, <2>6, <2>8, WP!BehindIsModest, BudgetHolds, WriterPermitHolds, NoRivals, WriterHolds
  <2> QED BY <2>7, <2>9 DEF ShareInv
<1>6. CASE UNCHANGED vars
  <2>1. RP!KeepsToWindow' /\ RP!AsksInBatches'
    BY <1>1, <1>6 DEF vars, budgetVars, readerVars, RP!KeepsToWindow, RP!AsksInBatches, RP!Reach,
                      RP!Held
  <2>2. WP!Reach' <= WP!Reach
    <3>1. WP!Reach' = WP!Reach
      BY <1>6 DEF vars, budgetVars, WP!Reach, WP!Held
    <3> QED BY <1>2, <3>1
  <2>3. WP!QueueStays /\ UNCHANGED <<writeWindow, capacity, request>>
    BY <1>6 DEF vars, budgetVars, writerVars, WP!QueueStays
  <2>4. WP!Modest'
    BY <1>1, <2>2, <2>3, WP!BehindIsModest, BudgetHolds, WriterPermitHolds, NoRivals, WriterHolds
  <2> QED BY <2>1, <2>4 DEF ShareInv
<1> QED BY <1>1, <1>3, <1>4, <1>5, <1>6, PipelineMoves

LEMMA SharesStart ==
    ASSUME Init
    PROVE  ShareInv
<1>1. RP!Init /\ WP!Init
  BY ReaderActions, WriterActions DEF Init
<1>2. WP!Modest
  BY <1>1, WP!StartsModest, BudgetHolds, WriterPermitHolds, NoRivals, WriterHolds
<1>3. RP!Reach = 0 /\ readWindow \in ReaderWindows /\ ~request[ReaderPermit].waiting
  <2>1. /\ capacity = [p \in RP!Permits |-> 0] /\ request = [p \in RP!Permits |-> RP!DefaultRequest]
        /\ readWindow \in ReaderWindows /\ ReaderPermit \in RP!Permits
    BY <1>1, ReaderPermitHolds DEF RP!Init, RP!BudgetStart, RP!SelfAssumption
  <2>2. capacity[ReaderPermit] = 0 /\ request[ReaderPermit] = RP!DefaultRequest
    BY <2>1
  <2> QED BY <2>1, <2>2 DEF RP!Reach, RP!Held, RP!DefaultRequest
<1>4. readWindow.target \in Nat
  BY <1>3, PipelineAssumption
<1> QED BY <1>2, <1>3, <1>4 DEF ShareInv, RP!KeepsToWindow, RP!AsksInBatches

-----------------------------------------------------------------------------
(* The reader has been polled in the poll of the writer that is going on,   *)
(* or in the last one.                                                      *)
ReaderCurrent ==
    readPc # "idle" \/ pulled # "none" \/ (Rests /\ stage = "copying" /\ partial # "none")

ReaderThorough == RP!DriveIsThorough /\ (ReaderCurrent => RP!PollIsThorough)

ThoroughInv == ReaderThorough /\ WP!DriveIsThorough /\ WP!PollIsThorough

LEMMA ReaderSleeps ==
    ASSUME PipelineInv, ThoroughInv, ReaderCurrent
    PROVE  RP!SleepInv
BY DEF PipelineInv, Schedulers, ThoroughInv, ReaderThorough, RP!SleepInv

LEMMA WriterSleeps ==
    ASSUME PipelineInv, ThoroughInv
    PROVE  WP!SleepInv
BY DEF PipelineInv, Schedulers, ThoroughInv, WP!SleepInv

(* A reader that is not current is not in a poll.                           *)
LEMMA NotCurrent ==
    ASSUME ~ReaderCurrent'
    PROVE  ReaderThorough'
BY DEF ReaderThorough, ReaderCurrent, RP!DriveIsThorough

LEMMA Untouched ==
    ASSUME PipelineInv, ThoroughInv, ReaderCurrent, UNCHANGED readerVars,
           capacity'[ReaderPermit] = capacity[ReaderPermit],
           ~runnable' => ~runnable /\ parked'[ReaderPermit] = parked[ReaderPermit]
    PROVE  RP!DriveIsThorough' /\ RP!PollIsThorough'
<1>1. RP!SleepInv
  BY ReaderSleeps
<1>2. UNCHANGED <<readFiles, cells, emitted, discovered, cursor, terminated, readWindow, readPc,
                  call, readRound, asleep, declared, output>>
  BY DEF readerVars
<1> QED BY <1>1, <1>2, RP!SleepStays, BudgetHolds, ReaderPermitHolds, NoRivals, ReaderHolds

(* The budget's thread is outside both.                                     *)
LEMMA ThreadSeen ==
    ASSUME Schedulers, InBudget
    PROVE  RP!Outside /\ WP!Outside
<1>1. PICK p \in Permits : R!BudgetThread(p) \/ R!BudgetWake(p)
  BY DEF InBudget
<1>2. p \in RP!Permits /\ p \in WP!Permits /\ UNCHANGED writerVars
  BY BudgetMoves DEF Permits, RP!Permits, WP!Permits
<1>3. RP!BudgetThread(p) \/ RP!BudgetWake(p)
  BY <1>1, ReaderActions
<1>4. WP!BudgetThread(p) \/ WP!BudgetWake(p)
  <2>1. CASE RP!BudgetThread(p)
    <3>1. RP!Dispatch(p) \/ RP!Unlock(p)
      BY <2>1 DEF RP!BudgetThread
    <3>2. WP!Dispatch(p) \/ WP!Unlock(p)
      BY <3>1 DEF RP!Dispatch, RP!HeadServable, RP!Stale, RP!Fits, RP!Share, RP!Unlock, RP!Free,
                  RP!Permits, WP!Dispatch, WP!HeadServable, WP!Stale, WP!Fits, WP!Share, WP!Unlock,
                  WP!Free, WP!Permits
    <3> QED BY <1>2, <2>1, <3>2 DEF RP!BudgetThread, RP!BudgetOnly, RP!outsideVars, writerVars,
               WP!BudgetThread, WP!BudgetOnly, WP!schedulerVars, WP!pollVars, WP!outsideVars
  <2>2. CASE RP!BudgetWake(p)
    BY <1>2, <2>2 DEF RP!BudgetWake, RP!Wake, RP!Awoken, RP!Permits, RP!Woken, writerVars,
                      WP!BudgetWake, WP!Wake, WP!Awoken, WP!Permits, WP!Woken, WP!schedulerVars,
                      WP!pollVars
  <2> QED BY <1>3, <2>1, <2>2
<1> QED BY <1>2, <1>3, <1>4 DEF RP!Outside, WP!Outside

-----------------------------------------------------------------------------
(* The reader's steps and the budget's leave the writer asleep, unless they *)
(* wake the task.                                                           *)
LEMMA WriterThorough ==
    ASSUME PipelineInv, ThoroughInv, [Next]_vars
    PROVE  WP!DriveIsThorough' /\ WP!PollIsThorough'
<1>1. Schedulers /\ pushed \in Nat /\ WP!SleepInv
  BY WriterSleeps, PipelineFacts DEF PipelineInv, Ending
<1>2. CASE RP!OwnMove /\ (runnable => runnable') /\ UNCHANGED writerVars
  <2>1. RP!IInv /\ Client \in Tasks /\ RP!OwnUse(Client)
    BY <1>1, <1>2, PipelineAssumption, RP!OwnMoveUses, BudgetHolds, ReaderPermitHolds, NoRivals,
       ReaderHolds DEF Schedulers, RP!ReaderInv
  <2>2. WriterPermit \in RP!Permits \ {ReaderPermit}
    BY PipelineAssumption DEF RP!Permits, ReaderPermit, WriterPermit
  <2>3. parked'[WriterPermit] = parked[WriterPermit]
    BY <2>1, <2>2, RP!OwnPark, BudgetHolds, ReaderPermitHolds, NoRivals, ReaderHolds
  <2>4. /\ WP!QueueStays
        /\ UNCHANGED <<pollCursor, writeWindow, waker, writePc, writeRound, inputArmed>>
    BY <1>2 DEF writerVars, WP!QueueStays
  <2> QED BY <1>1, <1>2, <2>3, <2>4, WP!SleepStays, BudgetHolds, WriterPermitHolds, NoRivals,
             WriterHolds
<1>3. CASE WP!OwnMove
  BY <1>1, <1>3, WP!OwnMoveSleeps, BudgetHolds, WriterPermitHolds, NoRivals, WriterHolds
<1>4. CASE InBudget
  <2>1. WP!Outside
    BY <1>1, <1>4, ThreadSeen
  <2> QED BY <1>1, <2>1, WP!OutsideSleeps, BudgetHolds, WriterPermitHolds, NoRivals, WriterHolds
<1>5. CASE UNCHANGED vars
  <2>1. /\ WP!QueueStays /\ UNCHANGED <<runnable, parked>>
        /\ UNCHANGED <<pollCursor, writeWindow, waker, writePc, writeRound, inputArmed>>
    BY <1>5 DEF vars, budgetVars, writerVars, WP!QueueStays
  <2> QED BY <1>1, <2>1, WP!SleepStays, BudgetHolds, WriterPermitHolds, NoRivals, WriterHolds
<1> QED BY <1>1, <1>2, <1>3, <1>4, <1>5, PipelineMoves

-----------------------------------------------------------------------------
LEMMA SourceThorough ==
    ASSUME PipelineInv, ThoroughInv, PushSource \/ CloseSource
    PROVE  ReaderThorough'
<1>1. /\ readPc = "idle" /\ writePc = "idle" /\ runnable
      /\ UNCHANGED <<readPc, runnable, pulled>>
  BY ReaderActions DEF PushSource, CloseSource, Ready, Reading, RP!Push, RP!Close, RP!pollVars,
                       clientVars
<1>2. pulled = "none"
  BY <1>1, WhenNotFilling
<1> QED BY <1>1, <1>2, NotCurrent DEF ReaderCurrent, Rests

LEMMA ReadThorough ==
    ASSUME PipelineInv, ThoroughInv, Pull \/ DriveReader \/ ReaderReturns
    PROVE  ReaderThorough'
<1>1. RP!DriveIsThorough' /\ RP!PollIsThorough'
  <2>1. CASE Pull
    <3>1. RP!Begin("read")
      BY <2>1, ReaderActions DEF Pull, Reading
    <3> QED BY <3>1, RP!BeginIsThorough, BudgetHolds, ReaderPermitHolds, NoRivals, ReaderHolds
  <2>2. CASE DriveReader
    <3>1. RP!Grow \/ RP!DriveStep
      BY <2>2, ReaderActions DEF DriveReader, Reading
    <3>2. ReaderCurrent
      BY <3>1 DEF RP!Grow, RP!DriveStep, ReaderCurrent
    <3> QED BY <3>1, <3>2, ReaderSleeps, RP!GrowSleeps, RP!DriveSleeps, BudgetHolds,
               ReaderPermitHolds, NoRivals, ReaderHolds
  <2>3. CASE ReaderReturns
    <3>1. RP!Emit \/ RP!ReturnPending \/ RP!ReportEnd \/ RP!ReportError
      BY <2>3, ReaderActions DEF ReaderReturns, Reading
    <3>2. ReaderCurrent
      BY <3>1 DEF RP!Emit, RP!ReturnPending, RP!ReportEnd, RP!ReportError, RP!InRead, ReaderCurrent
    <3> QED BY <3>1, <3>2, ReaderSleeps, RP!CallsSleep, BudgetHolds, ReaderPermitHolds, NoRivals,
               ReaderHolds
  <2> QED BY <2>1, <2>2, <2>3
<1> QED BY <1>1 DEF ReaderThorough

LEMMA WriterStepThorough ==
    ASSUME PipelineInv, ThoroughInv, TaskInv, TaskInv',
           \/ PushTarget \/ SwapTarget \/ TakeTarget \/ PollWriter \/ CloseWriter \/ DriveWriter
           \/ WriterCloses
    PROVE  ReaderThorough'
<1>1. writePc # "fill" /\ UNCHANGED <<readPc, pulled>>
  BY WriterActions
     DEF PushTarget, SwapTarget, TakeTarget, PollWriter, CloseWriter, DriveWriter, WriterCloses,
         Writing, clientVars, readerVars, WP!PushFile, WP!PopSwap, WP!PopFile, WP!PollWrite,
         WP!StopInput, WP!PollClose, WP!DriveStep, WP!Reserve, WP!Grow, WP!FinishClose, WP!Idle
<1>2. readPc = "idle" /\ pulled = "none"
  BY <1>1, WhenNotFilling
<1>3. ~(Rests /\ stage = "copying")'
  <2>1. CASE PushTarget \/ SwapTarget \/ TakeTarget
    <3>1. /\ runnable' = (runnable \/ waker)
          /\ runnable \/ finished > 0
          /\ writePc = "idle" /\ UNCHANGED stage
      BY <2>1, WriterActions
         DEF PushTarget, SwapTarget, TakeTarget, Writing, clientVars, Ready, WP!PushFile,
             WP!PopSwap, WP!PopFile, WP!WakeStored, WP!Idle
    <3> QED BY <3>1 DEF TaskInv, RestFits, Rests
  <2>2. CASE PollWriter \/ CloseWriter
    <3>1. writePc' # "idle"
      BY <2>2, WriterActions DEF PollWriter, CloseWriter, Writing, WP!PollWrite, WP!StopInput,
                                 WP!PollClose, WP!StartDrive
    <3> QED BY <3>1 DEF Rests
  <2>3. CASE DriveWriter
    <3>1. WP!DriveStep \/ WP!Reserve \/ WP!Grow
      BY <2>3, WriterActions DEF DriveWriter, Writing
    <3>2. phase' = "Failed" \/ writePc' # "idle"
      <4>1. CASE WP!DriveStep
        BY <4>1 DEF WP!DriveStep, WP!DriveStepped, WP!Fail
      <4>2. CASE WP!Reserve \/ WP!Grow
        BY <4>2 DEF WP!Reserve, WP!Grow, WP!Allocate, WP!BadAllocation, WP!Fail, WP!schedulerVars
      <4> QED BY <3>1, <4>1, <4>2
    <3> QED BY <2>3, <3>2 DEF DriveWriter, Rests
  <2>4. CASE WriterCloses
    <3>1. UNCHANGED phase /\ phase = "Closing"
      BY <2>4, WriterActions DEF WriterCloses, Writing, WP!FinishClose
    <3> QED BY <3>1 DEF TaskInv, StageFits
  <2> QED BY <2>1, <2>2, <2>3, <2>4
<1> QED BY <1>1, <1>2, <1>3, NotCurrent DEF ReaderCurrent

LEMMA FillThorough ==
    ASSUME PipelineInv, ThoroughInv, TaskInv, [Next]_vars, FillReturns
    PROVE  ReaderThorough'
<1>1. /\ writePc = "fill" /\ UNCHANGED readerVars /\ pulled' = "none"
      /\ pulled # "none" \/ partial = "none"
  BY WriterActions DEF FillReturns, FrameCopied, NothingToCopy, SourceEnded, SourceFailed,
                       Writing, WP!FillReady, WP!FillPends, WP!FillFails, WP!InFill
<1>2. readPc = "idle" /\ readPc' = "idle"
  <2>1. readPc = "idle"
    BY PipelineFacts DEF FillReturns, FrameCopied, NothingToCopy, SourceEnded, SourceFailed,
                         Nesting
  <2> QED BY <1>1, <2>1 DEF readerVars
<1>3. CASE ~ReaderCurrent'
  BY <1>3, NotCurrent
<1>4. CASE ReaderCurrent'
  <2>1. ~runnable' /\ stage' = "copying" /\ partial' # "none"
    BY <1>1, <1>2, <1>4 DEF ReaderCurrent, Rests
  <2>2. NothingToCopy
    <3>1. ASSUME FrameCopied \/ SourceEnded \/ SourceFailed PROVE runnable'
      BY <3>1, WriterActions DEF FrameCopied, SourceEnded, SourceFailed, Writing, WP!FillReady,
                                 WP!ReturnReady, WP!FillFails, WP!Fail
    <3> QED BY <2>1, <3>1 DEF FillReturns
  <2>3. WP!FillPends /\ WP!OwnMove
    BY <2>2, WriterActions DEF NothingToCopy, Writing, WP!OwnMove, WP!InPoll, WP!Fill
  <2>4. ~runnable /\ UNCHANGED <<partial, capacity, parked>>
    BY <2>1, <2>3 DEF WP!FillPends, WP!ReturnReady, WP!ReturnPending, WP!budgetVars
  <2>5. ReaderCurrent
    BY <1>1, <2>1, <2>4 DEF ReaderCurrent
  <2>6. RP!DriveIsThorough' /\ RP!PollIsThorough'
    BY <1>1, <2>4, <2>5, Untouched
  <2> QED BY <2>6 DEF ReaderThorough
<1> QED BY <1>3, <1>4

(* A wakeup or an event makes no reader current that was not.               *)
LEMMA OutsideThorough ==
    ASSUME PipelineInv, ThoroughInv, InBudget \/ BackendEvents \/ UNCHANGED vars
    PROVE  ReaderThorough'
<1>1. UNCHANGED <<readPc, pulled, stage, partial, writePc>> /\ (runnable => runnable')
  <2>1. CASE InBudget
    <3>1. PICK p \in Permits : RP!BudgetThread(p) \/ RP!BudgetWake(p)
      BY <2>1, ReaderActions DEF InBudget
    <3>2. runnable => runnable'
      BY <3>1 DEF RP!BudgetThread, RP!BudgetOnly, RP!outsideVars, RP!BudgetWake, RP!Woken
    <3> QED BY <2>1, <3>2, BudgetMoves DEF PipelineInv, readerVars, writerVars, clientVars
  <2>2. CASE BackendEvents
    <3>1. CASE (\E i \in DOMAIN readFiles : R!BackendEvent(i)) /\ UNCHANGED writerVars
      BY <2>2, <3>1, ReaderActions DEF BackendEvents, RP!BackendEvent, RP!pollVars, writerVars,
                                       clientVars
    <3>2. CASE (\E i \in DOMAIN writeFiles : W!BackendEvent(i)) /\ UNCHANGED readerVars
      BY <2>2, <3>2, WriterActions DEF BackendEvents, WP!BackendEvent, WP!pollVars, readerVars,
                                       clientVars
    <3> QED BY <2>2, <3>1, <3>2 DEF BackendEvents
  <2>3. CASE UNCHANGED vars
    BY <2>3 DEF vars, readerVars, writerVars, clientVars
  <2> QED BY <2>1, <2>2, <2>3
<1>2. CASE ~ReaderCurrent
  BY <1>1, <1>2, NotCurrent DEF ReaderCurrent, Rests
<1>3. CASE ReaderCurrent
  <2>1. RP!SleepInv
    BY <1>3, ReaderSleeps
  <2>2. RP!DriveIsThorough' /\ RP!PollIsThorough'
    <3>1. CASE InBudget
      <4>1. RP!Outside
        BY <3>1, ThreadSeen DEF PipelineInv
      <4> QED BY <2>1, <4>1, RP!OutsideSleeps, BudgetHolds, ReaderPermitHolds, NoRivals, ReaderHolds
    <3>2. CASE \E i \in DOMAIN readFiles : R!BackendEvent(i)
      <4>1. RP!Outside
        BY <3>2, ReaderActions DEF RP!Outside
      <4> QED BY <2>1, <4>1, RP!OutsideSleeps, BudgetHolds, ReaderPermitHolds, NoRivals, ReaderHolds
    <3>3. CASE (\E i \in DOMAIN writeFiles : W!BackendEvent(i)) /\ UNCHANGED readerVars
      <4>1. runnable' /\ UNCHANGED capacity
        BY <3>3, WriterActions DEF WP!BackendEvent, WP!budgetVars
      <4> QED BY <1>3, <3>3, <4>1, Untouched
    <3>4. CASE UNCHANGED vars
      <4>1. UNCHANGED <<readerVars, capacity, runnable, parked>>
        BY <3>4 DEF vars, budgetVars
      <4> QED BY <1>3, <4>1, Untouched
    <3> QED BY <3>1, <3>2, <3>3, <3>4 DEF BackendEvents
  <2> QED BY <2>2 DEF ReaderThorough
<1> QED BY <1>2, <1>3

LEMMA ThoroughMoves ==
    ASSUME PipelineInv, TaskInv, TaskInv', ThoroughInv, [Next]_vars
    PROVE  ThoroughInv'
<1>1. WP!DriveIsThorough' /\ WP!PollIsThorough'
  BY WriterThorough
<1>2. ReaderThorough'
  BY SourceThorough, ReadThorough, WriterStepThorough, FillThorough, OutsideThorough
     DEF Next, Run
<1> QED BY <1>1, <1>2 DEF ThoroughInv

LEMMA ThoroughStarts ==
    ASSUME Init
    PROVE  ThoroughInv
<1>1. /\ readPc = "idle" /\ writePc = "idle" /\ pulled = "none" /\ runnable
  BY ReaderActions, WriterActions DEF Init, RP!Init, WP!Init, WP!Idle
<1> QED BY <1>1 DEF ThoroughInv, ReaderThorough, ReaderCurrent, Rests, RP!DriveIsThorough,
                    WP!DriveIsThorough, WP!PollIsThorough

-----------------------------------------------------------------------------
(* Outside the budget, a task that is parked waits behind a head of the      *)
(* queue for which too few frames are free.                                  *)
LEMMA ParkedBehindHead ==
    ASSUME PipelineInv, OutsideBudget, NEW p \in RP!Permits, parked[p] = Client
    PROVE  /\ request[p].waiting /\ Head(waiters) \in {ReaderPermit, WriterPermit}
           /\ request[Head(waiters)].waiting /\ available < request[Head(waiters)].minimum
<1>1. RP!IInv
  BY DEF PipelineInv, Schedulers, RP!ReaderInv
<1>2. /\ RP!Permits = {ReaderPermit, WriterPermit} /\ Client # NoTask
      /\ lock = RP!Free /\ \A q \in RP!Permits : wakes[q] = <<>>
      /\ waiters \in Seq(RP!Permits)
  BY <1>1, PipelineAssumption, BudgetAssumption
     DEF RP!Permits, ReaderPermit, WriterPermit, OutsideBudget, RP!IInv, RP!TypeOK, Permits, Free,
         RP!Free
<1>3. alive[p] /\ request[p].waiting
  <2>1. ~\E q \in RP!Permits : \E i \in DOMAIN wakes[q] : wakes[q][i] = parked[p]
    BY <1>2
  <2> QED BY <1>1, <1>2, <2>1 DEF RP!IInv, RP!NoLostWakeup
<1>4. PICK i \in DOMAIN waiters : waiters[i] = p
  BY <1>1, <1>3 DEF RP!IInv, RP!QueueIsWaiting
<1>5. waiters # <<>> /\ Head(waiters) = waiters[1] /\ 1 \in DOMAIN waiters
      /\ Head(waiters) \in RP!Permits
  BY <1>2, <1>4
<1>6. request[Head(waiters)].waiting
  BY <1>1, <1>5 DEF RP!IInv, RP!QueueIsWaiting
<1>7. available < request[Head(waiters)].minimum
  BY <1>1, <1>2, <1>5 DEF RP!IInv, RP!HeadIsBlocked
<1> QED BY <1>2, <1>3, <1>5, <1>6, <1>7

(* A file of either side waits for its backend.                             *)
SomeoneWaits ==
    \/ \E i \in DOMAIN readFiles : readFiles[i].io = "waiting"
    \/ \E i \in DOMAIN writeFiles : writeFiles[i].io = "waiting"

(* With enough capacity for both, a task at rest whose calls on the budget  *)
(* have returned waits for a backend, never for the other scheduler alone.  *)
NeverDeadlocks == EnoughForBoth /\ Rests /\ OutsideBudget => SomeoneWaits

RestInv == PipelineInv /\ TaskInv /\ ShareInv /\ ThoroughInv

LEMMA WriterAtRest ==
    ASSUME RestInv, Rests
    PROVE  /\ \A i \in DOMAIN writeFiles : WP!Rested(writeFiles[i])
           /\ phase = "Writing" /\ WP!MayReserve => parked[WriterPermit] = Client
           /\ waker /\ ~WP!Completed /\ WP!WriterInv
BY DEF RestInv, TaskInv, RestFits, Rests, ThoroughInv, WP!PollIsThorough, WP!Sleeping, PipelineInv,
       Schedulers

(* The head of the writer's queue, when the task rests.                     *)
LEMMA HeadOfWriter ==
    ASSUME RestInv, Rests, writeFiles # <<>>
    PROVE  /\ 1 \in DOMAIN writeFiles /\ WP!Rested(writeFiles[1]) /\ ~WP!Done(writeFiles[1])
           /\ writeFiles[1].capacity = FileCapacity
<1>1. WP!WriterInv /\ ~WP!Completed
  BY WriterAtRest
<1>2. writeFiles \in Seq(WP!SlotType)
  BY <1>1 DEF WP!WriterInv, WP!WriterTypeOK
<1>3. 1 \in DOMAIN writeFiles /\ Head(writeFiles) = writeFiles[1]
  BY <1>2
<1>4. writeFiles[1] \in WP!SlotType
  BY <1>2, <1>3
<1>5. writeFiles[1].capacity = FileCapacity
  BY <1>4 DEF WP!SlotType
<1> QED BY <1>1, <1>3, <1>5, WriterAtRest DEF WP!Completed

(* While the copy is not closing, that file is one that the writer fills    *)
(* next: it has reserved, or asks for, what its next frame needs.            *)
LEMMA CopyAtRest ==
    ASSUME RestInv, Rests, EnoughForBoth, stage = "copying", ~SomeoneWaits
    PROVE  /\ partial = "none" => WP!MayReserve
           /\ used + WP!NextNeeds = Quantum
           /\ WP!Reach <= writeWindow.target \/ WP!Reach <= Quantum
           /\ {readWindow.target, writeWindow.target, Quantum, FirstBatch} \subseteq Nat
           /\ FirstBatch <= readWindow.target
<1>1. /\ WP!WriterInv /\ phase = "Writing" /\ ~WP!Missing /\ WP!TakesItsShare /\ RP!ReaderInv
  BY WriterAtRest DEF RestInv, TaskInv, StageFits, RestFits, ShareInv, WP!Modest, PipelineInv,
                      Schedulers
<1>2. /\ readWindow.target \in Nat /\ writeWindow.target \in Nat \ {0} /\ Total \in Nat
      /\ writeWindow.maxActive \in Nat \ {0} /\ FileCapacity \in Nat /\ WriterRetries \in Nat
      /\ Batch \in Nat
  <2>1. readWindow \in ReaderWindows /\ writeWindow \in WriterWindows
    BY <1>1 DEF RP!ReaderInv, RP!ReaderTypeOK, WP!WriterInv, WP!WriterTypeOK
  <2> QED BY <2>1, PipelineAssumption, BudgetAssumption
<1>3. writeFiles # <<>>
  <2>1. ASSUME writeFiles = <<>> PROVE FALSE
    <3>1. Len(writeFiles) = 0
      BY <2>1
    <3> QED BY <1>1, <1>2, <3>1 DEF WP!Missing
  <2> QED BY <2>1
<1>4. /\ WP!Rested(writeFiles[1]) /\ ~WP!Done(writeFiles[1]) /\ writeFiles[1].io # "waiting"
      /\ writeFiles[1].capacity = FileCapacity
  BY <1>3, HeadOfWriter DEF SomeoneWaits
<1>5. Quantum = (IF WP!Replay THEN FileCapacity ELSE 1) /\ Quantum \in Nat
  BY <1>2 DEF Quantum, WP!Replay
<1>6. WP!Replay => writeFiles[1].capacity <= Total
  BY <1>2, <1>4, <1>5 DEF EnoughForBoth
<1>7. /\ partial = "none" => WP!MayReserve
      /\ used + WP!NextNeeds = Quantum
  BY <1>1, <1>3, <1>4, <1>5, <1>6, WP!HeadAtRest, BudgetHolds, WriterPermitHolds, NoRivals,
     WriterHolds
<1>8. WP!Reach <= writeWindow.target \/ WP!Reach <= Quantum
  BY <1>1, <1>7 DEF WP!TakesItsShare, WP!Most
<1>9. FirstBatch \in Nat /\ FirstBatch <= readWindow.target
  BY <1>2 DEF FirstBatch, R!Least
<1> QED BY <1>2, <1>5, <1>7, <1>8, <1>9

(* A reader that the fill found pending has no frame, when the task rests.  *)
LEMMA ReaderAtRest ==
    ASSUME RestInv, Rests, stage = "copying", partial # "none", ~SomeoneWaits
    PROVE  parked[ReaderPermit] = Client /\ capacity[ReaderPermit] = 0
<1>1. /\ call = "read" /\ asleep /\ ~terminated /\ Len(output) < declared /\ alive[ReaderPermit]
      /\ PipelineInv /\ ~runnable /\ writePc = "idle"
  BY DEF RestInv, TaskInv, RestFits, FrameToCome, Rests
<1>2. readPc = "idle"
  BY <1>1, WhenNotFilling
<1>3. readFiles # <<>> /\ RP!ReaderInv
  BY <1>1, RP!FilesAndFrames, BudgetHolds, ReaderPermitHolds, NoRivals, ReaderHolds
     DEF PipelineInv, Schedulers
<1>4. RP!SleepInv
  BY ReaderSleeps DEF RestInv, ReaderCurrent
<1>5. RP!SleepsOnlyWhenStuck
  BY <1>4, RP!StuckWhenAsleep, BudgetHolds, ReaderPermitHolds, NoRivals, ReaderHolds
<1>6. Head(readFiles).io = "waiting" \/ parked[ReaderPermit] = Client
  BY <1>1, <1>2, <1>3, <1>5 DEF RP!SleepsOnlyWhenStuck
<1>7. Head(readFiles).io # "waiting"
  <2>1. readFiles \in Seq(RP!SlotType)
    BY <1>3 DEF RP!ReaderInv, RP!ReaderTypeOK
  <2>2. 1 \in DOMAIN readFiles /\ Head(readFiles) = readFiles[1]
    BY <1>3, <2>1
  <2> QED BY <2>2 DEF SomeoneWaits
<1>8. capacity[ReaderPermit] \in Nat
  BY <1>3, RP!ReachType, BudgetHolds, ReaderPermitHolds, NoRivals, ReaderHolds DEF RP!ReaderInv
<1>9. ~(capacity[ReaderPermit] > 0)
  <2>1. ~RP!HeadComplete
    BY <1>1, <1>2, <1>3, <1>5 DEF RP!SleepsOnlyWhenStuck
  <2> QED BY <1>1, <1>2, <1>3, <1>4, <1>7, <2>1, RP!FramesSuffice, BudgetHolds, ReaderPermitHolds,
             NoRivals, ReaderHolds
<1> QED BY <1>6, <1>7, <1>8, <1>9

LEMMA NoDeadlock ==
    ASSUME RestInv
    PROVE  NeverDeadlocks
<1> SUFFICES ASSUME EnoughForBoth, Rests, OutsideBudget, ~SomeoneWaits PROVE FALSE
  BY DEF NeverDeadlocks
<1>1. CASE stage = "closing"
  <2>1. phase = "Closing" /\ writeFiles # <<>>
    BY <1>1 DEF RestInv, TaskInv, StageFits, RestFits, Rests
  <2>2. 1 \in DOMAIN writeFiles /\ WP!Rested(writeFiles[1]) /\ ~WP!Done(writeFiles[1])
    BY <2>1, HeadOfWriter
  <2>3. writeFiles[1].io = "waiting"
    BY <2>1, <2>2, WriterAtRest, WP!HeadCloses, BudgetHolds, WriterPermitHolds, NoRivals, WriterHolds
  <2> QED BY <2>2, <2>3 DEF SomeoneWaits
<1>2. CASE stage = "copying"
  <2> DEFINE reads == RP!Held(ReaderPermit)
             writes == WP!Held(WriterPermit)
             waits(p) == request[p].waiting
             lacks(p) == request[p].minimum
  <2>1. /\ ReaderPermit \in RP!Permits /\ WriterPermit \in RP!Permits
        /\ PipelineInv /\ phase = "Writing" /\ Total \in Nat
        /\ RP!KeepsToWindow /\ RP!AsksInBatches /\ WP!AsksForNext
    BY <1>2, PipelineAssumption, BudgetAssumption
       DEF RestInv, ShareInv, WP!Modest, TaskInv, StageFits, RP!Permits, ReaderPermit, WriterPermit
  <2>2. /\ available \in Nat /\ reads \in Nat /\ writes \in Nat
        /\ available + reads + writes = Total
    BY <2>1, FramesAreSplit
  <2>3. /\ RP!Reach \in Nat /\ reads <= RP!Reach /\ RP!Reach <= readWindow.target
        /\ waits(ReaderPermit) =>
              /\ reads = capacity[ReaderPermit] /\ lacks(ReaderPermit) \in Nat
              /\ reads + lacks(ReaderPermit) <= RP!Reach
              /\ lacks(ReaderPermit) <= FirstBatch
    <3>1. RP!IInv /\ FirstBatch = RP!Least(readWindow.target, Batch)
      BY <2>1 DEF PipelineInv, Schedulers, RP!ReaderInv, FirstBatch, R!Least, RP!Least
    <3> QED BY <2>1, <3>1, RP!ReachType, BudgetHolds, ReaderPermitHolds, NoRivals, ReaderHolds
            DEF RP!KeepsToWindow, RP!AsksInBatches
  <2>4. /\ WP!Reach \in Nat /\ writes <= WP!Reach
        /\ waits(WriterPermit) =>
              /\ writes = capacity[WriterPermit] /\ lacks(WriterPermit) \in Nat \ {0}
              /\ partial = "none" /\ writes + lacks(WriterPermit) = used + WP!NextNeeds
    <3>1. WP!IInv
      BY <2>1 DEF PipelineInv, Schedulers, WP!WriterInv
    <3> QED BY <2>1, <3>1, WP!ReachType, BudgetHolds, WriterPermitHolds, NoRivals, WriterHolds
            DEF WP!AsksForNext, WP!NextNeeds, WP!MayReserve
  <2>5. /\ used + WP!NextNeeds = Quantum
        /\ partial = "none" => WP!MayReserve
        /\ WP!Reach <= writeWindow.target \/ WP!Reach <= Quantum
        /\ {readWindow.target, writeWindow.target, Quantum, FirstBatch} \subseteq Nat
        /\ FirstBatch <= readWindow.target
        /\ FirstBatch + writeWindow.target <= Total /\ readWindow.target + Quantum <= Total
    BY <1>2, CopyAtRest DEF EnoughForBoth
  <2> HIDE DEF reads, writes
  <2>6. CASE partial = "none"
    <3>1. parked[WriterPermit] = Client
      BY <2>1, <2>5, <2>6, WriterAtRest
    <3>2. /\ waits(WriterPermit) /\ Head(waiters) \in {ReaderPermit, WriterPermit}
          /\ waits(Head(waiters)) /\ available < lacks(Head(waiters))
      BY <2>1, <3>1, ParkedBehindHead
    <3>3. CASE Head(waiters) = ReaderPermit
      BY <2>2, <2>3, <2>4, <2>5, <3>2, <3>3
    <3>4. CASE Head(waiters) = WriterPermit
      BY <2>2, <2>3, <2>4, <2>5, <3>2, <3>4
    <3> QED BY <3>2, <3>3, <3>4
  <2>7. CASE partial # "none"
    <3>1. parked[ReaderPermit] = Client /\ capacity[ReaderPermit] = 0
      BY <1>2, <2>7, ReaderAtRest
    <3>2. /\ waits(ReaderPermit) /\ Head(waiters) \in {ReaderPermit, WriterPermit}
          /\ waits(Head(waiters)) /\ available < lacks(Head(waiters))
      BY <2>1, <3>1, ParkedBehindHead
    <3>3. Head(waiters) = ReaderPermit
      BY <2>4, <2>7, <3>2
    <3>4. reads = 0 /\ available < FirstBatch
      BY <2>2, <2>3, <2>5, <3>1, <3>2, <3>3
    <3> QED BY <2>2, <2>4, <2>5, <3>4
  <2> QED BY <2>6, <2>7
<1> QED BY <1>1, <1>2 DEF Rests

LEMMA RestInvariance == Spec => []RestInv
<1>1. Init => RestInv
  BY PipelineStart, TaskStarts, SharesStart, ThoroughStarts DEF RestInv
<1>2. RestInv /\ [Next]_vars => RestInv'
  <2>1. ASSUME RestInv, [Next]_vars PROVE RestInv'
    <3>1. PipelineInv'
      BY <2>1, PipelineStep DEF RestInv
    <3>2. TaskInv'
      BY <2>1, TaskMoves DEF RestInv
    <3>3. ShareInv'
      BY <2>1, <3>1, SharesMove DEF RestInv
    <3>4. ThoroughInv'
      BY <2>1, <3>2, ThoroughMoves DEF RestInv
    <3> QED BY <3>1, <3>2, <3>3, <3>4 DEF RestInv
  <2> QED BY <2>1
<1> QED BY <1>1, <1>2, PTL DEF Spec

(* With a budget that has room for the reader's first batch next to the     *)
(* writer's window, and for the reader's window next to what the writer's   *)
(* next frame needs (a whole file, where it must replay it), the two        *)
(* schedulers never wait for each other: a task that is put to sleep while  *)
(* the copy goes on has a backend to wait for, on either side, once the     *)
(* calls on the budget have returned.  So it is for every batch, although   *)
(* the reader may stand before the writer in the queue with a request for   *)
(* many frames at once, or the other way round.                             *)
THEOREM PipelineNeverDeadlocks == Spec => []NeverDeadlocks
<1>1. RestInv => NeverDeadlocks
  BY NoDeadlock
<1> QED BY <1>1, RestInvariance, PTL

=============================================================================
