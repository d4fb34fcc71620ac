------------------------------ MODULE Pipeline ------------------------------
(***************************************************************************)
(* A writer that pulls from a reader on the same budget: the input of the  *)
(* writer's partial frames is the read scheduler, "a reader with interior  *)
(* mutability" (src/src/write.rs:19), so poll_read runs inside poll_fill,  *)
(* inside poll_write.  One task drives both and pushes their files.  Each  *)
(* frame that the reader yields is one frame of the writer.                *)
(***************************************************************************)
EXTENDS FrameBudget, SequencesExt

CONSTANTS Client,          \* the task
          ReaderRetries, WriterRetries,
          ReaderWindows, WriterWindows,    \* the windows that either may be made with
          ReaderFaults, WriterFaults,
          FileCounts,      \* the frames of each file to read, in order
          FileCapacity,    \* the frames of a file to write
          Batch, MaxPollOps, Modulus,
          MaxFrames        \* bound: frames of all the files to read

ReaderPermit == 1
WriterPermit == 2

ASSUME PipelineAssumption ==
    /\ PermitCount = 2 /\ Client \in Tasks /\ Total > 0
    /\ {ReaderRetries, WriterRetries, MaxFrames} \subseteq Nat
    /\ {Batch, MaxPollOps, Modulus, FileCapacity} \subseteq Nat \ {0}
    /\ FileCounts \in Seq(1..(Modulus - 1))
    /\ ReaderWindows \subseteq [target: Nat \ {0}, openAhead: Nat, maxActive: Nat \ {0}]
    /\ WriterWindows \subseteq [target: Nat \ {0}, maxActive: Nat \ {0}]

VARIABLES readFiles, cells, emitted, discovered, cursor, closed, terminated, readWindow,
          error, readPc, call, readRound, asleep, declared, output, reports,
          writeFiles, partial, used, fillIndex, pollCursor, phase, writeWindow, waker,
          writePc, writeRound, inputArmed, begun, delivered,
          runnable,    \* the task has been woken since its poll began
          stage,       \* "copying", "closing", "done" or "failed"
          pulled,      \* what poll_read returned inside poll_fill, or "none"
          finished,    \* completed files that a poll reported, not yet taken
          pushed,      \* files pushed to the reader
          copied       \* the frames put into the writer (history)

readerVars == <<readFiles, cells, emitted, discovered, cursor, closed, terminated, readWindow,
                error, readPc, call, readRound, asleep, declared, output, reports>>
writerVars == <<writeFiles, partial, used, fillIndex, pollCursor, phase, writeWindow, waker,
                writePc, writeRound, inputArmed, begun, delivered>>
clientVars == <<stage, pulled, finished, pushed, copied>>
vars == <<budgetVars, readerVars, writerVars, runnable, clientVars>>

R == INSTANCE ReadScheduler WITH
         Self <- ReaderPermit, Rival <- Client, RivalSizes <- {}, Reader <- Client,
         MaxRetries <- ReaderRetries, Windows <- ReaderWindows, Faults <- ReaderFaults,
         FrameCounts <- ToSet(FileCounts),
         files <- readFiles, window <- readWindow, pc <- readPc, round <- readRound

W == INSTANCE WriteScheduler WITH
         Self <- WriterPermit, Rival <- Client, RivalSizes <- {}, Writer <- Client,
         MaxRetries <- WriterRetries, Windows <- WriterWindows, Faults <- WriterFaults,
         FileCapacities <- {FileCapacity},
         files <- writeFiles, window <- writeWindow, pc <- writePc, round <- writeRound

(* The task's thread is not inside a call on the budget. *)
OutsideBudget == lock = Free /\ \A p \in Permits : wakes[p] = <<>>

Reading(action) == OutsideBudget /\ action /\ UNCHANGED writerVars
Writing(action) == OutsideBudget /\ action /\ UNCHANGED readerVars

-----------------------------------------------------------------------------
(* Before it polls the writer, the task gives both schedulers their files. *)
Ready == stage = "copying" /\ readPc = "idle" /\ writePc = "idle" /\ runnable /\ finished = 0

PushSource ==
    /\ Ready /\ pushed < Len(FileCounts)
    /\ Reading(R!Push(FileCounts[pushed + 1]))
    /\ pushed' = pushed + 1
    /\ UNCHANGED <<runnable, stage, pulled, finished, copied>>

CloseSource ==
    /\ Ready /\ pushed = Len(FileCounts)
    /\ Reading(R!Close)
    /\ UNCHANGED <<runnable, clientVars>>

PushTarget ==
    /\ Ready
    /\ Writing(W!PushFile(FileCapacity))
    /\ UNCHANGED clientVars

SourceAdmitted == closed \/ terminated \/ R!Full

PollWriter ==
    /\ Ready /\ SourceAdmitted /\ ~W!Missing
    /\ Writing(W!PollWrite)
    /\ UNCHANGED clientVars

DriveWriter ==
    /\ Writing(W!DriveStep \/ W!Reserve \/ W!Grow)
    /\ stage' = IF phase' = "Failed" THEN "failed" ELSE stage
    /\ UNCHANGED <<pulled, finished, pushed, copied>>

-----------------------------------------------------------------------------
(* poll_fill polls the reader once. *)
InFill == writePc = "fill" /\ partial # "none"

Pull ==
    /\ InFill /\ pulled = "none" /\ readPc = "idle"
    /\ Reading(R!Begin("read"))
    /\ UNCHANGED <<runnable, clientVars>>

DriveReader ==
    /\ Reading(R!Grow \/ R!DriveStep)
    /\ UNCHANGED clientVars

ReaderReturns ==
    /\ \/ Reading(R!Emit) /\ pulled' = "frame"
       \/ Reading(R!ReturnPending) /\ pulled' = "pending"
       \/ Reading(R!ReportEnd) /\ pulled' = "end"
       \/ Reading(R!ReportError) /\ pulled' = "error"
    /\ UNCHANGED <<stage, finished, pushed, copied>>

LeadingDone ==
    Cardinality({i \in DOMAIN writeFiles : \A j \in 1..i : W!Done(writeFiles[j])})

(* The frame completes the partial frame; a pending reader leaves the fill  *)
(* pending; an end consumes nothing, and tells the task to close.           *)
FrameCopied ==
    /\ pulled = "frame"
    /\ Writing(W!FillReady) /\ partial' = "none"
    /\ copied' = Append(copied, Last(output))
    /\ UNCHANGED <<stage, pushed>>

NothingToCopy ==
    /\ pulled = "pending" \/ partial = "none"
    /\ Writing(W!FillPends)
    /\ UNCHANGED <<stage, pushed, copied>>

SourceEnded ==
    /\ pulled = "end"
    /\ Writing(W!FillReady) /\ partial' = "empty"
    /\ stage' = "closing"
    /\ UNCHANGED <<pushed, copied>>

SourceFailed ==
    /\ pulled = "error"
    /\ Writing(W!FillFails)
    /\ stage' = "failed"
    /\ UNCHANGED <<pushed, copied>>

FillReturns ==
    /\ FrameCopied \/ NothingToCopy \/ SourceEnded \/ SourceFailed
    /\ pulled' = "none" /\ finished' = LeadingDone

SwapTarget ==
    /\ phase = "Writing" /\ finished > 0
    /\ Writing(W!PopSwap(FileCapacity))
    /\ finished' = finished - 1
    /\ UNCHANGED <<stage, pulled, pushed, copied>>

-----------------------------------------------------------------------------
CloseWriter ==
    /\ stage = "closing" /\ finished = 0 /\ runnable
    /\ Writing(W!StopInput \/ W!PollClose)
    /\ UNCHANGED clientVars

WriterCloses ==
    /\ Writing(W!FinishClose)
    /\ finished' = LeadingDone
    /\ stage' = IF writeFiles = <<>> THEN "done" ELSE stage
    /\ UNCHANGED <<pulled, pushed, copied>>

TakeTarget ==
    /\ phase = "Closing" /\ finished > 0
    /\ Writing(W!PopFile)
    /\ finished' = finished - 1
    /\ UNCHANGED <<stage, pulled, pushed, copied>>

-----------------------------------------------------------------------------
(* What the thread does inside the budget, and the backends' events. *)
InBudget ==
    /\ \E p \in Permits : R!BudgetThread(p) \/ R!BudgetWake(p)
    /\ UNCHANGED <<writerVars, clientVars>>

BackendEvents ==
    /\ \/ (\E i \in DOMAIN readFiles : R!BackendEvent(i)) /\ UNCHANGED writerVars
       \/ (\E i \in DOMAIN writeFiles : W!BackendEvent(i)) /\ UNCHANGED readerVars
    /\ UNCHANGED clientVars

Init ==
    /\ R!Init /\ W!Init
    /\ stage = "copying" /\ pulled = "none" /\ finished = 0 /\ pushed = 0 /\ copied = <<>>

Run ==
    \/ PushSource \/ CloseSource \/ PushTarget \/ PollWriter \/ DriveWriter
    \/ Pull \/ DriveReader \/ ReaderReturns \/ FillReturns \/ SwapTarget
    \/ CloseWriter \/ WriterCloses \/ TakeTarget
    \/ InBudget

Next == Run \/ BackendEvents

Spec == Init /\ [][Next]_vars

-----------------------------------------------------------------------------
(* Every frame that the reader gave away is in the writer, and the files of *)
(* the writer, in the order in which they come back, hold what the files of *)
(* the reader held: a frame taken in a poll that goes on to wait, retry or  *)
(* end is neither lost nor doubled, and the end leaves nothing behind.      *)
CopyIsFaithful ==
    /\ Len(output) = Len(copied) + (IF pulled = "frame" THEN 1 ELSE 0)
    /\ \A k \in DOMAIN delivered : delivered[k] \in DOMAIN copied /\ copied[delivered[k]] = k
    /\ stage = "done" => pushed = Len(FileCounts) /\ Len(delivered) = declared

(* The frames that the reader was authorized to fill and those that the     *)
(* writer has reserved never exceed the budget together, whatever each took *)
(* and gave back while the other's request was queued, granted or withdrawn. *)
NeverOvercommitted == Len(cells) + used <= Total

(* The capacity that lets both go on: what the reader asks for at first,    *)
(* next to the writer's window; and the reader's window, next to what the   *)
(* writer needs to go on when it holds nothing.                             *)
Quantum == IF WriterRetries = 0 THEN 1 ELSE FileCapacity
FirstBatch == R!Least(readWindow.target, Batch)

EnoughForBoth ==
    /\ FirstBatch + writeWindow.target <= Total
    /\ readWindow.target + Quantum <= Total

(* With a budget that is large enough, neither scheduler holds for ever     *)
(* what the other waits for: the copy ends.                                 *)
PipelineDrains == EnoughForBoth => <>(stage \in {"done", "failed"})

=============================================================================
