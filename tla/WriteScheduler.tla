--------------------------- MODULE WriteScheduler ---------------------------
(***************************************************************************)
(* The write scheduler (src/src/write.rs) on a shared frame budget.  One    *)
(* task drives it; poll_write and poll_close are split where they touch the *)
(* budget's lock or poll the backend, so that other permits' threads and    *)
(* backend events interleave with them; the other calls are one step.       *)
(*                                                                          *)
(* Frames are numbered in the order in which their first input is consumed. *)
(* The backend keeps, per file, the frames it accepted in this attempt.     *)
(***************************************************************************)
EXTENDS SchedulerPermit

CONSTANTS Writer,          \* the task that drives the scheduler
          MaxRetries,      \* SchedulerConfig::max_retries
          Windows,         \* the windows in use: [target, maxActive]
          FileCapacities,  \* frame_capacity of the files the caller supplies
          MaxPollOps,      \* MAX_POLL_OPS
          MaxFrames,       \* bound: frames the input can start
          Faults           \* what may go wrong: "backend", "input", "partial"

ASSUME WriterAssumption ==
    /\ Writer \in Tasks
    /\ MaxRetries \in Nat /\ MaxPollOps \in Nat \ {0} /\ MaxFrames \in Nat
    /\ Windows \subseteq [target: Nat \ {0}, maxActive: Nat \ {0}]
    /\ FileCapacities \subseteq Nat

VARIABLES files,       \* WriteScheduler::files, a queue of slots
          partial,     \* "none", "empty" or "some" input in the partial frame
          used, fillIndex, pollCursor, phase, window,
          waker,       \* whether a waker is stored by the last Pending
          pc,          \* where the poll in progress is, or "idle"
          round,       \* drive: slots left in this round, progress, steps left
          runnable,    \* the task has been woken since its poll began
          inputArmed,  \* the input holds the task's waker
          begun,       \* frames started so far (history)
          delivered    \* frames of the files handed back (history)

schedulerVars == <<files, partial, used, fillIndex, pollCursor, phase, window, waker>>
pollVars == <<pc, round>>
outsideVars == <<runnable, inputArmed, begun, delivered>>
vars == <<budgetVars, schedulerVars, pollVars, outsideVars>>

Replay == MaxRetries > 0

-----------------------------------------------------------------------------
(* Slots. *)
NewSlot(c) ==
    [state |-> "Idle", frames |-> <<>>, capacity |-> c, assigned |-> 0,
     written |-> 0, retries |-> 0, io |-> "new", content |-> <<>>]

Done(slot) == slot.state = "Closed"

\* mutant: the last frame is overlooked
UnwrittenButLast(slot) == slot.written + 1 < slot.assigned
Unwritten(slot) ==
    IF Replay THEN slot.written < Len(slot.frames) ELSE slot.frames # <<>>

NextFrame(slot) ==
    IF Replay THEN slot.frames[slot.written + 1] ELSE Head(slot.frames)

(* The slot has a backend operation to poll. *)
HasOperation(slot) ==
    \/ slot.state \in {"Opening", "Closing"}
    \/ slot.state = "Writing" /\ Unwritten(slot)

(* The backend: a pending operation stays so until its event, then completes. *)
Answers(slot) ==
    LET completions == IF "backend" \in Faults THEN {"ok", "error"} ELSE {"ok"}
    IN  CASE slot.io = "waiting" -> {"pending"}
          [] slot.io = "ready" -> completions
          [] slot.io = "new" -> completions \cup {"pending"}

Stepped(slot, changed, released) ==
    [slot |-> slot, changed |-> changed, released |-> released, failed |-> FALSE]

\* mutant: the count of written frames survives
ForgetfulRestart(slot) == [slot EXCEPT !.retries = @ + 1, !.state = "Opening", !.io = "new"]
\* mutant: the retries are not counted
UncountedRestart(slot) == [slot EXCEPT !.written = 0, !.state = "Opening", !.io = "new"]
Restarted(slot) ==
    [slot EXCEPT !.retries = @ + 1, !.written = 0, !.state = "Opening", !.io = "new"]

(* An error: the attempt starts over, unless the retries are used up. *)
Retried(slot) ==
    IF slot.retries = MaxRetries
    THEN [Stepped(slot, FALSE, 0) EXCEPT !.failed = TRUE]
    ELSE Stepped(Restarted(slot), TRUE, 0)

(* Frames::accepted and Frames::clear, and the reservations they end. *)
Newest(frames) == IF Replay THEN frames ELSE Front(frames)      \* mutant: the wrong end
Rest(frames) == IF Replay THEN frames ELSE Tail(frames)
FrameReleased == IF Replay THEN 0 ELSE 1
Uncleared(frames) == frames                                     \* mutant: a stale buffer
Cleared(frames) == <<>>
AssignedReleased(slot) == IF Replay THEN slot.assigned ELSE 0   \* mutant: a short file leaks
FileReleased(slot) == IF Replay THEN slot.capacity ELSE 0

Accepted(slot) ==
    CASE slot.state = "Opening" ->
           Stepped([slot EXCEPT !.state = "Writing", !.io = "new", !.content = <<>>], TRUE, 0)
      [] slot.state = "Writing" ->
           Stepped([slot EXCEPT !.written = @ + 1, !.io = "new", !.frames = Rest(@),
                                !.content = Append(@, NextFrame(slot))], TRUE, FrameReleased)
      [] slot.state = "Closing" ->
           Stepped([slot EXCEPT !.state = "Closed", !.io = "new", !.frames = Cleared(@)],
                   TRUE, FileReleased(slot))

(* No frame will be assigned to the slot any more. *)
AssignedSome(slot) == slot.assigned > 0             \* mutant: closed before it is full
AllAssigned(slot) == slot.assigned = slot.capacity \/ phase = "Closing"

(* Slot::poll: the results that one poll of the slot may have. *)
Polled(slot) ==
    IF HasOperation(slot)
    THEN {CASE answer = "pending" -> Stepped([slot EXCEPT !.io = "waiting"], FALSE, 0)
            [] answer = "ok" -> Accepted(slot)
            [] answer = "error" -> Retried(slot) : answer \in Answers(slot)}
    ELSE IF slot.state = "Writing" /\ AllAssigned(slot)
         THEN {Stepped([slot EXCEPT !.state = "Closing"], TRUE, 0)}
         ELSE {Stepped(slot, FALSE, 0)}

-----------------------------------------------------------------------------
NoRound == [left |-> 0, progressed |-> FALSE, steps |-> 0]

ReturnGrant == Shrink(0)

(* fail(): drop all work, give everything back. *)
Fail ==
    /\ ReturnGrant
    /\ phase' = "Failed" /\ files' = <<>> /\ partial' = "none" /\ used' = 0
    /\ pc' = "idle" /\ round' = NoRound /\ runnable' = TRUE
    /\ UNCHANGED <<fillIndex, window, waker, inputArmed, begun, delivered>>

(* drive, first round; the rounds end at once when there is no file. *)
StartDrive(count) ==
    IF count = 0
    THEN pc' = "driven" /\ round' = NoRound
    ELSE pc' = "drive" /\ round' = [left |-> count, progressed |-> FALSE, steps |-> MaxPollOps]

(* The part of the grant that a window with this target lets the writer keep. *)
TargetOnly(target, reserved) == Least(capacity[Self], target)   \* mutant: frames in use go
Trimmed(target, reserved) == Least(capacity[Self], Most(target, reserved))

(* What drive keeps of the grant when a written frame was released. *)
KeptAnyway(reserved) == Trimmed(window.target, reserved)        \* mutant: spare frames stay
Kept(reserved) ==
    IF phase = "Closing" THEN Least(capacity[Self], reserved)
    ELSE Trimmed(window.target, reserved)

(* After MAX_POLL_OPS changes the task is woken and drive returns; it also  *)
(* returns after a round without a change.                                  *)
NeverSelfWoken(steps) == runnable                               \* mutant: the wake is missing
SelfWoken(steps) == runnable \/ steps = 0
BusyRounds(steps, ended, progressed) == steps = 0               \* mutant: idle rounds go on
RoundsEnd(steps, ended, progressed) == steps = 0 \/ (ended /\ ~progressed)

(* The bookkeeping of drive after slot i was polled. *)
DriveStepped(i, result) ==
    /\ files' = [files EXCEPT ![i] = result.slot]
    /\ used' = Less(used, result.released)
    /\ IF result.changed /\ Done(result.slot) THEN Shrink(used')
       ELSE IF result.released > 0 THEN Shrink(Kept(used'))
       ELSE UNCHANGED budgetVars
    /\ LET steps == round.steps - (IF result.changed THEN 1 ELSE 0)
           progressed == round.progressed \/ result.changed
           ended == round.left = 1
       IN  /\ runnable' = SelfWoken(steps)
           /\ IF RoundsEnd(steps, ended, progressed)
              THEN pc' = "driven" /\ round' = NoRound
              ELSE /\ round' = [left |-> IF ended THEN Len(files) ELSE round.left - 1,
                                progressed |-> progressed /\ ~ended, steps |-> steps]
                   /\ UNCHANGED pc
    /\ UNCHANGED <<partial, fillIndex, phase, window, waker, inputArmed, begun, delivered>>

(* One Slot::poll of the loop in drive. *)
DriveStep ==
    /\ pc = "drive" /\ Callable(Self)
    /\ LET count == Len(files)
           index == pollCursor % count
       IN  /\ pollCursor' = (index + 1) % count
           /\ \E result \in Polled(files[index + 1]) :
                \/ result.failed /\ Fail
                \/ ~result.failed /\ DriveStepped(index + 1, result)

-----------------------------------------------------------------------------
Completed == files # <<>> /\ Done(Head(files))
Missing == Len(files) < window.maxActive

(* No call of the task is in progress. *)
Idle == pc = "idle" /\ Callable(Self)

(* A poll returns: Ready keeps the task running, Pending stores its waker. *)
ReturnReady == pc' = "idle" /\ runnable' = TRUE /\ UNCHANGED <<round, waker>>
ReturnPending == pc' = "idle" /\ waker' = TRUE /\ UNCHANGED <<round, runnable>>

PollWrite ==
    /\ Idle /\ phase = "Writing"
    /\ waker' = FALSE /\ runnable' = FALSE
    /\ StartDrive(Len(files))
    /\ UNCHANGED <<budgetVars, files, partial, used, fillIndex, pollCursor, phase, window,
                   inputArmed, begun, delivered>>

FillSlot == files[fillIndex + 1]
HasFillSlot == fillIndex < Len(files)

(* The frames a new partial frame needs: replay reserves the whole file. *)
Needed == IF ~Replay THEN 1
          ELSE IF FillSlot.assigned = 0 THEN FillSlot.capacity ELSE 0
Limit == IF Replay THEN Total ELSE Least(Total, window.target)
MayReserve == partial = "none" /\ HasFillSlot /\ Needed <= Less(Limit, used)

(* A reserved frame is allocated; the allocator may break its contract. *)
Allocate ==
    /\ used' = used + Needed
    /\ partial' = "empty"
    /\ pc' = "fill"
    /\ UNCHANGED <<files, fillIndex, pollCursor, phase, window, waker, round, outsideVars>>

BadAllocation == "partial" \in Faults /\ Fail /\ UNCHANGED pollCursor

SpareOrNone == capacity[Self] >= used               \* mutant: each poll withdraws
HoldsSpare == capacity[Self] > used

(* poll_write up to ensure_capacity: unused frames go back before waiting. *)
Reserve ==
    /\ pc = "driven" /\ phase = "Writing" /\ Callable(Self)
    /\ IF MayReserve
       THEN IF capacity[Self] >= used + Needed
            THEN (UNCHANGED budgetVars /\ Allocate) \/ BadAllocation
            ELSE /\ IF HoldsSpare THEN Shrink(used) ELSE UNCHANGED budgetVars
                 /\ pc' = "grow"
                 /\ UNCHANGED <<schedulerVars, round, outsideVars>>
       ELSE pc' = "fill" /\ UNCHANGED <<budgetVars, schedulerVars, round, outsideVars>>

(* The rest of ensure_capacity; once there is enough, Reserve allocates. *)
Grow ==
    /\ pc = "grow"
    /\ LET minimum == used + Needed
       IN  /\ PollGrow(Self, Writer, minimum, Least(Total, Most(window.target, minimum)))
           /\ pc' = IF capacity'[Self] >= minimum THEN "driven" ELSE "fill"
    /\ UNCHANGED <<schedulerVars, round, outsideVars>>

(* The partial frame, with input in it, goes to the file being filled. *)
FlushedFiles(frame) ==
    [files EXCEPT ![fillIndex + 1] =
        [FillSlot EXCEPT !.frames = Append(@, frame), !.assigned = @ + 1,
                         !.state = IF FillSlot.assigned = 0 THEN "Opening" ELSE @]]

\* mutant: a full file is noticed too late
LateFlushedIndex == IF FillSlot.assigned = FillSlot.capacity THEN fillIndex + 1 ELSE fillIndex
FlushedIndex ==
    IF FillSlot.assigned + 1 = FillSlot.capacity THEN fillIndex + 1 ELSE fillIndex

(* poll_fill consumes input; input that arrives in an empty frame starts one. *)
Consume ==
    /\ begun' = IF partial = "empty" THEN begun + 1 ELSE begun
    /\ begun' <= MaxFrames
    /\ UNCHANGED <<inputArmed, delivered>>

FillConsumes ==
    \/ UNCHANGED <<partial, files, fillIndex, inputArmed, begun, delivered>>
    \/ Consume /\ partial' = "some" /\ UNCHANGED <<files, fillIndex>>
    \/ Consume /\ partial' = "none" /\ files' = FlushedFiles(begun') /\ fillIndex' = FlushedIndex

(* The end of poll_write: fill the partial frame once, or report or wait. *)
InFill == pc = "fill" /\ Callable(Self)

FillReady ==
    /\ InFill /\ partial # "none"
    /\ FillConsumes /\ ReturnReady
    /\ UNCHANGED <<budgetVars, used, pollCursor, phase, window>>

FillFails ==
    /\ InFill /\ partial # "none"
    /\ Faults \cap {"input", "partial"} # {}
    /\ Fail /\ UNCHANGED pollCursor

FillPends ==
    /\ InFill
    /\ inputArmed' = (inputArmed \/ partial # "none")
    /\ IF Completed \/ Missing THEN ReturnReady ELSE ReturnPending
    /\ UNCHANGED <<budgetVars, files, partial, used, fillIndex, pollCursor, phase,
                   window, begun, delivered>>

Fill == FillReady \/ FillFails \/ FillPends

-----------------------------------------------------------------------------
(* The first poll_close: no more input, the partial frame is sent if it     *)
(* holds any, unused files and spare capacity are dropped.                  *)
StopInput ==
    /\ Idle /\ phase = "Writing"
    /\ LET flushed == IF partial = "some" THEN FlushedFiles(begun) ELSE files
           taken == {i \in DOMAIN flushed : flushed[i].assigned > 0}
           kept == SubSeq(flushed, 1, IF taken = {} THEN 0 ELSE Max(taken))
           unused == IF partial = "empty" THEN Needed ELSE 0
       IN  /\ files' = kept
           /\ fillIndex' = IF partial = "some" THEN FlushedIndex ELSE fillIndex
           /\ used' = Less(used, unused)
           /\ StartDrive(Len(kept))
    /\ phase' = "Closing" /\ partial' = "none"
    /\ Shrink(used')
    /\ waker' = FALSE /\ runnable' = FALSE
    /\ UNCHANGED <<pollCursor, window, inputArmed, begun, delivered>>

PollClose ==
    /\ Idle /\ phase = "Closing"
    /\ waker' = FALSE /\ runnable' = FALSE
    /\ StartDrive(Len(files))
    /\ UNCHANGED <<budgetVars, files, partial, used, fillIndex, pollCursor, phase, window,
                   inputArmed, begun, delivered>>

FinishClose ==
    /\ pc = "driven" /\ phase = "Closing" /\ Callable(Self)
    /\ IF Completed \/ files = <<>> THEN ReturnReady ELSE ReturnPending
    /\ UNCHANGED <<budgetVars, files, partial, used, fillIndex, pollCursor, phase, window,
                   inputArmed, begun, delivered>>

(* A poll that comes too late is rejected, and forgets the stored waker. *)
PollRejected ==
    /\ Idle /\ phase \in {"Closing", "Failed"}
    /\ waker' = FALSE /\ runnable' = TRUE
    /\ UNCHANGED <<budgetVars, files, partial, used, fillIndex, pollCursor, phase, window,
                   pollVars, inputArmed, begun, delivered>>

-----------------------------------------------------------------------------
WakeForgotten == UNCHANGED <<runnable, waker>>      \* mutant: the waker stays stored
WakeStored == runnable' = (runnable \/ waker) /\ waker' = FALSE

ValidFile(c) == c > 0 /\ (Replay => c <= Total)

PushFile(c) ==
    /\ Idle /\ phase = "Writing" /\ Missing /\ ValidFile(c)
    /\ files' = Append(files, NewSlot(c))
    /\ WakeStored
    /\ UNCHANGED <<budgetVars, partial, used, fillIndex, pollCursor, phase, window,
                   pollVars, inputArmed, begun, delivered>>

SameFillIndex == fillIndex                          \* mutant: the index does not move
FillIndexAfterHead == Less(fillIndex, 1)

TakeHead ==
    /\ files # <<>> /\ Done(Head(files))
    /\ delivered' = delivered \o Head(files).content
    /\ fillIndex' = FillIndexAfterHead
    /\ pollCursor' = Less(pollCursor, 1)

(* The head's slot is reused, with its cleared buffer, at the tail. *)
PopSwap(c) ==
    /\ Idle /\ phase = "Writing" /\ ValidFile(c)
    /\ TakeHead
    /\ files' = Append(Tail(files), [NewSlot(c) EXCEPT !.frames = Head(files).frames])
    /\ WakeStored
    /\ UNCHANGED <<budgetVars, partial, used, phase, window, pollVars, inputArmed, begun>>

PopFile ==
    /\ Idle /\ phase = "Closing"
    /\ TakeHead
    /\ files' = Tail(files)
    /\ WakeStored
    /\ UNCHANGED <<budgetVars, partial, used, phase, window, pollVars, inputArmed, begun>>

(* Replacing the window by the same one is left out. *)
SetWindow(w) ==
    /\ Idle /\ w # window
    /\ window' = w
    /\ Shrink(Trimmed(w.target, used))
    /\ WakeStored
    /\ UNCHANGED <<files, partial, used, fillIndex, pollCursor, phase, pollVars,
                   inputArmed, begun, delivered>>

-----------------------------------------------------------------------------
(* Outside: backend and input events, and the threads of the budget. *)
BackendEvent(i) ==
    /\ files[i].io = "waiting"
    /\ files' = [files EXCEPT ![i].io = "ready"]
    /\ runnable' = TRUE
    /\ UNCHANGED <<budgetVars, partial, used, fillIndex, pollCursor, phase, window, waker,
                   pollVars, inputArmed, begun, delivered>>

InputEvent ==
    /\ inputArmed
    /\ inputArmed' = FALSE /\ runnable' = TRUE
    /\ UNCHANGED <<budgetVars, schedulerVars, pollVars, begun, delivered>>

BudgetOnly == UNCHANGED <<schedulerVars, pollVars, outsideVars>>

BudgetThread(p) ==
    /\ Dispatch(p) \/ Unlock(p)
    /\ BudgetOnly

Deaf(task) == runnable                              \* mutant: the wake is missed
Woken(task) == runnable \/ task = Writer

BudgetWake(p) ==
    /\ Wake(p)
    /\ runnable' = Woken(Head(wakes[p]))
    /\ UNCHANGED <<schedulerVars, pollVars, inputArmed, begun, delivered>>

RivalStep(p) ==
    /\ RivalAsks(p) \/ RivalReturns(p)
    /\ BudgetOnly

-----------------------------------------------------------------------------
(* The scheduler is dropped, its permit with it. *)
DropScheduler ==
    /\ Idle
    /\ Drop(Self)
    /\ phase' = "Dropped" /\ files' = <<>> /\ partial' = "none" /\ used' = 0 /\ waker' = FALSE
    /\ UNCHANGED <<fillIndex, pollCursor, window, pollVars, outsideVars>>

Init ==
    /\ BudgetStart(Permits)
    /\ files = <<>> /\ partial = "none" /\ used = 0 /\ fillIndex = 0 /\ pollCursor = 0
    /\ phase = "Writing" /\ window \in Windows /\ waker = FALSE
    /\ Idle /\ round = NoRound
    /\ runnable = TRUE /\ inputArmed = FALSE /\ begun = 0 /\ delivered = <<>>

(* A poll in progress runs on by itself. *)
InPoll == DriveStep \/ Reserve \/ Grow \/ Fill \/ FinishClose

Calls ==
    \/ PollWrite \/ StopInput \/ PollClose \/ PollRejected
    \/ \E c \in FileCapacities : PushFile(c) \/ PopSwap(c)
    \/ PopFile
    \/ \E w \in Windows : SetWindow(w)
    \/ DropScheduler

Outside ==
    \/ \E i \in DOMAIN files : BackendEvent(i)
    \/ InputEvent
    \/ \E p \in Permits : BudgetThread(p) \/ BudgetWake(p)
    \/ \E p \in Rivals : RivalStep(p)

Next == InPoll \/ Calls \/ Outside

Spec == Init /\ [][Next]_vars

-----------------------------------------------------------------------------
SlotType ==
    [state: {"Idle", "Opening", "Writing", "Closing", "Closed"},
     frames: Seq(1..MaxFrames), capacity: FileCapacities \ {0}, assigned: Nat,
     written: Nat, retries: 0..MaxRetries, io: {"new", "waiting", "ready"},
     content: Seq(1..MaxFrames)]

(* The scheduler's variables have their types, and its cursors stay in the queue. *)
WriterTypeOK ==
    /\ TypeOK
    /\ files \in Seq(SlotType)
    /\ partial \in {"none", "empty", "some"}
    /\ used \in 0..Total
    /\ fillIndex \in 0..Len(files) \/ phase \in {"Failed", "Dropped"}
    /\ pollCursor \in Nat
    /\ phase \in {"Writing", "Closing", "Failed", "Dropped"}
    /\ window \in Windows
    /\ pc \in {"idle", "drive", "driven", "grow", "fill"}
    /\ waker \in BOOLEAN /\ runnable \in BOOLEAN /\ inputArmed \in BOOLEAN
    /\ begun \in 0..MaxFrames /\ delivered \in Seq(1..MaxFrames)

(* The frames a file keeps reserved, the partial frame being one of its own. *)
Reserves(slot, filling) ==
    IF ~Replay THEN Len(slot.frames) + (IF filling THEN 1 ELSE 0)
    ELSE IF ~Done(slot) /\ (slot.assigned > 0 \/ filling) THEN slot.capacity ELSE 0

Filling(i) == partial # "none" /\ i = fillIndex + 1

Reserved == [i \in DOMAIN files |-> Reserves(files[i], Filling(i))]

(* s is the running total of sizes, from base on. *)
RunsTo(s, sizes, base) ==
    s[0] = base /\ \A i \in DOMAIN sizes : s[i] = s[i - 1] + sizes[i]

(* `used`, kept by one addition and saturating subtractions in two other    *)
(* functions, is exactly what the files and the partial frame reserve, and  *)
(* is covered by the grant at every instant at which a rival can look.      *)
UsedIsExact ==
    /\ \E s \in [0..Len(files) -> 0..used] :
          RunsTo(s, Reserved, 0) /\ s[Len(files)] = used
    /\ used <= capacity[Self]

(* What is left of a file's frames: those the backend accepted, then those  *)
(* still buffered.                                                          *)
FramesOf(slot) == IF Replay /\ ~Done(slot) THEN slot.frames ELSE slot.content \o slot.frames

Numbers(from, to) == [k \in 1..(to - from) |-> from + k]

(* The frames that were started and left the partial frame. *)
Started == IF partial = "some" THEN begun - 1 ELSE begun

(* The files handed back, the active ones and the partial frame hold every  *)
(* frame whose input was consumed, once and in order: through retries,      *)
(* reuse of slots, flushes and rotation of the cursors.  ends[i] is the     *)
(* last frame of file i.                                                    *)
NoFrameLostOrReordered ==
    phase \in {"Writing", "Closing"} =>
        /\ delivered = Numbers(0, Len(delivered))
        /\ \E ends \in [0..Len(files) -> 0..Started] :
              /\ ends[0] = Len(delivered) /\ ends[Len(files)] = Started
              /\ \A i \in DOMAIN files :
                    /\ ends[i - 1] <= ends[i]
                    /\ FramesOf(files[i]) = Numbers(ends[i - 1], ends[i])

(* What the backend has accepted in the current attempt is what the slot    *)
(* believes was written, from the first frame on; a closed file got all.    *)
AttemptIsExact ==
    \A i \in DOMAIN files : LET slot == files[i] IN
        /\ slot.state \in {"Writing", "Closing"} =>
              /\ Len(slot.content) = slot.written
              /\ Replay => slot.content = SubSeq(slot.frames, 1, slot.written)
        /\ slot.state \in {"Closing", "Closed"} => Len(slot.content) = slot.assigned

(* Files are filled one after the other and opened only with a first frame; *)
(* the partial frame always has a file to go to.                            *)
FilledInOrder ==
    phase \in {"Writing", "Closing"} =>
        /\ \A i \in DOMAIN files :
              /\ i <= fillIndex => files[i].assigned = files[i].capacity
              /\ i = fillIndex + 1 => files[i].assigned < files[i].capacity
              /\ i > fillIndex + 1 => files[i].assigned = 0
              /\ files[i].assigned = 0 <=> files[i].state = "Idle"
              /\ files[i].state = "Idle" => files[i].frames = <<>>
        /\ partial # "none" => HasFillSlot

(* Once the input has ended, or the scheduler has failed or gone, its permit *)
(* holds exactly what its files reserve, and waits for nothing.             *)
NoSpareAfterInput ==
    phase # "Writing" =>
        /\ capacity[Self] = used
        /\ request[Self].granted = 0 /\ ~request[Self].waiting

(* A poll that returned Pending, and whose task nobody has woken, left      *)
(* nothing undone that was possible: every file with an operation waits for *)
(* its event, no transition is due, and the input or the budget (unless its *)
(* wake is under way) holds the task's waker.                               *)
SleepsOnlyWhenStuck ==
    pc = "idle" /\ waker /\ ~runnable =>
        /\ \A i \in DOMAIN files :
              IF HasOperation(files[i]) THEN files[i].io = "waiting"
              ELSE files[i].state = "Writing" =>
                      files[i].assigned < files[i].capacity /\ phase = "Writing"
        /\ partial # "none" => inputArmed
        /\ phase = "Writing" /\ MayReserve => parked[Self] = Writer

Ordered == INSTANCE OrderedWrite WITH
               Capacities <- FileCapacities, taken <- begun, returned <- delivered,
               status <- CASE phase = "Writing" -> "open"
                           [] phase = "Closing" -> IF files = <<>> THEN "over" ELSE "closing"
                           [] phase = "Failed" -> "failed"
                           [] phase = "Dropped" -> "gone"

(* The scheduler behaves as the ordered stream of whole files: files that   *)
(* finish in any order, restart or are swapped come back in order and full, *)
(* only the last one of a closed stream may be short, and no file remains   *)
(* exactly when every frame is back.                                        *)
ImplementsOrderedWrite == Ordered!StreamSpec

(* The README says of set_window that shrinking takes effect as work drains: *)
(* while more files are active than the window allows, handing one back     *)
(* leaves fewer.                                                            *)
ShrinkTakesEffect ==
    [][Len(files) > window.maxActive /\ delivered' # delivered
         => Len(files') < Len(files)]_vars

=============================================================================
