---------------------------- MODULE ReadScheduler ----------------------------
(***************************************************************************)
(* The read scheduler (src/src/read.rs) on a shared frame budget.  One task *)
(* drives it; poll_read and poll_progress are split where they touch the    *)
(* budget's lock or poll the backend, the other calls are one step.         *)
(*                                                                          *)
(* Positions (start, emitted, discovered) wrap at Modulus, as usize does.   *)
(* The frames of the admitted files are also numbered 1, 2, ... without     *)
(* wrapping (`first`, `declared`, `value` and `output`): those numbers are  *)
(* history, which the properties compare with the wrapped positions.        *)
(***************************************************************************)
EXTENDS SchedulerPermit

CONSTANTS Reader,          \* the task that drives the scheduler
          MaxRetries,      \* SchedulerConfig::max_retries
          Windows,         \* the windows in use: [target, openAhead, maxActive]
          FrameCounts,     \* frame_count of the files the caller supplies
          Batch,           \* frames by which the grant grows and shrinks, 32
          MaxPollOps,      \* MAX_POLL_OPS
          Modulus,         \* 2^(bits of usize)
          MaxFrames,       \* bound: frames of all the files admitted
          Faults           \* what may go wrong: "open", "read", "eof"

ASSUME ReaderAssumption ==
    /\ Reader \in Tasks
    /\ MaxRetries \in Nat /\ MaxFrames \in Nat
    /\ {Batch, MaxPollOps, Modulus} \subseteq Nat \ {0}
    /\ Windows \subseteq [target: Nat \ {0}, openAhead: Nat, maxActive: Nat \ {0}]
    /\ FrameCounts \subseteq 0..(Modulus - 1)

VARIABLES files,       \* ReadScheduler::files, a queue of slots
          cells,       \* ReadScheduler::frames, the authorized frames
          emitted, discovered, cursor, closed, terminated, window,
          error,       \* the deferred error: "none", "backend", "eof", "position"
          pc,          \* where the poll in progress is, or "idle"
          call,        \* which poll that is or was: "read" or "progress"
          round,       \* drive: files left in this round, progress, polls left
          runnable,    \* the task has been woken since its poll began
          asleep,      \* the last poll returned Pending, nothing was called since
          declared,    \* frames of the files admitted (history)
          output,      \* frames handed to the caller (history)
          reports      \* errors handed to the caller (history)

schedulerVars == <<files, cells, emitted, discovered, cursor, closed, terminated, window, error>>
pollVars == <<pc, call, round>>
outsideVars == <<runnable, asleep, declared, output, reports>>
vars == <<budgetVars, schedulerVars, pollVars, outsideVars>>

Plus(a, b) == (a + b) % Modulus                 \* wrapping_add
Distance(a, b) == (a - b) % Modulus             \* wrapping_sub

-----------------------------------------------------------------------------
NewSlot(count) ==
    [start |-> discovered, count |-> count, received |-> 0, retries |-> 0,
     state |-> "Opening", blocked |-> FALSE, io |-> "new", first |-> declared + 1]

(* A cell is "empty", "filling" once its read has begun, or "complete". *)
NewCell == [state |-> "empty", value |-> 0]

OneMoreReceived(slot) == slot.received > slot.count     \* mutant: one frame too many
AllReceived(slot) == slot.received = slot.count

(* Where the next frame of the slot belongs among the authorized ones. *)
Offset(slot) == Distance(Plus(slot.start, slot.received), emitted) + 1
Authorized(slot) == Offset(slot) \in DOMAIN cells

(* The slot has a backend operation to poll. *)
HasOperation(slot) ==
    \/ slot.state = "Opening"
    \/ slot.state = "Reading" /\ ~AllReceived(slot) /\ Authorized(slot)

(* The backend: a pending operation stays so until its event, then completes. *)
Answers(slot) ==
    LET completions ==
            {"ok"} \cup (Faults \cap (IF slot.state = "Opening" THEN {"open"} ELSE {"read", "eof"}))
    IN  CASE slot.io = "waiting" -> {"pending"}
          [] slot.io = "ready" -> completions
          [] slot.io = "new" -> completions \cup {"pending"}

UnwrappedEnd(slot) == slot.start + slot.count           \* mutant: does not wrap
End(slot) == Plus(slot.start, slot.count)

(* retire: a file whose last frame was emitted leaves.  The next one has a  *)
(* frame to come, as no count reaches Modulus.                              *)
Kept(fs, position) == IF fs # <<>> /\ position = End(Head(fs)) THEN Tail(fs) ELSE fs

(* authorize: the contiguous window of frames from the next one to emit.    *)
UngrantedLimit(grant) == window.target                  \* mutant: before it is granted
WindowLimit(grant) == Least(grant, window.target)

Window(grant, current) ==
    LET room == Less(WindowLimit(grant), Len(current))
        known == Less(Distance(discovered, emitted), Len(current))
    IN  current \o [k \in 1..Least(room, known) |-> NewCell]

-----------------------------------------------------------------------------
NoRound == [left |-> 0, progressed |-> FALSE, polls |-> 0]

NextCursor == ((cursor % Len(files)) + 1) % Len(files)

HoardGrant == UNCHANGED budgetVars                      \* mutant: the grant is kept
ReturnGrant == Shrink(0)

(* fail(), in drive: drop all work and the grant, keep the error for poll_read. *)
Fail(reason) ==
    /\ ReturnGrant
    /\ files' = <<>> /\ cells' = <<>> /\ terminated' = TRUE /\ error' = reason
    /\ pc' = "polled" /\ round' = NoRound /\ cursor' = NextCursor
    /\ UNCHANGED <<emitted, discovered, closed, window, call, outsideVars>>

(* No call of the task is in progress. *)
Idle == pc = "idle" /\ Callable(Self)

EndedByClose == terminated' = closed

(* poll_read and poll_progress begin.  Without files the grant goes back,   *)
(* and the stream ends if no file will come.                                *)
Begin(kind) ==
    /\ Idle
    /\ call' = kind /\ asleep' = FALSE
    /\ IF terminated
       THEN pc' = "polled" /\ UNCHANGED <<budgetVars, terminated>>
       ELSE IF files = <<>>
       THEN /\ pc' = "polled" /\ EndedByClose
            /\ IF capacity[Self] > 0 THEN ReturnGrant ELSE UNCHANGED budgetVars
       ELSE pc' = "grow" /\ UNCHANGED <<budgetVars, terminated>>
    /\ UNCHANGED <<files, cells, emitted, discovered, cursor, closed, window, error,
                   round, declared, output, reports>>

Poll(kind) == Begin(kind) /\ runnable' = FALSE

WholeBudget == Total                                    \* mutant: takes all there is
Target == Least(window.target, Total)

(* drive up to its loop: grow in batches, authorize, unblock every file. *)
Grow ==
    /\ pc = "grow"
    /\ LET minimum == Least(capacity[Self] + Least(Target, Batch), Target)
       IN  IF capacity[Self] < Target
           THEN PollGrow(Self, Reader, minimum, Target)
           ELSE Callable(Self) /\ UNCHANGED budgetVars
    /\ cells' = Window(capacity'[Self], cells)
    /\ files' = [i \in DOMAIN files |-> [files[i] EXCEPT !.blocked = FALSE]]
    /\ pc' = "drive"
    /\ round' = [left |-> Len(files), progressed |-> FALSE,
                 polls |-> Most(MaxPollOps, Len(files))]
    /\ UNCHANGED <<emitted, discovered, cursor, closed, terminated, window, error, call,
                   outsideVars>>

(* After MAX_POLL_OPS backend polls drive returns, and wakes the task if any *)
(* file may have more to do; it also returns after a round without progress. *)
NeverSelfWoken(polls, stepped) == runnable              \* mutant: the wake is missing
SelfWoken(polls, stepped) ==
    runnable \/ (polls = 0 /\ \E i \in DOMAIN stepped : ~stepped[i].blocked)
RoundsEnd(polls, ended, progressed) == polls = 0 \/ (ended /\ ~progressed)

(* What drive does after poll_file; stepped and written are the files and   *)
(* the cells that it left.                                                  *)
Continue(stepped, written, progress, polled) ==
    LET polls == Less(round.polls, polled)
        progressed == round.progressed \/ progress
        ended == polls > 0 /\ round.left = 1
        kept == IF ended THEN Kept(stepped, emitted) ELSE stepped
    IN  /\ files' = kept
        /\ cursor' = Less(NextCursor, IF kept = stepped THEN 0 ELSE 1)
        /\ runnable' = SelfWoken(polls, stepped)
        /\ cells' = IF ended /\ kept # <<>> THEN Window(capacity[Self], written) ELSE written
        /\ IF ended /\ kept = <<>>
           THEN ReturnGrant /\ terminated' = closed
           ELSE UNCHANGED <<budgetVars, terminated>>
        /\ IF RoundsEnd(polls, ended, progressed) \/ kept = <<>>
           THEN pc' = "polled" /\ round' = NoRound
           ELSE /\ round' = [left |-> IF ended THEN Len(kept) ELSE round.left - 1,
                             progressed |-> progressed /\ ~ended, polls |-> polls]
                /\ UNCHANGED pc
        /\ UNCHANGED <<emitted, discovered, closed, window, error, call, asleep,
                       declared, output, reports>>

With(i, slot) == [files EXCEPT ![i] = slot]

UncountedTry(slot) == [slot EXCEPT !.io = "new"]        \* mutant: retries are not counted
NextTry(slot) == [slot EXCEPT !.retries = @ + 1, !.io = "new"]

Retry(i) ==
    IF files[i].retries = MaxRetries
    THEN Fail("backend")
    ELSE Continue(With(i, NextTry(files[i])), cells, TRUE, 1)

FrontOffset(slot) == 1                                  \* mutant: the front of the window
FrameOffset(slot) == Offset(slot)

Receive(i) ==
    LET slot == files[i]
        frame == [state |-> "complete", value |-> slot.first + slot.received]
    IN  Continue(With(i, [slot EXCEPT !.received = @ + 1, !.io = "new",
                                      !.blocked = slot.received + 1 = slot.count]),
                 [cells EXCEPT ![FrameOffset(slot)] = frame], TRUE, 1)

(* poll_file on a slot that has an operation and is not blocked. *)
PollBackend(i) ==
    LET slot == files[i]
        begun == IF slot.state = "Opening" THEN cells
                 ELSE [cells EXCEPT ![Offset(slot)].state = "filling"]
    IN  \/ /\ "pending" \in Answers(slot)
           /\ Continue(With(i, [slot EXCEPT !.blocked = TRUE, !.io = "waiting"]), begun, FALSE, 1)
        \/ /\ "ok" \in Answers(slot)
           /\ IF slot.state = "Opening"
              THEN Continue(With(i, [slot EXCEPT !.state = "Reading", !.io = "new"]), cells, TRUE, 1)
              ELSE Receive(i)
        \/ "open" \in Answers(slot) /\ Retry(i)
        \/ "read" \in Answers(slot) /\ Fail("backend")
        \/ "eof" \in Answers(slot) /\ Fail("eof")

(* One poll_file of the loop in drive; a file without an operation is passed *)
(* over, and remembered as blocked if it has received all its frames.       *)
DriveStep ==
    /\ pc = "drive" /\ Callable(Self)
    /\ LET i == (cursor % Len(files)) + 1
           slot == files[i]
           done == slot.state = "Reading" /\ AllReceived(slot)
       IN  IF slot.blocked \/ ~HasOperation(slot)
           THEN Continue(With(i, [slot EXCEPT !.blocked = @ \/ done]), cells, FALSE, 0)
           ELSE IF slot.state = "Reading" /\ cells[Offset(slot)].state = "complete"
           THEN Fail("position")
           ELSE PollBackend(i)

-----------------------------------------------------------------------------
(* The end of a poll.  poll_progress returns nothing; its future goes on    *)
(* waiting.                                                                 *)
ProgressReturns ==
    /\ pc = "polled" /\ call = "progress" /\ Callable(Self)
    /\ pc' = "idle" /\ asleep' = TRUE
    /\ UNCHANGED <<budgetVars, schedulerVars, call, round, runnable, declared, output, reports>>

InRead == pc = "polled" /\ call = "read" /\ Callable(Self)

ReturnReady == pc' = "idle" /\ runnable' = TRUE /\ UNCHANGED <<call, round, asleep, declared>>

StickyError == UNCHANGED error                          \* mutant: reported again
TakeError == error' = "none"

ReportError ==
    /\ InRead /\ error # "none"
    /\ TakeError /\ reports' = reports + 1
    /\ ReturnReady
    /\ UNCHANGED <<budgetVars, files, cells, emitted, discovered, cursor, closed, terminated,
                   window, output>>

ReportEnd ==
    /\ InRead /\ error = "none" /\ terminated
    /\ ReturnReady
    /\ UNCHANGED <<budgetVars, schedulerVars, output, reports>>

HeadComplete == cells # <<>> /\ Head(cells).state = "complete"

(* adjust_capacity: what a window shrunk before no longer covers goes back, *)
(* in batches.                                                              *)
Adjust(used) ==
    LET keep == Most(window.target, used)
        excess == Less(capacity[Self], keep)
    IN  IF excess >= Batch \/ (excess > 0 /\ keep = window.target)
        THEN Shrink(keep)
        ELSE UNCHANGED budgetVars

(* The next frame is handed to the caller. *)
Emit ==
    /\ InRead /\ error = "none" /\ ~terminated /\ HeadComplete
    /\ output' = Append(output, Head(cells).value)
    /\ cells' = Tail(cells)
    /\ emitted' = Plus(emitted, 1)
    /\ files' = Kept(files, emitted')
    /\ cursor' = Less(cursor, IF files' = files THEN 0 ELSE 1)
    /\ Adjust(Len(cells'))
    /\ ReturnReady
    /\ UNCHANGED <<discovered, closed, terminated, window, error, reports>>

ReturnPending ==
    /\ InRead /\ error = "none" /\ ~terminated /\ ~HeadComplete
    /\ pc' = "idle" /\ asleep' = TRUE
    /\ UNCHANGED <<budgetVars, schedulerVars, call, round, runnable, declared, output, reports>>

-----------------------------------------------------------------------------
(* The other calls.  They wake nobody: the task that makes them polls again, *)
(* which Repoll stands for where nothing else says when it polls.           *)
Repoll == runnable' = TRUE

Horizon == Most(window.target, window.openAhead)

Full == Len(files) >= window.maxActive \/ Distance(discovered, emitted) >= Horizon

Push(count) ==
    /\ Idle /\ ~closed /\ ~terminated /\ ~Full
    /\ count > 0 /\ Distance(discovered, emitted) + count < Modulus
    /\ declared + count <= MaxFrames
    /\ files' = Append(files, NewSlot(count))
    /\ discovered' = Plus(discovered, count)
    /\ declared' = declared + count
    /\ asleep' = FALSE
    /\ UNCHANGED <<budgetVars, cells, emitted, cursor, closed, terminated, window, error,
                   pollVars, output, reports>>

PushFile(count) == Push(count) /\ Repoll

Close ==
    /\ Idle /\ ~closed
    /\ closed' = TRUE /\ asleep' = FALSE
    /\ UNCHANGED <<budgetVars, files, cells, emitted, discovered, cursor, terminated, window,
                   error, pollVars, declared, output, reports>>

CloseFiles == Close /\ Repoll

TargetOnly(w) == Least(capacity[Self], w.target)        \* mutant: frames in use go
KeptGrant(w) == Least(capacity[Self], Most(w.target, Len(cells)))

(* Replacing the window by the same one is left out. *)
SetWindow(w) ==
    /\ Idle /\ w # window
    /\ window' = w
    /\ Shrink(KeptGrant(w))
    /\ Repoll /\ asleep' = FALSE
    /\ UNCHANGED <<files, cells, emitted, discovered, cursor, closed, terminated, error,
                   pollVars, declared, output, reports>>

(* The scheduler is dropped, its permit with it. *)
DropScheduler ==
    /\ Idle
    /\ Drop(Self)
    /\ files' = <<>> /\ cells' = <<>> /\ asleep' = FALSE
    /\ UNCHANGED <<emitted, discovered, cursor, closed, terminated, window, error,
                   pollVars, runnable, declared, output, reports>>

-----------------------------------------------------------------------------
(* Outside: backend events, and the threads of the budget. *)
BackendEvent(i) ==
    /\ files[i].io = "waiting"
    /\ files' = [files EXCEPT ![i].io = "ready"]
    /\ runnable' = TRUE
    /\ UNCHANGED <<budgetVars, cells, emitted, discovered, cursor, closed, terminated, window,
                   error, pollVars, asleep, declared, output, reports>>

BudgetOnly == UNCHANGED <<schedulerVars, pollVars, outsideVars>>

BudgetThread(p) ==
    /\ Dispatch(p) \/ Unlock(p)
    /\ BudgetOnly

Deaf(task) == runnable                                  \* mutant: the wake is missed
Woken(task) == runnable \/ task = Reader

BudgetWake(p) ==
    /\ Wake(p)
    /\ runnable' = Woken(Head(wakes[p]))
    /\ UNCHANGED <<schedulerVars, pollVars, asleep, declared, output, reports>>

RivalStep(p) ==
    /\ RivalAsks(p) \/ RivalReturns(p)
    /\ BudgetOnly

-----------------------------------------------------------------------------
Init ==
    /\ BudgetStart(Permits)
    /\ files = <<>> /\ cells = <<>> /\ emitted = 0 /\ discovered = 0 /\ cursor = 0
    /\ closed = FALSE /\ terminated = FALSE /\ window \in Windows /\ error = "none"
    /\ pc = "idle" /\ call = "read" /\ round = NoRound
    /\ runnable = TRUE /\ asleep = FALSE
    /\ declared = 0 /\ output = <<>> /\ reports = 0

(* A poll in progress runs on by itself. *)
InPoll ==
    Grow \/ DriveStep \/ ProgressReturns \/ ReportError \/ ReportEnd \/ Emit \/ ReturnPending

Calls ==
    \/ \E kind \in {"read", "progress"} : Poll(kind)
    \/ \E count \in FrameCounts : PushFile(count)
    \/ CloseFiles
    \/ \E w \in Windows : SetWindow(w)
    \/ DropScheduler

Outside ==
    \/ \E i \in DOMAIN files : BackendEvent(i)
    \/ \E p \in Permits : BudgetThread(p) \/ BudgetWake(p)
    \/ \E p \in Rivals : RivalStep(p)

Next == InPoll \/ Calls \/ Outside

Spec == Init /\ [][Next]_vars

-----------------------------------------------------------------------------
SlotType ==
    [start: 0..(Modulus - 1), count: FrameCounts \ {0}, received: Nat,
     retries: 0..MaxRetries, state: {"Opening", "Reading"}, blocked: BOOLEAN,
     io: {"new", "waiting", "ready"}, first: 1..MaxFrames]

CellType == [state: {"empty", "filling", "complete"}, value: 0..MaxFrames]

(* The scheduler's variables have their types; no file is polled past its   *)
(* declared count, and no error is reported twice.                          *)
ReaderTypeOK ==
    /\ TypeOK
    /\ files \in Seq(SlotType) /\ \A i \in DOMAIN files : files[i].received <= files[i].count
    /\ cells \in Seq(CellType)
    /\ emitted \in 0..(Modulus - 1) /\ discovered \in 0..(Modulus - 1) /\ cursor \in Nat
    /\ closed \in BOOLEAN /\ terminated \in BOOLEAN
    /\ runnable \in BOOLEAN /\ asleep \in BOOLEAN
    /\ window \in Windows
    /\ error \in {"none", "backend", "eof", "position"}
    /\ pc \in {"idle", "grow", "drive", "polled"} /\ call \in {"read", "progress"}
    /\ declared \in 0..MaxFrames /\ output \in Seq(1..MaxFrames) /\ reports \in 0..1

Ordered == INSTANCE OrderedRead WITH
               status <- IF ~alive[Self] THEN "gone"
                         ELSE IF ~terminated THEN "open"
                         ELSE IF error # "none" THEN "broken" ELSE "over"

(* The scheduler behaves as the ordered stream: whatever the order in which *)
(* the backends finish, and although the positions wrap, the frames leave   *)
(* in the order of the files, each once; the stream ends only after the     *)
(* last declared frame of a closed admission, and an error ends it once.    *)
ImplementsOrderedRead == Ordered!StreamSpec

(* The authorized window lies where the files say it does: its k-th frame   *)
(* is the k-th one not yet emitted, it belongs to one active file, and it   *)
(* is complete exactly when that file has received it.  No frame position   *)
(* is ever found taken (ContractError::InvalidFramePosition).               *)
WindowIsAligned ==
    /\ error # "position"
    /\ \A k \in DOMAIN cells : \E i \in DOMAIN files :
          LET number == Len(output) + k
              received == files[i].first + files[i].received
          IN  /\ number \in files[i].first..(files[i].first + files[i].count - 1)
              /\ cells[k].state = "complete" <=> number < received
              /\ cells[k].state = "complete" => cells[k].value = number
              /\ cells[k].state = "filling" => number = received

(* The active files are those with frames to emit, from the next frame on   *)
(* and without a gap: none stays behind, none leaves early.                 *)
FilesAreContiguous ==
    alive[Self] /\ ~terminated =>
        /\ files = <<>> => Len(output) = declared
        /\ files # <<>> =>
              /\ Len(output) + 1 \in Head(files).first..(Head(files).first + Head(files).count - 1)
              /\ Last(files).first + Last(files).count - 1 = declared
        /\ \A i \in 2..Len(files) : files[i].first = files[i - 1].first + files[i - 1].count

(* At every instant at which a rival can look, the authorized frames are    *)
(* covered by the grant: through batched growth, shrinking windows,         *)
(* emission and failure.                                                    *)
WindowIsGranted == Len(cells) <= capacity[Self]

(* A reader that ended or was dropped, and one whose task sleeps with no     *)
(* file to read, keeps nothing of the budget and is in nobody's way: no     *)
(* grant, collected or not, no request in the queue, no authorized frame.   *)
NothingKeptWithoutFiles ==
    terminated \/ ~alive[Self] \/ (asleep /\ files = <<>>) =>
        /\ Held(Self) = 0 /\ ~request[Self].waiting
        /\ files = <<>> /\ cells = <<>>

(* A task that was put to sleep, and that nobody has woken, has left        *)
(* nothing undone: every operation waits for its event, a poll_read has no  *)
(* frame to return, and the file whose frame comes next waits for I/O or,   *)
(* without a grant, in the budget's queue (unless its wake is under way).   *)
SleepsOnlyWhenStuck ==
    pc = "idle" /\ asleep /\ ~runnable /\ ~terminated /\ files # <<>> =>
        /\ \A i \in DOMAIN files : HasOperation(files[i]) => files[i].io = "waiting"
        /\ call = "read" => ~HeadComplete
        /\ Head(files).io = "waiting" \/ HeadComplete \/ parked[Self] = Reader

(* As long as the caller reads, frames keep coming until the end: budget,   *)
(* slow files and open retries hold up the next frame only for a time.      *)
FramesKeepComing ==
    \A n \in 0..MaxFrames :
        files # <<>> /\ Len(output) = n
            ~> Len(output) > n \/ terminated \/ ~alive[Self]

(* Once admission is closed, the stream ends, and an error is delivered.    *)
StreamEnds == closed ~> (terminated /\ error = "none") \/ ~alive[Self]

(***************************************************************************)
(* Fairness: a poll in progress runs on, even if it must wait for the lock  *)
(* now and then; events that are due happen; other permits return what they *)
(* own; a task that was woken, or only made progress, reads again.          *)
(***************************************************************************)
FairSpec ==
    /\ Spec
    /\ SF_vars(InPoll)
    /\ \A p \in Permits : WF_vars(BudgetThread(p)) /\ WF_vars(BudgetWake(p))
    /\ \A p \in Rivals : SF_vars(parked[p] = NoTask /\ RivalReturns(p) /\ BudgetOnly)
    /\ WF_vars(\E i \in DOMAIN files : BackendEvent(i))
    /\ SF_vars((runnable \/ call = "progress") /\ Poll("read"))

=============================================================================
