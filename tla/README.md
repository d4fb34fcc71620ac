# carbon-io: TLA+ models, checks and proofs

carbon-io is a Rust library without an I/O runtime of its own: the caller polls
two schedulers, one that reads frames from a sequence of files and one that
writes frames to a sequence of files, and both pay for the frames they buffer
from a shared budget. This directory models the budget, the two schedulers, what
they promise in the abstract, the two composed on one budget, and the server of
`examples/tcp_to_file` that uses them. TLC checks the models on small
instances. TLAPS proves all the safety properties, of the budget, of both
schedulers, of the pipeline, of the two transfers of the server and of its file
backend, for every value of the constants: any number of permits and frames, any
windows, files, capacities and retries, any length of the stream.

Paths below are relative to the repository root; `write.rs:499` is
`src/write.rs`, line 499, and `main.rs` is `examples/tcp_to_file/src/main.rs`.

## 1. The system

| Component | Source | State | Operations | Status |
| --- | --- | --- | --- | --- |
| Frame budget | `budget.rs` | one mutex: `available`, FIFO `waiters`; per permit `capacity` and a shared `Request` | `permit`, `poll_grow`, `shrink_to`, `drop` | modelled, proved |
| Write scheduler | `write.rs:150-767` | queue of file slots, partial frame, `used`, `fill_index`, `poll_cursor`, phase, stored waker, permit | `push_file`, `poll_write`, `pop_swap`, `poll_close`, `pop_file`, `set_window`, drop | modelled, proved |
| Read scheduler | `read.rs` | queue of file slots, window of cells, wrapping positions, `closed`, `terminated`, deferred error, permit | `push_file`, `close_files`, `poll_read`, `poll_progress`, `progress`, `set_window`, drop | modelled, proved |
| Window and configuration | `config.rs` | `target_frames`, `open_ahead_frames`, `max_active_files`, `max_retries` | `validate`, `horizon`, setters | within the schedulers |
| Byte frame allocator | `write.rs:49-109` | bytes of one partial frame | `allocate`, `poll_fill`, `finish` | modelled in `Upload`, proved |
| TCP-to-files example | `examples/tcp_to_file` | a directory of segments and `stream.meta`; per transfer: stage, unsent bytes, refused file | `upload`, `write_bytes`, `download`, the backend `Segment` | modelled but for the accept loop; transfers and `Segment` proved |
| Backend traits | `traits.rs` | none in the crate | contracts of `ReadFile`, `WriteFile` | external model |
| Errors, re-exports | `error.rs`, `lib.rs` | none | formatting | not modelled |
| Memory example | `examples/memory` | | the client loops of the TCP example over files that always succeed | not modelled |
| HTTP upload examples | `examples/http_upload`, `examples/pingora_upload` | | written for an interface that the crate no longer has | not modelled |
| Benchmarks, tests | `benches/`, `tests/` | clients | | read, not modelled |

### How the parts interact

* A scheduler owns one `FramePermit`. It grows it with `poll_grow`, under the
  waker of the task that polls the scheduler, and returns frames with
  `shrink_to`, which also **withdraws the permit's own pending request**.
* `shrink_to` runs `dispatch` under the budget's lock. Dispatch serves the head
  of the queue as long as it fits: it *reserves* the grant in the waiter's
  request and collects its waker. The wakers are woken after the lock is
  released; the waiter adds the reserved grant to its capacity in a later
  `poll_grow`.
* A scheduler polls each backend operation directly with the task's waker. A
  pending operation wakes the task; nothing runs between polls.
* The writer's mutations (`push_file`, `pop_swap`, `pop_file`, `set_window`)
  wake the waker stored by the last pending poll. The reader's mutations wake
  nobody; its documentation asks the caller to poll again.
* A writer's input may be a reader: `poll_read` then runs inside `poll_fill`,
  inside `poll_write`, on the same budget and for the same task
  (`write.rs:19`, `README.md:237-238`).
* The TCP example stores a stream as numbered files and, last of all, its size;
  a later transfer reads both back.

### What is hard here

* Threads share the budget: between the moment a grant is reserved and the
  moment its owner collects it, both the owner and everybody else run on.
* Wakers are delivered late, after the lock, to tasks that may have moved on.
* Every scheduler call that releases frames cancels the scheduler's own place
  in the queue.
* The writer keeps `used` and two cursors incrementally, under saturating
  arithmetic, while files complete in any order, restart, and are swapped.
* The reader's window, files and grant are three views of one sequence of
  frames, in wrapping positions, changed at different moments.
* A poll stops after a bounded amount of work and must then wake itself.
* Two schedulers on one budget may each hold what the other waits for.
* A transfer may stop half-way, with some of its files on disk; the next one
  finds what it left. The asynchronous file says late that a write failed.

`PROJECT.json` lists each hazard with its line and the properties that cover it;
each has at least one.

### What makes each component correct

* Budget: frames are conserved; service is first come, first served; the queue
  is exact; a waiter that could be served is not left waiting; no wakeup is
  lost; waiters are finally woken if the others return frames.
* Writer: every consumed frame reaches exactly one file, in order, whatever
  fails or restarts; a closed file has all its frames; the grant covers what is
  in use and nothing is retained after the end; a sleeping task has a reason to
  sleep; closing drains; a filling writer is not starved.
* Reader: frames come out in order, once; authorized frames are granted; the
  stream ends exactly when it should, with the budget released; a sleeping task
  has a reason to sleep; frames keep coming.
* Pipeline: every frame is copied once, in order; the two schedulers together
  never use more frames than there are; and the copy ends if the budget is
  large enough for both.
* TCP example: a `stream.meta` that is there describes files that restore the
  stream; what is sent is that stream; transfers end; closed files are whole.

## 2. Modules

| Module | Role |
| --- | --- |
| `CapacityPool` | abstract specification of the budget: a FIFO pool without locks, reserved grants or wakers |
| `FrameBudget` | the budget as the code has it; refines `CapacityPool` |
| `FrameBudgetProofs` | theorems about `FrameBudget` |
| `SchedulerPermit` | extends the budget by what both schedulers use: the scheduler's permit (`Self`), the rivals on the other permits |
| `OrderedRead`, `OrderedWrite` | abstract specifications of the schedulers: the ordered stream of frames, the ordered stream of whole files |
| `SchedulerPermitProofs` | lemmas: what a step of the scheduler's permit, or of the others, means for the scheduler; positions that wrap and cursors that go round |
| `WriteScheduler` | the write scheduler composed with the whole of `FrameBudget`; refines `OrderedWrite` |
| `WriteSchedulerProofs` | theorems about `WriteScheduler`: its state and its stream; its sleep |
| `ReadScheduler` | the read scheduler composed with the whole of `FrameBudget`; refines `OrderedRead` |
| `ReadSchedulerProofs` | theorems about `ReadScheduler`: its state and its stream; its sleep |
| `Pipeline` | both schedulers on one `FrameBudget`, the writer pulling from the reader |
| `PipelineProofs` | theorems about `Pipeline`, from those about its schedulers |
| `Upload` | `upload` and `write_bytes` of the TCP example, with the byte frames, extending `WriteScheduler` |
| `UploadProofs` | theorems about `Upload`, on those about `WriteScheduler` |
| `Download` | `download` of the TCP example, extending `ReadScheduler` |
| `DownloadProofs` | theorems about `Download`, on those about `ReadScheduler` |
| `Segment` | the file backend of the TCP example |
| `SegmentProofs` | theorems about `Segment` |
| `MCWriteLive` | the liveness of the write scheduler: its fairness and its three liveness properties, for the streaming and the replaying kind in one run |
| `MCFrameBudget`, `MCWriteScheduler`, `MCReadScheduler`, `MCPipeline`, `MCUpload`, `MCDownload` | instances for TLC |

The operators commented `\* mutant:` are not part of a model. Each stands before
the definition it distorts and is what a plausible mistake in that line of code
would make of it; `PROJECT.json` says which property must then fail.

### FrameBudget and the code

| TLA+ | Code |
| --- | --- |
| `available`, `waiters` | `State` (`budget.rs:24`); a queue entry is the permit whose `Request` it refers to |
| `request[p]`, `capacity[p]`, `alive[p]` | `Request`, `FramePermit::capacity`, whether the `FramePermit` exists |
| `lock` | the mutex, held by a permit's thread inside `dispatch`; shorter critical sections are single steps |
| `wakes[p]` | the `Vec<Waker>` that `dispatch` returned and `shrink_to` has not yet gone through |
| `parked[p]` | history: the task that the last `Pending` of `p` put to sleep and that nothing has woken since |
| `GrowSatisfied` ... `GrowQueued` | the five outcomes of `poll_grow`, in the order of its returns |
| `ShrinkTo`, `Drop`, then `Dispatch`\*, `Unlock`, `Wake`\* | `shrink_to`: the part up to `dispatch`, each iteration of its loop, the unlock, each `wake()` |

`&mut self` in the permit's methods is `Callable`: one call per permit at a time.
An invalid request (`minimum > desired` or `desired > total`) returns an error
without effect and is left out.

### WriteScheduler and the code

A call that touches neither the lock more than once nor a backend is one action.
A poll is a sequence of actions, as rivals' threads and backend events run
between its steps: `PollWrite` (or `StopInput`, `PollClose`), one `DriveStep` for
each `Slot::poll`, then `Reserve`, `Grow`, `Fill` (or `FinishClose`). `round` is
drive's loop: slots left in the round, whether one made progress, and how many of
the `MAX_POLL_OPS` changes are left. Each error path is a `Fail` disjunct.

Frames are numbered in the order in which their first input is consumed. A
slot has the frames it buffers (`frames`), and `content`, the frames its backend
accepted in the current attempt; `delivered` has the content of the files handed
back. `partial` is "none", "empty" or "some": the bytes in it do not matter to the
scheduler. `io` is the backend's side of the pending operation: polled for the
first time, waiting for its event, or ready. `runnable` says whether the task
has been woken, or a poll returned `Ready`, since the poll began; `inputArmed`
whether the input holds the task's waker.

### ReadScheduler and the code

`Begin` is the start of `poll_read` or `poll_progress`, and `Poll` the same as the
task's executor makes it; likewise `Push` and `Close` are the calls and `PushFile`
and `CloseFiles` the calls with the poll that the caller owes after them. `Grow` is
`drive` up to its loop
(`poll_grow`, `authorize`, unblocking), `DriveStep` one `poll_file` with what the
loop does after it (`Continue`: the poll limit, `retire`, `authorize`, the end of
the files), and `ReportError`, `ReportEnd`, `Emit`, `ReturnPending` and
`ProgressReturns` are the ways out. Positions are taken modulo `Modulus`;
`first`, `declared`, `value` and `output` number the same frames without wrapping
and exist only for the properties. A cell holds the number of the frame that was
read into it, found through the code's wrapped offset. `retire` is a loop that
removes at most one file, as the next one has a frame left; the model removes one.

Not in the reader's model: the recycled buffers (`recycled` only saves
allocations), and the `Option` inside a cell, which is filled before its first
poll. The `InvalidFramePosition` failure of `poll_file` is modelled
(`Fail("position")`) and never happens; `WindowIsAligned` says so.

### The compositions and the code

`Pipeline` instantiates both schedulers over one set of budget variables, with
permits 1 and 2, and runs their own actions; nothing of them is written again. One
task drives both: `PushSource`, `CloseSource` and `PushTarget` fill them,
`PollWriter` polls the writer, and once that is about to fill its partial frame
`Pull` begins the reader's `poll_read`, whose way out (`ReaderReturns`) decides
between the outcomes of `poll_fill` (`FrameCopied`, `NothingToCopy`, `SourceEnded`,
`SourceFailed`). As there is one thread, a step starts only outside the budget's
calls (`OutsideBudget`).

`Upload` follows `upload` by `stage` and replaces the environment of `WriteScheduler`
by the code of the client: when it polls, what it pushes, what `poll_fill` of the
byte frame does with its slice (`FillBytes`), what it swaps and pops. Bytes are
numbered as they leave the socket, padding is 0; `blocks` has the bytes of each
frame, `stored` the frames of each file taken back. `Download` does the same
for `download` over `ReadScheduler`: the directory is any set of segments of any
of the given sizes with any `stream.meta`, what a transfer that failed or was cut
may have left included. A block of the directory is its file's name and its place in
that file; `admitted` lists the blocks of the files pushed, so that the reader's
frame `n` is the block `admitted[n]`, and `sent` what the socket took. Reading
`stream.meta` or walking the directory may fail at any point. In both, the scheduler's
fairness is replaced by that of the client's task, which is polled only when woken; but
once a frame is sent, the next `poll_fn` is polled at once, whoever used the last wake
(`PolledAgain`).

In `Download`, the branch of `OfferAgain` in which the refused file is accepted
(`main.rs:261`) never runs: a poll that returns `Pending` emitted nothing, and
only emission frees admission. The comment in the code expects otherwise; the
branch does no harm.

`Segment` takes `poll_open`, `poll_write`, `poll_close` and `poll_read` apart as the
scheduler polls them. `tokio::fs::File` is external: `cache` holds the bytes that it
accepted, and `WriteBehind` moves them to the disk, or some of them and remembers the
error. `ReadBack` reads the closed file again after it may have been cut. An attempt may
start over there, as the trait lets a scheduler with retries do; the program's schedulers
have none (`main.rs:132`) and open each `Segment` once, which is one of the model's
behaviours.

### The rivals

The other permits of the budget belong to a task that asks for `RivalSizes`
frames at once, holds nothing while it waits, and returns or withdraws at any
time, through the same `FrameBudget` actions. Their dispatch runs and their wakes
interleave with the scheduler's polls. The TCP example's transfers have a budget of
their own; `Upload` is checked with a rival all the same, as the schedulers' README
lets a budget be shared.

## 3. Runs

| Run | Question | Bounds |
| --- | --- | --- |
| `MCFrameBudget` | the budget's five invariants and the refinement of `CapacityPool` | 3 permits, 3 frames, 2 tasks |
| `MCFrameBudgetLive` | every waiter is woken | 3 permits with a task each, 2 frames |
| `MCWriteStreaming` | the writer's seven invariants and the refinement of `OrderedWrite`, `max_retries = 0`, window changes at any time | 3 frames of budget, files of 1-2 frames, 3 frames of input, two windows (target 1, 1 file; target 2, 2 files), 3 changes per poll, all faults |
| `MCWriteReplay` | four of them for `max_retries = 1` | as above, one window (target 2, 2 files) |
| `MCWriteLive` | calls return, closing drains, filling proceeds, for either kind of scheduler | 4 frames of budget, a rival that takes 3, 2 frames of input, 2 active files of 2 frames; streaming with target 2, and replaying with target 3 and one retry; backend errors |
| `MCWriteShrink` | does a smaller window reduce the active files? **violated** | two windows, 2 frames of input |
| `MCRead` | the reader's six invariants and the refinement of `OrderedRead`, window changes at any time | 3 frames of budget, targets 1 and 3, 1 and 2 active files of 1-2 frames, 5 frames, growth in batches of 2, positions modulo 4, one retry, all faults |
| `MCReadLive` | frames keep coming, streams end | 2 frames, one open retry, a rival that takes the whole budget |
| `MCPipeline` | is the copy faithful, is the budget overcommitted, does the copy end, with either kind of writer? | 5 frames of budget, the reader's batch 2 and its target 4 (3 beside the replaying writer), the writer's target 3, 3 files of 1-2 frames copied to files of 2, one retry of the reader, none or one of the writer, open, read, input and write errors, positions modulo 7 |
| `MCUpload` | does `stream.meta` tell the truth, do transfers end? | 7 bytes in frames of 3, files of 2 frames, 2 active files, no retry (the program's streaming writer), backend errors, a rival |
| `MCDownload` | is what is sent the stream, do transfers end? | 3 segments of 0-3 frames of 2 bytes (or broken ones), any of 6 sizes in `stream.meta`, 2 active files, no retry, all faults |
| `MCSegment` | are closed files whole, are frames exact? | 3 frames of 3 bytes, 2 retries |

Why these bounds are enough. Three permits are the fewest with a waiter behind a
waiter while a third returns frames; two or three frames the fewest for which the
minimum, the preferred share and an exact fit differ. Two tasks suffice for a
waker that changes. For the schedulers, two active files give one that is filled
while the other drains, completes, restarts or is swapped; files of one and two
frames give a full and a short file; three consumed frames reach a second use of
a slot. `MaxPollOps = 3` (256 in the code) makes the poll limit fall within a
round, at its end, and after it; `Batch` is 1 or 2 (32 in the code, `read.rs:305`, `331`)
with targets at and above it, as the code's targets may lie on either side of 32: the
reader asks for several frames at once where the batch is 2, and growth and shrinking
take several batches. In `MCRead` the positions wrap within a
stream, between and within files. In `MCWriteLive` the writer waits while
it owns and uses frames, and the completion of a frame (streaming) or of a file
(replaying) then withdraws its queued request (`write.rs:516`); the replaying one, with a window of a file and a
half, is also left with a frame that does not make a file and gives it back before
it waits (`write.rs:584-586`). In `MCPipeline` the budget is the smallest that
`EnoughForBoth` allows (next section): the reader waits at the head of the queue for two frames at
once, with the streaming writer queued behind it, and the replaying writer waits for a whole file while both hold
frames. The files of the source and the target do not coincide. In `MCUpload` slices end within a frame, at its
end and beyond it, and the stream ends with every remainder, padded or not. In
`MCDownload` three names in two active places make `push_file` refuse a file, and
the directories include sizes that are not whole frames, more frames than a file
may have, and totals that do and do not match. `MaxFrames` bounds the input (writer),
the admitted frames (reader) and the frames of all the source's files (pipeline),
`MaxBytes` the socket's bytes; they stop a run only by refusing more input, and the
theorems hold for every value of them.

Deadlock is checked in every passing run of the budget and of a single scheduler,
and in `MCUpload`, where the rival goes on. It is not in `MCDownload`, `MCSegment` and
`MCPipeline`: there the transfer, the file or the copy really ends, and
`DownloadEnds` and `PipelineDrains` exclude any other end.

`MCWriteLive` and `MCPipeline` start with either kind of writer, chosen once (`kind`), and
then are that kind's specification: `max_retries` decides whether a writer streams or
replays, and the two reserve and release frames differently.

A `VIEW` (in `MCFrameBudget` and the safety runs of the schedulers) identifies
states that differ only in what no action and no checked property reads: the sizes of
a request that no longer waits, and in `MCRead` also which files are blocked outside
`drive`, the retries of an open file, how the last poll of an awake task went, and
when a rival was put to sleep.

### The capacity of a pipeline

`README.md:237-238` asks to "leave enough capacity for both to progress, or the
pipeline can deadlock", and does not say how much that is. `EnoughForBoth` does, in two
parts:

* the reader's first batch fits next to the writer's window. A reader without a frame
  waits for `min(target, batch)` frames at once, possibly at the head of the queue, while
  the writer keeps what its window lets it keep;
* what the writer needs to go on when it holds nothing, one frame or in replay a whole
  file (`Quantum`), fits next to the reader's window, which the reader may hold in full
  until the writer pulls.

With it, `MCPipeline` drains for either kind of writer, and `PipelineNeverDeadlocks`
(section 6) proves for every budget, windows, batch, files and retries that it is enough.
The code's batch is 32, so for a target of up to 32 frames the first part asks
for both windows side by side. Nothing else depends on it: `PipelineDrains` and `NeverDeadlocks` have it as their
premise, and the other theorems about the pipeline hold for every budget.

Neither part can be dropped, and the batch matters. Smaller instances, tried apart from the
runs, with a writer's target of 3: with four frames and a reader's target of 3
(streaming) or 2 (replaying), only the first part fails, and the copy deadlocks with a
batch of 2 but ends with a batch of 1, for which the first part holds. With five frames and a
reader's target of 5 (streaming) or 4 (replaying) only the second part fails, and it
deadlocks too.

### The finding

`README.md:241-242` says of `set_window`, for either scheduler: "Shrinking preserves
already authorized frames and opened files, then takes effect as work drains."
In a writer, `pop_swap` always appends a replacement (`write.rs:728`) and `pop_file`
is refused until `poll_close` (`write.rs:758`). A lowered `max_active_files` therefore
never takes effect while the input goes on. `ShrinkTakesEffect` in `MCWriteShrink`
shows it: two files, the limit lowered to one, one file handed back, and still
two files. (`target_frames` does take effect, through `Limit`.)

## 4. Properties

Budget (`FrameBudget`): `TypeOK`; `Conservation`; `QueueIsWaiting`;
`HeadIsBlocked`; `NoLostWakeup`; `ImplementsPool`; `EveryWaiterIsWoken`
(in `MCFrameBudget`).

Writer (`WriteScheduler`): `WriterTypeOK`; `UsedIsExact` compares the incremental
`used` with what the slots and the partial frame amount to, and with the grant;
`NoFrameLostOrReordered` compares the files handed back, the active ones and the
partial frame with the input; `AttemptIsExact` compares the backend's view of an
attempt with the slot's; `FilledInOrder` ties `fill_index` to every slot;
`NoSpareAfterInput`; `SleepsOnlyWhenStuck`; `ImplementsOrderedWrite`; `ShrinkTakesEffect`
(the finding); and in `MCWriteLive`, `PollsReturn`, `ClosingDrains` and `FillProceeds`.

Reader (`ReadScheduler`): `ReaderTypeOK`; `WindowIsAligned` compares the window of
cells with the files' own counts; `FilesAreContiguous`; `WindowIsGranted`;
`NothingKeptWithoutFiles`; `SleepsOnlyWhenStuck`; `ImplementsOrderedRead`;
`FramesKeepComing`; `StreamEnds`.

Compositions: `CopyIsFaithful`, `PipelineDrains`; `NeverOvercommitted` adds the reader's
authorized cells to the writer's `used` and compares with the total, which neither
scheduler ever does, as each sees its own permit only. Transfers: `MetaTellsTheTruth`
compares every byte of every file that is back with the bytes that left the socket,
once `stream.meta` is written, and counts the frames; `UploadEnds`; `SentIsRestored`
demands that before each block sent exactly the blocks went that precede it in the
directory, sorted by name, that the lengths are those of a stream cut at the size in
`stream.meta`, and that nothing is missing at the end; `DownloadEnds`. Backend: `ClosedFileIsWhole`, `FramesReadAreExact`.

The refinements say what a scheduler promises as a whole. `OrderedRead` has no
files, windows, grants or polls: frames come out in order, each once; the stream
ends when no file will follow and all is out, or breaks while a frame is due and
reports one error. `OrderedWrite` has no slots or attempts: files come back with the
frames of the input in order; a file is full unless it is the last of a closed
stream, and the stream is over exactly when every frame is back.

`SleepsOnlyWhenStuck` is the property to read first in both schedulers: it looks
at a task that returned `Pending` and has not been woken, and demands that every
possible operation waits for an event that will wake it.

## 5. Fairness

* A thread inside `shrink_to` runs on (`WF` on `Internal`, or on `BudgetThread` and
  `BudgetWake`): the code between lock and unlock does not block, and the wakers
  are woken in a loop.
* A poll in progress runs on (`SF` on `InPoll`): its steps are disabled only while
  another thread holds the mutex, which is free again and again. Strong fairness
  says that a thread that contends for a mutex finally gets it.
* `WF` on `BackendEvent`: a pending backend operation wakes its task eventually,
  as `traits.rs` demands of backends.
* `WF` on a poll of a runnable task: the executor runs woken tasks. In the
  reader, the same for a task that only made progress, and it is `SF` as
  other calls on the scheduler may come between.
* `SF` on `PopFile`, `PopSwap`, `PushFile`: the caller hands back completed files,
  replaces them and fills free places before it polls again. The documentation
  of `AsyncFilesWrite` (`write.rs:151-156`, `168-197`) requires it; a completed head
  that is never taken stops any writer.
* `SF` on the rivals' return while their task is awake: other users do not keep
  frames forever. Without it nothing on a shared budget can progress.

In the compositions there is one task, and its fairness is one condition on all
that it does by itself (`Run`, `Transfer`): it runs when it was woken. It is weak in
`Pipeline`, where nobody else takes the lock, and strong in `Upload` and `Download`,
for the lock and for a socket that is written while the files are driven. To this come
the events of the backends, and for `Download` a peer that takes what it is sent
(`SF` on `SendFrame`). The peer of `Upload` sends or ends (`ReadEnd` is part of
`Transfer`, and `MaxBytes` bounds what it sends): a peer that is silent for ever
leaves the transfer waiting, which the code allows.

The input of a writer by itself is not fair: it may stay pending forever. The liveness runs have one
window: each `set_window` withdraws the pending request, so a caller that changes
the window for ever between polls would starve itself.

## 6. Proofs

Every listed theorem is about a specification without fairness (`Spec`,
`BudgetSpec`, `UploadSpec`, `DownloadSpec`), and so about every behaviour of the one with it. Each invariant was
tried with TLC before it was proved. The proofs use the assumptions on the
constants that the modules name, and no other: `BudgetAssumption`, `SelfAssumption`,
`RivalAssumption`, `ReaderAssumption`, `WriterAssumption`, `PipelineAssumption`,
`UploadAssumption`, `DownloadAssumption`, `SegmentAssumption`. They say that sizes are numbers, that a window is positive (as
`validate` demands), that a file to read has fewer frames than there are
positions, and that the tasks are those of the budget; of a transfer, that its
frames and files have a size, that the directory is finite, and that `MaxFrames`
bounds no more than the peer or the directory does.

### The budget

`FrameBudgetProofs` proves, for every `PermitCount`, `Total` and set of tasks
(`BudgetAssumption` is the only assumption):

| Theorem | States |
| --- | --- |
| `TypeCorrect` | `BudgetSpec => []TypeOK` |
| `FramesAreConserved` | `BudgetSpec => []Conservation` |
| `QueueIsExact` | `BudgetSpec => []QueueIsWaiting` |
| `NobodyServableWaits` | `BudgetSpec => []HeadIsBlocked` |
| `WakeupsAreKept` | `BudgetSpec => []NoLostWakeup` |
| `BudgetImplementsPool` | `BudgetSpec => ImplementsPool` |

The inductive invariant is

    IInv == TypeOK /\ RequestShape /\ Ledger
            /\ QueueIsWaiting /\ HeadIsBlocked /\ NoLostWakeup

* `RequestShape`: a waiting request has a positive size and no grant, and a
  permit that does not exist holds nothing. Dispatch needs it: it *overwrites*
  `granted`, which would lose frames if a waiting request had any.
* `Ledger` strengthens `Conservation`. A sum over the permits is a running total
  `s`, as what a recursive sum computes cannot be proved by the installed provers
  (induction over data). That `s` grows with its argument would need induction
  too, so `IsLedger` carries it along. `LedgerShift` shows that when one
  permit's holdings change, the running total can be shifted from there on.
* `QueueIsWaiting` makes `Without` exact: the single entry removed is all that
  `retain` would remove.
* `HeadIsBlocked` is inductive only while the lock is free: `shrink_to` breaks it
  under the lock, and dispatch restores it before `Unlock`.

`StepCases` splits a step into the outcomes of `poll_grow`, the calls that give
back, and the internal steps; there is one lemma per conjunct (`TypeStep`,
`ShapeStep`, `LedgerKept`, `QueueKept`, `HeadKept`, `WakeupKept`), with a case for
every action that can disturb it. `PoolStep` maps each step to a step of the pool
or a stutter: a claim of a reserved grant stutters, as the pool counts the grant
as owned since it was served; `GrowImmediate` is `Take`, which requires an empty
queue; `Dispatch` is `Serve`.

### The file backend

`SegmentProofs` proves, for every `Block`, `Frames` and `MaxRetries`
(`SegmentAssumption` is the only assumption):

| Theorem | States |
| --- | --- |
| `ClosedFiles` | `Spec => []ClosedFileIsWhole` |
| `FramesExact` | `Spec => []FramesReadAreExact` |

Neither property is inductive: they speak of finished files and frames only. The
invariant says what holds on the way. `BytesInPlace`: byte `i` of the stream is
byte `i` of the file, on disk or in the cache behind it. `AcceptedIsThere`: disk and
cache together are as long as `done` frames and `offset` bytes, *unless* `broken`,
and then the next write or flush starts the attempt anew. `FreshAttempt`: an
opening that is under way is of an attempt with no frame and no part of one, which
is what `offset = 0` in `poll_open` is for. `ReadIsThere`: the first `offset` bytes
of the buffer are those at the read position, and the rest, stale bytes of a
recycled buffer, does not matter. There is one lemma per action; the four that move
bytes (`WriteSomeStep`, `WriteBehindStep`, `ReadBackStep`, `ReadSomeStep`) carry the
argument. The invariant was checked with TLC first.

### What the schedulers share

A scheduler's `Next` has its own actions, those of its rivals, and the budget's
internal steps. `SchedulerPermitProofs` reduces each to what matters to the scheduler:
`ShrinkStep`, `DropStep` and `GrowStep` say what a call on its own permit does to
`capacity[Self]` and to its request and that `IInv` holds on; `OthersStep` that no
other step touches either, but for a grant reserved in the request, which is not
yet capacity. `OwnStep` is the same seen by somebody else on the budget. The budget's
invariant thus is part of each scheduler's, and `ReaderKeepsBudget` and
`WriterKeepsBudget` (`Spec => BudgetSpec`) bring all six theorems about the budget to
the schedulers.

The positions of the reader are taken modulo `Modulus` and its properties are about
frame numbers. `WrapUnique` says that two numbers less than a turn apart with the
same wrapped value are equal, `WrappedDistance` that wrapping subtraction then gives
their true distance; `TurnFacts` that a cursor that goes round `n` slots has met each
of them after `n` steps.

### The read scheduler

`ReadSchedulerProofs` proves, for every budget, rival, set of
windows and file lengths, `Batch`, `Modulus`, `MaxRetries` and `MaxPollOps`:

| Theorem | States |
| --- | --- |
| `ReaderTypeCorrect` | `Spec => []ReaderTypeOK` |
| `WindowStaysAligned` | `Spec => []WindowIsAligned` |
| `FilesStayContiguous` | `Spec => []FilesAreContiguous` |
| `WindowStaysGranted` | `Spec => []WindowIsGranted` |
| `NothingIsKept` | `Spec => []NothingKeptWithoutFiles` |
| `ReaderKeepsBudget` | `Spec => BudgetSpec` |
| `ReaderImplementsStream` | `Spec => ImplementsOrderedRead` |
| `ReaderSleepsWhenStuck` | `Spec => []SleepsOnlyWhenStuck` |

    ReaderInv == IInv /\ ReaderTypeOK /\ Positions /\ SlotPlaces /\ FilesInOrder
                 /\ FramesHaveFiles /\ CellsInPlace /\ WindowFits /\ Control /\ Released

The properties are not inductive: they compare two of the three views of the
window (cells, files, grant), and a step keeps them together only because of where
the third stands.

* `Positions` ties the wrapped `emitted` and `discovered` to the numbers of frames and
  says that they are less than a turn apart, which is what the check in `push_file`
  (`read.rs:165-170`) is for. Everything about offsets rests on it.
* `SlotPlaces` and `FilesInOrder` place each file's frames among the others;
  `FramesHaveFiles` says that no frame between them is without a file. It holds only
  as `retire` removes no file with a frame left.
* `CellsInPlace` relates a cell to the one file that its frame belongs to: complete
  if the file received it, and then with that frame's value, filling only if it
  is the next to come. It says also that no file received a frame without a cell.
* `WindowFits`: there are no more cells than declared frames and than granted ones.
* `Control` says what may be assumed at each point of a poll, `Released` what a
  scheduler without files may still hold: nothing, once it has slept or ended.

There is one lemma per action (`EmitKeeps`, `PushKeeps`, `GrowKeeps`, ...);
`DriveStepKeeps` is put together from what polling a file can do to its slot and cell
(`RetryKeeps`, `ReceiveKeeps`, `FailKeeps`) and what the loop does after it
(`ContinueKeeps`). For the refinement each step is one of five things to a caller
(`Admits`, `Closes`, `Delivers`, `Finishes`, `Reports`) or is not seen at all
(`OwnMoveStreams`, `StreamPart`).

`SleepsOnlyWhenStuck` needs what `drive` did before the task slept:

    SleepInv == ReaderInv /\ DriveIsThorough /\ PollIsThorough

`DriveIsThorough` is the invariant of the loop. Within a round without progress, the
files that the cursor has passed are blocked or have nothing to do; a file that
is remembered as blocked waits for its event or has all its frames; and the window
is as large as the grant allows (`FullWindow`), so that no file waits for a
cell that could be had. A reader without a frame is itself asleep in the budget's
queue (`AsksForFrames`). `PollIsThorough` keeps the same until something happens,
and is the place where each event has to set `runnable`.

### The write scheduler

`WriteSchedulerProofs` proves, for every budget, rival, set of
windows and file capacities, `MaxRetries` (streaming and replay), `MaxPollOps` and
`MaxFrames`:

| Theorem | States |
| --- | --- |
| `WriterTypeCorrect` | `Spec => []WriterTypeOK` |
| `UsedStaysExact` | `Spec => []UsedIsExact` |
| `NoFrameIsLost` | `Spec => []NoFrameLostOrReordered` |
| `AttemptStaysExact` | `Spec => []AttemptIsExact` |
| `FilesFillInOrder` | `Spec => []FilledInOrder` |
| `NoSpareIsKept` | `Spec => []NoSpareAfterInput` |
| `WriterKeepsBudget` | `Spec => BudgetSpec` |
| `WriterImplementsStream` | `Spec => ImplementsOrderedWrite` |
| `WriterSleepsWhenStuck` | `Spec => []SleepsOnlyWhenStuck` |

    WriterInv == IInv /\ WriterTypeOK /\ QueueInOrder /\ NothingLeft
                 /\ UsedIsGranted /\ Control /\ NoSpareAfterInput

`QueueInOrder` is the heart. It has three parts, each for the whole queue:

* `Shape`: every slot by itself (`Sound`: what it buffers, what the backend accepted
  and its state agree) and by its place (`Placed`: full before `fill_index`, not full
  at it, empty beyond it; closing only when full or when the input has ended).
* `Uses`: `used` is what the slots and the partial frame reserve.
* `Holds`: the frames of the slots continue what was handed back, in order, up to
  the last one that was started.

`used` is a sum over the queue, and the frames of slot `i` start after all those before
it. What a recursive sum computes cannot be proved here, so both are stated with
running totals (`Adds`): a function from 0 to the length of the queue that grows by
each slot's size. When one slot changes (`AddsReplaced`), one is appended
(`AddsExtended`), the head is taken (`AddsTail`) or the queue is cut behind the last used
file (`AddsCut`), the totals beyond that place are shifted, and the new ones are given
explicitly. `UsedStaysExact` and `NoFrameIsLost` derive the properties from them.

`UsedIsGranted` says that no reservation is without a frame; `NoSpareAfterInput` is
kept by every step as it stands, given the rest. There are lemmas per change of a slot
(`OpenedSlot`, `WrittenSlot`, `ClosedSlot`, `RestartedSlot`, ...), per change of the queue
(`PutInOrder`, `FlushInOrder`, `ConsumeInOrder`, `CutInOrder`, `AppendInOrder`,
`TailInOrder`) and, from these, per action.

For the refinement, a caller sees of the writer which frames were begun and handed
back, and whether it works, closes, has failed or is gone. `SleepInv` adds to
`WriterInv` that a round without a change leaves the files behind it at rest
(`DriveIsThorough`), and that an undisturbed poll leaves all of them so, and has asked the
budget and the input for what it needs (`PollIsThorough`).

### The pipeline

`PipelineProofs` proves, for every source, windows, batch, retries, faults and budget:

| Theorem | States |
| --- | --- |
| `CopyStaysFaithful` | `Spec => []CopyIsFaithful` |
| `BudgetIsNotOvercommitted` | `Spec => []NeverOvercommitted` |
| `PipelineKeepsStreams` | `Spec => R!ImplementsOrderedRead /\ W!ImplementsOrderedWrite` |
| `PipelineNeverDeadlocks` | `Spec => []NeverDeadlocks` |

The first three hold of every budget, large enough for both or not.

Neither scheduler is proved again. A step of the pipeline is a step of one scheduler
outside the other's calls, an event, or a step of the budget's thread
(`PipelineMoves`). The scheduler that moves keeps its invariant by its own lemma
(`OwnMoveKeeps`, `WriterStep`); for the other, the step is one of a *bystander*: it
uses the budget through another permit (`OwnUse`, `OwnStep`) and leaves the
other's capacity and request alone (`BystanderKeeps`). `CallerHas` says of each
scheduler that what its caller got are the frames 1, 2, ... in order.

    PipelineInv == Schedulers /\ Copies /\ Nesting /\ Ending

* `Copies`: what the reader gave away is what the writer began, but for the one frame
  that `poll_fill` has just pulled.
* `Nesting`: a poll of the reader and its result live within one `poll_fill`, so
  the writer cannot be closed, fail or drop its partial frame between.
* `Ending`: the end of the source is known only when the reader has ended without
  an error and everything declared is out, which needs that an error ends the
  copy (`reports > 0` only with an error in hand or a copy that failed); the
  writer closes only then.

`NeverOvercommitted` follows from `WindowFits`, `UsedIsGranted` and the
conservation of frames, for which the `Ledger` of two permits is spelt out
(`FramesAreSplit`).

`NeverDeadlocks` is the safety part of `PipelineDrains`:

    NeverDeadlocks == EnoughForBoth /\ Rests /\ OutsideBudget => SomeoneWaits

When the task rests (`Rests`: the copy has not ended, no poll is going on, nothing woke
the task since the last one) and no call on the budget is under way, a file of one side or
the other waits for its backend, so that an event will wake the task. The two schedulers
never both wait for frames, or one for the frames of the other. It takes

    RestInv == PipelineInv /\ TaskInv /\ ShareInv /\ ThoroughInv

* `TaskInv`: what the task knows when it comes to rest. Both permits are alive; the
  writer has no completed file to hand out, misses none, and keeps the task's waker; if it
  has pulled a frame it waits for, the reader is asleep and has a frame to give.
* `ShareInv`: neither side takes more than its share. `Reach` is what a permit
  holds and what its waiting request asks for; that of the reader stays within its
  window (`KeepsToWindow`), and what it waits for at once within a batch
  (`AsksInBatches`); that of the writer within its window or what its files
  and its next frame need (`Modest`), as a whole-file reservation may be larger than
  the window.
* `ThoroughInv`: what was done before the sleep, as for each scheduler by itself. That
  of the reader can be kept only while its last poll is part of the current or the
  last poll of the writer (`ReaderCurrent`): a writer that pulls nothing does not poll it.

The argument: when the writer closes, the head of its queue waits for its backend
(`HeadCloses`). Otherwise suppose that no file waits. Then what the writer uses, with what
it needs for the next frame, is exactly one frame, or the head's whole file in replay
(`CopyAtRest`). Either the writer has no frame pulled and is parked, as it could reserve one
(`WriterAtRest`), or it waits for a frame of the reader, and then the reader is parked and
holds nothing (`ReaderAtRest`). A parked task waits behind a head of the queue for
which too few frames are free (`ParkedBehindHead`, from the budget's own `HeadIsBlocked`,
`QueueIsWaiting` and `NoLostWakeup`). `NoDeadlock` goes through the two heads:

* the writer at the head lacks what makes up its `Quantum`; the reader holds at most its
  window, and next to that the budget has room for it;
* the reader at the head, with the writer parked behind it, lacks at most what is left of its window; the writer holds less
  than its `Quantum`, so next to the window again that fits;
* the reader at the head, holding nothing, lacks at most its first batch; the writer holds
  at most its window, or its `Quantum` if that is more, and next to either the budget has room for a first batch.

So no head is blocked. TLC was asked for `RestInv` and `NeverDeadlocks` before the proof.

### The transfers of the TCP example

`UploadProofs` proves, for every size of frames, files and streams, every way in
which the socket cuts the stream, every number of retries, every rival on the budget and every failure:

| Theorem | States |
| --- | --- |
| `UploadDrivesWriter` | `UploadSpec => Spec`, with `Spec` of `WriteScheduler` |
| `MetaStaysTrue` | `UploadSpec => []MetaTellsTheTruth` |

The client calls the scheduler by its own actions, so each of its steps is a step
of the writer or leaves the writer alone (`UploadMoves`). All nine theorems about the
writer thus hold in an upload, and `WriterInv` is at hand for the client:

    UploadInv == WriterInv /\ ClientInv
    ClientInv == ClientTypes /\ StageFits /\ (stage # "failed" => BytesFit /\ FilesFit)

* `StageFits`: the stages of `upload` and the phases of its scheduler go together.
  `stream.meta` is written with the writer dropped and everything that was begun
  handed back; the old one is gone before the first file.
* `BytesFit`: the frames made, the bytes of the partial frame and what is left of the
  slice are the bytes read from the socket, one after the other. That a frame is
  complete only when full, and that `poll_fill` is not called again with an empty slice,
  is what keeps the three in line. `partial` of the scheduler, which knows nothing of
  bytes, agrees with the buffer.
* `FilesFit`: file `i` holds the frames after `(i - 1) * FramesPerFile`; a file may be
  short only if it ends the stream, as `poll_close` runs only once the slice is used up.
  The places are those that `NoFrameLostOrReordered` speaks of, reached through `delivered`.

A failed transfer keeps neither of the last two, and need not: it never writes
`stream.meta`. `DirectoryRestores` puts the parts together: the frames are a number of
whole blocks, so the padding rounds the stream up to exactly the frames in the files.

`DownloadProofs` proves, for every directory and `stream.meta` that a transfer may
find, every size of frames and files, every window, number of retries and every failure:

| Theorem | States |
| --- | --- |
| `SentStaysRestored` | `DownloadSpec => []SentIsRestored` |
| `DownloadReadsInOrder` | `DownloadSpec => ImplementsOrderedRead` |
| `DownloadWaitsForFiles` | `DownloadSpec => []WaitsForFilesOnly` |

    DownloadInv == ReaderInv /\ CallerHas /\ ClientInv
    ClientInv == ClientTypes /\ StageFits /\ AdmittedFit /\ QueueFits /\ SentFits

* `AdmittedFit`: the blocks admitted are as many as the reader's declared frames, and
  before each one stand exactly those that precede it in the directory.
* `QueueFits`: the names still to admit are sorted and greater than all that were
  admitted, and every block was admitted or belongs to one of them. A refused file
  stays at the head; dropping it, or admitting the next one before it, breaks this.
* `SentFits`: the blocks sent are those of the frames that the reader gave out, but
  for the one on its way to the socket, with the lengths of the cut stream.
* `StageFits`: among others, that the transfer is done only once all that was declared
  is out and nothing is left to admit, and that the reader is polled only where the
  client waits for it.

`BlocksFollow` is the heart: pushing the next file of a sorted list puts its blocks
right behind those admitted. `AdmittedCounts` counts: blocks in that order are distinct,
so as many as the size in `stream.meta` needs are all of them. It rests on the
theorems about finite sets of the library.

`ReaderInv` is kept as in the pipeline: each client step is a call of the reader, a
poll's step, a step of the budget's thread, or leaves the reader alone
(`DownloadActs`). `DownloadSpec => Spec` does not hold as it stands, since in `Spec` a
caller that admits a file between polls then polls, while this client admits inside its
poll; so the refinement is proved from the same lemmas about the reader's own moves.

`DownloadWaitsForFiles` is about sleep. `SleepsOnlyWhenStuck` speaks of a caller that
only polls; a transfer also awaits the socket, and its polls do more. While its task
sleeps, every file with an operation waits for the disk, with a frame on its way to the
socket too. When it sleeps for a frame, the file at the head waits for it, and either
every file is admitted or the active files are full: the file that was refused is
offered again, although accepting it wakes nobody. Beyond `DownloadInv` this takes

    TransferInv == /\ DownloadInv /\ OwnBudget /\ RestIsEarned
                   /\ DriveIsThorough /\ (stage # "admit" => PollIsThorough)

* `OwnBudget`: the permit is the only one of its budget, so what it does not hold is
  available, its queue stays empty, and every call for frames within the window is
  served at once. No download waits for frames, whatever its window.
* `RestIsEarned`: a read that says that it waits has a frame left to wait for, and was
  made in this pass.
* `DriveIsThorough` and `PollIsThorough` are those of the reader. An admission in the
  middle of a pass breaks the second until the next drive, while the task runs.

TLC was asked for `TransferInv` and `WaitsForFilesOnly` on the instance of `MCDownload`
before the proof.

## 7. What is only model-checked

* Liveness, as the prover handles neither fairness nor `ENABLED`: `EveryWaiterIsWoken`,
  `PollsReturn`, `ClosingDrains`, `FillProceeds`, `FramesKeepComing`, `StreamEnds`,
  `PipelineDrains`, `UploadEnds`, `DownloadEnds`. `SleepsOnlyWhenStuck`, which is proved, is the
  part of it that is safety: whoever sleeps waits for something; `NeverDeadlocks` is that
  of `PipelineDrains`.
* `ShrinkTakesEffect`, which is violated (section 3).
* That a caller polls again after `set_window` (`read.rs:197`) is an assumption of the
  reader's model (`Repoll`): its window does not take effect by itself, and nobody is woken.
  `SleepsOnlyWhenStuck` holds of a caller that does.

Not modelled, and why:

* Errors: their values, formatting and `source` chains have no control in them; the
  models tell apart only that an error is returned and by whom.
* The examples `http_upload` and `pingora_upload` are written against an earlier
  interface of the crate (`FrameWriter`, `next_event`, `enqueue_file`), which its
  source no longer has, so there is no program to be faithful to. The example
  `memory` drives both schedulers as `tcp_to_file` does, over files that never fail.
  The accept loop of `tcp_to_file` runs one transfer at a time.
* Benchmarks and tests, which are read as statements about the code (section 1).
* The reuse of buffers in the schedulers, which is an optimisation of allocation;
  what a recycled buffer may do to a read is in `Segment`.
* Panics of backends (and with them mutex poisoning, which the code ignores), and
  `usize` overflow of `available` and `used`, which stay within the total.

## 8. What is left

* *Liveness* for all constants, once a prover handles fairness: the proved sleep
  properties and the conservation of frames are its safety part.
