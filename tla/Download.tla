------------------------------ MODULE Download ------------------------------
(***************************************************************************)
(* A transfer from numbered files back to a socket, as the server in       *)
(* src/examples/tcp_to_file/src/main.rs makes it with the read scheduler.  *)
(* The client is one task: inside one poll it admits what the scheduler    *)
(* accepts, then reads; it is polled again only when woken.                *)
(*                                                                         *)
(* A block of the directory is its file's name and its place in that file. *)
(***************************************************************************)
EXTENDS ReadScheduler

CONSTANTS Block,          \* BLOCK, the bytes of a frame
          FramesPerFile,  \* FRAMES_PER_FILE
          Names,          \* the names of segments, in their order (bound)
          FileSizes,      \* the sizes of segments (bound)
          MetaSizes,      \* the totals that stream.meta may hold (bound)
          NoMeta          \* no stream.meta, or one that is not a number

(* The transfer has a budget of its own. *)
ASSUME DownloadAssumption ==
    /\ PermitCount = 1
    /\ {Block, FramesPerFile} \subseteq Nat \ {0}
    /\ Names \subseteq Nat /\ IsFiniteSet(Names) /\ FileSizes \subseteq Nat /\ MetaSizes \subseteq Nat
    /\ 1..FramesPerFile \subseteq FrameCounts /\ FramesPerFile < Modulus
    /\ MaxFrames >= FramesPerFile * Cardinality(Names) /\ NoMeta \notin Nat

VARIABLES directory,  \* the size of every segment on disk, by name
          meta,       \* the total in stream.meta, or NoMeta
          stage,      \* where `download` is
          queue,      \* the names of the files to admit, `waiting` and `files`
          admitted,   \* the blocks of the files admitted (history)
          remaining,  \* bytes to send
          sent        \* what the socket took: blocks and their lengths (history)

clientVars == <<directory, meta, stage, queue, admitted, remaining, sent>>
downloadVars == <<vars, clientVars>>

Blocks(name) == directory[name] \div Block

(* The blocks of the segments, of sizes that are valid. *)
AllBlocks ==
    {block \in (DOMAIN directory) \X (1..FramesPerFile) : block[2] <= Blocks(block[1])}

-----------------------------------------------------------------------------
ReadMeta ==
    /\ stage = "meta"
    /\ IF meta = NoMeta
       THEN stage' = "failed" /\ UNCHANGED remaining
       ELSE stage' = "list" /\ remaining' = meta
    /\ UNCHANGED <<vars, directory, meta, queue, admitted, sent>>

ValidSize(size) == size > 0 /\ size % Block = 0 /\ size <= FramesPerFile * Block

(* The segments hold as many blocks as the total needs; their sizes are     *)
(* valid, so that what they store is a number of whole blocks.              *)
MatchesMeta == Cardinality(AllBlocks) = (remaining + Block - 1) \div Block

AsListed(names) == TRUE                         \* mutant: the order of the directory
SortedByName(names) == \A i, j \in DOMAIN names : i < j => names[i] < names[j]

(* Segments are listed in any order, and must be what an upload leaves; the *)
(* directory or a file in it may be unreadable.                             *)
ListDirectory ==
    /\ stage = "list"
    /\ \/ /\ (\A name \in DOMAIN directory : ValidSize(directory[name])) /\ MatchesMeta
          /\ \E names \in SetToSeqs(DOMAIN directory) :
                SortedByName(names) /\ queue' = names /\ stage' = "await"
       \/ stage' = "failed" /\ UNCHANGED queue
    /\ UNCHANGED <<vars, directory, meta, admitted, remaining, sent>>

-----------------------------------------------------------------------------
(* A poll of the task that waits for the next frame. *)
BeginPoll ==
    /\ stage = "await" /\ Idle /\ runnable
    /\ runnable' = FALSE /\ stage' = "admit"
    /\ UNCHANGED <<budgetVars, schedulerVars, pollVars, asleep, declared, output, reports>>
    /\ UNCHANGED <<directory, meta, queue, admitted, remaining, sent>>

PushNext ==
    /\ Push(Blocks(Head(queue)))
    /\ queue' = Tail(queue)
    /\ admitted' = admitted \o [k \in 1..Blocks(Head(queue)) |-> <<Head(queue), k>>]

WaitingFile == queue

(* It admits files until the scheduler refuses one, or all are admitted. *)
AdmitFile ==
    /\ stage = "admit" /\ ~closed /\ queue # <<>>
    /\ PushNext
    /\ UNCHANGED <<runnable, directory, meta, stage, remaining, sent>>

CloseAfterLast ==
    /\ stage = "admit" /\ queue = <<>>
    /\ Close
    /\ UNCHANGED <<runnable, clientVars>>

AdmissionRefused ==
    /\ stage = "admit" /\ ~closed /\ queue # <<>> /\ Idle
    /\ IF terminated
       THEN stage' = "failed" /\ UNCHANGED <<vars, queue>>
       ELSE /\ Full /\ Begin("read")
            /\ stage' = "read" /\ queue' = WaitingFile
            /\ UNCHANGED runnable
    /\ UNCHANGED <<directory, meta, admitted, remaining, sent>>

ReadNext ==
    /\ stage = "admit" /\ closed /\ Begin("read")
    /\ stage' = "read"
    /\ UNCHANGED <<runnable, directory, meta, queue, admitted, remaining, sent>>

DriveFiles ==
    /\ Grow \/ DriveStep \/ ProgressReturns
    /\ UNCHANGED clientVars

(* The ways out of poll_read. *)
FrameRead == Emit /\ stage' = "send"
StreamRead == ReportEnd /\ stage' = "shutdown"
ReadFails == ReportError /\ stage' = "failed"
NothingRead == ReturnPending /\ stage' = "retry"

ReadReturns ==
    /\ FrameRead \/ StreamRead \/ ReadFails \/ NothingRead
    /\ UNCHANGED <<directory, meta, queue, admitted, remaining, sent>>

(* A file that was refused is offered again before the task sleeps, and the *)
(* task wakes itself if it is accepted.                                     *)
OfferAgain ==
    /\ stage = "retry" /\ Idle
    /\ IF closed \/ Full
       THEN UNCHANGED <<vars, queue, admitted>>
       ELSE PushNext /\ runnable' = TRUE
    /\ stage' = "await"
    /\ UNCHANGED <<directory, meta, remaining, sent>>

-----------------------------------------------------------------------------
(* The frame is sent, up to what remains of the stream, while the task goes *)
(* on to drive the files whenever it is woken.                              *)
Progress ==
    /\ stage = "send" /\ runnable
    /\ Poll("progress")
    /\ UNCHANGED clientVars

Length == Least(remaining, Block)

PolledWhenWoken == runnable                     \* mutant: progress may have used the wake
PolledAgain == TRUE

(* The frame last read holds the block that its number stands for. *)
SendFrame ==
    /\ stage = "send" /\ Idle
    /\ sent' = Append(sent, [block |-> admitted[Last(output)], length |-> Length])
    /\ remaining' = Less(remaining, Length)
    /\ stage' = "await" /\ runnable' = PolledAgain
    /\ UNCHANGED <<budgetVars, schedulerVars, pollVars, asleep, declared, output, reports>>
    /\ UNCHANGED <<directory, meta, queue, admitted>>

SocketFails ==
    /\ stage \in {"send", "shutdown"} /\ Idle
    /\ stage' = "failed"
    /\ UNCHANGED <<vars, directory, meta, queue, admitted, remaining, sent>>

Shutdown ==
    /\ stage = "shutdown" /\ stage' = "done"
    /\ UNCHANGED <<vars, directory, meta, queue, admitted, remaining, sent>>

DropReader ==
    /\ stage \in {"done", "failed"}
    /\ DropScheduler
    /\ UNCHANGED clientVars

-----------------------------------------------------------------------------
Surroundings ==
    /\ BudgetThread(Self) \/ \E i \in DOMAIN files : BackendEvent(i)
    /\ UNCHANGED clientVars

DownloadInit ==
    /\ Init
    /\ directory \in UNION {[names -> FileSizes] : names \in SUBSET Names}
    /\ meta \in MetaSizes \cup {NoMeta}
    /\ stage = "meta" /\ queue = <<>> /\ admitted = <<>> /\ remaining = 0 /\ sent = <<>>

Transfer ==
    \/ ReadMeta \/ ListDirectory
    \/ BeginPoll \/ AdmitFile \/ CloseAfterLast \/ AdmissionRefused \/ ReadNext
    \/ DriveFiles \/ ReadReturns \/ OfferAgain
    \/ Progress \/ Shutdown \/ DropReader

DownloadNext == Transfer \/ SendFrame \/ SocketFails \/ Surroundings

DownloadSpec == DownloadInit /\ [][DownloadNext]_downloadVars

-----------------------------------------------------------------------------
(* The order of the blocks in the stream. *)
Earlier(a, b) == a[1] < b[1] \/ (a[1] = b[1] /\ a[2] < b[2])

(* What the socket took is the stream in the order of the segments' names,  *)
(* without a gap and cut at the size in stream.meta, and all of it once the *)
(* transfer says that it is done: whatever the order of the directory, of   *)
(* admission and of the reads, whenever files were refused or the socket    *)
(* was slow.                                                                *)
SentIsRestored ==
    /\ \A k \in DOMAIN sent :
          /\ sent[k].block \in AllBlocks
          /\ {block \in AllBlocks : Earlier(block, sent[k].block)} = {sent[j].block : j \in 1..(k - 1)}
          /\ sent[k].length = IF k * Block <= meta THEN Block ELSE meta % Block
    /\ stage = "done" =>
          /\ {sent[k].block : k \in DOMAIN sent} = AllBlocks
          /\ Len(sent) = (meta + Block - 1) \div Block

(* A transfer to a peer that takes what it is sent comes to an end. *)
DownloadEnds == <>(stage \in {"done", "failed"} /\ ~alive[Self])

(***************************************************************************)
(* Fairness: the task runs when it was woken, even if it must wait for the  *)
(* lock; the peer takes the frames; and events that are due happen.         *)
(***************************************************************************)
DownloadFairSpec ==
    /\ DownloadSpec
    /\ SF_downloadVars(Transfer)
    /\ SF_downloadVars(SendFrame)
    /\ WF_downloadVars((\E i \in DOMAIN files : BackendEvent(i)) /\ UNCHANGED clientVars)
    /\ WF_downloadVars(BudgetThread(Self) /\ UNCHANGED clientVars)

=============================================================================
