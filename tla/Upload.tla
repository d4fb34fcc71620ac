------------------------------- MODULE Upload -------------------------------
(***************************************************************************)
(* A transfer from a socket to numbered files, as the server in            *)
(* src/examples/tcp_to_file/src/main.rs makes it with the write scheduler  *)
(* and the byte frames of src/src/write.rs.  The client is one task: it    *)
(* polls the scheduler only when it was woken or a poll returned Ready.    *)
(*                                                                         *)
(* The bytes of the socket are numbered 1, 2, ...; padding is 0.           *)
(***************************************************************************)
EXTENDS WriteScheduler

CONSTANTS Block,          \* BLOCK, the bytes of a frame
          FramesPerFile,  \* FRAMES_PER_FILE
          MaxBytes        \* bound: bytes the peer sends

ASSUME UploadAssumption ==
    /\ {Block, FramesPerFile} \subseteq Nat \ {0} /\ MaxBytes \in Nat
    /\ MaxBytes <= MaxFrames * Block
    /\ FileCapacities = {FramesPerFile} /\ (Replay => FramesPerFile <= Total)

VARIABLES stage,     \* where `upload` is
          slice,     \* the bytes that write_bytes has yet to hand over
          total,     \* the bytes read from the socket
          ended,     \* the peer has finished
          buffer,    \* BytesPartialFrame::bytes
          blocks,    \* the bytes of each frame made so far
          finished,  \* completed files that a poll reported, not yet taken
          stored,    \* the files taken back, as the frames they hold
          meta       \* stream.meta: "none", "old", "new", or "cut" by an error

clientVars == <<stage, slice, total, ended, buffer, blocks, finished, stored, meta>>
uploadVars == <<vars, clientVars>>

-----------------------------------------------------------------------------
(* The directory is emptied and made again, which may fail half-way; the    *)
(* new scheduler then gets all the files it wants.                          *)
ClearDirectory ==
    /\ stage = "clear"
    /\ \/ stage' = "window" /\ meta' = "none"
       \/ stage' = "failed" /\ meta' \in {"none", meta}
    /\ UNCHANGED <<vars, slice, total, ended, buffer, blocks, finished, stored>>

FillWindow ==
    /\ stage = "window"
    /\ IF Missing THEN PushFile(FramesPerFile) /\ UNCHANGED stage
                  ELSE stage' = "reading" /\ UNCHANGED vars
    /\ UNCHANGED <<slice, total, ended, buffer, blocks, finished, stored, meta>>

-----------------------------------------------------------------------------
(* A read from the socket gives some bytes, or none at its end. *)
ReadBytes ==
    /\ stage = "reading"
    /\ \E count \in 1..Block :
          /\ total + count <= MaxBytes
          /\ slice' = [k \in 1..count |-> total + k]
          /\ total' = total + count
    /\ stage' = "writing"
    /\ UNCHANGED <<vars, ended, buffer, blocks, finished, stored, meta>>

\* mutant: pads by what is there, not by what is missing
PaddedByRemainder == total % Block
Padding == IF total % Block = 0 THEN 0 ELSE Block - (total % Block)

ReadEnd ==
    /\ stage = "reading"
    /\ ended' = TRUE
    /\ slice' = [k \in 1..Padding |-> 0]
    /\ stage' = IF Padding = 0 THEN "closing" ELSE "writing"
    /\ UNCHANGED <<vars, total, buffer, blocks, finished, stored, meta>>

SocketFails ==
    /\ stage = "reading" /\ stage' = "failed"
    /\ UNCHANGED <<vars, slice, total, ended, buffer, blocks, finished, stored, meta>>

-----------------------------------------------------------------------------
(* poll_fill of the byte frame takes what fits; it never waits. *)
Taken == Least(Block - Len(buffer), Len(slice))
Filled == buffer \o SubSeq(slice, 1, Taken)
IsComplete(bytes) == Len(bytes) = Block

RestOfSlice(taken) == SubSeq(slice, taken + 1, Len(slice))

LeadingDone == Cardinality({i \in DOMAIN files : \A j \in 1..i : Done(files[j])})

NoneTaken == 0                                  \* mutant: completed files stay
Reported == LeadingDone

(* An error of the scheduler ends the transfer. *)
FailedOr(next) == IF phase' = "Failed" THEN "failed" ELSE next

PollBytes ==
    /\ stage = "writing" /\ slice # <<>> /\ finished = 0 /\ runnable
    /\ PollWrite
    /\ UNCHANGED clientVars

(* The poll drives the files and reserves the next frame. *)
DriveFiles ==
    /\ DriveStep \/ Reserve \/ Grow
    /\ stage' = FailedOr(stage)
    /\ UNCHANGED <<slice, total, ended, buffer, blocks, finished, stored, meta>>

(* It ends with bytes moved to the partial frame, which is finished when    *)
(* full, or without; either way it reports the completed files.             *)
FillBytes ==
    /\ IF partial # "none"
       THEN /\ FillReady
            /\ partial' = IF IsComplete(Filled) THEN "none" ELSE "some"
            /\ begun' = IF partial = "empty" THEN begun + 1 ELSE begun
            /\ buffer' = IF IsComplete(Filled) THEN <<>> ELSE Filled
            /\ blocks' = IF IsComplete(Filled) THEN Append(blocks, Filled) ELSE blocks
            /\ slice' = RestOfSlice(Taken)
       ELSE FillPends /\ UNCHANGED <<buffer, blocks, slice>>
    /\ finished' = Reported
    /\ UNCHANGED <<stage, total, ended, stored, meta>>

(* write_bytes replaces each completed file by the next segment. *)
SwapFile ==
    /\ stage = "writing" /\ finished > 0
    /\ stored' = Append(stored, Head(files).content)
    /\ finished' = finished - 1
    /\ PopSwap(FramesPerFile)
    /\ UNCHANGED <<stage, slice, total, ended, buffer, blocks, meta>>

BytesWritten ==
    /\ stage = "writing" /\ pc = "idle" /\ slice = <<>> /\ finished = 0
    /\ stage' = IF ended THEN "closing" ELSE "reading"
    /\ UNCHANGED <<vars, slice, total, ended, buffer, blocks, finished, stored, meta>>

-----------------------------------------------------------------------------
(* poll_close; the first one finishes the partial frame if it holds input. *)
PollFilesClosed ==
    /\ stage = "closing" /\ finished = 0 /\ runnable
    /\ \/ /\ StopInput
          /\ blocks' = IF buffer = <<>> THEN blocks ELSE Append(blocks, buffer)
          /\ buffer' = <<>>
       \/ PollClose /\ UNCHANGED <<buffer, blocks>>
    /\ UNCHANGED <<stage, slice, total, ended, finished, stored, meta>>

(* Ready without a completed file says that nothing is left. *)
CloseReturns ==
    /\ FinishClose
    /\ finished' = Reported
    /\ stage' = IF files = <<>> THEN "drop" ELSE stage
    /\ UNCHANGED <<slice, total, ended, buffer, blocks, stored, meta>>

TakeFile ==
    /\ stage = "closing" /\ finished > 0
    /\ stored' = Append(stored, Head(files).content)
    /\ finished' = finished - 1
    /\ PopFile
    /\ UNCHANGED <<stage, slice, total, ended, buffer, blocks, meta>>

DropWriter ==
    /\ stage \in {"drop", "failed"}
    /\ DropScheduler
    /\ stage' = IF stage = "drop" THEN "meta" ELSE stage
    /\ UNCHANGED <<slice, total, ended, buffer, blocks, finished, stored, meta>>

(* The size is written last; the write may fail after it created the file. *)
WriteMeta ==
    /\ stage = "meta"
    /\ \/ stage' = "done" /\ meta' = "new"
       \/ stage' = "failed" /\ meta' \in {"none", "cut"}
    /\ UNCHANGED <<vars, slice, total, ended, buffer, blocks, finished, stored>>

-----------------------------------------------------------------------------
(* Events and the other users of the budget. *)
Surroundings ==
    /\ \/ \E i \in DOMAIN files : BackendEvent(i)
       \/ \E p \in Permits : BudgetThread(p) \/ BudgetWake(p)
       \/ \E p \in Rivals : RivalStep(p)
    /\ UNCHANGED clientVars

UploadInit ==
    /\ Init
    /\ stage = "clear" /\ meta \in {"none", "old"}
    /\ slice = <<>> /\ total = 0 /\ ended = FALSE
    /\ buffer = <<>> /\ blocks = <<>> /\ finished = 0 /\ stored = <<>>

(* What the task does by itself once it runs. *)
Transfer ==
    \/ ClearDirectory \/ FillWindow \/ ReadEnd
    \/ PollBytes \/ DriveFiles \/ FillBytes \/ SwapFile \/ BytesWritten
    \/ PollFilesClosed \/ CloseReturns \/ TakeFile \/ DropWriter \/ WriteMeta

UploadNext == Transfer \/ ReadBytes \/ SocketFails \/ Surroundings

UploadSpec == UploadInit /\ [][UploadNext]_uploadVars

-----------------------------------------------------------------------------
(* The n-th byte of the stream, padded; and the bytes of its n-th frame. *)
Byte(n) == IF n <= total THEN n ELSE 0
Piece(n) == [k \in 1..Block |-> Byte((n - 1) * Block + k)]

StoredFrames ==
    IF stored = <<>> THEN 0 ELSE (Len(stored) - 1) * FramesPerFile + Len(stored[Len(stored)])

(* A directory with a stream.meta of this transfer restores the stream: its *)
(* files, of which all but the last are full and none is empty, hold the    *)
(* bytes of the socket in order, cut at every Block and padded to whole     *)
(* frames, and there is no frame beyond them.  A transfer that failed has   *)
(* left no such promise, not even the old one next to new files.            *)
MetaTellsTheTruth ==
    /\ meta = "new" =>
          /\ \A i \in DOMAIN stored :
                /\ Len(stored[i]) \in (IF i = Len(stored) THEN 1 ELSE FramesPerFile)..FramesPerFile
                /\ \A j \in DOMAIN stored[i] :
                      blocks[stored[i][j]] = Piece((i - 1) * FramesPerFile + j)
          /\ StoredFrames = (total + Block - 1) \div Block
    /\ meta = "old" => files = <<>> /\ stored = <<>>

(* A transfer whose peer does not stop sending comes to an end: it was      *)
(* stored, or it failed and gave everything back.                           *)
UploadEnds == <>(stage \in {"done", "failed"} /\ ~alive[Self])

(***************************************************************************)
(* Fairness: the task runs when it was woken, even if it must wait for the  *)
(* lock; the peer sends or ends (ReadEnd); events that are due happen; and  *)
(* the other permits return what they own.                                  *)
(***************************************************************************)
UploadFairSpec ==
    /\ UploadSpec
    /\ SF_uploadVars(Transfer)
    /\ WF_uploadVars((\E i \in DOMAIN files : BackendEvent(i)) /\ UNCHANGED clientVars)
    /\ \A p \in Permits : /\ WF_uploadVars(BudgetThread(p) /\ UNCHANGED clientVars)
                          /\ WF_uploadVars(BudgetWake(p) /\ UNCHANGED clientVars)
    /\ \A p \in Rivals :
          SF_uploadVars(parked[p] = NoTask /\ RivalReturns(p) /\ BudgetOnly /\ UNCHANGED clientVars)

=============================================================================
