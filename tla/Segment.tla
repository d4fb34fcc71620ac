------------------------------- MODULE Segment -------------------------------
(***************************************************************************)
(* The file backend of src/examples/tcp_to_file/src/main.rs: one segment   *)
(* is written through poll_open, poll_write and poll_close, then read back *)
(* through poll_open and poll_read, each polled as the schedulers do.  An  *)
(* action is one poll, or an event of the runtime.                         *)
(*                                                                         *)
(* The asynchronous file (outside the repository) takes bytes into a cache *)
(* that a background write moves to the disk; if that write fails, the     *)
(* next write or flush says so.  The bytes are numbered 1, 2, ...          *)
(***************************************************************************)
EXTENDS Integers, Sequences

CONSTANTS Frames,      \* the frames of the segment
          Block,       \* BLOCK, the bytes of a frame
          MaxRetries   \* SchedulerConfig::max_retries

ASSUME SegmentAssumption == {Frames, Block} \subseteq Nat \ {0} /\ MaxRetries \in Nat

VARIABLES opening,     \* Segment::opening: "none", "pending" or "due"
          open,        \* Segment::file is there
          offset,      \* Segment::offset
          delay,       \* Segment::finalize_delay: "none", "pending" or "due"
          cache,       \* bytes on their way to the disk
          broken,      \* the last background write failed
          disk,        \* the bytes of the file
          position,    \* the read position of the open file
          state,       \* what the scheduler polls for, in `mode`
          mode,        \* "write" or "read"
          done,        \* frames written or read in this attempt
          retries,
          buffer,      \* the frame lent to poll_read
          frames       \* the frames read (history)

segmentVars == <<opening, open, offset, delay>>
fileVars == <<cache, broken, disk, position>>
slotVars == <<state, mode, done, retries, buffer, frames>>
vars == <<segmentVars, fileVars, slotVars>>

FrameBytes(k) == [i \in 1..Block |-> (k - 1) * Block + i]

-----------------------------------------------------------------------------
(* The scheduler after an error: another attempt, or none. *)
Retry ==
    /\ IF retries < MaxRetries
       THEN state' = "Opening" /\ retries' = retries + 1 /\ done' = 0
       ELSE state' = "Failed" /\ UNCHANGED <<retries, done>>
    /\ UNCHANGED <<mode, buffer, frames>>

KeptOffset == offset                            \* mutant: the offset survives
FreshOffset == 0

(* poll_open begins an operation, whose delay makes its first poll pend. *)
StartOpening ==
    /\ state = "Opening" /\ opening = "none"
    /\ opening' = "pending" /\ open' = FALSE /\ offset' = FreshOffset /\ delay' = "none"
    /\ UNCHANGED <<fileVars, slotVars>>

(* The file is created anew for writing, or found for reading. *)
FinishOpening ==
    /\ state = "Opening" /\ opening = "due"
    /\ opening' = "none"
    /\ \/ /\ open' = TRUE
          /\ disk' = IF mode = "write" THEN <<>> ELSE disk
          /\ position' = 0 /\ cache' = <<>> /\ broken' = FALSE
          /\ state' = IF mode = "write" THEN "Writing" ELSE "Reading"
          /\ UNCHANGED <<mode, done, retries, buffer, frames>>
       \/ Retry /\ UNCHANGED <<open, fileVars>>
    /\ UNCHANGED <<offset, delay>>

-----------------------------------------------------------------------------
Settled == open /\ cache = <<>> /\ ~broken

(* The background write of an earlier call has failed. *)
ReportBroken ==
    /\ (state = "Writing" /\ done < Frames) \/ state = "Closing"
    /\ broken
    /\ broken' = FALSE
    /\ Retry
    /\ UNCHANGED <<segmentVars, cache, disk, position>>

NextOffset(count) == IF offset + count = Block THEN 0 ELSE offset + count

(* The file takes some of the bytes left of the frame: poll_write goes on   *)
(* until the frame is through, and waits while the file is busy.            *)
WriteSome ==
    /\ state = "Writing" /\ done < Frames /\ Settled
    /\ \E count \in 1..(Block - offset) :
          /\ cache' = SubSeq(FrameBytes(done + 1), offset + 1, offset + count)
          /\ offset' = NextOffset(count)
          /\ done' = IF offset + count = Block THEN done + 1 ELSE done
    /\ UNCHANGED <<opening, open, delay, broken, disk, position,
                   state, mode, retries, buffer, frames>>

(* A write may fail at once, too. *)
WriteFails ==
    /\ state = "Writing" /\ done < Frames /\ Settled
    /\ Retry
    /\ UNCHANGED <<segmentVars, fileVars>>

AllWritten ==
    /\ state = "Writing" /\ done = Frames
    /\ state' = "Closing"
    /\ UNCHANGED <<segmentVars, fileVars, mode, done, retries, buffer, frames>>

Flushed == Settled

(* poll_close flushes, then waits once for the delay. *)
StartDelay ==
    /\ state = "Closing" /\ Flushed /\ delay = "none"
    /\ delay' = "pending"
    /\ UNCHANGED <<opening, open, offset, fileVars, slotVars>>

FinishClosing ==
    /\ state = "Closing" /\ Flushed /\ delay = "due"
    /\ state' = "Closed"
    /\ UNCHANGED <<segmentVars, fileVars, mode, done, retries, buffer, frames>>

-----------------------------------------------------------------------------
(* Later a new Segment reads the file, which may have been cut meanwhile.   *)
(* Its frame may be new, or a recycled one with old bytes in it.            *)
ReadBack ==
    /\ mode = "write" /\ state = "Closed"
    /\ \E size \in 0..Len(disk) : disk' = SubSeq(disk, 1, size)
    /\ mode' = "read" /\ state' = "Opening" /\ done' = 0 /\ retries' = 0
    /\ buffer' \in {<<>>, FrameBytes(Frames)}
    /\ opening' = "none" /\ open' = FALSE /\ offset' = 0 /\ delay' = "none"
    /\ UNCHANGED <<cache, broken, position, frames>>

Resized == IF offset = 0 /\ Len(buffer) # Block THEN [i \in 1..Block |-> 0] ELSE buffer

FilledUpTo(count) ==
    [i \in 1..Block |-> IF i \in (offset + 1)..(offset + count)
                        THEN disk[position + i - offset] ELSE Resized[i]]

ShortFrame(filled) == filled > 0                \* mutant: what is there is enough
WholeFrame(filled) == filled = Block

(* poll_read goes on until the frame is full, the file has no more at the   *)
(* moment, or it has ended: between frames that is Ok(None), within one an  *)
(* error; the scheduler takes both for an early end, and fails.             *)
ReadSome ==
    /\ state = "Reading" /\ done < Frames
    /\ \E count \in 0..(Block - offset) :
          /\ position + count <= Len(disk)
          /\ buffer' = FilledUpTo(count)
          /\ position' = position + count
          /\ IF WholeFrame(offset + count)
             THEN /\ frames' = Append(frames, buffer') /\ done' = done + 1
                  /\ offset' = 0
                  /\ UNCHANGED <<state, retries>>
             ELSE /\ offset' = offset + count
                  /\ UNCHANGED <<frames, done, retries>>
                  /\ \/ UNCHANGED state
                     \/ position' = Len(disk) /\ state' = "Failed"
    /\ UNCHANGED <<opening, open, delay, cache, broken, disk, mode>>

ReadFails ==
    /\ state = "Reading" /\ done < Frames
    /\ state' = "Failed"
    /\ UNCHANGED <<segmentVars, fileVars, mode, done, retries, buffer, frames>>

-----------------------------------------------------------------------------
(* The runtime: delays elapse, and the background write ends or fails.      *)
Elapse ==
    /\ \/ opening = "pending" /\ opening' = "due" /\ UNCHANGED delay
       \/ delay = "pending" /\ delay' = "due" /\ UNCHANGED opening
    /\ UNCHANGED <<open, offset, fileVars, slotVars>>

WriteBehind ==
    /\ cache # <<>>
    /\ \E count \in 0..Len(cache) :
          /\ disk' = disk \o SubSeq(cache, 1, count)
          /\ broken' = (count < Len(cache))
    /\ cache' = <<>>
    /\ UNCHANGED <<segmentVars, position, slotVars>>

Init ==
    /\ opening = "none" /\ open = FALSE /\ offset = 0 /\ delay = "none"
    /\ cache = <<>> /\ broken = FALSE /\ disk = <<>> /\ position = 0
    /\ state = "Opening" /\ mode = "write" /\ done = 0 /\ retries = 0
    /\ buffer = <<>> /\ frames = <<>>

Next ==
    \/ StartOpening \/ FinishOpening
    \/ ReportBroken \/ WriteSome \/ WriteFails \/ AllWritten \/ StartDelay \/ FinishClosing
    \/ ReadBack \/ ReadSome \/ ReadFails
    \/ Elapse \/ WriteBehind

Spec == Init /\ [][Next]_vars

-----------------------------------------------------------------------------
(* A file whose poll_close succeeded holds every frame of the attempt, and  *)
(* nothing of earlier ones: although the file takes frames in pieces, says  *)
(* late that a write failed, and is written again from the start.           *)
ClosedFileIsWhole ==
    mode = "write" /\ state = "Closed" => disk = [i \in 1..(Frames * Block) |-> i]

(* A frame that poll_read completed has the bytes of its place in the file: *)
(* however the bytes came in, whatever was in the buffer, and never less    *)
(* than a frame of a file that was cut.                                     *)
FramesReadAreExact == \A k \in DOMAIN frames : frames[k] = FrameBytes(k)

=============================================================================
