---------------------------- MODULE UploadProofs ----------------------------
(***************************************************************************)
(* Proofs about Upload for every budget, frame and file size, and length   *)
(* of the stream: what the client does with the scheduler keeps what was   *)
(* proved of the scheduler, and the directory it leaves restores the       *)
(* stream.                                                                 *)
(***************************************************************************)
EXTENDS Upload, WriteSchedulerProofs

ClientTypes ==
    /\ stage \in {"clear", "window", "reading", "writing", "closing", "drop", "meta", "done",
                  "failed"}
    /\ total \in Nat /\ ended \in BOOLEAN /\ meta \in {"none", "old", "new", "cut"}
    /\ slice \in Seq(Nat) /\ buffer \in Seq(Nat)
    /\ blocks \in Seq(Seq(Nat)) /\ stored \in Seq(Seq(Nat))

(* The stage of the transfer and the phase of its scheduler go together. *)
StageFits ==
    /\ stage \in {"clear", "window", "reading", "writing"} => phase = "Writing"
    /\ stage \in {"clear", "window", "reading"} => slice = <<>> /\ ~ended
    /\ stage = "clear" => files = <<>> /\ stored = <<>>
    /\ stage \in {"closing", "drop", "meta", "done"} => ended /\ slice = <<>>
    /\ stage = "closing" => phase \in {"Writing", "Closing"}
    /\ stage = "drop" => phase = "Closing"
    /\ stage \in {"meta", "done"} => phase = "Dropped"
    /\ stage \in {"drop", "meta", "done"} => Len(delivered) = begun
    /\ pc # "idle" => \/ stage = "writing" /\ slice # <<>>
                      \/ stage = "closing" /\ phase = "Closing"
    /\ meta = "new" => stage = "done"
    /\ meta = "old" => stage \in {"clear", "failed"} /\ files = <<>> /\ stored = <<>>

(* The bytes of n frames; the end of what was read, with its padding. *)
Bytes(n) == n * Block
ReadTo == IF ended THEN total + Padding ELSE total

(* Frames made, the partial frame and the slice hold the bytes read so far, *)
(* one after the other.                                                     *)
BytesFit ==
    /\ Len(buffer) < Block
    /\ \A f \in DOMAIN blocks : blocks[f] = [k \in 1..Block |-> Byte(Bytes(f - 1) + k)]
    /\ \A k \in DOMAIN buffer : buffer[k] = Byte(Bytes(Len(blocks)) + k)
    /\ \A k \in DOMAIN slice : slice[k] = Byte(Bytes(Len(blocks)) + Len(buffer) + k)
    /\ Bytes(Len(blocks)) + Len(buffer) + Len(slice) = ReadTo
    /\ buffer # <<>> <=> partial = "some"
    /\ begun = Len(blocks) + (IF buffer = <<>> THEN 0 ELSE 1)

(* The frames before the i-th file. *)
Before(i) == (i - 1) * FramesPerFile

(* The files taken back hold the frames in order; only the very last frame  *)
(* may leave its file short.                                                *)
FilesFit ==
    /\ \A i \in DOMAIN stored :
          /\ Len(stored[i]) \in 1..FramesPerFile
          /\ Len(stored[i]) # FramesPerFile =>
                i = Len(stored) /\ Len(delivered) = begun /\ phase # "Writing"
          /\ \A j \in DOMAIN stored[i] : stored[i][j] = Before(i) + j
    /\ StoredFrames = Len(delivered)

ClientInv == ClientTypes /\ StageFits /\ (stage # "failed" => BytesFit /\ FilesFit)

UploadInv == WriterInv /\ ClientInv

-----------------------------------------------------------------------------
(* Arithmetic. *)
LEMMA UploadConstants ==
    /\ Block \in Nat \ {0} /\ FramesPerFile \in Nat \ {0} /\ FileCapacities = {FramesPerFile}
BY UploadAssumption

LEMMA BytesFacts ==
    ASSUME NEW n \in Nat
    PROVE  /\ Bytes(n) \in Nat /\ Bytes(n + 1) = Bytes(n) + Block /\ Bytes(0) = 0
           /\ \A f \in 1..n : f - 1 \in Nat /\ Bytes(f - 1) \in Nat /\ Bytes(f - 1) + Block <= Bytes(n)
<1>1. Block \in Nat
  BY UploadConstants
<1>2. Bytes(n) \in Nat /\ Bytes(n + 1) = Bytes(n) + Block /\ Bytes(0) = 0
  BY <1>1 DEF Bytes
<1>3. ASSUME NEW f \in 1..n
      PROVE  f - 1 \in Nat /\ Bytes(f - 1) \in Nat /\ Bytes(f - 1) + Block <= Bytes(n)
  <2>1. f - 1 \in Nat /\ f - 1 < n
    OBVIOUS
  <2>2. (f - 1) * Block + Block <= n * Block
    BY <1>1, <2>1, MultiplesGrow
  <2>3. Bytes(f - 1) \in Nat
    BY <1>1, <2>1 DEF Bytes
  <2> QED BY <2>1, <2>2, <2>3 DEF Bytes
<1> QED BY <1>2, <1>3

LEMMA BeforeFacts ==
    ASSUME NEW n \in Nat
    PROVE  /\ Before(n + 1) \in Nat /\ Before(n + 2) = Before(n + 1) + FramesPerFile
           /\ Before(1) = 0
           /\ \A i \in 1..n : Before(i) \in Nat /\ Before(i) + FramesPerFile <= Before(n + 1)
<1>1. FramesPerFile \in Nat
  BY UploadConstants
<1>2. (n + 1) - 1 = n /\ (n + 2) - 1 = n + 1 /\ 1 - 1 = 0
  OBVIOUS
<1>3. /\ Before(n + 1) \in Nat /\ Before(n + 2) = Before(n + 1) + FramesPerFile /\ Before(1) = 0
  <2>1. n * FramesPerFile \in Nat /\ (n + 1) * FramesPerFile = n * FramesPerFile + FramesPerFile
        /\ 0 * FramesPerFile = 0
    BY <1>1
  <2> QED BY <1>2, <2>1 DEF Before
<1>4. ASSUME NEW i \in 1..n
      PROVE  Before(i) \in Nat /\ Before(i) + FramesPerFile <= Before(n + 1)
  <2>1. i - 1 \in Nat /\ i - 1 < n
    OBVIOUS
  <2>2. (i - 1) * FramesPerFile + FramesPerFile <= n * FramesPerFile
    BY <1>1, <2>1, MultiplesGrow
  <2>3. (i - 1) * FramesPerFile \in Nat
    BY <1>1, <2>1
  <2> QED BY <1>2, <2>2, <2>3 DEF Before
<1> QED BY <1>3, <1>4

(* Padding fills the last frame: no more, no less. *)
LEMMA PaddingFacts ==
    ASSUME total \in Nat
    PROVE  /\ Padding \in Nat
           /\ total + Padding = Bytes((total + Block - 1) \div Block)
           /\ (total + Block - 1) \div Block \in Nat
<1> DEFINE q == total \div Block
           r == total % Block
           c == (total + Block - 1) \div Block
<1>1. Block \in Nat \ {0}
  BY UploadConstants
<1>2. q \in Nat /\ r \in 0..(Block - 1) /\ total = q * Block + r
  BY <1>1, SMT
<1>3. c \in Nat /\ c * Block <= total + Block - 1 /\ total + Block - 1 < (c + 1) * Block
  BY <1>1, SMT
<1>4. Padding = IF r = 0 THEN 0 ELSE Block - r
  BY DEF Padding
<1> HIDE DEF q, r, c
<1>5. (q + 1) * Block = q * Block + Block /\ (q + 2) * Block = q * Block + Block + Block
      /\ q * Block \in Nat /\ c * Block \in Nat /\ (c + 1) * Block = c * Block + Block
  BY <1>1, <1>2, <1>3
<1>6. CASE r = 0
  <2>1. q * Block < (c + 1) * Block /\ c * Block < (q + 1) * Block
    BY <1>1, <1>2, <1>3, <1>5, <1>6
  <2>2. q < c + 1 /\ c < q + 1
    BY <1>1, <1>2, <1>3, <2>1, FewerMultiples
  <2>3. c = q
    BY <1>2, <1>3, <2>2
  <2> QED BY <1>2, <1>3, <1>4, <1>5, <1>6, <2>3 DEF Bytes, c
<1>7. CASE r # 0
  <2>1. (q + 1) * Block < (c + 1) * Block /\ c * Block < (q + 2) * Block
    BY <1>1, <1>2, <1>3, <1>5, <1>7
  <2>2. q + 1 < c + 1 /\ c < q + 2
    BY <1>1, <1>2, <1>3, <2>1, FewerMultiples
  <2>3. c = q + 1
    BY <1>2, <1>3, <2>2
  <2> QED BY <1>1, <1>2, <1>3, <1>4, <1>5, <1>7, <2>3 DEF Bytes, c
<1> QED BY <1>6, <1>7

-----------------------------------------------------------------------------
(* Every step of the transfer is one of its scheduler, or leaves that alone. *)
LEMMA UploadMoves ==
    ASSUME [UploadNext]_uploadVars
    PROVE  [Next]_vars
<1>1. FramesPerFile \in FileCapacities
  BY UploadConstants
<1>2. CASE ClearDirectory \/ ReadBytes \/ ReadEnd \/ SocketFails \/ BytesWritten \/ WriteMeta
  BY <1>2 DEF ClearDirectory, ReadBytes, ReadEnd, SocketFails, BytesWritten, WriteMeta
<1>3. CASE FillWindow \/ PollBytes \/ SwapFile \/ PollFilesClosed \/ TakeFile \/ DropWriter
  BY <1>1, <1>3 DEF FillWindow, PollBytes, SwapFile, PollFilesClosed, TakeFile, DropWriter,
                    Calls, Next
<1>4. CASE DriveFiles \/ FillBytes \/ CloseReturns
  BY <1>4 DEF DriveFiles, FillBytes, CloseReturns, Fill, InPoll, Next
<1>5. CASE Surroundings
  BY <1>5 DEF Surroundings, Outside, Next
<1>6. CASE UNCHANGED uploadVars
  BY <1>6 DEF uploadVars
<1> QED BY <1>2, <1>3, <1>4, <1>5, <1>6 DEF UploadNext, Transfer

(* The transfer uses the scheduler as it may be used: whatever was proved   *)
(* of the scheduler holds of the one in the transfer.                       *)
THEOREM UploadDrivesWriter == UploadSpec => Spec
<1>1. UploadInit => Init
  BY DEF UploadInit
<1>2. [UploadNext]_uploadVars => [Next]_vars
  BY UploadMoves
<1> QED BY <1>1, <1>2, PTL DEF UploadSpec, Spec

-----------------------------------------------------------------------------
(* What the scheduler's own moves leave to the client. *)
SchedulerRests == UNCHANGED <<begun, delivered>> /\ (partial' = "some" <=> partial = "some")

LEMMA BytesRest ==
    ASSUME BytesFit, SchedulerRests, UNCHANGED <<slice, total, ended, buffer, blocks>>
    PROVE  BytesFit'
BY DEF BytesFit, SchedulerRests, Byte, ReadTo, Padding

LEMMA FilesRest ==
    ASSUME FilesFit, UNCHANGED <<begun, delivered, stored>>, phase' = "Writing" => phase = "Writing"
    PROVE  FilesFit'
BY DEF FilesFit, StoredFrames

LEMMA ClientFacts ==
    ASSUME UploadInv
    PROVE  /\ WriterInv /\ ClientTypes /\ StageFits
           /\ stage # "failed" => BytesFit /\ FilesFit
           /\ pc \in {"idle", "drive", "driven", "grow", "fill"}
           /\ phase \in {"Writing", "Closing", "Failed", "Dropped"}
           /\ begun \in Nat /\ delivered \in Seq(Nat) /\ Len(delivered) \in Nat
<1>1. WriterInv /\ ClientTypes /\ StageFits /\ (stage # "failed" => BytesFit /\ FilesFit)
  BY DEF UploadInv, ClientInv
<1>2. /\ pc \in {"idle", "drive", "driven", "grow", "fill"}
      /\ phase \in {"Writing", "Closing", "Failed", "Dropped"}
      /\ begun \in 0..MaxFrames /\ delivered \in Seq(1..MaxFrames) /\ MaxFrames \in Nat
  BY <1>1, WriterFacts, WriterAssumption DEF Others
<1>3. delivered \in Seq(Nat)
  <2>1. 1..MaxFrames \subseteq Nat
    OBVIOUS
  <2> QED BY <1>2, <2>1
<1> QED BY <1>1, <1>2, <1>3

LEMMA ClientLengths ==
    ASSUME ClientTypes
    PROVE  /\ Len(blocks) \in Nat /\ Len(buffer) \in Nat /\ Len(slice) \in Nat
           /\ Bytes(Len(blocks)) \in Nat /\ Padding \in Nat
           /\ DOMAIN blocks = 1..Len(blocks) /\ DOMAIN buffer = 1..Len(buffer)
           /\ DOMAIN slice = 1..Len(slice)
<1>1. total \in Nat /\ slice \in Seq(Nat) /\ buffer \in Seq(Nat) /\ blocks \in Seq(Seq(Nat))
  BY DEF ClientTypes
<1>2. /\ Len(blocks) \in Nat /\ Len(buffer) \in Nat /\ Len(slice) \in Nat
      /\ DOMAIN blocks = 1..Len(blocks) /\ DOMAIN buffer = 1..Len(buffer)
      /\ DOMAIN slice = 1..Len(slice)
  BY <1>1
<1> QED BY <1>1, <1>2, BytesFacts, PaddingFacts

(* A step of the scheduler that the client does not see. *)
LEMMA UnseenStepKeeps ==
    ASSUME UploadInv, SchedulerRests, UNCHANGED <<stage, slice, total, ended, buffer, blocks,
                                                 stored, meta, phase>>,
           files = <<>> => files' = <<>> \/ stage = "window", pc' = "idle" \/ pc # "idle"
    PROVE  ClientInv'
<1>1. /\ ClientTypes /\ StageFits /\ (stage # "failed" => BytesFit /\ FilesFit)
  BY ClientFacts
<1>2. ClientTypes'
  BY <1>1 DEF ClientTypes
<1>3. StageFits'
  BY <1>1 DEF StageFits, SchedulerRests
<1>4. ASSUME stage' # "failed" PROVE BytesFit' /\ FilesFit'
  <2>1. BytesFit /\ FilesFit
    BY <1>1, <1>4
  <2> QED BY <2>1, BytesRest, FilesRest DEF SchedulerRests
<1> QED BY <1>2, <1>3, <1>4 DEF ClientInv

(* The stage changes, and the scheduler at most fails or is dropped. *)
LEMMA ClearKeeps == ASSUME UploadInv, ClearDirectory PROVE ClientInv'
<1>1. /\ ClientTypes /\ StageFits /\ (stage # "failed" => BytesFit /\ FilesFit)
  BY ClientFacts
<1>2. /\ stage = "clear" /\ stage' \in {"window", "failed"} /\ meta' \in {"none", meta}
      /\ stage' = "window" => meta' = "none"
      /\ UNCHANGED <<vars, slice, total, ended, buffer, blocks, stored>>
  BY DEF ClearDirectory
<1>3. UNCHANGED <<files, partial, phase, pc, begun, delivered>>
  BY <1>2 DEF vars, schedulerVars, pollVars, outsideVars
<1>4. ClientTypes' /\ StageFits'
  BY <1>1, <1>2, <1>3 DEF ClientTypes, StageFits
<1>5. BytesFit' /\ FilesFit'
  <2>1. BytesFit /\ FilesFit /\ SchedulerRests
    BY <1>1, <1>2, <1>3 DEF SchedulerRests
  <2> QED BY <1>2, <1>3, <2>1, BytesRest, FilesRest
<1> QED BY <1>4, <1>5 DEF ClientInv

LEMMA FillWindowKeeps == ASSUME UploadInv, FillWindow PROVE ClientInv'
<1>1. /\ ClientTypes /\ StageFits /\ (stage # "failed" => BytesFit /\ FilesFit)
  BY ClientFacts
<1>2. /\ stage = "window" /\ stage' \in {"window", "reading"}
      /\ PushFile(FramesPerFile) \/ UNCHANGED vars
      /\ UNCHANGED <<slice, total, ended, buffer, blocks, stored, meta>>
  BY DEF FillWindow
<1>3. UNCHANGED <<partial, phase, pc, begun, delivered>>
  BY <1>2 DEF PushFile, vars, schedulerVars, pollVars, outsideVars
<1>4. ClientTypes' /\ StageFits'
  BY <1>1, <1>2, <1>3 DEF ClientTypes, StageFits
<1>5. BytesFit' /\ FilesFit'
  <2>1. BytesFit /\ FilesFit /\ SchedulerRests
    BY <1>1, <1>2, <1>3 DEF SchedulerRests
  <2> QED BY <1>2, <1>3, <2>1, BytesRest, FilesRest
<1> QED BY <1>4, <1>5 DEF ClientInv

LEMMA ReadBytesKeeps == ASSUME UploadInv, ReadBytes PROVE ClientInv'
<1>1. /\ ClientTypes /\ StageFits /\ (stage # "failed" => BytesFit /\ FilesFit)
  BY ClientFacts
<1>2. PICK count \in 1..Block :
         slice' = [k \in 1..count |-> total + k] /\ total' = total + count
  BY DEF ReadBytes
<1>3. /\ stage = "reading" /\ stage' = "writing"
      /\ UNCHANGED <<vars, ended, buffer, blocks, stored, meta>>
  BY DEF ReadBytes
<1>4. UNCHANGED <<files, partial, phase, pc, begun, delivered>>
  BY <1>3 DEF vars, schedulerVars, pollVars, outsideVars
<1>5. /\ total \in Nat /\ count \in Nat \ {0} /\ Block \in Nat \ {0} /\ Len(blocks) \in Nat
      /\ Len(buffer) \in Nat /\ blocks \in Seq(Seq(Nat)) /\ buffer \in Seq(Nat)
      /\ Bytes(Len(blocks)) \in Nat /\ slice = <<>> /\ ~ended
  <2>1. Len(blocks) \in Nat /\ Len(buffer) \in Nat /\ Bytes(Len(blocks)) \in Nat
    BY <1>1, ClientLengths
  <2> QED BY <1>1, <1>2, <1>3, <2>1, UploadConstants DEF ClientTypes, StageFits
<1>6. slice' \in Seq(Nat) /\ Len(slice') = count /\ \A k \in 1..count : slice'[k] = total + k
  <2>1. \A k \in 1..count : total + k \in Nat
    BY <1>5
  <2> QED BY <1>2, <1>5, <2>1
<1>7. ClientTypes' /\ StageFits'
  <2>1. ClientTypes'
    BY <1>1, <1>2, <1>3, <1>5, <1>6 DEF ClientTypes
  <2>2. slice' # <<>>
    BY <1>5, <1>6
  <2> QED BY <1>1, <1>3, <1>4, <2>1, <2>2 DEF StageFits
<1>8. BytesFit /\ FilesFit
  BY <1>1, <1>3
<1>9. Bytes(Len(blocks)) + Len(buffer) = total
  <2>1. Len(slice) = 0
    BY <1>5
  <2> QED BY <1>5, <1>8, <2>1 DEF BytesFit, ReadTo
<1>10. ASSUME NEW n \in Nat, n <= total PROVE Byte(n)' = Byte(n)
  BY <1>2, <1>5, <1>10 DEF Byte
<1>11. BytesFit'
  <2>1. ASSUME NEW f \in DOMAIN blocks
        PROVE  blocks'[f] = [k \in 1..Block |-> Byte(Bytes(f - 1) + k)']
    <3>1. f \in 1..Len(blocks)
      BY <1>5
    <3>2. Bytes(f - 1) \in Nat /\ Bytes(f - 1) + Block <= Bytes(Len(blocks))
      BY <1>5, <3>1, BytesFacts
    <3>3. \A k \in 1..Block : Bytes(f - 1) + k \in Nat /\ Bytes(f - 1) + k <= total
      BY <1>5, <1>9, <3>2
    <3>4. \A k \in 1..Block : Byte(Bytes(f - 1) + k)' = Byte(Bytes(f - 1) + k)
      BY <1>2, <1>5, <3>3 DEF Byte
    <3>5. blocks[f] = [k \in 1..Block |-> Byte(Bytes(f - 1) + k)]
      BY <1>8 DEF BytesFit
    <3> QED BY <1>3, <3>4, <3>5
  <2>2. ASSUME NEW k \in DOMAIN buffer PROVE buffer'[k] = Byte(Bytes(Len(blocks)) + k)'
    <3>1. buffer[k] = Byte(Bytes(Len(blocks)) + k) /\ k \in Nat /\ k <= Len(buffer)
      BY <1>5, <1>8 DEF BytesFit
    <3> QED BY <1>2, <1>3, <1>5, <1>9, <3>1 DEF Byte
  <2>3. ASSUME NEW k \in 1..count
        PROVE  slice'[k] = Byte(Bytes(Len(blocks)) + Len(buffer) + k)'
    <3>1. Bytes(Len(blocks)) + Len(buffer) + k = total + k /\ total + k <= total + count
      BY <1>5, <1>9, <2>3
    <3>2. slice'[k] = total + k
      BY <1>6
    <3> QED BY <1>2, <1>3, <3>1, <3>2 DEF Byte
  <2>4. DOMAIN slice' = 1..count
    BY <1>2
  <2>5. Bytes(Len(blocks)) + Len(buffer) + count = ReadTo'
    BY <1>2, <1>3, <1>5, <1>9 DEF ReadTo
  <2> QED BY <1>3, <1>4, <1>6, <1>8, <2>1, <2>2, <2>3, <2>4, <2>5 DEF BytesFit
<1>12. FilesFit'
  BY <1>3, <1>4, <1>8, FilesRest
<1> QED BY <1>7, <1>11, <1>12 DEF ClientInv

LEMMA ReadEndKeeps == ASSUME UploadInv, ReadEnd PROVE ClientInv'
<1>1. /\ ClientTypes /\ StageFits /\ (stage # "failed" => BytesFit /\ FilesFit)
  BY ClientFacts
<1>2. /\ stage = "reading" /\ ended' = TRUE /\ slice' = [k \in 1..Padding |-> 0]
      /\ stage' = IF Padding = 0 THEN "closing" ELSE "writing"
      /\ UNCHANGED <<vars, total, buffer, blocks, stored, meta>>
  BY DEF ReadEnd
<1>3. UNCHANGED <<files, partial, phase, pc, begun, delivered>>
  BY <1>2 DEF vars, schedulerVars, pollVars, outsideVars
<1>4. /\ total \in Nat /\ Len(blocks) \in Nat /\ Len(buffer) \in Nat /\ Padding \in Nat
      /\ Bytes(Len(blocks)) \in Nat /\ slice = <<>> /\ ~ended
  BY <1>1, <1>2, ClientLengths DEF ClientTypes, StageFits
<1>5. /\ slice' \in Seq(Nat) /\ Len(slice') = Padding /\ DOMAIN slice' = 1..Padding
      /\ (Padding = 0 => slice' = <<>>) /\ \A k \in 1..Padding : slice'[k] = 0
  BY <1>2, <1>4
<1>6. ClientTypes' /\ StageFits'
  <2>1. ClientTypes'
    BY <1>1, <1>2, <1>5 DEF ClientTypes
  <2> QED BY <1>1, <1>2, <1>3, <1>5, <2>1 DEF StageFits
<1>7. BytesFit /\ FilesFit
  BY <1>1, <1>2
<1>8. Bytes(Len(blocks)) + Len(buffer) = total
  <2>1. Len(slice) = 0
    BY <1>4
  <2> QED BY <1>4, <1>7, <2>1 DEF BytesFit, ReadTo
<1>9. \A n : Byte(n)' = Byte(n)
  BY <1>2 DEF Byte
<1>10. BytesFit'
  <2>1. ASSUME NEW k \in 1..Padding
        PROVE  slice'[k] = Byte(Bytes(Len(blocks)) + Len(buffer) + k)'
    BY <1>2, <1>4, <1>5, <1>8, <2>1 DEF Byte
  <2>2. ReadTo' = total + Padding
    BY <1>2 DEF ReadTo, Padding
  <2>3. Bytes(Len(blocks)) + Len(buffer) + Len(slice') = ReadTo'
    BY <1>4, <1>5, <1>8, <2>2
  <2>4. ASSUME NEW f \in DOMAIN blocks
        PROVE  blocks[f] = [k \in 1..Block |-> Byte(Bytes(f - 1) + k)']
    <3>1. blocks[f] = [k \in 1..Block |-> Byte(Bytes(f - 1) + k)]
      BY <1>7 DEF BytesFit
    <3>2. \A k \in 1..Block : Byte(Bytes(f - 1) + k)' = Byte(Bytes(f - 1) + k)
      BY <1>2 DEF Byte
    <3> QED BY <3>1, <3>2
  <2>5. ASSUME NEW k \in DOMAIN buffer PROVE buffer[k] = Byte(Bytes(Len(blocks)) + k)'
    <3>1. buffer[k] = Byte(Bytes(Len(blocks)) + k)
      BY <1>7 DEF BytesFit
    <3> QED BY <1>2, <3>1 DEF Byte
  <2> QED BY <1>2, <1>3, <1>5, <1>7, <2>1, <2>3, <2>4, <2>5 DEF BytesFit
<1>11. FilesFit'
  BY <1>2, <1>3, <1>7, FilesRest
<1> QED BY <1>6, <1>10, <1>11 DEF ClientInv

LEMMA PollBytesKeeps == ASSUME UploadInv, PollBytes PROVE ClientInv'
<1>1. /\ ClientTypes /\ StageFits /\ (stage # "failed" => BytesFit /\ FilesFit)
  BY ClientFacts
<1>2. /\ stage = "writing" /\ slice # <<>>
      /\ UNCHANGED <<stage, slice, total, ended, buffer, blocks, stored, meta>>
      /\ UNCHANGED <<files, partial, phase, begun, delivered>>
  BY DEF PollBytes, clientVars, PollWrite
<1>3. ClientTypes' /\ StageFits'
  BY <1>1, <1>2 DEF ClientTypes, StageFits
<1>4. BytesFit' /\ FilesFit'
  <2>1. BytesFit /\ FilesFit /\ SchedulerRests
    BY <1>1, <1>2 DEF SchedulerRests
  <2> QED BY <1>2, <2>1, BytesRest, FilesRest
<1> QED BY <1>3, <1>4 DEF ClientInv

(* Driving the files fails the transfer with the scheduler, or changes      *)
(* nothing that the client sees.                                            *)
LEMMA FailStops ==
    ASSUME UploadInv, Fail, stage' = "failed", pc # "idle",
           UNCHANGED <<slice, total, ended, buffer, blocks, stored, meta>>
    PROVE  ClientInv'
<1>1. ClientTypes /\ StageFits
  BY ClientFacts
<1>2. pc' = "idle" /\ files' = <<>>
  BY DEF Fail
<1>3. meta \in {"none", "old", "cut"} /\ meta # "old"
  BY <1>1 DEF ClientTypes, StageFits
<1>4. ClientTypes' /\ StageFits'
  BY <1>1, <1>2, <1>3 DEF ClientTypes, StageFits
<1> QED BY <1>4 DEF ClientInv

LEMMA DriveFilesKeeps == ASSUME UploadInv, DriveFiles PROVE ClientInv'
<1>1. /\ ClientTypes /\ StageFits
      /\ phase \in {"Writing", "Closing", "Failed", "Dropped"} /\ WriterInv
  BY ClientFacts
<1>2. /\ DriveStep \/ Reserve \/ Grow
      /\ stage' = IF phase' = "Failed" THEN "failed" ELSE stage
      /\ UNCHANGED <<slice, total, ended, buffer, blocks, stored, meta>>
  BY DEF DriveFiles, FailedOr
<1>3. pc # "idle" /\ phase \in {"Writing", "Closing"}
  <2>1. pc # "idle"
    BY <1>2 DEF DriveStep, Reserve, Grow
  <2> QED BY <1>1, <2>1, WriterFacts DEF Control, Streaming
<1>4. CASE Fail
  <2>1. stage' = "failed"
    BY <1>2, <1>4 DEF Fail
  <2> QED BY <1>2, <1>3, <1>4, <2>1, FailStops
<1>5. CASE ~Fail
  <2>1. /\ SchedulerRests /\ UNCHANGED phase
        /\ files = <<>> => files' = <<>>
    <3>1. CASE DriveStep
      <4>1. PICK i, result : DriveStepped(i, result)
        BY <1>5, <3>1 DEF DriveStep
      <4>2. /\ files' = [files EXCEPT ![i] = result.slot]
            /\ UNCHANGED <<partial, phase, begun, delivered>>
        BY <4>1 DEF DriveStepped
      <4>3. files # <<>>
        BY <1>1, <3>1, WriterFacts DEF DriveStep, Control
      <4> QED BY <4>2, <4>3 DEF SchedulerRests
    <3>2. CASE Reserve
      BY <1>5, <3>2 DEF Reserve, Allocate, BadAllocation, MayReserve, SchedulerRests,
                        schedulerVars, outsideVars
    <3>3. CASE Grow
      BY <3>3 DEF Grow, SchedulerRests, schedulerVars, outsideVars
    <3> QED BY <1>2, <3>1, <3>2, <3>3
  <2>2. phase' # "Failed" /\ UNCHANGED stage
    BY <1>2, <1>3, <2>1
  <2> QED BY <1>2, <1>3, <2>1, <2>2, UnseenStepKeeps
<1> QED BY <1>4, <1>5

LEMMA BytesWrittenKeeps == ASSUME UploadInv, BytesWritten PROVE ClientInv'
<1>1. /\ ClientTypes /\ StageFits /\ (stage # "failed" => BytesFit /\ FilesFit)
  BY ClientFacts
<1>2. /\ stage = "writing" /\ slice = <<>> /\ stage' = IF ended THEN "closing" ELSE "reading"
      /\ pc = "idle" /\ UNCHANGED <<vars, slice, total, ended, buffer, blocks, stored, meta>>
  BY DEF BytesWritten
<1>3. UNCHANGED <<files, partial, phase, pc, begun, delivered>>
  BY <1>2 DEF vars, schedulerVars, pollVars, outsideVars
<1>4. ClientTypes' /\ StageFits'
  BY <1>1, <1>2, <1>3 DEF ClientTypes, StageFits
<1>5. BytesFit' /\ FilesFit'
  <2>1. BytesFit /\ FilesFit /\ SchedulerRests
    BY <1>1, <1>2, <1>3 DEF SchedulerRests
  <2> QED BY <1>2, <1>3, <2>1, BytesRest, FilesRest
<1> QED BY <1>4, <1>5 DEF ClientInv

-----------------------------------------------------------------------------
(* The partial frame takes bytes of the slice. *)
LEMMA JoinedFront ==
    ASSUME NEW S, NEW a \in Seq(S), NEW b \in Seq(S), NEW t \in 0..Len(b)
    PROVE  /\ a \o SubSeq(b, 1, t) \in Seq(S) /\ Len(a \o SubSeq(b, 1, t)) = Len(a) + t
           /\ \A k \in 1..Len(a) : (a \o SubSeq(b, 1, t))[k] = a[k]
           /\ \A k \in (Len(a) + 1)..(Len(a) + t) : (a \o SubSeq(b, 1, t))[k] = b[k - Len(a)]
OBVIOUS

LEMMA RestAfter ==
    ASSUME NEW S, NEW b \in Seq(S), NEW t \in 0..Len(b)
    PROVE  /\ SubSeq(b, t + 1, Len(b)) \in Seq(S) /\ Len(SubSeq(b, t + 1, Len(b))) = Len(b) - t
           /\ \A k \in 1..(Len(b) - t) : SubSeq(b, t + 1, Len(b))[k] = b[t + k]
OBVIOUS

LEMMA FilledFacts ==
    ASSUME ClientTypes, BytesFit, slice # <<>>
    PROVE  /\ Taken \in 1..Len(slice) /\ Len(buffer) + Taken <= Block
           /\ Filled \in Seq(Nat) /\ Len(Filled) = Len(buffer) + Taken /\ Filled # <<>>
           /\ \A k \in 1..Len(Filled) : Filled[k] = Byte(Bytes(Len(blocks)) + k)
           /\ RestOfSlice(Taken) \in Seq(Nat) /\ Len(RestOfSlice(Taken)) = Len(slice) - Taken
           /\ \A k \in 1..Len(RestOfSlice(Taken)) :
                 RestOfSlice(Taken)[k] = Byte(Bytes(Len(blocks)) + Len(Filled) + k)
<1> DEFINE n == Len(buffer)
           m == Len(slice)
           b == Bytes(Len(blocks))
<1>1. /\ n \in Nat /\ m \in Nat /\ b \in Nat /\ buffer \in Seq(Nat) /\ slice \in Seq(Nat)
      /\ DOMAIN buffer = 1..n /\ DOMAIN slice = 1..m
  BY ClientLengths DEF ClientTypes
<1>2. m # 0 /\ Block \in Nat /\ n < Block
  BY <1>1, UploadConstants DEF BytesFit
<1>3. Taken \in 1..m /\ n + Taken <= Block
  BY <1>1, <1>2 DEF Taken, Least
<1>4. /\ \A k \in 1..n : buffer[k] = Byte(b + k)
      /\ \A k \in 1..m : slice[k] = Byte(b + n + k)
  BY <1>1 DEF BytesFit
<1>5. /\ Filled \in Seq(Nat) /\ Len(Filled) = n + Taken
      /\ \A k \in 1..n : Filled[k] = buffer[k]
      /\ \A k \in (n + 1)..(n + Taken) : Filled[k] = slice[k - n]
  <2>1. Taken \in 0..Len(slice)
    BY <1>3
  <2> HIDE DEF n, m
  <2> QED BY <1>1, <2>1, JoinedFront DEF Filled, n
<1>6. /\ RestOfSlice(Taken) \in Seq(Nat) /\ Len(RestOfSlice(Taken)) = m - Taken
      /\ \A k \in 1..(m - Taken) : RestOfSlice(Taken)[k] = slice[Taken + k]
  <2>1. Taken \in 0..Len(slice)
    BY <1>3
  <2> QED BY <1>1, <2>1, RestAfter DEF RestOfSlice
<1> HIDE DEF n, m, b
<1>7. Filled # <<>>
  BY <1>1, <1>3, <1>5
<1>8. ASSUME NEW k \in 1..(n + Taken) PROVE Filled[k] = Byte(b + k)
  <2>1. CASE k <= n
    BY <1>1, <1>3, <1>4, <1>5, <2>1
  <2>2. CASE k > n
    <3>1. k - n \in 1..m /\ b + n + (k - n) = b + k /\ k \in (n + 1)..(n + Taken)
      BY <1>1, <1>3, <2>2
    <3>2. slice[k - n] = Byte(b + n + (k - n))
      BY <1>4, <3>1
    <3> QED BY <1>5, <3>1, <3>2
  <2> QED BY <1>1, <1>3, <2>1, <2>2
<1>9. ASSUME NEW k \in 1..(m - Taken)
      PROVE  RestOfSlice(Taken)[k] = Byte(b + (n + Taken) + k)
  <2>1. Taken + k \in 1..m /\ b + n + (Taken + k) = b + (n + Taken) + k
    BY <1>1, <1>3
  <2>2. slice[Taken + k] = Byte(b + n + (Taken + k))
    BY <1>4, <2>1
  <2> QED BY <1>6, <2>1, <2>2
<1> QED BY <1>3, <1>5, <1>6, <1>7, <1>8, <1>9 DEF n, m, b

LEMMA OneMore ==
    ASSUME NEW S, NEW q \in Seq(S), NEW x \in S
    PROVE  /\ Append(q, x) \in Seq(S) /\ Len(Append(q, x)) = Len(q) + 1
           /\ DOMAIN Append(q, x) = 1..(Len(q) + 1)
           /\ \A k \in 1..Len(q) : Append(q, x)[k] = q[k]
           /\ Append(q, x)[Len(q) + 1] = x
OBVIOUS

LEMMA FillBytesKeeps == ASSUME UploadInv, FillBytes PROVE ClientInv'
<1>1. /\ ClientTypes /\ StageFits /\ WriterInv /\ begun \in Nat
      /\ stage # "failed" => BytesFit /\ FilesFit
  BY ClientFacts
<1>2. UNCHANGED <<stage, total, ended, stored, meta>>
  BY DEF FillBytes
<1>3. CASE partial = "none"
  <2>1. FillPends /\ UNCHANGED <<buffer, blocks, slice>>
    BY <1>3 DEF FillBytes
  <2>2. /\ UNCHANGED <<files, partial, phase, begun, delivered>> /\ pc' = "idle"
    BY <2>1 DEF FillPends, ReturnReady, ReturnPending
  <2> QED BY <1>2, <2>1, <2>2, UnseenStepKeeps DEF SchedulerRests
<1>4. CASE partial # "none"
  <2>1. /\ FillReady
        /\ partial' = IF IsComplete(Filled) THEN "none" ELSE "some"
        /\ begun' = IF partial = "empty" THEN begun + 1 ELSE begun
        /\ buffer' = IF IsComplete(Filled) THEN <<>> ELSE Filled
        /\ blocks' = IF IsComplete(Filled) THEN Append(blocks, Filled) ELSE blocks
        /\ slice' = RestOfSlice(Taken)
    BY <1>4 DEF FillBytes
  <2>2. pc = "fill" /\ pc' = "idle" /\ UNCHANGED <<phase, delivered>>
    BY <2>1 DEF FillReady, InFill, FillConsumes, Consume, ReturnReady
  <2>3. phase = "Writing" /\ partial \in {"empty", "some"}
    <3>1. partial \in {"none", "empty", "some"} /\ Control
      BY <1>1, WriterFacts DEF WriterTypeOK
    <3> QED BY <1>4, <2>2, <3>1 DEF Control
  <2>4. stage = "writing" /\ slice # <<>> /\ BytesFit /\ FilesFit
    BY <1>1, <2>2, <2>3 DEF StageFits
  <2> DEFINE n == Len(blocks)
             b == Bytes(n)
             whole == Len(Filled) = Block
  <2>5. /\ Taken \in 1..Len(slice) /\ Len(buffer) + Taken <= Block
        /\ Filled \in Seq(Nat) /\ Len(Filled) = Len(buffer) + Taken /\ Filled # <<>>
        /\ \A k \in 1..Len(Filled) : Filled[k] = Byte(b + k)
        /\ slice' \in Seq(Nat) /\ Len(slice') = Len(slice) - Taken
        /\ \A k \in 1..Len(slice') : slice'[k] = Byte(b + Len(Filled) + k)
    BY <1>1, <2>1, <2>4, FilledFacts
  <2>6. /\ n \in Nat /\ b \in Nat /\ Len(buffer) \in Nat /\ Len(slice) \in Nat
        /\ blocks \in Seq(Seq(Nat)) /\ DOMAIN blocks = 1..n /\ Block \in Nat \ {0}
    BY <1>1, ClientLengths, UploadConstants DEF ClientTypes
  <2>7. /\ b + Len(buffer) + Len(slice) = ReadTo /\ ReadTo' = ReadTo /\ \A k : Byte(k)' = Byte(k)
        /\ (buffer # <<>> <=> partial = "some")
        /\ begun = n + (IF buffer = <<>> THEN 0 ELSE 1)
    BY <1>2, <2>4 DEF BytesFit, ReadTo, Padding, Byte
  <2> HIDE DEF n, b
  <2>8. b + Len(Filled) + Len(slice') = ReadTo
    BY <2>5, <2>6, <2>7
  <2>9. begun' = n + 1
    BY <2>1, <2>3, <2>6, <2>7
  <2>10. DOMAIN slice' = 1..Len(slice')
    BY <2>5
  <2>11. \A f \in 1..n : blocks[f] = [k \in 1..Block |-> Byte(Bytes(f - 1) + k)]
    BY <2>4, <2>6 DEF BytesFit, n
  <2>12. ClientTypes' /\ StageFits'
    <3>1. blocks' \in Seq(Seq(Nat)) /\ buffer' \in Seq(Nat)
      <4>1. Append(blocks, Filled) \in Seq(Seq(Nat)) /\ <<>> \in Seq(Nat)
        BY <2>5, <2>6
      <4> QED BY <2>1, <2>5, <2>6, <4>1
    <3>2. ClientTypes'
      BY <1>1, <1>2, <2>5, <3>1 DEF ClientTypes
    <3> QED BY <1>1, <1>2, <2>2, <2>3, <2>4, <3>2 DEF StageFits
  <2>13. FilesFit'
    BY <1>2, <2>2, <2>3, <2>4 DEF FilesFit, StoredFrames
  <2>14. CASE whole
    <3>1. /\ partial' = "none" /\ buffer' = <<>> /\ blocks' = Append(blocks, Filled)
          /\ Len(buffer') = 0 /\ DOMAIN buffer' = {}
      BY <2>1, <2>14 DEF IsComplete
    <3>2. /\ Len(blocks') = n + 1 /\ DOMAIN blocks' = 1..(n + 1) /\ blocks'[n + 1] = Filled
          /\ \A f \in 1..n : blocks'[f] = blocks[f]
      BY <2>5, <2>6, <3>1, OneMore DEF n
    <3>3. Bytes(n + 1) = b + Block /\ (n + 1) - 1 = n
      BY <2>6, BytesFacts DEF b
    <3>4. Filled = [k \in 1..Block |-> Byte(Bytes((n + 1) - 1) + k)]
      <4>1. Filled = [k \in 1..Block |-> Filled[k]]
        BY <2>5, <2>14
      <4>2. \A k \in 1..Block : Filled[k] = Byte(Bytes((n + 1) - 1) + k)
        BY <2>5, <2>14, <3>3 DEF b
      <4> QED BY <4>1, <4>2
    <3>5. ASSUME NEW f \in DOMAIN blocks'
          PROVE  blocks'[f] = [k \in 1..Block |-> Byte(Bytes(f - 1) + k)']
      <4>1. blocks'[f] = [k \in 1..Block |-> Byte(Bytes(f - 1) + k)]
        <5>1. f \in 1..n \/ f = n + 1
          BY <2>6, <3>2
        <5> QED BY <2>11, <3>2, <3>4, <5>1
      <4>2. \A k \in 1..Block : Byte(Bytes(f - 1) + k)' = Byte(Bytes(f - 1) + k)
        BY <2>7
      <4> QED BY <4>1, <4>2
    <3>6. ASSUME NEW k \in DOMAIN slice'
          PROVE  slice'[k] = Byte(Bytes(Len(blocks)) + Len(buffer) + k)'
      <4>1. k \in 1..Len(slice') /\ k \in Nat
        BY <2>10
      <4>3. slice'[k] = Byte(b + Block + k)
        BY <2>5, <2>14, <4>1
      <4>2. b + Block + k = Bytes(Len(blocks')) + Len(buffer') + k
        BY <2>6, <3>1, <3>2, <3>3, <4>1
      <4> QED BY <1>2, <4>2, <4>3 DEF Byte
    <3>7. Bytes(Len(blocks')) + Len(buffer') + Len(slice') = ReadTo'
      <4>1. Bytes(Len(blocks')) = b + Block /\ Len(slice') \in Nat
        BY <2>5, <3>2, <3>3
      <4>2. b + Block + Len(slice') = ReadTo'
        BY <2>7, <2>8, <2>14
      <4> QED BY <2>6, <3>1, <4>1, <4>2
    <3>8. BytesFit'
      BY <2>6, <2>9, <3>1, <3>2, <3>5, <3>6, <3>7 DEF BytesFit
    <3> QED BY <2>12, <2>13, <3>8 DEF ClientInv
  <2>15. CASE ~whole
    <3>1. partial' = "some" /\ buffer' = Filled /\ blocks' = blocks /\ DOMAIN buffer' = 1..Len(Filled)
      BY <2>1, <2>5, <2>15 DEF IsComplete
    <3>2. Len(buffer') < Block
      BY <2>5, <2>6, <2>15, <3>1
    <3>3. ASSUME NEW f \in DOMAIN blocks'
          PROVE  blocks'[f] = [k \in 1..Block |-> Byte(Bytes(f - 1) + k)']
      <4>1. blocks'[f] = [k \in 1..Block |-> Byte(Bytes(f - 1) + k)]
        BY <2>6, <2>11, <3>1
      <4>2. \A k \in 1..Block : Byte(Bytes(f - 1) + k)' = Byte(Bytes(f - 1) + k)
        BY <2>7
      <4> QED BY <4>1, <4>2
    <3>4. ASSUME NEW k \in DOMAIN buffer' PROVE buffer'[k] = Byte(Bytes(Len(blocks)) + k)'
      <4>1. buffer'[k] = Byte(Bytes(Len(blocks)) + k)
        BY <2>5, <3>1 DEF b, n
      <4> QED BY <1>2, <3>1, <4>1 DEF Byte
    <3>5. ASSUME NEW k \in DOMAIN slice'
          PROVE  slice'[k] = Byte(Bytes(Len(blocks)) + Len(buffer) + k)'
      <4>1. slice'[k] = Byte(Bytes(Len(blocks)) + Len(Filled) + k)
        BY <2>5, <2>10 DEF b, n
      <4> QED BY <1>2, <3>1, <4>1 DEF Byte
    <3>6. Bytes(Len(blocks')) + Len(buffer') + Len(slice') = ReadTo'
      BY <2>7, <2>8, <3>1 DEF b, n
    <3>7. begun' = Len(blocks') + (IF buffer' = <<>> THEN 0 ELSE 1) /\ buffer' # <<>>
      BY <2>5, <2>6, <2>9, <3>1 DEF n
    <3>8. BytesFit'
      BY <3>1, <3>2, <3>3, <3>4, <3>5, <3>6, <3>7 DEF BytesFit
    <3> QED BY <2>12, <2>13, <3>8 DEF ClientInv
  <2> QED BY <2>14, <2>15
<1> QED BY <1>3, <1>4

-----------------------------------------------------------------------------
(* The first poll_close finds no bytes in the partial frame: the padding    *)
(* has filled it.                                                           *)
LEMMA NothingPartial ==
    ASSUME ClientTypes, BytesFit, ended, slice = <<>>
    PROVE  /\ buffer = <<>> /\ begun = Len(blocks)
           /\ Len(blocks) = (total + Block - 1) \div Block
<1> DEFINE n == Len(blocks)
           c == (total + Block - 1) \div Block
<1>1. /\ n \in Nat /\ Len(buffer) \in Nat /\ Bytes(n) \in Nat /\ buffer \in Seq(Nat)
      /\ Block \in Nat \ {0} /\ Len(slice) = 0
  BY ClientLengths, UploadConstants DEF ClientTypes
<1>2. c \in Nat /\ total + Padding = Bytes(c)
  BY PaddingFacts DEF ClientTypes
<1>3. /\ Len(buffer) < Block /\ Bytes(n) + Len(buffer) + Len(slice) = total + Padding
      /\ begun = n + (IF buffer = <<>> THEN 0 ELSE 1)
  BY DEF BytesFit, ReadTo
<1> HIDE DEF n, c
<1>4. Bytes(n) + Len(buffer) = Bytes(c)
  BY <1>1, <1>2, <1>3
<1>5. n = c
  <2>1. Bytes(n + 1) = Bytes(n) + Block /\ Bytes(c + 1) = Bytes(c) + Block /\ Bytes(c) \in Nat
    BY <1>1, <1>2, BytesFacts
  <2>2. Bytes(c) < Bytes(n + 1) /\ Bytes(n) < Bytes(c + 1)
    BY <1>1, <1>3, <1>4, <2>1
  <2>3. c < n + 1 /\ n < c + 1
    BY <1>1, <1>2, <2>2, FewerMultiples DEF Bytes
  <2> QED BY <1>1, <1>2, <2>3
<1>6. Len(buffer) = 0
  BY <1>1, <1>4, <1>5
<1>7. buffer = <<>>
  BY <1>1, <1>6
<1> QED BY <1>1, <1>3, <1>5, <1>7 DEF n, c

LEMMA PollFilesClosedKeeps == ASSUME UploadInv, PollFilesClosed PROVE ClientInv'
<1>1. /\ ClientTypes /\ StageFits /\ (stage # "failed" => BytesFit /\ FilesFit)
  BY ClientFacts
<1>2. stage = "closing" /\ UNCHANGED <<stage, slice, total, ended, stored, meta>>
  BY DEF PollFilesClosed
<1>3. /\ ended /\ slice = <<>> /\ BytesFit /\ FilesFit
  BY <1>1, <1>2 DEF StageFits
<1>4. buffer = <<>> /\ begun = Len(blocks)
  BY <1>1, <1>3, NothingPartial
<1>5. partial # "some"
  BY <1>3, <1>4 DEF BytesFit
<1>6. UNCHANGED <<buffer, blocks>>
  BY <1>4 DEF PollFilesClosed
<1>7. phase' = "Closing" /\ partial' # "some" /\ UNCHANGED <<begun, delivered>>
  BY <1>5 DEF PollFilesClosed, StopInput, PollClose
<1>8. ClientTypes' /\ StageFits'
  BY <1>1, <1>2, <1>6, <1>7 DEF ClientTypes, StageFits
<1>9. BytesFit' /\ FilesFit'
  <2>1. SchedulerRests
    BY <1>5, <1>7 DEF SchedulerRests
  <2> QED BY <1>2, <1>3, <1>6, <1>7, <2>1, BytesRest, FilesRest
<1> QED BY <1>8, <1>9 DEF ClientInv

LEMMA CloseReturnsKeeps == ASSUME UploadInv, CloseReturns PROVE ClientInv'
<1>1. /\ ClientTypes /\ StageFits /\ (stage # "failed" => BytesFit /\ FilesFit) /\ WriterInv
  BY ClientFacts
<1>2. /\ pc = "driven" /\ phase = "Closing" /\ pc' = "idle"
      /\ stage' = IF files = <<>> THEN "drop" ELSE stage
      /\ UNCHANGED <<slice, total, ended, buffer, blocks, stored, meta>>
      /\ UNCHANGED <<files, partial, phase, begun, delivered>>
  BY DEF CloseReturns, FinishClose, ReturnReady, ReturnPending
<1>3. stage = "closing"
  BY <1>1, <1>2 DEF StageFits
<1>4. files = <<>> => Len(delivered) = begun
  BY <1>1, <1>2, AllBack
<1>5. ClientTypes' /\ StageFits'
  BY <1>1, <1>2, <1>3, <1>4 DEF ClientTypes, StageFits
<1>6. BytesFit' /\ FilesFit'
  <2>1. BytesFit /\ FilesFit /\ SchedulerRests
    BY <1>1, <1>2, <1>3 DEF SchedulerRests
  <2> QED BY <1>2, <2>1, BytesRest, FilesRest
<1> QED BY <1>5, <1>6 DEF ClientInv

LEMMA DropWriterKeeps == ASSUME UploadInv, DropWriter PROVE ClientInv'
<1>1. /\ ClientTypes /\ StageFits /\ (stage # "failed" => BytesFit /\ FilesFit)
  BY ClientFacts
<1>2. /\ stage \in {"drop", "failed"} /\ stage' = IF stage = "drop" THEN "meta" ELSE stage
      /\ UNCHANGED <<slice, total, ended, buffer, blocks, stored, meta>>
      /\ pc = "idle" /\ pc' = "idle" /\ phase' = "Dropped" /\ files' = <<>> /\ partial' = "none"
      /\ UNCHANGED <<begun, delivered>>
  BY DEF DropWriter, DropScheduler, Idle, pollVars, outsideVars
<1>3. ClientTypes' /\ StageFits'
  BY <1>1, <1>2 DEF ClientTypes, StageFits
<1>4. ASSUME stage # "failed" PROVE BytesFit' /\ FilesFit'
  <2>1. /\ BytesFit /\ FilesFit /\ ended /\ slice = <<>>
    BY <1>1, <1>2, <1>4 DEF StageFits
  <2>2. partial # "some"
    BY <1>1, <2>1, NothingPartial DEF BytesFit
  <2>3. SchedulerRests
    BY <1>2, <2>2 DEF SchedulerRests
  <2> QED BY <1>2, <2>1, <2>3, BytesRest, FilesRest
<1>5. stage' # "failed" => stage # "failed"
  BY <1>2
<1> QED BY <1>3, <1>4, <1>5 DEF ClientInv

LEMMA WriteMetaKeeps == ASSUME UploadInv, WriteMeta PROVE ClientInv'
<1>1. /\ ClientTypes /\ StageFits /\ (stage # "failed" => BytesFit /\ FilesFit)
  BY ClientFacts
<1>2. /\ stage = "meta" /\ UNCHANGED <<vars, slice, total, ended, buffer, blocks, stored>>
      /\ \/ stage' = "done" /\ meta' = "new"
         \/ stage' = "failed" /\ meta' \in {"none", "cut"}
  BY DEF WriteMeta
<1>3. UNCHANGED <<files, partial, phase, pc, begun, delivered>>
  BY <1>2 DEF vars, schedulerVars, pollVars, outsideVars
<1>4. ClientTypes' /\ StageFits'
  BY <1>1, <1>2, <1>3 DEF ClientTypes, StageFits
<1>5. BytesFit' /\ FilesFit'
  <2>1. BytesFit /\ FilesFit /\ SchedulerRests
    BY <1>1, <1>2, <1>3 DEF SchedulerRests
  <2> QED BY <1>2, <1>3, <2>1, BytesRest, FilesRest
<1> QED BY <1>4, <1>5 DEF ClientInv

LEMMA SocketFailsKeeps == ASSUME UploadInv, SocketFails PROVE ClientInv'
<1>1. /\ ClientTypes /\ StageFits
  BY ClientFacts
<1>2. /\ stage = "reading" /\ stage' = "failed"
      /\ UNCHANGED <<vars, slice, total, ended, buffer, blocks, stored, meta>>
  BY DEF SocketFails
<1>3. UNCHANGED <<files, phase, pc, begun, delivered>>
  BY <1>2 DEF vars, schedulerVars, pollVars, outsideVars
<1>4. ClientTypes' /\ StageFits'
  BY <1>1, <1>2, <1>3 DEF ClientTypes, StageFits
<1> QED BY <1>2, <1>4 DEF ClientInv

LEMMA SurroundingsKeep == ASSUME UploadInv, Surroundings \/ UNCHANGED uploadVars PROVE ClientInv'
<1>1. UNCHANGED clientVars
  BY DEF Surroundings, uploadVars
<1>2. /\ UNCHANGED <<partial, phase, pc, begun, delivered>>
      /\ files = <<>> => files' = <<>>
  <2>1. CASE \E i \in DOMAIN files : BackendEvent(i)
    <3>1. files \in Seq(SlotType)
      BY ClientFacts, WriterFacts
    <3>2. files # <<>>
      BY <2>1, <3>1
    <3> QED BY <2>1, <3>2 DEF BackendEvent, pollVars
  <2>2. CASE \/ \E p \in Permits : BudgetThread(p) \/ BudgetWake(p)
             \/ \E p \in Rivals : RivalStep(p)
    BY <2>2 DEF BudgetThread, BudgetWake, RivalStep, BudgetOnly, schedulerVars, pollVars,
                outsideVars
  <2>3. CASE UNCHANGED uploadVars
    BY <2>3 DEF uploadVars, vars, schedulerVars, pollVars, outsideVars
  <2> QED BY <2>1, <2>2, <2>3 DEF Surroundings
<1>3. SchedulerRests
  BY <1>2 DEF SchedulerRests
<1> QED BY <1>1, <1>2, <1>3, UnseenStepKeeps DEF clientVars

-----------------------------------------------------------------------------
(* A file that is taken back continues those before it, which are full. *)
LEMMA FileTaken ==
    ASSUME UploadInv, FilesFit, Streaming, TakeHead, UNCHANGED <<begun, phase>>,
           stored' = Append(stored, Head(files).content)
    PROVE  FilesFit' /\ stored' \in Seq(Seq(Nat))
<1> DEFINE size == Head(files).assigned
           more == Head(files).content
           n == Len(stored)
           d == Len(delivered)
           F == FramesPerFile
<1>1. /\ WriterInv /\ begun \in Nat /\ d \in Nat /\ delivered \in Seq(Nat) /\ ClientTypes
  BY ClientFacts
<1>2. files # <<>> /\ Done(Head(files)) /\ delivered' = delivered \o more
  BY <1>1, TakeHeadFacts
<1>3. PICK over \in BOOLEAN :
         /\ Shape(files, partial, fillIndex, over) /\ over = (phase = "Closing")
         /\ Holds(files, partial, fillIndex, begun, delivered)
  <2>1. CASE phase = "Writing"
    <3>1. FALSE = (phase = "Closing") /\ FALSE \in BOOLEAN
      BY <2>1
    <3> QED BY <1>1, <2>1, <3>1, WriterFacts DEF InOrder
  <2>2. CASE phase = "Closing"
    <3>1. TRUE = (phase = "Closing") /\ TRUE \in BOOLEAN
      BY <2>2
    <3> QED BY <1>1, <2>2, <3>1, WriterFacts DEF InOrder
  <2> QED BY <2>1, <2>2 DEF Streaming
<1>4. /\ size \in Nat \ {0} /\ Head(files).capacity \in FileCapacities
      /\ more = Numbers(d, d + size) /\ d + size <= begun
      /\ size # Head(files).capacity => over /\ d + size = begun
  <2>1. /\ over \in BOOLEAN /\ Shape(files, partial, fillIndex, over)
        /\ Holds(files, partial, fillIndex, begun, delivered)
    BY <1>3
  <2>2. files # <<>> /\ Done(Head(files))
    BY <1>2
  <2> QED BY ONLY <2>1, <2>2, HeadFrames, Zenon
<1>5. F \in Nat \ {0} /\ Head(files).capacity = F
  BY <1>4, UploadConstants
<1>6. size <= F
  <2>1. Sound(Head(files)) /\ Head(files) = files[1]
    BY <1>2, <1>3, TailFacts
  <2> QED BY <1>5, <2>1 DEF Sound
<1>7. n \in Nat /\ stored \in Seq(Seq(Nat)) /\ DOMAIN stored = 1..n
  BY <1>1 DEF ClientTypes
<1>8. ASSUME NEW i \in 1..n PROVE Len(stored[i]) = F
  <2>1. Len(stored[i]) # F => d = begun
    BY <1>7 DEF FilesFit
  <2> QED BY <1>1, <1>4, <2>1
<1> HIDE DEF size, more, d
<1>9. d = Before(n + 1)
  <2>1. StoredFrames = d
    BY DEF FilesFit, d
  <2>2. CASE n = 0
    <3>1. stored = <<>>
      BY <1>7, <2>2
    <3>2. Before(n + 1) = 0
      BY <2>2, BeforeFacts
    <3> QED BY <2>1, <3>1, <3>2 DEF StoredFrames
  <2>3. CASE n # 0
    <3>1. stored # <<>> /\ n \in 1..n
      BY <1>7, <2>3
    <3>2. StoredFrames = Before(n) + F
      BY <1>8, <3>1 DEF StoredFrames, Before
    <3>3. n - 1 \in Nat /\ (n - 1) + 1 = n /\ (n - 1) + 2 = n + 1
      BY <1>7, <2>3
    <3>4. Before(n + 1) = Before(n) + F
      BY <3>3, BeforeFacts
    <3> QED BY <2>1, <3>2, <3>4
  <2> QED BY <2>2, <2>3
<1>10. /\ more \in Seq(Nat) /\ Len(more) = size /\ DOMAIN more = 1..size
       /\ \A j \in 1..size : more[j] = d + j
  <2>1. d \in Nat /\ d + size \in Nat /\ d <= d + size /\ (d + size) - d = size
    BY <1>1, <1>4 DEF d
  <2> QED BY <1>4, <2>1, NumbersFacts
<1>11. /\ stored' \in Seq(Seq(Nat)) /\ Len(stored') = n + 1 /\ DOMAIN stored' = 1..(n + 1)
       /\ \A i \in 1..n : stored'[i] = stored[i]
       /\ stored'[n + 1] = more
  BY <1>7, <1>10, OneMore DEF more
<1>12. Len(delivered') = d + size
  <2>1. Len(delivered \o more) = Len(delivered) + Len(more)
    BY <1>1, <1>10, JoinFacts DEF d
  <2> QED BY <1>2, <1>10, <2>1 DEF d
<1>13. size # F => d + size = begun /\ phase # "Writing"
  BY <1>3, <1>4, <1>5 DEF size
<1>14. ASSUME NEW i \in DOMAIN stored'
       PROVE  /\ Len(stored'[i]) \in 1..F
              /\ Len(stored'[i]) # F => i = Len(stored') /\ Len(delivered') = begun' /\ phase' # "Writing"
              /\ \A j \in DOMAIN stored'[i] : stored'[i][j] = Before(i) + j
  <2>1. CASE i = n + 1
    <3>1. stored'[i] = more
      BY <1>11, <2>1
    <3>2. Len(more) \in 1..F
      BY <1>4, <1>5, <1>6, <1>10 DEF size
    <3>3. \A j \in DOMAIN more : more[j] = Before(i) + j
      BY <1>9, <1>10, <2>1
    <3>4. Len(more) # F => i = Len(stored') /\ Len(delivered') = begun' /\ phase' # "Writing"
      BY <1>10, <1>11, <1>12, <1>13, <2>1
    <3> QED BY <3>1, <3>2, <3>3, <3>4
  <2>2. CASE i \in 1..n
    <3>1. stored'[i] = stored[i] /\ Len(stored[i]) = F /\ i \in DOMAIN stored
      BY <1>7, <1>8, <1>11, <2>2
    <3>2. \A j \in DOMAIN stored[i] : stored[i][j] = Before(i) + j
      BY <3>1 DEF FilesFit
    <3> QED BY <1>5, <3>1, <3>2
  <2>3. i \in 1..n \/ i = n + 1
    BY <1>7, <1>11
  <2> QED BY <2>1, <2>2, <2>3
<1>15. StoredFrames' = Len(delivered')
  <2>1. stored' # <<>>
    <3>1. n + 1 # 0
      BY <1>7
    <3> QED BY <1>11, <3>1
  <2>2. StoredFrames' = (Len(stored') - 1) * FramesPerFile + Len(stored'[Len(stored')])
    BY <2>1 DEF StoredFrames
  <2>3. StoredFrames' = Before(n + 1) + size
    BY <1>10, <1>11, <2>2 DEF Before
  <2> QED BY <1>9, <1>12, <2>3
<1> QED BY <1>11, <1>14, <1>15 DEF FilesFit

LEMMA SwapFileKeeps == ASSUME UploadInv, SwapFile PROVE ClientInv'
<1>1. /\ ClientTypes /\ StageFits /\ (stage # "failed" => BytesFit /\ FilesFit)
  BY ClientFacts
<1>2. /\ stage = "writing" /\ stored' = Append(stored, Head(files).content)
      /\ UNCHANGED <<stage, slice, total, ended, buffer, blocks, meta>>
      /\ phase = "Writing" /\ pc = "idle" /\ TakeHead /\ UNCHANGED <<partial, phase, pc, begun>>
  BY DEF SwapFile, PopSwap, Idle, pollVars
<1>3. BytesFit /\ FilesFit
  BY <1>1, <1>2
<1>4. FilesFit' /\ stored' \in Seq(Seq(Nat))
  BY <1>2, <1>3, FileTaken DEF Streaming
<1>5. BytesFit'
  BY <1>2, <1>3 DEF BytesFit, Byte, ReadTo, Padding
<1>6. ClientTypes' /\ StageFits'
  BY <1>1, <1>2, <1>4 DEF ClientTypes, StageFits
<1> QED BY <1>4, <1>5, <1>6 DEF ClientInv

LEMMA TakeFileKeeps == ASSUME UploadInv, TakeFile PROVE ClientInv'
<1>1. /\ ClientTypes /\ StageFits /\ (stage # "failed" => BytesFit /\ FilesFit)
  BY ClientFacts
<1>2. /\ stage = "closing" /\ stored' = Append(stored, Head(files).content)
      /\ UNCHANGED <<stage, slice, total, ended, buffer, blocks, meta>>
      /\ phase = "Closing" /\ pc = "idle" /\ TakeHead /\ UNCHANGED <<partial, phase, pc, begun>>
  BY DEF TakeFile, PopFile, Idle, pollVars
<1>3. BytesFit /\ FilesFit
  BY <1>1, <1>2
<1>4. FilesFit' /\ stored' \in Seq(Seq(Nat))
  BY <1>2, <1>3, FileTaken DEF Streaming
<1>5. BytesFit'
  BY <1>2, <1>3 DEF BytesFit, Byte, ReadTo, Padding
<1>6. ClientTypes' /\ StageFits'
  BY <1>1, <1>2, <1>4 DEF ClientTypes, StageFits
<1> QED BY <1>4, <1>5, <1>6 DEF ClientInv

-----------------------------------------------------------------------------
LEMMA UploadStart ==
    ASSUME UploadInit
    PROVE  UploadInv
<1>1. /\ Init /\ stage = "clear" /\ meta \in {"none", "old"} /\ slice = <<>> /\ total = 0
      /\ ended = FALSE /\ buffer = <<>> /\ blocks = <<>> /\ stored = <<>>
  BY DEF UploadInit
<1>2. /\ files = <<>> /\ partial = "none" /\ phase = "Writing" /\ pc = "idle" /\ begun = 0
      /\ delivered = <<>>
  BY <1>1 DEF Init, Idle
<1>3. /\ <<>> \in Seq(Nat) /\ <<>> \in Seq(Seq(Nat)) /\ Len(<<>>) = 0 /\ DOMAIN <<>> = {}
  OBVIOUS
<1>4. ClientTypes /\ StageFits
  BY <1>1, <1>2, <1>3 DEF ClientTypes, StageFits
<1>5. BytesFit
  <2>1. Bytes(0) = 0 /\ 0 < Block
    BY BytesFacts, UploadConstants
  <2> QED BY <1>1, <1>2, <1>3, <2>1 DEF BytesFit, ReadTo
<1>6. FilesFit
  BY <1>1, <1>2, <1>3 DEF FilesFit, StoredFrames
<1> QED BY <1>1, <1>4, <1>5, <1>6, WriterStart DEF UploadInv, ClientInv

LEMMA UploadStep ==
    ASSUME UploadInv, [UploadNext]_uploadVars
    PROVE  UploadInv'
<1>1. ClientInv'
  <2>1. CASE ClearDirectory \/ FillWindow \/ ReadEnd \/ ReadBytes \/ SocketFails
    BY <2>1, ClearKeeps, FillWindowKeeps, ReadEndKeeps, ReadBytesKeeps, SocketFailsKeeps
  <2>2. CASE PollBytes \/ DriveFiles \/ FillBytes \/ SwapFile \/ BytesWritten
    BY <2>2, PollBytesKeeps, DriveFilesKeeps, FillBytesKeeps, SwapFileKeeps, BytesWrittenKeeps
  <2>3. CASE PollFilesClosed \/ CloseReturns \/ TakeFile \/ DropWriter \/ WriteMeta
    BY <2>3, PollFilesClosedKeeps, CloseReturnsKeeps, TakeFileKeeps, DropWriterKeeps,
       WriteMetaKeeps
  <2>4. CASE Surroundings \/ UNCHANGED uploadVars
    BY <2>4, SurroundingsKeep
  <2> QED BY <2>1, <2>2, <2>3, <2>4 DEF UploadNext, Transfer
<1>2. WriterInv'
  <2>1. WriterInv /\ [Next]_vars
    BY UploadMoves DEF UploadInv
  <2> QED BY <2>1, WriterStep
<1> QED BY <1>1, <1>2 DEF UploadInv

(* A complete transfer has handed back, in its files, every frame of the    *)
(* stream.                                                                  *)
LEMMA DirectoryRestores ==
    ASSUME UploadInv
    PROVE  MetaTellsTheTruth
<1>1. /\ ClientTypes /\ StageFits /\ (stage # "failed" => BytesFit /\ FilesFit)
  BY ClientFacts
<1>2. ASSUME meta = "new"
      PROVE  /\ \A i \in DOMAIN stored :
                   /\ Len(stored[i]) \in (IF i = Len(stored) THEN 1 ELSE FramesPerFile)..FramesPerFile
                   /\ \A j \in DOMAIN stored[i] :
                         blocks[stored[i][j]] = Piece((i - 1) * FramesPerFile + j)
             /\ StoredFrames = (total + Block - 1) \div Block
  <2> DEFINE n == Len(stored)
             d == Len(delivered)
  <2>1. /\ ended /\ slice = <<>> /\ d = begun /\ BytesFit /\ FilesFit
    BY <1>1, <1>2 DEF StageFits
  <2>2. d = Len(blocks) /\ Len(blocks) = (total + Block - 1) \div Block
    BY <1>1, <2>1, NothingPartial
  <2>3. /\ stored \in Seq(Seq(Nat)) /\ n \in Nat /\ DOMAIN stored = 1..n
        /\ DOMAIN blocks = 1..Len(blocks) /\ FramesPerFile \in Nat \ {0} /\ Len(blocks) \in Nat
    BY <1>1, ClientLengths, UploadConstants DEF ClientTypes
  <2>4. StoredFrames = d
    BY <2>1 DEF FilesFit
  <2> HIDE DEF n, d
  <2>5. ASSUME NEW i \in 1..n
        PROVE  /\ Len(stored[i]) \in (IF i = n THEN 1 ELSE FramesPerFile)..FramesPerFile
               /\ \A j \in 1..Len(stored[i]) :
                     blocks[stored[i][j]] = Piece((i - 1) * FramesPerFile + j)
    <3>1. /\ Len(stored[i]) \in 1..FramesPerFile /\ (Len(stored[i]) # FramesPerFile => i = n)
          /\ \A j \in DOMAIN stored[i] : stored[i][j] = Before(i) + j
      BY <2>1, <2>3 DEF FilesFit, n
    <3>2. stored[i] \in Seq(Nat) /\ DOMAIN stored[i] = 1..Len(stored[i])
      <4>1. stored[i] \in Seq(Nat)
        BY <2>3, ElementOf DEF n
      <4> QED BY <4>1
    <3>3. /\ n - 1 \in Nat /\ (n - 1) + 1 = n /\ n # 0 /\ (i = n \/ i \in 1..(n - 1)) /\ n \in 1..n
      BY <2>3
    <3>4. d = Before(n) + Len(stored[n])
      <4>1. stored # <<>>
        <5>1. Len(stored) # 0
          BY <3>3 DEF n
        <5> QED BY <5>1
      <4> QED BY <2>4, <4>1 DEF StoredFrames, Before, n
    <3>5. Before(i) \in Nat /\ Before(i) + Len(stored[i]) <= d
      <4>1. CASE i = n
        <5>1. Before(n) \in Nat
          <6>1. Before((n - 1) + 1) \in Nat
            BY <3>3, BeforeFacts
          <6> QED BY <3>3, <6>1
        <5> QED BY <3>1, <3>4, <4>1, <5>1
      <4>2. CASE i \in 1..(n - 1)
        <5>1. Before(i) \in Nat /\ Before(i) + FramesPerFile <= Before(n) /\ Before(n) \in Nat
          <6>1. /\ Before((n - 1) + 1) \in Nat /\ Before(i) \in Nat
                /\ Before(i) + FramesPerFile <= Before((n - 1) + 1)
            BY <3>3, <4>2, BeforeFacts
          <6> QED BY <3>3, <6>1
        <5>2. Len(stored[n]) \in Nat
          <6>1. stored[n] \in Seq(Nat)
            BY <2>3, <3>3, ElementOf DEF n
          <6> QED BY <6>1
        <5>3. Len(stored[i]) <= FramesPerFile /\ Len(stored[i]) \in Nat
          BY <2>3, <3>1
        <5> QED BY <2>3, <3>4, <5>1, <5>2, <5>3
      <4> QED BY <3>3, <4>1, <4>2
    <3>6. ASSUME NEW j \in 1..Len(stored[i])
          PROVE  blocks[stored[i][j]] = Piece((i - 1) * FramesPerFile + j)
      <4> DEFINE f == Before(i) + j
      <4>1. f \in 1..Len(blocks) /\ stored[i][j] = f
        <5>1. stored[i][j] = f /\ j \in Nat /\ 1 <= j /\ j <= Len(stored[i])
          BY <3>1, <3>2
        <5>2. /\ Before(i) \in Nat /\ Len(stored[i]) \in Nat /\ Len(blocks) \in Nat
              /\ Before(i) + Len(stored[i]) <= Len(blocks)
          BY <2>2, <2>3, <3>1, <3>5
        <5> QED BY <5>1, <5>2
      <4>2. blocks[f] = [k \in 1..Block |-> Byte(Bytes(f - 1) + k)]
        BY <2>1, <2>3, <4>1 DEF BytesFit
      <4>3. (i - 1) * FramesPerFile + j = f
        BY DEF Before
      <4> HIDE DEF f
      <4>4. Piece(f) = [k \in 1..Block |-> Byte(Bytes(f - 1) + k)]
        BY DEF Piece, Bytes
      <4> QED BY <4>1, <4>2, <4>3, <4>4
    <3> QED BY <2>3, <3>1, <3>6
  <2>6. ASSUME NEW i \in DOMAIN stored
        PROVE  /\ Len(stored[i]) \in (IF i = Len(stored) THEN 1 ELSE FramesPerFile)..FramesPerFile
               /\ \A j \in DOMAIN stored[i] :
                     blocks[stored[i][j]] = Piece((i - 1) * FramesPerFile + j)
    <3>1. i \in 1..n
      BY <2>3
    <3>2. stored[i] \in Seq(Nat)
      BY <2>3, <3>1, ElementOf DEF n
    <3>3. DOMAIN stored[i] = 1..Len(stored[i])
      BY <3>2
    <3> QED BY <2>5, <3>1, <3>3 DEF n
  <2> QED BY <2>2, <2>4, <2>6 DEF d
<1>3. meta = "old" => files = <<>> /\ stored = <<>>
  BY <1>1 DEF StageFits
<1> QED BY <1>2, <1>3 DEF MetaTellsTheTruth

(* A directory with a stream.meta of this transfer restores the stream, for *)
(* every size of frame and file, every length of the stream and every       *)
(* failure of the backend, the socket or the directory on the way.          *)
THEOREM MetaStaysTrue == UploadSpec => []MetaTellsTheTruth
<1>1. UploadInit => UploadInv
  BY UploadStart
<1>2. UploadInv /\ [UploadNext]_uploadVars => UploadInv'
  BY UploadStep
<1>3. UploadInv => MetaTellsTheTruth
  BY DirectoryRestores
<1> QED BY <1>1, <1>2, <1>3, PTL DEF UploadSpec

=============================================================================
