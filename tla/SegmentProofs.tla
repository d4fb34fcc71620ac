---------------------------- MODULE SegmentProofs ----------------------------
(***************************************************************************)
(* Proofs about Segment for every number of frames, every block size and   *)
(* every number of retries.                                                *)
(***************************************************************************)
EXTENDS Segment, TLAPS

SegmentTypes ==
    /\ opening \in {"none", "pending", "due"} /\ delay \in {"none", "pending", "due"}
    /\ offset \in 0..(Block - 1) /\ position \in Nat
    /\ cache \in Seq(Nat) /\ disk \in Seq(Nat) /\ buffer \in Seq(Nat)
    /\ frames \in Seq(Seq(Nat))
    /\ mode \in {"write", "read"} /\ done \in 0..Frames /\ retries \in 0..MaxRetries
    /\ state \in {"Opening", "Writing", "Closing", "Closed", "Reading", "Failed"}

FlagTypes == open \in BOOLEAN /\ broken \in BOOLEAN

(* An attempt starts with no frame and no part of one. *)
FreshAttempt ==
    /\ state = "Opening" => done = 0 /\ frames = <<>>
    /\ opening # "none" => state = "Opening" /\ offset = 0

(* The bytes of the file are those of the stream, on disk and on their way. *)
BytesInPlace ==
    /\ \A i \in 1..Len(disk) : disk[i] = i
    /\ \A i \in 1..Len(cache) : cache[i] = Len(disk) + i

(* What was accepted is on disk or on its way, unless the next call will    *)
(* say that it is not.                                                      *)
AcceptedIsThere ==
    /\ broken => cache = <<>>
    /\ mode = "write" =>
          /\ state \in {"Writing", "Closing", "Closed"} /\ ~broken =>
                Len(disk) + Len(cache) = done * Block + offset
          /\ state \in {"Writing", "Closing", "Closed"} /\ done = Frames => offset = 0
          /\ state \in {"Closing", "Closed"} => done = Frames
          /\ state = "Closed" => cache = <<>> /\ ~broken
          /\ state # "Reading" /\ frames = <<>>

(* The part of a frame that was read is what the file has at its place. *)
ReadIsThere ==
    mode = "read" =>
        /\ cache = <<>> /\ state \notin {"Writing", "Closing", "Closed"}
        /\ Len(frames) = done \/ state # "Reading"
        /\ state = "Reading" =>
              /\ position = done * Block + offset /\ position <= Len(disk)
              /\ offset > 0 => Len(buffer) = Block
              /\ \A i \in 1..offset : buffer[i] = done * Block + i

IInv ==
    /\ SegmentTypes /\ FlagTypes /\ FreshAttempt
    /\ BytesInPlace /\ AcceptedIsThere /\ ReadIsThere
    /\ FramesReadAreExact

-----------------------------------------------------------------------------
(* A frame's bytes. *)
LEMMA FrameBytesType ==
    ASSUME NEW n \in Nat
    PROVE  /\ FrameBytes(n + 1) \in Seq(Nat) /\ Len(FrameBytes(n + 1)) = Block
           /\ \A i \in 1..Block : FrameBytes(n + 1)[i] = n * Block + i
<1>1. Block \in Nat /\ Block > 0
  BY SegmentAssumption
<1>2. n * Block \in Nat /\ (n + 1) - 1 = n
  BY <1>1
<1>3. FrameBytes(n + 1) = [i \in 1..Block |-> n * Block + i]
  BY <1>2 DEF FrameBytes
<1>4. \A i \in 1..Block : n * Block + i \in Nat
  BY <1>1, <1>2
<1> QED BY <1>1, <1>3, <1>4

(* The first state. *)
LEMMA Initially == Init => IInv
<1> SUFFICES ASSUME Init PROVE IInv
  OBVIOUS
<1> USE SegmentAssumption DEF Init
<1>1. SegmentTypes
  BY DEF SegmentTypes
<1>2. FlagTypes
  BY DEF FlagTypes
<1>3. FreshAttempt
  BY DEF FreshAttempt
<1>4. BytesInPlace
  BY DEF BytesInPlace
<1>5. AcceptedIsThere
  BY DEF AcceptedIsThere
<1>6. ReadIsThere
  BY DEF ReadIsThere
<1>7. FramesReadAreExact
  BY DEF FramesReadAreExact
<1> QED BY <1>1, <1>2, <1>3, <1>4, <1>5, <1>6, <1>7 DEF IInv

(* The actions that move no byte: opening, an error, closing, a delay. *)
LEMMA StartOpeningStep == IInv /\ StartOpening => IInv'
<1> SUFFICES ASSUME IInv, StartOpening PROVE IInv'
  OBVIOUS
<1> USE SegmentAssumption DEF IInv, StartOpening, FreshOffset, segmentVars, fileVars, slotVars
<1>1. SegmentTypes'
  BY DEF SegmentTypes
<1>2. FlagTypes'
  BY DEF FlagTypes
<1>3. FreshAttempt'
  BY DEF FreshAttempt
<1>4. BytesInPlace'
  BY DEF BytesInPlace
<1>5. AcceptedIsThere'
  BY DEF AcceptedIsThere
<1>6. ReadIsThere'
  BY DEF ReadIsThere
<1>7. FramesReadAreExact'
  BY DEF FramesReadAreExact
<1> QED BY <1>1, <1>2, <1>3, <1>4, <1>5, <1>6, <1>7 DEF IInv

LEMMA FinishOpeningStep == IInv /\ FinishOpening => IInv'
<1> SUFFICES ASSUME IInv, FinishOpening PROVE IInv'
  OBVIOUS
<1> USE SegmentAssumption DEF IInv, FinishOpening, segmentVars, fileVars, slotVars
<1>1. CASE Retry /\ UNCHANGED <<open, fileVars>>
  <2>1. SegmentTypes'
    BY <1>1 DEF SegmentTypes, Retry
  <2>2. FlagTypes'
    BY <1>1 DEF FlagTypes, Retry
  <2>3. FreshAttempt'
    BY <1>1 DEF FreshAttempt, Retry
  <2>4. BytesInPlace'
    BY <1>1 DEF BytesInPlace, Retry
  <2>5. AcceptedIsThere'
    BY <1>1 DEF AcceptedIsThere, Retry
  <2>6. ReadIsThere'
    BY <1>1 DEF ReadIsThere, Retry
  <2>7. FramesReadAreExact'
    BY <1>1 DEF FramesReadAreExact, Retry
  <2> QED BY <2>1, <2>2, <2>3, <2>4, <2>5, <2>6, <2>7 DEF IInv
<1>2. CASE /\ mode = "write" /\ state' = "Writing" /\ disk' = <<>>
           /\ open' = TRUE /\ position' = 0 /\ cache' = <<>> /\ broken' = FALSE
           /\ opening' = "none" /\ UNCHANGED <<offset, delay, mode, done, retries, buffer, frames>>
  <2>1. SegmentTypes'
    BY <1>2 DEF SegmentTypes
  <2>2. FlagTypes'
    BY <1>2 DEF FlagTypes
  <2>3. FreshAttempt'
    BY <1>2 DEF FreshAttempt
  <2>4. BytesInPlace'
    BY <1>2 DEF BytesInPlace
  <2>5. AcceptedIsThere'
    BY <1>2 DEF SegmentTypes, FreshAttempt, AcceptedIsThere
  <2>6. ReadIsThere'
    BY <1>2 DEF ReadIsThere
  <2>7. FramesReadAreExact'
    BY <1>2 DEF FramesReadAreExact
  <2> QED BY <2>1, <2>2, <2>3, <2>4, <2>5, <2>6, <2>7 DEF IInv
<1>3. CASE /\ mode = "read" /\ state' = "Reading" /\ disk' = disk
           /\ open' = TRUE /\ position' = 0 /\ cache' = <<>> /\ broken' = FALSE
           /\ opening' = "none" /\ UNCHANGED <<offset, delay, mode, done, retries, buffer, frames>>
  <2>1. SegmentTypes'
    BY <1>3 DEF SegmentTypes
  <2>2. FlagTypes'
    BY <1>3 DEF FlagTypes
  <2>3. FreshAttempt'
    BY <1>3 DEF FreshAttempt
  <2>4. BytesInPlace'
    BY <1>3 DEF BytesInPlace
  <2>5. AcceptedIsThere'
    BY <1>3 DEF AcceptedIsThere
  <2>6. ReadIsThere'
    BY <1>3 DEF SegmentTypes, FreshAttempt, ReadIsThere
  <2>7. FramesReadAreExact'
    BY <1>3 DEF FramesReadAreExact
  <2> QED BY <2>1, <2>2, <2>3, <2>4, <2>5, <2>6, <2>7 DEF IInv
<1> QED BY <1>1, <1>2, <1>3 DEF SegmentTypes

LEMMA ReportBrokenStep == IInv /\ ReportBroken => IInv'
<1> SUFFICES ASSUME IInv, ReportBroken PROVE IInv'
  OBVIOUS
<1> USE SegmentAssumption DEF IInv, ReportBroken, Retry, segmentVars, fileVars, slotVars
<1>1. SegmentTypes'
  BY DEF SegmentTypes
<1>2. FlagTypes'
  BY DEF FlagTypes
<1>3. FreshAttempt'
  BY DEF SegmentTypes, FreshAttempt, AcceptedIsThere, ReadIsThere
<1>4. BytesInPlace'
  BY DEF BytesInPlace
<1>5. AcceptedIsThere'
  BY DEF AcceptedIsThere
<1>6. ReadIsThere'
  BY DEF ReadIsThere
<1>7. FramesReadAreExact'
  BY DEF FramesReadAreExact
<1> QED BY <1>1, <1>2, <1>3, <1>4, <1>5, <1>6, <1>7 DEF IInv

LEMMA WriteFailsStep == IInv /\ WriteFails => IInv'
<1> SUFFICES ASSUME IInv, WriteFails PROVE IInv'
  OBVIOUS
<1> USE SegmentAssumption DEF IInv, WriteFails, Retry, Settled, segmentVars, fileVars, slotVars
<1>1. SegmentTypes'
  BY DEF SegmentTypes
<1>2. FlagTypes'
  BY DEF FlagTypes
<1>3. FreshAttempt'
  BY DEF SegmentTypes, FreshAttempt, AcceptedIsThere, ReadIsThere
<1>4. BytesInPlace'
  BY DEF BytesInPlace
<1>5. AcceptedIsThere'
  BY DEF AcceptedIsThere
<1>6. ReadIsThere'
  BY DEF ReadIsThere
<1>7. FramesReadAreExact'
  BY DEF FramesReadAreExact
<1> QED BY <1>1, <1>2, <1>3, <1>4, <1>5, <1>6, <1>7 DEF IInv

LEMMA AllWrittenStep == IInv /\ AllWritten => IInv'
<1> SUFFICES ASSUME IInv, AllWritten PROVE IInv'
  OBVIOUS
<1> USE SegmentAssumption DEF IInv, AllWritten, segmentVars, fileVars, slotVars
<1>1. SegmentTypes'
  BY DEF SegmentTypes
<1>2. FlagTypes'
  BY DEF FlagTypes
<1>3. FreshAttempt'
  BY DEF FreshAttempt
<1>4. BytesInPlace'
  BY DEF BytesInPlace
<1>5. AcceptedIsThere'
  BY DEF AcceptedIsThere
<1>6. ReadIsThere'
  BY DEF ReadIsThere
<1>7. FramesReadAreExact'
  BY DEF FramesReadAreExact
<1> QED BY <1>1, <1>2, <1>3, <1>4, <1>5, <1>6, <1>7 DEF IInv

LEMMA StartDelayStep == IInv /\ StartDelay => IInv'
<1> SUFFICES ASSUME IInv, StartDelay PROVE IInv'
  OBVIOUS
<1> USE SegmentAssumption DEF IInv, StartDelay, segmentVars, fileVars, slotVars
<1>1. SegmentTypes'
  BY DEF SegmentTypes
<1>2. FlagTypes'
  BY DEF FlagTypes
<1>3. FreshAttempt'
  BY DEF FreshAttempt
<1>4. BytesInPlace'
  BY DEF BytesInPlace
<1>5. AcceptedIsThere'
  BY DEF AcceptedIsThere
<1>6. ReadIsThere'
  BY DEF ReadIsThere
<1>7. FramesReadAreExact'
  BY DEF FramesReadAreExact
<1> QED BY <1>1, <1>2, <1>3, <1>4, <1>5, <1>6, <1>7 DEF IInv

LEMMA FinishClosingStep == IInv /\ FinishClosing => IInv'
<1> SUFFICES ASSUME IInv, FinishClosing PROVE IInv'
  OBVIOUS
<1> USE SegmentAssumption DEF IInv, FinishClosing, Flushed, Settled, segmentVars, fileVars, slotVars
<1>1. SegmentTypes'
  BY DEF SegmentTypes
<1>2. FlagTypes'
  BY DEF FlagTypes
<1>3. FreshAttempt'
  BY DEF FreshAttempt
<1>4. BytesInPlace'
  BY DEF BytesInPlace
<1>5. AcceptedIsThere'
  BY DEF AcceptedIsThere
<1>6. ReadIsThere'
  BY DEF ReadIsThere
<1>7. FramesReadAreExact'
  BY DEF FramesReadAreExact
<1> QED BY <1>1, <1>2, <1>3, <1>4, <1>5, <1>6, <1>7 DEF IInv

LEMMA ReadFailsStep == IInv /\ ReadFails => IInv'
<1> SUFFICES ASSUME IInv, ReadFails PROVE IInv'
  OBVIOUS
<1> USE SegmentAssumption DEF IInv, ReadFails, segmentVars, fileVars, slotVars
<1>1. SegmentTypes'
  BY DEF SegmentTypes
<1>2. FlagTypes'
  BY DEF FlagTypes
<1>3. FreshAttempt'
  BY DEF FreshAttempt
<1>4. BytesInPlace'
  BY DEF BytesInPlace
<1>5. AcceptedIsThere'
  BY DEF AcceptedIsThere
<1>6. ReadIsThere'
  BY DEF ReadIsThere
<1>7. FramesReadAreExact'
  BY DEF FramesReadAreExact
<1> QED BY <1>1, <1>2, <1>3, <1>4, <1>5, <1>6, <1>7 DEF IInv

LEMMA ElapseStep == IInv /\ Elapse => IInv'
<1> SUFFICES ASSUME IInv, Elapse PROVE IInv'
  OBVIOUS
<1> USE SegmentAssumption DEF IInv, Elapse, segmentVars, fileVars, slotVars
<1>1. SegmentTypes'
  BY DEF SegmentTypes
<1>2. FlagTypes'
  BY DEF FlagTypes
<1>3. FreshAttempt'
  BY DEF FreshAttempt
<1>4. BytesInPlace'
  BY DEF BytesInPlace
<1>5. AcceptedIsThere'
  BY DEF AcceptedIsThere
<1>6. ReadIsThere'
  BY DEF ReadIsThere
<1>7. FramesReadAreExact'
  BY DEF FramesReadAreExact
<1> QED BY <1>1, <1>2, <1>3, <1>4, <1>5, <1>6, <1>7 DEF IInv

LEMMA StutterStep == IInv /\ UNCHANGED vars => IInv'
<1> SUFFICES ASSUME IInv, UNCHANGED vars PROVE IInv'
  OBVIOUS
<1> USE SegmentAssumption DEF IInv, vars, segmentVars, fileVars, slotVars
<1>1. SegmentTypes'
  BY DEF SegmentTypes
<1>2. FlagTypes'
  BY DEF FlagTypes
<1>3. FreshAttempt'
  BY DEF FreshAttempt
<1>4. BytesInPlace'
  BY DEF BytesInPlace
<1>5. AcceptedIsThere'
  BY DEF AcceptedIsThere
<1>6. ReadIsThere'
  BY DEF ReadIsThere
<1>7. FramesReadAreExact'
  BY DEF FramesReadAreExact
<1> QED BY <1>1, <1>2, <1>3, <1>4, <1>5, <1>6, <1>7 DEF IInv

(* The elements of a sequence that grew by one. *)
LEMMA AppendedElements ==
    ASSUME NEW S, NEW s \in Seq(S), NEW e \in S
    PROVE  \A k \in DOMAIN Append(s, e) :
              \/ k \in DOMAIN s /\ Append(s, e)[k] = s[k]
              \/ k = Len(s) + 1 /\ Append(s, e)[k] = e
OBVIOUS

(* The file takes bytes of the next frame from where the last call ended.   *)
LEMMA WriteSomeStep == IInv /\ WriteSome => IInv'
<1> SUFFICES ASSUME IInv, WriteSome PROVE IInv'
  OBVIOUS
<1> USE SegmentAssumption
<1>1. mode = "write" /\ done \in Nat /\ Len(disk) = done * Block + offset /\ cache = <<>> /\ ~broken
  BY DEF IInv, SegmentTypes, AcceptedIsThere, ReadIsThere, WriteSome, Settled
<1>2. PICK count \in 1..(Block - offset) :
          /\ cache' = SubSeq(FrameBytes(done + 1), offset + 1, offset + count)
          /\ offset' = NextOffset(count)
          /\ done' = IF offset + count = Block THEN done + 1 ELSE done
  BY DEF WriteSome
<1>3. offset \in 0..(Block - 1) /\ Block \in Nat /\ Block > 0
  BY DEF IInv, SegmentTypes
<1>4. /\ FrameBytes(done + 1) \in Seq(Nat) /\ Len(FrameBytes(done + 1)) = Block
      /\ \A i \in 1..Block : FrameBytes(done + 1)[i] = done * Block + i
  BY <1>1, FrameBytesType
<1>5. /\ cache' \in Seq(Nat) /\ Len(cache') = count
      /\ \A i \in 1..count : cache'[i] = FrameBytes(done + 1)[offset + i]
  BY <1>2, <1>3, <1>4
<1>6. \A i \in 1..count : cache'[i] = Len(disk) + i
  <2> SUFFICES ASSUME NEW i \in 1..count PROVE cache'[i] = Len(disk) + i
    OBVIOUS
  <2>1. offset + i \in 1..Block /\ done * Block \in Nat
    BY <1>1, <1>3
  <2>2. cache'[i] = done * Block + (offset + i)
    BY <1>4, <1>5, <2>1
  <2> QED BY <1>1, <1>3, <2>1, <2>2
<1>7. /\ Len(disk) + count = done' * Block + offset'
      /\ offset' \in 0..(Block - 1) /\ done' \in 0..Frames
      /\ done' = Frames => offset' = 0
  <2>1. (done + 1) * Block = done * Block + Block
    BY <1>1, <1>3
  <2>2. done < Frames
    BY DEF WriteSome
  <2>3. CASE offset + count = Block
    BY <1>1, <1>2, <1>3, <2>1, <2>2, <2>3 DEF NextOffset
  <2>4. CASE offset + count # Block
    BY <1>1, <1>2, <1>3, <2>2, <2>4 DEF NextOffset
  <2> QED BY <2>3, <2>4
<1>8. SegmentTypes'
  BY <1>5, <1>7 DEF IInv, SegmentTypes, WriteSome
<1>9. FlagTypes'
  BY DEF IInv, FlagTypes, WriteSome
<1>10. FreshAttempt'
  BY DEF IInv, FreshAttempt, WriteSome
<1>11. BytesInPlace'
  BY <1>5, <1>6 DEF IInv, BytesInPlace, WriteSome
<1>12. AcceptedIsThere'
  BY <1>1, <1>5, <1>7 DEF IInv, AcceptedIsThere, WriteSome
<1>13. ReadIsThere'
  BY <1>1 DEF ReadIsThere, WriteSome
<1>14. FramesReadAreExact'
  BY DEF IInv, FramesReadAreExact, WriteSome
<1> QED BY <1>8, <1>9, <1>10, <1>11, <1>12, <1>13, <1>14 DEF IInv

(* The background write moves some of the bytes, or fails and says so later. *)
LEMMA WriteBehindStep == IInv /\ WriteBehind => IInv'
<1> SUFFICES ASSUME IInv, WriteBehind PROVE IInv'
  OBVIOUS
<1> USE SegmentAssumption
<1>1. mode = "write" /\ ~broken /\ state # "Closed"
  BY DEF IInv, SegmentTypes, AcceptedIsThere, ReadIsThere, WriteBehind
<1>2. PICK count \in 0..Len(cache) :
          /\ disk' = disk \o SubSeq(cache, 1, count)
          /\ broken' = (count < Len(cache))
  BY DEF WriteBehind
<1>3. cache' = <<>> /\ UNCHANGED <<segmentVars, position, slotVars>>
  BY DEF WriteBehind
<1>4. disk \in Seq(Nat) /\ cache \in Seq(Nat)
  BY DEF IInv, SegmentTypes
<1>5. SubSeq(cache, 1, count) \in Seq(Nat) /\ Len(SubSeq(cache, 1, count)) = count
      /\ \A i \in 1..count : SubSeq(cache, 1, count)[i] = cache[i]
  BY <1>2, <1>4
<1>6. disk' \in Seq(Nat) /\ Len(disk') = Len(disk) + count
  BY <1>2, <1>4, <1>5
<1>7. \A i \in 1..Len(disk') : disk'[i] = i
  <2>1. \A i \in 1..Len(disk) : disk[i] = i
    BY DEF IInv, BytesInPlace
  <2>2. \A i \in 1..count : SubSeq(cache, 1, count)[i] = Len(disk) + i
    BY <1>2, <1>4, <1>5 DEF IInv, BytesInPlace
  <2> QED BY <1>2, <1>4, <1>5, <1>6, <2>1, <2>2
<1>8. SegmentTypes'
  BY <1>3, <1>6 DEF IInv, SegmentTypes, segmentVars, slotVars
<1>9. FlagTypes'
  BY <1>2, <1>3 DEF IInv, FlagTypes, segmentVars
<1>10. FreshAttempt'
  BY <1>3 DEF IInv, FreshAttempt, segmentVars, slotVars
<1>11. BytesInPlace'
  BY <1>3, <1>7 DEF BytesInPlace
<1>12. AcceptedIsThere'
  <2>1. CASE count = Len(cache)
    <3>1. ~broken'
      <4>1. ~(count < Len(cache))
        BY <1>4, <2>1
      <4> QED BY <1>2, <4>1
    <3> QED BY <1>1, <1>3, <1>4, <1>6, <2>1, <3>1 DEF IInv, AcceptedIsThere, segmentVars, slotVars
  <2>2. CASE count < Len(cache)
    <3>1. broken'
      BY <1>2, <2>2
    <3> QED BY <1>1, <1>3, <3>1 DEF IInv, AcceptedIsThere, segmentVars, slotVars
  <2> QED BY <1>2, <1>4, <2>1, <2>2
<1>13. ReadIsThere'
  BY <1>1, <1>3 DEF ReadIsThere, slotVars
<1>14. FramesReadAreExact'
  BY <1>3 DEF IInv, FramesReadAreExact, slotVars
<1> QED BY <1>8, <1>9, <1>10, <1>11, <1>12, <1>13, <1>14 DEF IInv

(* A closed file is read later, perhaps shorter. *)
LEMMA ReadBackStep == IInv /\ ReadBack => IInv'
<1> SUFFICES ASSUME IInv, ReadBack PROVE IInv'
  OBVIOUS
<1> USE SegmentAssumption
<1>1. cache = <<>> /\ ~broken /\ frames = <<>>
  BY DEF IInv, AcceptedIsThere, ReadBack
<1>2. PICK size \in 0..Len(disk) : disk' = SubSeq(disk, 1, size)
  BY DEF ReadBack
<1>3. disk' \in Seq(Nat) /\ Len(disk') = size /\ \A i \in 1..size : disk'[i] = i
  BY <1>2 DEF IInv, SegmentTypes, BytesInPlace
<1>4. buffer' \in Seq(Nat)
  <2>1. Frames - 1 \in Nat /\ (Frames - 1) + 1 = Frames
    OBVIOUS
  <2>2. FrameBytes((Frames - 1) + 1) \in Seq(Nat)
    BY <2>1, FrameBytesType
  <2>3. FrameBytes(Frames) \in Seq(Nat)
    BY <2>1, <2>2
  <2>4. buffer' = <<>> \/ buffer' = FrameBytes(Frames)
    BY DEF ReadBack
  <2>5. <<>> \in Seq(Nat)
    OBVIOUS
  <2> QED BY <2>3, <2>4, <2>5
<1>5. SegmentTypes'
  <2>1. /\ mode' = "read" /\ state' = "Opening" /\ done' = 0 /\ retries' = 0
        /\ opening' = "none" /\ offset' = 0 /\ delay' = "none"
        /\ UNCHANGED <<cache, position, frames>>
    BY DEF ReadBack
  <2> QED BY <1>3, <1>4, <2>1 DEF IInv, SegmentTypes
<1>6. FlagTypes'
  BY DEF IInv, FlagTypes, ReadBack
<1>7. FreshAttempt'
  BY <1>1 DEF FreshAttempt, ReadBack
<1>8. BytesInPlace'
  BY <1>1, <1>3 DEF BytesInPlace, ReadBack
<1>9. AcceptedIsThere'
  BY <1>1 DEF AcceptedIsThere, ReadBack
<1>10. ReadIsThere'
  BY <1>1 DEF ReadIsThere, ReadBack
<1>11. FramesReadAreExact'
  BY <1>1 DEF FramesReadAreExact, ReadBack
<1> QED BY <1>5, <1>6, <1>7, <1>8, <1>9, <1>10, <1>11 DEF IInv

(* What a read puts into the buffer is what the file has at its place. *)
LEMMA FilledIsExact ==
    ASSUME IInv, state = "Reading", NEW count \in 0..(Block - offset),
           position + count <= Len(disk)
    PROVE  /\ FilledUpTo(count) \in Seq(Nat) /\ Len(FilledUpTo(count)) = Block
           /\ \A i \in 1..(offset + count) : FilledUpTo(count)[i] = done * Block + i
<1> USE SegmentAssumption
<1>1. /\ done \in Nat /\ offset \in 0..(Block - 1) /\ Block \in Nat /\ position \in Nat
      /\ disk \in Seq(Nat) /\ buffer \in Seq(Nat)
  BY DEF IInv, SegmentTypes
<1>2. mode = "read"
  BY DEF IInv, SegmentTypes, AcceptedIsThere
<1>3. /\ position = done * Block + offset
      /\ offset > 0 => Len(buffer) = Block
      /\ \A i \in 1..offset : buffer[i] = done * Block + i
  BY <1>2 DEF IInv, ReadIsThere
<1>4. done * Block \in Nat
  BY <1>1
<1>5. Resized \in [1..Block -> Nat] /\ (offset > 0 => Resized = buffer)
  <2>1. CASE offset = 0 /\ Len(buffer) # Block
    BY <1>1, <2>1 DEF Resized
  <2>2. CASE ~(offset = 0 /\ Len(buffer) # Block)
    BY <1>1, <1>3, <2>2 DEF Resized
  <2> QED BY <2>1, <2>2
<1>6. \A i \in 1..Block : i \in (offset + 1)..(offset + count) =>
          disk[position + i - offset] = done * Block + i
  <2> SUFFICES ASSUME NEW i \in (offset + 1)..(offset + count)
               PROVE  disk[position + i - offset] = done * Block + i
    OBVIOUS
  <2>1. position + i - offset \in 1..Len(disk)
    BY <1>1
  <2>2. disk[position + i - offset] = position + i - offset
    BY <2>1 DEF IInv, BytesInPlace
  <2> QED BY <1>1, <1>3, <1>4, <2>2
<1>7. FilledUpTo(count) \in [1..Block -> Nat]
  BY <1>1, <1>4, <1>5, <1>6 DEF FilledUpTo
<1>8. \A i \in 1..(offset + count) : FilledUpTo(count)[i] = done * Block + i
  BY <1>1, <1>3, <1>5, <1>6 DEF FilledUpTo
<1> QED BY <1>1, <1>7, <1>8

(* A read leaves part of a frame, or completes one. *)
LEMMA ReadSomeStep == IInv /\ ReadSome => IInv'
<1> SUFFICES ASSUME IInv, ReadSome PROVE IInv'
  OBVIOUS
<1> USE SegmentAssumption
<1>1. /\ done \in Nat /\ done < Frames /\ offset \in 0..(Block - 1)
      /\ Block \in Nat /\ position \in Nat /\ done * Block \in Nat
  BY DEF IInv, SegmentTypes, ReadSome
<1>2. mode = "read" /\ state = "Reading"
  BY DEF IInv, SegmentTypes, AcceptedIsThere, ReadSome
<1>3. position = done * Block + offset /\ Len(frames) = done /\ cache = <<>>
  BY <1>2 DEF IInv, ReadIsThere
<1>4. PICK count \in 0..(Block - offset) :
          /\ position + count <= Len(disk)
          /\ buffer' = FilledUpTo(count)
          /\ position' = position + count
          /\ IF WholeFrame(offset + count)
             THEN /\ frames' = Append(frames, buffer') /\ done' = done + 1
                  /\ offset' = 0
                  /\ UNCHANGED <<state, retries>>
             ELSE /\ offset' = offset + count
                  /\ UNCHANGED <<frames, done, retries>>
                  /\ \/ UNCHANGED state
                     \/ position' = Len(disk) /\ state' = "Failed"
  BY DEF ReadSome
<1>5. UNCHANGED <<opening, open, delay, cache, broken, disk, mode>>
  BY DEF ReadSome
<1>6. /\ buffer' \in Seq(Nat) /\ Len(buffer') = Block
      /\ \A i \in 1..(offset + count) : buffer'[i] = done * Block + i
  BY <1>2, <1>4, FilledIsExact
<1>7. position' \in Nat /\ position' <= Len(disk')
  BY <1>1, <1>4, <1>5
<1>8. FlagTypes'
  BY <1>5 DEF IInv, FlagTypes
<1>9. BytesInPlace'
  BY <1>5 DEF IInv, BytesInPlace
<1>10. CASE WholeFrame(offset + count)
  <2>1. /\ frames' = Append(frames, buffer') /\ done' = done + 1 /\ offset' = 0
        /\ UNCHANGED <<state, retries>>
    BY <1>4, <1>10
  <2>2. SegmentTypes'
    BY <1>1, <1>5, <1>6, <1>7, <2>1 DEF IInv, SegmentTypes
  <2>3. FreshAttempt'
    BY <1>2, <1>5, <2>1 DEF IInv, FreshAttempt
  <2>4. AcceptedIsThere'
    BY <1>2, <1>3, <1>5 DEF AcceptedIsThere
  <2>5. position' = done' * Block + offset'
    <3>1. (done + 1) * Block = done * Block + Block
      BY <1>1
    <3> QED BY <1>1, <1>3, <1>4, <1>10, <2>1, <3>1 DEF WholeFrame
  <2>6. ReadIsThere'
    <3>1. Len(frames') = done'
      BY <1>3, <1>6, <2>1 DEF IInv, SegmentTypes
    <3> QED BY <1>2, <1>3, <1>5, <1>7, <2>1, <2>5, <3>1 DEF ReadIsThere
  <2>7. FramesReadAreExact'
    <3>1. /\ FrameBytes(done + 1) \in Seq(Nat) /\ Len(FrameBytes(done + 1)) = Block
          /\ \A i \in 1..Block : FrameBytes(done + 1)[i] = done * Block + i
      BY <1>1, FrameBytesType
    <3>2. buffer' = FrameBytes(done + 1)
      <4>1. /\ buffer' \in [1..Block -> Nat]
            /\ \A i \in 1..Block : buffer'[i] = done * Block + i
        BY <1>1, <1>6, <1>10 DEF WholeFrame
      <4>2. FrameBytes(done + 1) \in [1..Block -> Nat]
        BY <1>1, <3>1
      <4> QED BY <3>1, <4>1, <4>2
    <3>3. \A k \in DOMAIN frames' :
              \/ k \in DOMAIN frames /\ frames'[k] = frames[k]
              \/ k = done + 1 /\ frames'[k] = buffer'
      <4>1. frames \in Seq(Seq(Nat)) /\ buffer' \in Seq(Nat)
        BY <1>6 DEF IInv, SegmentTypes
      <4> QED BY <1>3, <2>1, <4>1, AppendedElements
    <3> QED BY <3>2, <3>3 DEF IInv, FramesReadAreExact
  <2> QED BY <1>8, <1>9, <2>2, <2>3, <2>4, <2>6, <2>7 DEF IInv
<1>11. CASE ~WholeFrame(offset + count)
  <2>1. /\ offset' = offset + count /\ UNCHANGED <<frames, done, retries>>
        /\ state' \in {"Reading", "Failed"}
    BY <1>2, <1>4, <1>11
  <2>2. SegmentTypes'
    BY <1>1, <1>4, <1>5, <1>6, <1>7, <1>11, <2>1 DEF IInv, SegmentTypes, WholeFrame
  <2>3. FreshAttempt'
    BY <1>2, <1>5, <2>1 DEF IInv, FreshAttempt
  <2>4. AcceptedIsThere'
    BY <1>2, <1>3, <1>5 DEF AcceptedIsThere
  <2>5. ReadIsThere'
    BY <1>1, <1>2, <1>3, <1>4, <1>5, <1>6, <1>7, <2>1 DEF ReadIsThere
  <2>6. FramesReadAreExact'
    BY <2>1 DEF IInv, FramesReadAreExact
  <2> QED BY <1>8, <1>9, <2>2, <2>3, <2>4, <2>5, <2>6 DEF IInv
<1> QED BY <1>10, <1>11

-----------------------------------------------------------------------------
(* The invariant holds in every state. *)
LEMMA Inductive == Spec => []IInv
<1>1. IInv /\ [Next]_vars => IInv'
  BY StartOpeningStep, FinishOpeningStep, ReportBrokenStep, WriteSomeStep, WriteFailsStep,
     AllWrittenStep, StartDelayStep, FinishClosingStep, ReadBackStep, ReadSomeStep,
     ReadFailsStep, ElapseStep, WriteBehindStep, StutterStep DEF Next
<1> QED BY Initially, <1>1, PTL DEF Spec

(* A file whose poll_close succeeded holds every frame of its last attempt, *)
(* whole and in order, for every number of frames and retries and every     *)
(* BLOCK: what the next open would not find was reported before.            *)
THEOREM ClosedFiles == Spec => []ClosedFileIsWhole
<1>1. IInv => ClosedFileIsWhole
  <2> SUFFICES ASSUME IInv, mode = "write", state = "Closed"
               PROVE  disk = [i \in 1..(Frames * Block) |-> i]
    BY DEF ClosedFileIsWhole
  <2>1. done = Frames /\ offset = 0 /\ cache = <<>> /\ ~broken
    BY DEF IInv, AcceptedIsThere
  <2>2. Frames \in Nat /\ Block \in Nat /\ Frames * Block \in Nat
    BY SegmentAssumption
  <2>3. disk \in Seq(Nat) /\ Len(disk) = Frames * Block
    BY <2>1, <2>2 DEF IInv, SegmentTypes, AcceptedIsThere
  <2> QED BY <2>2, <2>3 DEF IInv, BytesInPlace
<1> QED BY Inductive, <1>1, PTL

(* A frame that poll_read completed has the bytes of its place in the file, *)
(* for every BLOCK: however the reads divide the frame, however the file    *)
(* was cut, and whatever a recycled buffer held.                            *)
THEOREM FramesExact == Spec => []FramesReadAreExact
<1>1. IInv => FramesReadAreExact
  BY DEF IInv
<1> QED BY Inductive, <1>1, PTL

=============================================================================
