--------------------------- MODULE DownloadProofs ---------------------------
(***************************************************************************)
(* Proofs about Download for every size of frame and file, every directory, *)
(* stream.meta, budget and window, and every failure on the way.            *)
(***************************************************************************)
EXTENDS Download, ReadSchedulerProofs, FiniteSetTheorems

(* The directory was listed, and is what an upload leaves. *)
Listed == stage \notin {"meta", "list", "failed"}

ClientTypes ==
    /\ DOMAIN directory \subseteq Names /\ \A name \in DOMAIN directory : directory[name] \in Nat
    /\ meta \in Nat \cup {NoMeta}
    /\ stage \in {"meta", "list", "await", "admit", "read", "retry", "send", "shutdown",
                  "done", "failed"}
    /\ queue \in Seq(DOMAIN directory) /\ admitted \in Seq(AllBlocks)
    /\ remaining \in Nat /\ sent \in Seq([block: AllBlocks, length: Nat])

(* What each stage has done. *)
StageFits ==
    /\ stage \in {"meta", "list"} => queue = <<>> /\ admitted = <<>> /\ sent = <<>> /\ ~closed
    /\ stage \notin {"meta", "failed"} =>
          meta \in Nat /\ remaining = Less(meta, Len(sent) * Block)
    /\ Listed =>
          /\ \A name \in DOMAIN directory : ValidSize(directory[name])
          /\ Cardinality(AllBlocks) = (meta + Block - 1) \div Block
    /\ pc # "idle" => \/ call = "read" /\ stage = "read"
                      \/ call = "progress" /\ stage = "send"
    /\ closed => queue = <<>>
    /\ stage \in {"read", "retry"} /\ queue = <<>> => closed
    /\ reports > 0 => stage = "failed"
    /\ stage \in {"shutdown", "done"} => Len(output) = declared /\ queue = <<>>

(* The blocks admitted are the first of the stream, as many as the files    *)
(* declared, and the files to admit hold the others.                        *)
Follows(blocks) ==
    \A k \in DOMAIN blocks :
        {block \in AllBlocks : Earlier(block, blocks[k])} = {blocks[j] : j \in 1..(k - 1)}

AdmittedFit ==
    /\ Len(admitted) = declared
    /\ Follows(admitted)

QueueFits ==
    /\ SortedByName(queue)
    /\ \A i \in DOMAIN queue : \A k \in DOMAIN admitted : admitted[k][1] < queue[i]
    /\ Listed => \A block \in AllBlocks :
          \/ \E k \in DOMAIN admitted : admitted[k] = block
          \/ \E i \in DOMAIN queue : queue[i] = block[1]

(* What was sent: the frames that the reader handed out, but for the one    *)
(* that is being sent.                                                      *)
CutAt(k) == IF k * Block <= meta THEN Block ELSE meta % Block

SentFits ==
    /\ Len(sent) <= Len(output)
    /\ Listed => Len(output) = Len(sent) + (IF stage = "send" THEN 1 ELSE 0)
    /\ \A k \in DOMAIN sent : sent[k].block = admitted[k] /\ sent[k].length = CutAt(k)

ClientInv == ClientTypes /\ StageFits /\ AdmittedFit /\ QueueFits /\ SentFits

DownloadInv == ReaderInv /\ CallerHas /\ ClientInv

-----------------------------------------------------------------------------
(* Sizes and counts. *)
LEMMA DownloadConstants ==
    /\ Block \in Nat \ {0} /\ FramesPerFile \in Nat \ {0} /\ NoMeta \notin Nat
    /\ Names \subseteq Nat /\ IsFiniteSet(Names)
    /\ 1..FramesPerFile \subseteq FrameCounts
BY DownloadAssumption

(* A segment of a valid size has a block, and no more than a file takes. *)
LEMMA ValidBlocks ==
    ASSUME NEW size \in Nat, ValidSize(size)
    PROVE  size \div Block \in 1..FramesPerFile
<1> DEFINE q == size \div Block
<1>1. Block \in Nat \ {0} /\ FramesPerFile \in Nat
  BY DownloadConstants
<1>2. size > 0 /\ size % Block = 0 /\ size <= FramesPerFile * Block
  BY DEF ValidSize
<1>3. q \in Int /\ size = q * Block + (size % Block)
  BY <1>1
<1>4. q \in Nat
  BY <1>1
<1> HIDE DEF q
<1>5. size = q * Block
  <2>1. q * Block \in Nat
    BY <1>1, <1>4
  <2> QED BY <1>2, <1>3, <2>1
<1>6. q # 0
  <2>1. 0 * Block = 0
    BY <1>1
  <2> QED BY <1>2, <1>5, <2>1
<1>7. ~(FramesPerFile < q)
  <2>1. FramesPerFile < q => FramesPerFile * Block + Block <= q * Block
    BY <1>1, <1>4, MultiplesGrow
  <2>2. FramesPerFile * Block \in Nat
    BY <1>1
  <2> QED BY <1>1, <1>2, <1>5, <2>1, <2>2
<1>8. q \in 1..FramesPerFile
  BY <1>1, <1>4, <1>6, <1>7
<1> QED BY <1>8 DEF q

(* A block of a stream that has one begins before its end. *)
LEMMA BlockOfStream ==
    ASSUME NEW m \in Nat, NEW k \in Nat \ {0}, k <= (m + Block - 1) \div Block
    PROVE  /\ (k - 1) * Block \in Nat /\ (k - 1) * Block < m
           /\ k * Block = (k - 1) * Block + Block
           /\ k * Block > m => m % Block = m - (k - 1) * Block
<1> DEFINE q == (m + Block - 1) \div Block
           before == (k - 1) * Block
<1>1. Block \in Nat \ {0}
  BY DownloadConstants
<1>2. q \in Int /\ m + Block - 1 \in Nat /\ q * Block <= m + Block - 1
  <2>1. m + Block - 1 \in Nat
    BY <1>1
  <2>2. /\ m + Block - 1 = q * Block + ((m + Block - 1) % Block) /\ q \in Int
        /\ (m + Block - 1) % Block \in 0..(Block - 1)
    BY <1>1, <2>1
  <2>3. q * Block \in Int
    BY <1>1, <2>2
  <2> HIDE DEF q
  <2> QED BY <1>1, <2>1, <2>2, <2>3
<1>3. k <= q
  OBVIOUS
<1> HIDE DEF q
<1>4. k - 1 \in Nat /\ k - 1 < q /\ q \in Nat /\ (k - 1) + 1 = k
  BY <1>2, <1>3
<1>5. before \in Nat /\ before + Block <= q * Block /\ k * Block = before + Block
  <2>1. before \in Nat
    BY <1>1, <1>4
  <2>2. before + Block <= q * Block /\ ((k - 1) + 1) * Block = before + Block
    BY <1>1, <1>4, MultiplesGrow
  <2> QED BY <1>4, <2>1, <2>2
<1>6. before < m
  <2>1. q * Block \in Nat
    BY <1>1, <1>4
  <2> HIDE DEF before
  <2> QED BY <1>1, <1>2, <1>5, <2>1
<1>7. ASSUME k * Block > m
      PROVE  m % Block = m - before
  <2>1. m - before \in 0..(Block - 1) /\ m = (k - 1) * Block + (m - before)
    <3>1. m < before + Block
      BY <1>5, <1>7
    <3>2. (k - 1) * Block = before
      OBVIOUS
    <3> HIDE DEF before
    <3> QED BY <1>1, <1>5, <1>6, <3>1, <3>2
  <2>2. m \in Int /\ k - 1 \in Int
    OBVIOUS
  <2> HIDE DEF before
  <2> QED BY <1>1, <2>1, <2>2, WrapOf
<1> QED BY <1>5, <1>6, <1>7

-----------------------------------------------------------------------------
(* Blocks. *)
LEMMA BlockFacts ==
    ASSUME ClientTypes, NEW block \in AllBlocks
    PROVE  /\ block = <<block[1], block[2]>>
           /\ block[1] \in DOMAIN directory /\ block[1] \in Nat
           /\ block[2] \in Nat /\ 1 <= block[2] /\ block[2] <= Blocks(block[1])
<1>1. block \in (DOMAIN directory) \X (1..FramesPerFile) /\ block[2] <= Blocks(block[1])
  BY DEF AllBlocks
<1>2. /\ block = <<block[1], block[2]>> /\ block[1] \in DOMAIN directory
      /\ block[2] \in 1..FramesPerFile
  BY <1>1
<1>3. block[1] \in Nat
  <2>1. DOMAIN directory \subseteq Names
    BY DEF ClientTypes
  <2>2. Names \subseteq Nat
    BY DownloadConstants
  <2> QED BY <1>2, <2>1, <2>2
<1>4. block[2] \in Nat /\ 1 <= block[2]
  <2>1. FramesPerFile \in Nat
    BY DownloadConstants
  <2> QED BY <1>2, <2>1
<1> QED BY <1>1, <1>2, <1>3, <1>4

LEMMA SameBlocks ==
    ASSUME UNCHANGED directory
    PROVE  AllBlocks' = AllBlocks /\ \A name : Blocks(name)' = Blocks(name)
BY DEF AllBlocks, Blocks

LEMMA FinitelyManyBlocks ==
    ASSUME ClientTypes
    PROVE  IsFiniteSet(DOMAIN directory) /\ IsFiniteSet(AllBlocks)
<1>1. IsFiniteSet(DOMAIN directory)
  <2>1. DOMAIN directory \in SUBSET Names /\ IsFiniteSet(Names)
    BY DownloadConstants DEF ClientTypes
  <2> QED BY <2>1, FS_Subset
<1>2. IsFiniteSet(1..FramesPerFile)
  <2>1. 1 \in Int /\ FramesPerFile \in Int
    BY DownloadConstants
  <2> QED BY <2>1, FS_Interval
<1>3. IsFiniteSet((DOMAIN directory) \X (1..FramesPerFile))
  BY <1>1, <1>2, FS_Product
<1>4. AllBlocks \in SUBSET ((DOMAIN directory) \X (1..FramesPerFile))
  BY DEF AllBlocks
<1> QED BY <1>1, <1>3, <1>4, FS_Subset

(* No more blocks are admitted than there are, and in the end all of them. *)
LEMMA AdmittedCounts ==
    ASSUME ClientTypes, AdmittedFit
    PROVE  /\ Len(admitted) <= Cardinality(AllBlocks) /\ Cardinality(AllBlocks) \in Nat
           /\ (\A block \in AllBlocks : \E k \in DOMAIN admitted : admitted[k] = block)
                 => Len(admitted) = Cardinality(AllBlocks)
<1> DEFINE n == Len(admitted)
<1>1. admitted \in Seq(AllBlocks) /\ n \in Nat /\ DOMAIN admitted = 1..n
      /\ admitted \in [1..n -> AllBlocks]
  BY DEF ClientTypes
<1>2. ASSUME NEW i \in 1..n, NEW j \in 1..n, i < j PROVE admitted[i] # admitted[j]
  <2>1. admitted[i] \in {admitted[p] : p \in 1..(j - 1)}
    <3>1. i \in 1..(j - 1)
      BY <1>1, <1>2
    <3> QED BY <3>1
  <2>2. admitted[i] \in {block \in AllBlocks : Earlier(block, admitted[j])}
    BY <1>1, <2>1 DEF AdmittedFit, Follows
  <2>3. Earlier(admitted[i], admitted[j])
    BY <2>2
  <2>4. admitted[j] \in AllBlocks
    BY <1>1
  <2>5. ~Earlier(admitted[j], admitted[j])
    BY <2>4, BlockFacts DEF Earlier
  <2> QED BY <2>3, <2>5
<1>3. \A i, j \in 1..n : admitted[i] = admitted[j] => i = j
  <2>1. ASSUME NEW i \in 1..n, NEW j \in 1..n, i # j PROVE admitted[i] # admitted[j]
    <3>1. i < j \/ j < i
      BY <1>1, <2>1
    <3> QED BY <1>2, <3>1
  <2> QED BY <2>1
<1>4. admitted \in Injection(1..n, AllBlocks)
  BY <1>1, <1>3 DEF Injection, IsInjective
<1>5. IsFiniteSet(AllBlocks) /\ Cardinality(AllBlocks) \in Nat
  BY FinitelyManyBlocks, FS_CardinalityType
<1>6. Cardinality(1..n) = n
  <2>1. 1 \in Int /\ n \in Int
    BY <1>1
  <2>2. Cardinality(1..n) = IF 1 > n THEN 0 ELSE n - 1 + 1
    BY <2>1, FS_Interval
  <2> QED BY <1>1, <2>2
<1>7. /\ Cardinality(1..n) <= Cardinality(AllBlocks)
      /\ Cardinality(1..n) = Cardinality(AllBlocks) <=> admitted \in Surjection(1..n, AllBlocks)
  BY <1>4, <1>5, FS_Injection
<1>8. ASSUME \A block \in AllBlocks : \E k \in DOMAIN admitted : admitted[k] = block
      PROVE  admitted \in Surjection(1..n, AllBlocks)
  BY <1>1, <1>8 DEF Surjection
<1> QED BY <1>5, <1>6, <1>7, <1>8

-----------------------------------------------------------------------------
(* What the invariant says, in parts. *)
LEMMA ClientFacts ==
    ASSUME DownloadInv
    PROVE  /\ ReaderInv /\ CallerHas /\ ReaderTypeOK /\ Positions
           /\ ClientTypes /\ StageFits /\ AdmittedFit /\ QueueFits /\ SentFits
           /\ Len(output) \in Nat /\ declared \in Nat /\ Len(output) <= declared
           /\ Len(admitted) \in Nat /\ Len(sent) \in Nat /\ Len(admitted) = declared
           /\ runnable \in BOOLEAN /\ reports \in Nat
<1>1. /\ ReaderInv /\ CallerHas /\ ReaderTypeOK /\ Positions
      /\ ClientTypes /\ StageFits /\ AdmittedFit /\ QueueFits /\ SentFits
  BY DriveFacts DEF DownloadInv, ClientInv
<1>2. Len(output) \in Nat /\ declared \in Nat /\ Len(output) <= declared
  BY <1>1, CountFacts
<1>3. Len(admitted) \in Nat /\ Len(sent) \in Nat /\ Len(admitted) = declared
  BY <1>1 DEF ClientTypes, AdmittedFit
<1>4. runnable \in BOOLEAN /\ reports \in Nat
  BY <1>1 DEF ReaderTypeOK
<1> QED BY <1>1, <1>2, <1>3, <1>4

(* The transfer has nothing admitted, read or sent before it has a queue. *)
LEMMA BeforeListing ==
    ASSUME DownloadInv, stage \in {"meta", "list"}
    PROVE  /\ queue = <<>> /\ admitted = <<>> /\ sent = <<>> /\ ~closed /\ pc = "idle"
           /\ declared = 0 /\ Len(output) = 0 /\ ~(reports > 0)
<1>1. /\ queue = <<>> /\ admitted = <<>> /\ sent = <<>> /\ ~closed /\ pc = "idle"
      /\ ~(reports > 0)
  BY ClientFacts DEF StageFits
<1>2. Len(admitted) = 0
  BY <1>1
<1> QED BY <1>1, <1>2, ClientFacts

(* A step that leaves the blocks alone, and one that leaves the stream, too. *)
LEMMA BlocksStay ==
    ASSUME DownloadInv, UNCHANGED <<directory, queue, admitted, declared>>, Listed' => Listed
    PROVE  AdmittedFit' /\ QueueFits'
<1>1. AdmittedFit /\ QueueFits
  BY ClientFacts
<1>2. AllBlocks' = AllBlocks
  BY SameBlocks
<1>3. AdmittedFit'
  BY <1>1, <1>2 DEF AdmittedFit, Follows
<1>4. QueueFits'
  BY <1>1, <1>2 DEF QueueFits, SortedByName
<1> QED BY <1>3, <1>4

LEMMA BlocksRest ==
    ASSUME DownloadInv, UNCHANGED <<directory, meta, queue, admitted, sent, declared, output>>,
           Listed' => Listed /\ (stage' = "send" <=> stage = "send")
    PROVE  AdmittedFit' /\ QueueFits' /\ SentFits'
<1>1. SentFits
  BY ClientFacts
<1>2. SentFits'
  BY <1>1 DEF SentFits, CutAt
<1> QED BY <1>2, BlocksStay

(* The polls in which each call of the reader may be. *)
PollFits ==
    pc # "idle" => \/ call = "read" /\ stage = "read"
                   \/ call = "progress" /\ stage = "send"

(* The client goes on to another stage, and its files stay as they are. *)
LEMMA StageMoves ==
    ASSUME DownloadInv, Listed,
           UNCHANGED <<directory, meta, queue, admitted, remaining, sent, declared, output>>,
           stage' \in {"await", "admit", "read", "retry", "send", "shutdown", "done", "failed"},
           stage' # "failed" => (stage' = "send" <=> stage = "send"),
           closed' => queue = <<>>,
           stage' \in {"read", "retry"} /\ queue = <<>> => closed',
           reports' > 0 => stage' = "failed",
           PollFits',
           stage' \in {"shutdown", "done"} => Len(output) = declared /\ queue = <<>>
    PROVE  ClientInv'
<1>1. ClientTypes /\ StageFits
  BY ClientFacts
<1>2. AllBlocks' = AllBlocks
  BY SameBlocks
<1>3. AdmittedFit' /\ QueueFits' /\ SentFits'
  BY BlocksRest DEF Listed
<1>4. ClientTypes'
  BY <1>1, <1>2 DEF ClientTypes
<1>5. StageFits'
  <2>1. /\ stage' \notin {"meta", "list"} /\ stage \notin {"meta", "list", "failed"}
    BY DEF Listed
  <2>2. meta' \in Nat /\ remaining' = Less(meta', Len(sent') * Block)
    BY <1>1, <2>1 DEF StageFits
  <2>3. /\ \A name \in DOMAIN directory' : ValidSize(directory'[name])
        /\ Cardinality(AllBlocks') = (meta' + Block - 1) \div Block
    BY <1>1, <1>2 DEF StageFits
  <2> QED BY <2>1, <2>2, <2>3 DEF StageFits, PollFits
<1> QED BY <1>3, <1>4, <1>5 DEF ClientInv

(* A step that the client does not see. *)
LEMMA ClientRests ==
    ASSUME DownloadInv, UNCHANGED <<clientVars, closed, declared, output, reports>>, PollFits'
    PROVE  ClientInv'
<1>0. UNCHANGED <<directory, meta, stage, queue, admitted, remaining, sent>>
  BY DEF clientVars
<1>1. ClientTypes /\ StageFits
  BY ClientFacts
<1>2. AllBlocks' = AllBlocks
  BY <1>0, SameBlocks
<1>3. AdmittedFit' /\ QueueFits' /\ SentFits'
  BY <1>0, BlocksRest DEF Listed
<1>4. ClientTypes'
  BY <1>0, <1>1, <1>2 DEF ClientTypes
<1>5. StageFits'
  BY <1>0, <1>1, <1>2 DEF StageFits, PollFits, Listed
<1> QED BY <1>3, <1>4, <1>5 DEF ClientInv

-----------------------------------------------------------------------------
(* Before the first frame. *)
LEMMA ReadMetaKeeps == ASSUME DownloadInv, ReadMeta PROVE ClientInv'
<1>1. /\ ClientTypes /\ StageFits /\ stage = "meta"
      /\ UNCHANGED <<vars, directory, meta, queue, admitted, sent>>
      /\ IF meta = NoMeta THEN stage' = "failed" /\ remaining' = remaining
                          ELSE stage' = "list" /\ remaining' = meta
  BY ClientFacts DEF ReadMeta
<1>2. UNCHANGED <<closed, declared, output, reports, pc, call>>
  BY <1>1 DEF vars, schedulerVars, pollVars, outsideVars
<1>3. /\ queue = <<>> /\ admitted = <<>> /\ sent = <<>> /\ ~closed /\ pc = "idle"
      /\ ~(reports > 0)
  BY <1>1, BeforeListing
<1>4. AllBlocks' = AllBlocks
  BY <1>1, SameBlocks
<1>5. meta # NoMeta => meta \in Nat /\ meta = Less(meta, Len(sent) * Block)
  <2>1. Len(sent) * Block = 0
    BY <1>3, DownloadConstants
  <2>2. ASSUME meta \in Nat PROVE meta = Less(meta, 0)
    BY <2>2 DEF Less
  <2> QED BY <1>1, <2>1, <2>2 DEF ClientTypes
<1>6. ClientTypes'
  BY <1>1, <1>4, <1>5 DEF ClientTypes
<1>7. StageFits'
  BY <1>1, <1>2, <1>3, <1>4, <1>5 DEF StageFits, Listed
<1>8. AdmittedFit' /\ QueueFits' /\ SentFits'
  <2>1. ~Listed'
    BY <1>1 DEF Listed
  <2> QED BY <1>1, <1>2, <2>1, BlocksRest
<1> QED BY <1>6, <1>7, <1>8 DEF ClientInv

LEMMA ListDirectoryKeeps == ASSUME DownloadInv, ListDirectory PROVE ClientInv'
<1>1. /\ ClientTypes /\ StageFits /\ AdmittedFit /\ SentFits /\ stage = "list"
      /\ UNCHANGED <<vars, directory, meta, admitted, remaining, sent>>
  BY ClientFacts DEF ListDirectory
<1>2. UNCHANGED <<closed, declared, output, reports, pc, call>>
  BY <1>1 DEF vars, schedulerVars, pollVars, outsideVars
<1>3. /\ queue = <<>> /\ admitted = <<>> /\ sent = <<>> /\ ~closed /\ pc = "idle"
      /\ declared = 0 /\ Len(output) = 0 /\ ~(reports > 0)
  BY <1>1, BeforeListing
<1>4. AllBlocks' = AllBlocks
  BY <1>1, SameBlocks
<1>5. meta \in Nat /\ remaining = Less(meta, Len(sent) * Block) /\ remaining = meta
  <2>1. meta \in Nat /\ remaining = Less(meta, Len(sent) * Block)
    BY <1>1 DEF StageFits
  <2>2. Len(sent) * Block = 0
    BY <1>3, DownloadConstants
  <2> QED BY <2>1, <2>2 DEF Less
<1>6. CASE stage' = "failed" /\ UNCHANGED queue
  <2>1. AdmittedFit' /\ QueueFits' /\ SentFits'
    BY <1>1, <1>2, <1>6, BlocksRest DEF Listed
  <2>2. ClientTypes'
    BY <1>1, <1>4, <1>6 DEF ClientTypes
  <2>3. StageFits'
    BY <1>1, <1>2, <1>3, <1>6 DEF StageFits, Listed
  <2> QED BY <2>1, <2>2, <2>3 DEF ClientInv
<1>7. CASE /\ \A name \in DOMAIN directory : ValidSize(directory[name])
           /\ MatchesMeta
           /\ \E names \in SetToSeqs(DOMAIN directory) :
                 SortedByName(names) /\ queue' = names /\ stage' = "await"
  <2> DEFINE D == DOMAIN directory
             n == Cardinality(D)
  <2>1. queue' \in SetToSeqs(D) /\ SortedByName(queue') /\ stage' = "await"
    BY <1>7
  <2>2. IsFiniteSet(D) /\ n \in Nat
    BY <1>1, FinitelyManyBlocks, FS_CardinalityType
  <2>3. queue' \in [1..n -> D] /\ \A i, j \in 1..n : i # j => queue'[i] # queue'[j]
    BY <2>1 DEF SetToSeqs
  <2>4. queue' \in Seq(D) /\ DOMAIN queue' = 1..n
    BY <2>2, <2>3
  <2>5. \A name \in D : \E i \in DOMAIN queue' : queue'[i] = name
    <3>1. queue' \in Injection(1..n, D)
      BY <2>3 DEF Injection, IsInjective
    <3>2. Cardinality(1..n) = n
      <4>1. 1 \in Int /\ n \in Int
        BY <2>2
      <4>2. Cardinality(1..n) = IF 1 > n THEN 0 ELSE n - 1 + 1
        BY <4>1, FS_Interval
      <4> QED BY <2>2, <4>2
    <3>3. queue' \in Surjection(1..n, D)
      BY <2>2, <3>1, <3>2, FS_Injection
    <3> QED BY <2>4, <3>3 DEF Surjection
  <2>6. QueueFits'
    <3>1. SortedByName(queue)'
      BY <2>1 DEF SortedByName
    <3>2. DOMAIN admitted' = {}
      BY <1>1, <1>3
    <3>3. \A block \in AllBlocks' : \E i \in DOMAIN queue' : queue'[i] = block[1]
      BY <1>1, <1>4, <2>5, BlockFacts
    <3> QED BY <3>1, <3>2, <3>3 DEF QueueFits
  <2>7. ClientTypes'
    BY <1>1, <1>4, <2>1, <2>4 DEF ClientTypes
  <2>8. StageFits'
    <3>1. Cardinality(AllBlocks') = (meta' + Block - 1) \div Block
      BY <1>1, <1>4, <1>5, <1>7 DEF MatchesMeta
    <3>2. \A name \in DOMAIN directory' : ValidSize(directory'[name])
      BY <1>1, <1>7
    <3>3. meta' \in Nat /\ remaining' = Less(meta', Len(sent') * Block)
      BY <1>1, <1>5
    <3> QED BY <1>2, <1>3, <2>1, <3>1, <3>2, <3>3 DEF StageFits
  <2>9. AdmittedFit'
    BY <1>1, <1>2, <1>4 DEF AdmittedFit, Follows
  <2>10. SentFits'
    BY <1>1, <1>2, <1>3, <2>1 DEF SentFits, CutAt
  <2> QED BY <2>6, <2>7, <2>8, <2>9, <2>10 DEF ClientInv
<1> QED BY <1>6, <1>7 DEF ListDirectory

-----------------------------------------------------------------------------
(* A file is admitted: its blocks come next. *)
LEMMA JoinBlocks ==
    ASSUME NEW S, NEW s \in Seq(S), NEW c \in Nat, NEW more \in [1..c -> S]
    PROVE  /\ s \o more \in Seq(S) /\ Len(s \o more) = Len(s) + c
           /\ DOMAIN (s \o more) = 1..(Len(s) + c)
           /\ \A k \in 1..Len(s) : (s \o more)[k] = s[k]
           /\ \A k \in 1..c : (s \o more)[Len(s) + k] = more[k]
<1>1. more \in Seq(S) /\ Len(more) = c
  OBVIOUS
<1>2. s \o more \in Seq(S) /\ Len(s \o more) = Len(s) + Len(more)
  BY <1>1
<1>3. \A k \in 1..Len(s) : (s \o more)[k] = s[k]
  BY <1>1
<1>4. \A k \in 1..c : (s \o more)[Len(s) + k] = more[k]
  BY <1>1
<1> QED BY <1>1, <1>2, <1>3, <1>4

LEMMA TailOf ==
    ASSUME NEW S, NEW q \in Seq(S), q # <<>>
    PROVE  /\ Head(q) \in S /\ Head(q) = q[1] /\ 1 \in DOMAIN q /\ Tail(q) \in Seq(S)
           /\ \A i \in DOMAIN Tail(q) : /\ i \in Nat /\ i >= 1 /\ i + 1 \in DOMAIN q
                                       /\ Tail(q)[i] = q[i + 1]
           /\ \A i \in DOMAIN q : i = 1 \/ (i - 1 \in DOMAIN Tail(q) /\ (i - 1) + 1 = i)
OBVIOUS

AdmitsHead ==
    /\ admitted' = admitted \o [k \in 1..Blocks(Head(queue)) |-> <<Head(queue), k>>]
    /\ declared' = declared + Blocks(Head(queue))
    /\ queue' = Tail(queue)

LEMMA BlocksFollow ==
    ASSUME DownloadInv, Listed, queue # <<>>, UNCHANGED directory, AdmitsHead, Listed' => Listed
    PROVE  /\ AdmittedFit' /\ QueueFits'
           /\ queue' \in Seq(DOMAIN directory) /\ admitted' \in Seq(AllBlocks)
           /\ Len(admitted') >= Len(admitted)
           /\ \A k \in 1..Len(admitted) : admitted'[k] = admitted[k]
<1> DEFINE name == Head(queue)
           c == Blocks(name)
           n == Len(admitted)
           more == [k \in 1..c |-> <<name, k>>]
<1>1. /\ ClientTypes /\ StageFits /\ AdmittedFit /\ QueueFits /\ n \in Nat /\ n = declared
  BY ClientFacts
<1>2. /\ queue \in Seq(DOMAIN directory) /\ admitted \in Seq(AllBlocks) /\ DOMAIN admitted = 1..n
      /\ DOMAIN directory \subseteq Names
      /\ \A m \in DOMAIN directory : directory[m] \in Nat /\ ValidSize(directory[m])
  BY <1>1 DEF ClientTypes, StageFits
<1>3. /\ name \in DOMAIN directory /\ name = queue[1] /\ 1 \in DOMAIN queue
      /\ queue' \in Seq(DOMAIN directory)
      /\ \A i \in DOMAIN queue' : /\ i \in Nat /\ i >= 1 /\ i + 1 \in DOMAIN queue
                                  /\ queue'[i] = queue[i + 1]
      /\ \A i \in DOMAIN queue : i = 1 \/ (i - 1 \in DOMAIN queue' /\ (i - 1) + 1 = i)
  BY <1>2, TailOf DEF AdmitsHead
<1>4. c \in 1..FramesPerFile /\ c \in Nat /\ name \in Nat
  <2>1. directory[name] \div Block \in 1..FramesPerFile
    BY <1>2, <1>3, ValidBlocks
  <2>2. name \in Nat
    BY <1>2, <1>3, DownloadConstants
  <2> QED BY <2>1, <2>2, DownloadConstants DEF Blocks
<1>5. ASSUME NEW k \in 1..c PROVE <<name, k>> \in AllBlocks
  <2>1. k \in 1..FramesPerFile /\ k <= c
    BY <1>4, DownloadConstants
  <2> QED BY <1>3, <2>1 DEF AllBlocks
<1>6. more \in [1..c -> AllBlocks] /\ \A k \in 1..c : more[k] = <<name, k>>
  BY <1>5
<1> HIDE DEF name, c, n, more
<1>7. /\ admitted' \in Seq(AllBlocks) /\ Len(admitted') = n + c /\ DOMAIN admitted' = 1..(n + c)
      /\ \A k \in 1..n : admitted'[k] = admitted[k]
      /\ \A k \in 1..c : admitted'[n + k] = <<name, k>>
  <2>1. admitted' = admitted \o more
    BY DEF more, c, name, AdmitsHead
  <2>2. /\ admitted \in Seq(AllBlocks) /\ c \in Nat /\ more \in [1..c -> AllBlocks]
        /\ n = Len(admitted)
    BY <1>2, <1>4, <1>6 DEF n
  <2>3. /\ admitted' \in Seq(AllBlocks) /\ Len(admitted') = n + c /\ DOMAIN admitted' = 1..(n + c)
        /\ \A k \in 1..n : admitted'[k] = admitted[k]
        /\ \A k \in 1..c : admitted'[n + k] = more[k]
    <3> DEFINE all == admitted \o more
    <3>1. admitted \in Seq(AllBlocks) /\ c \in Nat /\ more \in [1..c -> AllBlocks]
      BY <2>2
    <3>2. /\ all \in Seq(AllBlocks) /\ Len(all) = Len(admitted) + c
          /\ DOMAIN all = 1..(Len(admitted) + c)
          /\ \A k \in 1..Len(admitted) : all[k] = admitted[k]
          /\ \A k \in 1..c : all[Len(admitted) + k] = more[k]
      BY <3>1, JoinBlocks
    <3> HIDE DEF all
    <3>3. admitted' = all /\ n = Len(admitted)
      BY <2>1, <2>2 DEF all
    <3> QED BY ONLY <3>2, <3>3, Zenon
  <2> QED BY <1>6, <2>3
<1>8. \A k \in DOMAIN admitted' : k \in 1..n \/ (k - n \in 1..c /\ n + (k - n) = k)
  BY <1>1, <1>4, <1>7
<1>9. AllBlocks' = AllBlocks
  BY SameBlocks
(* The names before this one were admitted. *)
<1>10. \A k \in 1..n : admitted[k][1] < name
  BY <1>1, <1>2, <1>3 DEF QueueFits
<1>11. \A i \in DOMAIN queue' : name < queue'[i]
  <2>1. ASSUME NEW i \in DOMAIN queue' PROVE name < queue'[i]
    <3>1. i + 1 \in DOMAIN queue /\ queue'[i] = queue[i + 1] /\ 1 < i + 1
      BY <1>3
    <3> QED BY <1>1, <1>3, <3>1 DEF QueueFits, SortedByName
  <2> QED BY <2>1
<1>12. ASSUME NEW block \in AllBlocks, block[1] < name
       PROVE  \E k \in 1..n : admitted[k] = block
  <2>1. ASSUME NEW i \in DOMAIN queue PROVE queue[i] # block[1]
    <3>1. block[1] \in Nat
      BY <1>1, BlockFacts
    <3>2. CASE i = 1
      BY <1>3, <1>4, <1>12, <3>1, <3>2
    <3>3. CASE i - 1 \in DOMAIN queue' /\ (i - 1) + 1 = i
      <4>1. name < queue[i]
        BY <1>3, <1>11, <3>3
      <4>2. queue[i] \in Nat
        BY <1>2, DownloadConstants
      <4> QED BY <1>4, <1>12, <3>1, <4>1, <4>2
    <3> QED BY <1>3, <3>2, <3>3
  <2> QED BY <1>1, <1>2, <2>1 DEF QueueFits
<1>13. AdmittedFit'
  <2>1. ASSUME NEW k \in DOMAIN admitted'
        PROVE  {block \in AllBlocks : Earlier(block, admitted'[k])} = {admitted'[j] : j \in 1..(k - 1)}
    <3>1. CASE k \in 1..n
      <4>1. \A j \in 1..(k - 1) : admitted'[j] = admitted[j]
        BY <1>1, <1>7, <3>1
      <4>2. {admitted'[j] : j \in 1..(k - 1)} = {admitted[j] : j \in 1..(k - 1)}
        BY <4>1
      <4>3. {block \in AllBlocks : Earlier(block, admitted[k])} = {admitted[j] : j \in 1..(k - 1)}
        BY <1>1, <1>2, <3>1 DEF AdmittedFit, Follows
      <4> QED BY <1>7, <3>1, <4>2, <4>3
    <3>2. CASE k - n \in 1..c /\ n + (k - n) = k
      <4> DEFINE p == k - n
      <4>1. p \in 1..c /\ k = n + p /\ p \in Nat /\ k - 1 = n + (p - 1)
        BY <1>1, <1>4, <3>2
      <4> HIDE DEF p
      <4>2. admitted'[k] = <<name, p>>
        BY <1>7, <4>1
      <4>3. ASSUME NEW block \in AllBlocks, Earlier(block, <<name, p>>)
            PROVE  \E j \in 1..(k - 1) : admitted'[j] = block
        <5>1. /\ block = <<block[1], block[2]>> /\ block[1] \in Nat /\ block[2] \in Nat
              /\ 1 <= block[2]
          BY <1>1, BlockFacts
        <5>2. block[1] < name \/ (block[1] = name /\ block[2] < p)
          BY <4>3 DEF Earlier
        <5>3. CASE block[1] < name
          <6>1. PICK j \in 1..n : admitted[j] = block
            BY <1>12, <5>3
          <6>2. j \in 1..(k - 1) /\ admitted'[j] = block
            BY <1>1, <1>7, <4>1, <6>1
          <6> QED BY <6>2
        <5>4. CASE block[1] = name /\ block[2] < p
          <6>1. block[2] \in 1..c /\ n + block[2] \in 1..(k - 1)
            BY <1>1, <1>4, <4>1, <5>1, <5>4
          <6>2. admitted'[n + block[2]] = block
            BY <1>7, <5>1, <5>4, <6>1
          <6> QED BY <6>1, <6>2
        <5> QED BY <5>2, <5>3, <5>4
      <4>4. ASSUME NEW j \in 1..(k - 1)
            PROVE  admitted'[j] \in AllBlocks /\ Earlier(admitted'[j], <<name, p>>)
        <5>1. CASE j \in 1..n
          <6>1. admitted'[j] = admitted[j] /\ admitted[j] \in AllBlocks /\ admitted[j][1] < name
            BY <1>2, <1>7, <1>10, <5>1
          <6> QED BY <6>1 DEF Earlier
        <5>2. CASE j - n \in 1..c /\ n + (j - n) = j
          <6>1. j - n < p
            BY <1>1, <4>1, <5>2
          <6>2. admitted'[j] = <<name, j - n>> /\ <<name, j - n>> \in AllBlocks
            <7> DEFINE r == j - n
            <7>1. r \in 1..c /\ n + r = j
              BY <5>2
            <7> HIDE DEF r
            <7>2. admitted'[j] = <<name, r>>
              BY <1>7, <7>1
            <7>3. <<name, r>> \in AllBlocks
              BY <1>5, <7>1 DEF name, c
            <7> QED BY <7>2, <7>3 DEF r
          <6> QED BY <6>1, <6>2 DEF Earlier
        <5>3. j \in DOMAIN admitted'
          BY <1>1, <1>4, <1>7, <4>1
        <5> QED BY <1>8, <5>1, <5>2, <5>3
      <4> QED BY <4>2, <4>3, <4>4
    <3> QED BY <1>8, <3>1, <3>2
  <2>2. Len(admitted') = declared'
    BY <1>1, <1>7 DEF c, name, AdmitsHead
  <2> QED BY <1>9, <2>1, <2>2 DEF AdmittedFit, Follows
<1>14. QueueFits'
  <2>1. SortedByName(queue')
    <3>1. ASSUME NEW i \in DOMAIN queue', NEW j \in DOMAIN queue', i < j
          PROVE  queue'[i] < queue'[j]
      <4>1. /\ i + 1 \in DOMAIN queue /\ j + 1 \in DOMAIN queue /\ i + 1 < j + 1
            /\ queue'[i] = queue[i + 1] /\ queue'[j] = queue[j + 1]
        BY <1>3, <3>1
      <4> QED BY <1>1, <4>1 DEF QueueFits, SortedByName
    <3> QED BY <3>1 DEF SortedByName
  <2>2. ASSUME NEW i \in DOMAIN queue', NEW k \in DOMAIN admitted'
        PROVE  admitted'[k][1] < queue'[i]
    <3>1. CASE k \in 1..n
      <4>1. admitted'[k] = admitted[k] /\ i + 1 \in DOMAIN queue /\ queue'[i] = queue[i + 1]
        BY <1>3, <1>7, <3>1
      <4> QED BY <1>1, <1>2, <3>1, <4>1 DEF QueueFits
    <3>2. CASE k - n \in 1..c /\ n + (k - n) = k
      <4> DEFINE r == k - n
      <4>1. r \in 1..c /\ n + r = k
        BY <3>2
      <4> HIDE DEF r
      <4>2. admitted'[k] = <<name, r>>
        BY <1>7, <4>1
      <4> QED BY <1>11, <4>2
    <3> QED BY <1>8, <3>1, <3>2
  <2>3. ASSUME NEW block \in AllBlocks
        PROVE  \/ \E k \in DOMAIN admitted' : admitted'[k] = block
               \/ \E i \in DOMAIN queue' : queue'[i] = block[1]
    <3>1. CASE \E k \in 1..n : admitted[k] = block
      <4>1. PICK k \in 1..n : admitted[k] = block
        BY <3>1
      <4>2. k \in DOMAIN admitted' /\ admitted'[k] = block
        BY <1>1, <1>4, <1>7, <4>1
      <4> QED BY <4>2
    <3>2. CASE \E i \in DOMAIN queue : queue[i] = block[1]
      <4>1. PICK i \in DOMAIN queue : queue[i] = block[1]
        BY <3>2
      <4>2. CASE i = 1
        <5>1. block = <<block[1], block[2]>> /\ block[2] \in 1..c /\ block[1] = name
          <6>1. /\ block = <<block[1], block[2]>> /\ block[2] \in Nat /\ 1 <= block[2]
                /\ block[2] <= Blocks(block[1])
            BY <1>1, BlockFacts
          <6>2. block[1] = name
            BY <1>3, <4>1, <4>2
          <6> QED BY <1>4, <6>1, <6>2 DEF c
        <5>2. n + block[2] \in DOMAIN admitted' /\ admitted'[n + block[2]] = block
          BY <1>1, <1>4, <1>7, <5>1
        <5> QED BY <5>2
      <4>3. CASE i - 1 \in DOMAIN queue' /\ (i - 1) + 1 = i
        BY <1>3, <4>1, <4>3
      <4> QED BY <1>3, <4>2, <4>3
    <3> QED BY <1>1, <1>2, <3>1, <3>2 DEF QueueFits
  <2> QED BY <1>9, <2>1, <2>2, <2>3 DEF QueueFits, SortedByName
<1>15. Len(admitted') >= n
  BY <1>1, <1>4, <1>7
<1> QED BY <1>3, <1>7, <1>13, <1>14, <1>15 DEF n

LEMMA AdmitKeeps ==
    ASSUME DownloadInv, stage \in {"admit", "retry"}, stage' \in {"admit", "await"},
           queue # <<>>, PushNext, UNCHANGED <<directory, meta, remaining, sent>>
    PROVE  ClientInv'
<1>1. /\ ClientTypes /\ StageFits /\ SentFits /\ Len(output) <= declared
      /\ Len(admitted) = declared /\ Len(output) \in Nat /\ declared \in Nat /\ Len(sent) \in Nat
  BY ClientFacts
<1>2. /\ pc = "idle" /\ ~closed
      /\ UNCHANGED <<closed, pc, call, output, reports>>
  BY DEF PushNext, Push, Idle, pollVars
<1>3. AdmitsHead
  BY DEF PushNext, Push, AdmitsHead
<1>4. Listed /\ Listed' /\ stage # "send" /\ stage' # "send"
  BY DEF Listed
<1>5. /\ AdmittedFit' /\ QueueFits'
      /\ queue' \in Seq(DOMAIN directory) /\ admitted' \in Seq(AllBlocks)
      /\ \A k \in 1..Len(admitted) : admitted'[k] = admitted[k]
  BY <1>3, <1>4, BlocksFollow
<1>6. AllBlocks' = AllBlocks
  BY SameBlocks
<1>7. ClientTypes'
  BY <1>1, <1>5, <1>6 DEF ClientTypes
<1>8. StageFits'
  BY <1>1, <1>2, <1>4, <1>6 DEF StageFits, Listed
<1>9. SentFits'
  <2>1. \A k \in DOMAIN sent : k \in 1..Len(admitted)
    <3>1. DOMAIN sent = 1..Len(sent) /\ Len(sent) <= Len(output)
      BY <1>1 DEF ClientTypes, SentFits
    <3> QED BY <1>1, <3>1
  <2>2. \A k \in DOMAIN sent : sent'[k].block = admitted'[k] /\ sent'[k].length = CutAt(k)'
    BY <1>1, <1>5, <2>1 DEF SentFits, CutAt
  <2>3. Len(sent') <= Len(output') /\ Len(output') = Len(sent')
    BY <1>1, <1>2, <1>4 DEF SentFits
  <2> QED BY <1>4, <2>2, <2>3 DEF SentFits
<1> QED BY <1>5, <1>7, <1>8, <1>9 DEF ClientInv

-----------------------------------------------------------------------------
(* A frame is read, and sent. *)
LEMMA FrameReadKeeps ==
    ASSUME DownloadInv, FrameRead, UNCHANGED <<directory, meta, queue, admitted, remaining, sent>>
    PROVE  ClientInv'
<1>1. /\ ClientTypes /\ StageFits /\ SentFits /\ ReaderInv /\ Len(output) \in Nat
      /\ Len(sent) \in Nat /\ output \in Seq(1..MaxFrames)
  BY ClientFacts DEF ReaderTypeOK
<1>2. Emit /\ stage' = "send" /\ pc = "polled" /\ call = "read" /\ pc' = "idle"
  BY DEF FrameRead, Emit, InRead, ReturnReady
<1>3. /\ output' = Append(output, Len(output) + 1)
      /\ UNCHANGED <<closed, declared, reports>>
  BY <1>1, <1>2, EmitSeen DEF Delivers
<1>4. stage = "read"
  BY <1>1, <1>2 DEF StageFits
<1>5. AllBlocks' = AllBlocks
  BY SameBlocks
<1>6. AdmittedFit' /\ QueueFits'
  BY <1>3, <1>4, BlocksStay DEF Listed
<1>7. ClientTypes'
  BY <1>1, <1>2, <1>5 DEF ClientTypes
<1>8. StageFits'
  BY <1>1, <1>2, <1>3, <1>4, <1>5 DEF StageFits, Listed
<1>9. SentFits'
  <2>1. Len(output') = Len(output) + 1
    BY <1>1, <1>3
  <2>2. Len(output) = Len(sent)
    BY <1>1, <1>4 DEF SentFits, Listed
  <2> QED BY <1>1, <1>2, <2>1, <2>2 DEF SentFits, CutAt
<1> QED BY <1>6, <1>7, <1>8, <1>9 DEF ClientInv

LEMMA SendFrameKeeps == ASSUME DownloadInv, SendFrame PROVE ClientInv'
<1> DEFINE k == Len(sent) + 1
           frame == [block |-> admitted[Last(output)], length |-> Length]
<1>1. /\ ClientTypes /\ StageFits /\ SentFits /\ AdmittedFit /\ CallerHas
      /\ Len(output) <= declared /\ Len(admitted) = declared
      /\ Len(output) \in Nat /\ declared \in Nat /\ Len(sent) \in Nat
      /\ output \in Seq(1..MaxFrames)
  BY ClientFacts DEF ReaderTypeOK
<1>2. /\ stage = "send" /\ pc = "idle" /\ stage' = "await" /\ sent' = Append(sent, frame)
      /\ remaining' = Less(remaining, Length)
      /\ UNCHANGED <<directory, meta, queue, admitted>>
      /\ UNCHANGED <<closed, declared, output, reports, pc, call>>
  BY DEF SendFrame, Idle, schedulerVars, pollVars
<1>3. /\ Len(output) = k /\ k \in Nat \ {0} /\ k - 1 = Len(sent) /\ k <= Len(admitted)
      /\ k \in DOMAIN admitted
  <2>1. Len(output) = Len(sent) + 1
    BY <1>1, <1>2 DEF SentFits, Listed
  <2>2. DOMAIN admitted = 1..Len(admitted)
    BY <1>1 DEF ClientTypes
  <2> QED BY <1>1, <2>1, <2>2
<1>4. Last(output) = k
  <2>1. k \in DOMAIN output
    BY <1>1, <1>3
  <2>2. output[k] = k
    BY <1>1, <2>1 DEF CallerHas
  <2> QED BY <1>3, <2>2 DEF Last
<1> HIDE DEF k
<1>5. meta \in Nat /\ remaining = Less(meta, (k - 1) * Block)
  BY <1>1, <1>2, <1>3 DEF StageFits
<1>6. /\ (k - 1) * Block \in Nat /\ (k - 1) * Block < meta
      /\ k * Block = (k - 1) * Block + Block
      /\ k * Block > meta => meta % Block = meta - (k - 1) * Block
  <2>1. Len(admitted) <= Cardinality(AllBlocks) /\ Cardinality(AllBlocks) \in Nat
    BY <1>1, AdmittedCounts
  <2>2. Cardinality(AllBlocks) = (meta + Block - 1) \div Block
    BY <1>1, <1>2 DEF StageFits, Listed
  <2>3. k <= (meta + Block - 1) \div Block
    BY <1>1, <1>3, <2>1, <2>2
  <2> QED BY <1>3, <1>5, <2>3, BlockOfStream
<1>7. Length = CutAt(k) /\ Length \in Nat /\ remaining' = Less(meta, k * Block)
  <2> DEFINE before == (k - 1) * Block
             after == k * Block
             rest == meta % Block
  <2>1. /\ before \in Nat /\ before < meta /\ after = before + Block /\ meta \in Nat
        /\ after > meta => rest = meta - before
        /\ remaining = Less(meta, before) /\ Block \in Nat \ {0}
    BY <1>5, <1>6, DownloadConstants
  <2>2. /\ Length = (IF remaining < Block THEN remaining ELSE Block)
        /\ CutAt(k) = (IF after <= meta THEN Block ELSE rest)
        /\ remaining' = Less(remaining, Length)
    BY <1>2 DEF Length, CutAt, Least
  <2> HIDE DEF before, after, rest
  <2>3. remaining = meta - before /\ remaining \in Nat
    BY <2>1 DEF Less
  <2>4. Length = (IF after <= meta THEN Block ELSE rest) /\ Length \in Nat
    <3>1. after \in Nat
      BY <2>1
    <3>2. CASE after <= meta
      <4>1. ~(remaining < Block)
        BY <2>1, <2>3, <3>2
      <4> QED BY <2>1, <2>2, <3>2, <4>1
    <3>3. CASE ~(after <= meta)
      <4>1. remaining < Block /\ rest = remaining
        BY <2>1, <2>3, <3>1, <3>3
      <4> QED BY <2>2, <2>3, <3>3, <4>1
    <3> QED BY <3>2, <3>3
  <2>5. remaining' = Less(meta, after)
    BY <2>1, <2>2, <2>3, <2>4 DEF Less
  <2> QED BY <2>2, <2>4, <2>5 DEF after
<1>8. /\ frame.block = admitted[k] /\ frame.length = CutAt(k)
      /\ frame \in [block: AllBlocks, length: Nat]
  <2>1. admitted[k] \in AllBlocks
    BY <1>1, <1>3 DEF ClientTypes
  <2> QED BY <1>4, <1>7, <2>1
<1> HIDE DEF frame
<1>9. /\ sent' \in Seq([block: AllBlocks, length: Nat]) /\ Len(sent') = k
      /\ DOMAIN sent' = 1..k /\ sent'[k] = frame
      /\ \A j \in 1..(k - 1) : j \in DOMAIN sent /\ sent'[j] = sent[j]
  <2>1. sent \in Seq([block: AllBlocks, length: Nat])
    BY <1>1 DEF ClientTypes
  <2>2. sent' = Append(sent, frame) /\ k = Len(sent) + 1
    BY <1>2 DEF k
  <2> QED BY <1>3, <1>8, <2>1, <2>2
<1>10. AllBlocks' = AllBlocks
  BY <1>2, SameBlocks
<1>11. AdmittedFit' /\ QueueFits'
  BY <1>2, BlocksStay DEF Listed
<1>12. ClientTypes'
  <2>1. remaining' \in Nat
    <3>1. k * Block \in Nat
      BY <1>6, DownloadConstants
    <3> QED BY <1>5, <1>7, <3>1 DEF Less
  <2> QED BY <1>1, <1>2, <1>9, <1>10, <2>1 DEF ClientTypes
<1>13. StageFits'
  <2>1. meta' \in Nat /\ remaining' = Less(meta', Len(sent') * Block)
    BY <1>2, <1>5, <1>7, <1>9
  <2> QED BY <1>1, <1>2, <1>10, <2>1 DEF StageFits, Listed
<1>14. SentFits'
  <2>1. ASSUME NEW j \in DOMAIN sent'
        PROVE  sent'[j].block = admitted[j] /\ sent'[j].length = CutAt(j)
    <3>1. j = k \/ j \in 1..(k - 1)
      BY <1>3, <1>9
    <3>2. CASE j = k
      BY <1>8, <1>9, <3>2
    <3>3. CASE j \in 1..(k - 1)
      BY <1>1, <1>9, <3>3 DEF SentFits
    <3> QED BY <3>1, <3>2, <3>3
  <2>2. Len(sent') = Len(output')
    BY <1>2, <1>3, <1>9
  <2> QED BY <1>1, <1>2, <2>1, <2>2 DEF SentFits, CutAt
<1> QED BY <1>11, <1>12, <1>13, <1>14 DEF ClientInv

-----------------------------------------------------------------------------
(* The other steps of the client. *)
LEMMA PollsFit == ASSUME DownloadInv PROVE PollFits
BY ClientFacts DEF StageFits, PollFits

(* The call that is being made stays the same while it drives the files. *)
LEMMA DriveKeepsCall == ASSUME DriveStep PROVE UNCHANGED call /\ pc # "idle"
<1>1. ASSUME NEW stepped, NEW written, NEW progress, NEW polled,
             Continue(stepped, written, progress, polled)
      PROVE  UNCHANGED call
  BY <1>1 DEF Continue
<1>2. ASSUME NEW reason, Fail(reason) PROVE UNCHANGED call
  BY <1>2 DEF Fail
<1>3. ASSUME NEW i, PollBackend(i) PROVE UNCHANGED call
  BY <1>1, <1>2, <1>3 DEF PollBackend, Receive, Retry
<1> QED BY <1>1, <1>2, <1>3 DEF DriveStep

LEMMA BeginPollKeeps == ASSUME DownloadInv, BeginPoll PROVE ClientInv'
<1>1. StageFits /\ PollFits
  BY ClientFacts, PollsFit
<1>2. /\ stage = "await" /\ pc = "idle" /\ stage' = "admit"
      /\ UNCHANGED <<directory, meta, queue, admitted, remaining, sent, declared, output>>
      /\ UNCHANGED <<closed, reports, pc>>
  BY DEF BeginPoll, Idle, schedulerVars, pollVars
<1> QED BY <1>1, <1>2, StageMoves DEF StageFits, PollFits, Listed

LEMMA CloseAfterLastKeeps == ASSUME DownloadInv, CloseAfterLast PROVE ClientInv'
<1>1. StageFits /\ PollFits
  BY ClientFacts, PollsFit
<1>2. /\ stage = "admit" /\ pc = "idle" /\ queue = <<>> /\ UNCHANGED stage
      /\ UNCHANGED <<directory, meta, queue, admitted, remaining, sent, declared, output>>
      /\ UNCHANGED <<reports, pc>>
  BY DEF CloseAfterLast, Close, Idle, pollVars, clientVars
<1> QED BY <1>1, <1>2, StageMoves DEF StageFits, PollFits, Listed

(* poll_read begins. *)
LEMMA BeginReadKeeps ==
    ASSUME DownloadInv, stage = "admit", stage' = "read", Begin("read"),
           queue = <<>> => closed,
           UNCHANGED <<directory, meta, queue, admitted, remaining, sent>>
    PROVE  ClientInv'
<1>1. StageFits
  BY ClientFacts
<1>2. call' = "read" /\ UNCHANGED <<declared, output, closed, reports>>
  BY DEF Begin
<1>3. PollFits'
  BY <1>2 DEF PollFits
<1> QED BY <1>1, <1>2, <1>3, StageMoves DEF StageFits, Listed

LEMMA AdmissionRefusedKeeps == ASSUME DownloadInv, AdmissionRefused PROVE ClientInv'
<1>1. StageFits /\ PollFits
  BY ClientFacts, PollsFit
<1>2. /\ stage = "admit" /\ pc = "idle"
      /\ UNCHANGED <<directory, meta, admitted, remaining, sent>>
  BY DEF AdmissionRefused, Idle
<1>3. CASE stage' = "failed" /\ UNCHANGED <<vars, queue>>
  <2>1. UNCHANGED <<declared, output, closed, reports, pc>>
    BY <1>3 DEF vars, schedulerVars, pollVars, outsideVars
  <2> QED BY <1>1, <1>2, <1>3, <2>1, StageMoves DEF StageFits, PollFits, Listed
<1>4. CASE Begin("read") /\ stage' = "read" /\ queue' = WaitingFile
  <2>1. queue # <<>>
    BY DEF AdmissionRefused
  <2> QED BY <1>2, <1>4, <2>1, BeginReadKeeps DEF WaitingFile
<1> QED BY <1>3, <1>4 DEF AdmissionRefused

LEMMA ReadNextKeeps == ASSUME DownloadInv, ReadNext PROVE ClientInv'
BY BeginReadKeeps DEF ReadNext

LEMMA DriveFilesKeeps == ASSUME DownloadInv, DriveFiles PROVE ClientInv'
<1>1. PollFits /\ ReaderInv
  BY ClientFacts, PollsFit
<1>2. UNCHANGED <<clientVars, stage>>
  BY DEF DriveFiles, clientVars
<1>3. CASE Grow
  <2>1. UNCHANGED <<closed, declared, output, reports, call>> /\ pc = "grow"
    BY <1>3 DEF Grow, outsideVars
  <2> QED BY <1>1, <1>2, <2>1, ClientRests DEF PollFits
<1>4. CASE DriveStep
  <2>1. UNCHANGED <<closed, declared, output, reports>>
    BY <1>1, <1>4, DriveStepKeeps DEF Goes, Breaks
  <2> QED BY <1>1, <1>2, <1>4, <2>1, DriveKeepsCall, ClientRests DEF PollFits
<1>5. CASE ProgressReturns
  <2>1. UNCHANGED <<closed, declared, output, reports>> /\ pc' = "idle"
    BY <1>5 DEF ProgressReturns, schedulerVars
  <2> QED BY <1>2, <2>1, ClientRests DEF PollFits
<1> QED BY <1>3, <1>4, <1>5 DEF DriveFiles

LEMMA ReadReturnsKeeps == ASSUME DownloadInv, ReadReturns PROVE ClientInv'
<1>1. /\ StageFits /\ CallerHas /\ Control /\ ReaderTypeOK /\ reports \in Nat
  BY ClientFacts, DriveFacts
<1>2. UNCHANGED <<directory, meta, queue, admitted, remaining, sent>>
  BY DEF ReadReturns
<1>3. CASE FrameRead
  BY <1>2, <1>3, FrameReadKeeps
<1>4. CASE ~FrameRead
  <2>1. pc = "polled" /\ call = "read" /\ pc' = "idle"
    BY <1>4 DEF ReadReturns, StreamRead, ReadFails, NothingRead, ReportEnd, ReportError,
                ReturnPending, InRead, ReturnReady
  <2>2. stage = "read" /\ Listed /\ PollFits'
    BY <1>1, <2>1 DEF StageFits, Listed, PollFits
  <2>3. UNCHANGED <<declared, output, closed>>
    BY <1>4 DEF ReadReturns, StreamRead, ReadFails, NothingRead, ReportEnd, ReportError,
                ReturnPending, ReturnReady, schedulerVars
  <2>4. CASE StreamRead
    <3>1. UNCHANGED reports /\ stage' = "shutdown" /\ terminated /\ error = "none"
      BY <2>4 DEF StreamRead, ReportEnd
    <3>2. reports = 0
      BY <1>1, <2>2 DEF StageFits
    <3>3. closed /\ Len(output) = declared
      BY <1>1, <3>1, <3>2 DEF CallerHas
    <3> QED BY <1>1, <1>2, <2>2, <2>3, <3>1, <3>2, <3>3, StageMoves DEF StageFits
  <2>5. CASE ReadFails
    <3>1. stage' = "failed"
      BY <2>5 DEF ReadFails
    <3> QED BY <1>1, <1>2, <2>2, <2>3, <3>1, StageMoves DEF StageFits
  <2>6. CASE NothingRead
    <3>1. UNCHANGED reports /\ stage' = "retry"
      BY <2>6 DEF NothingRead, ReturnPending
    <3> QED BY <1>1, <1>2, <2>2, <2>3, <3>1, StageMoves DEF StageFits
  <2> QED BY <1>4, <2>4, <2>5, <2>6 DEF ReadReturns
<1> QED BY <1>3, <1>4

LEMMA OfferAgainKeeps == ASSUME DownloadInv, OfferAgain PROVE ClientInv'
<1>1. StageFits /\ PollFits
  BY ClientFacts, PollsFit
<1>2. /\ stage = "retry" /\ stage' = "await" /\ pc = "idle"
      /\ UNCHANGED <<directory, meta, remaining, sent>>
  BY DEF OfferAgain, Idle
<1>3. CASE UNCHANGED <<vars, queue, admitted>>
  <2>1. UNCHANGED <<declared, output, closed, reports, pc>>
    BY <1>3 DEF vars, schedulerVars, pollVars, outsideVars
  <2> QED BY <1>1, <1>2, <1>3, <2>1, StageMoves DEF StageFits, PollFits, Listed
<1>4. CASE PushNext
  <2>1. ~closed
    BY <1>4 DEF PushNext, Push
  <2>2. queue # <<>>
    BY <1>1, <1>2, <2>1 DEF StageFits
  <2> QED BY <1>2, <1>4, <2>2, AdmitKeeps
<1> QED BY <1>3, <1>4 DEF OfferAgain

LEMMA ProgressKeeps == ASSUME DownloadInv, Progress PROVE ClientInv'
<1>1. /\ stage = "send" /\ UNCHANGED <<clientVars, stage, closed, declared, output, reports>>
      /\ call' = "progress"
  BY DEF Progress, Poll, Begin, clientVars
<1>2. PollFits'
  BY <1>1 DEF PollFits
<1> QED BY <1>1, <1>2, ClientRests

LEMMA SocketFailsKeeps == ASSUME DownloadInv, SocketFails PROVE ClientInv'
<1>1. StageFits
  BY ClientFacts
<1>2. /\ stage \in {"send", "shutdown"} /\ stage' = "failed" /\ pc = "idle"
      /\ UNCHANGED <<vars, directory, meta, queue, admitted, remaining, sent>>
  BY DEF SocketFails, Idle
<1>3. UNCHANGED <<declared, output, closed, reports, pc>>
  BY <1>2 DEF vars, schedulerVars, pollVars, outsideVars
<1> QED BY <1>1, <1>2, <1>3, StageMoves DEF StageFits, PollFits, Listed

LEMMA ShutdownKeeps == ASSUME DownloadInv, Shutdown PROVE ClientInv'
<1>1. StageFits
  BY ClientFacts
<1>2. /\ stage = "shutdown" /\ stage' = "done"
      /\ UNCHANGED <<vars, directory, meta, queue, admitted, remaining, sent>>
  BY DEF Shutdown
<1>3. UNCHANGED <<declared, output, closed, reports, pc>>
  BY <1>2 DEF vars, schedulerVars, pollVars, outsideVars
<1> QED BY <1>1, <1>2, <1>3, StageMoves DEF StageFits, PollFits, Listed

LEMMA DropReaderKeeps == ASSUME DownloadInv, DropReader PROVE ClientInv'
<1>1. PollFits
  BY PollsFit
<1>2. UNCHANGED <<clientVars, stage, closed, declared, output, reports, pc, call>>
  BY DEF DropReader, DropScheduler, pollVars, clientVars
<1> QED BY <1>1, <1>2, ClientRests DEF PollFits

LEMMA SurroundingsKeep ==
    ASSUME DownloadInv, Surroundings \/ UNCHANGED downloadVars
    PROVE  ClientInv'
<1>1. PollFits
  BY PollsFit
<1>2. UNCHANGED <<clientVars, stage, closed, declared, output, reports, pc, call>>
  BY DEF Surroundings, BudgetThread, BudgetOnly, BackendEvent, downloadVars, vars,
         schedulerVars, pollVars, outsideVars, clientVars
<1> QED BY <1>1, <1>2, ClientRests DEF PollFits

-----------------------------------------------------------------------------
(* The reader's part. *)
LEMMA AdmittedCount ==
    ASSUME DownloadInv, Listed, queue # <<>>
    PROVE  Blocks(Head(queue)) \in FrameCounts
<1>1. /\ queue \in Seq(DOMAIN directory)
      /\ \A name \in DOMAIN directory : directory[name] \in Nat /\ ValidSize(directory[name])
  BY ClientFacts DEF ClientTypes, StageFits
<1>2. Head(queue) \in DOMAIN directory
  BY <1>1, TailOf
<1>3. directory[Head(queue)] \div Block \in 1..FramesPerFile
  BY <1>1, <1>2, ValidBlocks
<1> QED BY <1>3, DownloadConstants DEF Blocks

(* The task is woken, or begins to run, and calls nothing. *)
OnlyWakes ==
    /\ runnable' \in BOOLEAN
    /\ UNCHANGED <<budgetVars, schedulerVars, pollVars, asleep, declared, output, reports>>

(* The client calls the reader as a task may. *)
LEMMA DownloadActs ==
    ASSUME DownloadInv, [DownloadNext]_downloadVars
    PROVE  \/ OwnMove /\ (InPoll \/ runnable' \in BOOLEAN)
           \/ DropReader
           \/ BudgetThread(Self)
           \/ OnlyWakes
<1>0. StageFits /\ runnable \in BOOLEAN
  BY ClientFacts
<1>v. UNCHANGED vars => OnlyWakes
  BY <1>0 DEF vars, outsideVars, OnlyWakes
<1>1. CASE ReadMeta \/ ListDirectory \/ SocketFails \/ Shutdown \/ UNCHANGED downloadVars
  <2>1. UNCHANGED vars
    BY <1>1 DEF ReadMeta, ListDirectory, SocketFails, Shutdown, downloadVars
  <2> QED BY <1>v, <2>1
<1>2. CASE BeginPoll \/ SendFrame
  BY <1>2 DEF BeginPoll, SendFrame, PolledAgain, OnlyWakes
<1>3. CASE AdmitFile
  <2>1. Listed /\ queue # <<>> /\ Push(Blocks(Head(queue))) /\ UNCHANGED runnable
    BY <1>3 DEF AdmitFile, PushNext, Listed
  <2>2. Blocks(Head(queue)) \in FrameCounts
    BY <2>1, AdmittedCount
  <2> QED BY <1>0, <2>1, <2>2 DEF OwnMove
<1>4. CASE CloseAfterLast
  BY <1>0, <1>4 DEF CloseAfterLast, OwnMove
<1>5. CASE AdmissionRefused \/ ReadNext
  <2>1. UNCHANGED vars \/ (Begin("read") /\ UNCHANGED runnable)
    BY <1>5 DEF AdmissionRefused, ReadNext
  <2>2. Begin("read") => OwnMove
    BY DEF OwnMove
  <2> QED BY <1>0, <1>v, <2>1, <2>2
<1>6. CASE DriveFiles \/ ReadReturns
  <2>1. InPoll
    BY <1>6 DEF DriveFiles, ReadReturns, FrameRead, StreamRead, ReadFails, NothingRead, InPoll
  <2> QED BY <2>1 DEF OwnMove
<1>7. CASE OfferAgain
  <2>1. UNCHANGED vars \/ (PushNext /\ runnable' = TRUE)
    BY <1>7 DEF OfferAgain
  <2>2. CASE PushNext /\ runnable' = TRUE
    <3>1. stage = "retry" /\ ~closed /\ Push(Blocks(Head(queue)))
      BY <1>7, <2>2 DEF OfferAgain, PushNext, Push
    <3>2. Listed /\ queue # <<>>
      BY <1>0, <3>1 DEF StageFits, Listed
    <3>3. Blocks(Head(queue)) \in FrameCounts
      BY <3>2, AdmittedCount
    <3> QED BY <2>2, <3>1, <3>3 DEF OwnMove
  <2> QED BY <1>v, <2>1, <2>2
<1>8. CASE Progress
  BY <1>8 DEF Progress, Poll, OwnMove
<1>9. CASE DropReader
  BY <1>9
<1>10. CASE Surroundings
  BY <1>10 DEF Surroundings, BackendEvent, OwnMove
<1> QED BY <1>1, <1>2, <1>3, <1>4, <1>5, <1>6, <1>7, <1>8, <1>9, <1>10 DEF DownloadNext, Transfer

LEMMA SameForCaller ==
    ASSUME CallerHas, UNCHANGED <<output, terminated, error, reports, closed, declared>>
    PROVE  CallerHas'
BY DEF CallerHas

LEMMA DownloadMoves ==
    ASSUME DownloadInv, [DownloadNext]_downloadVars
    PROVE  ReaderInv' /\ CallerHas'
<1>1. ReaderInv /\ CallerHas /\ IInv
  BY ClientFacts, DriveFacts
<1>2. CASE OwnMove /\ (InPoll \/ runnable' \in BOOLEAN)
  BY <1>1, <1>2, OwnMoveKeeps, CallerHasMore
<1>3. CASE DropReader
  <2>1. UNCHANGED <<output, terminated, error, reports, closed, declared>>
    BY <1>3 DEF DropReader, DropScheduler
  <2> QED BY <1>1, <1>3, <2>1, DropKeeps, SameForCaller DEF DropReader
<1>4. CASE BudgetThread(Self)
  <2>1. UNCHANGED <<output, terminated, error, reports, closed, declared>>
    BY <1>4 DEF BudgetThread, BudgetOnly, schedulerVars, outsideVars
  <2> QED BY <1>1, <1>4, <2>1, OthersKeep, SelfAssumption, SameForCaller
<1>5. CASE OnlyWakes
  <2>1. /\ UNCHANGED <<files, cells, emitted, discovered, cursor, closed, terminated, window,
                       error, pc, call, asleep, declared, output, reports>>
        /\ runnable' \in BOOLEAN /\ UNCHANGED budgetVars
    BY <1>5 DEF OnlyWakes, schedulerVars, pollVars
  <2>2. /\ IInv' /\ UNCHANGED alive /\ capacity'[Self] = capacity[Self]
        /\ request'[Self] = request[Self]
    BY <1>1, <2>1, BudgetStays
  <2> QED BY <1>1, <2>1, <2>2, BystanderKeeps, SameForCaller
<1> QED BY <1>2, <1>3, <1>4, <1>5, DownloadActs

-----------------------------------------------------------------------------
LEMMA DownloadStart ==
    ASSUME DownloadInit
    PROVE  DownloadInv
<1>1. /\ Init /\ stage = "meta" /\ queue = <<>> /\ admitted = <<>> /\ remaining = 0
      /\ sent = <<>> /\ meta \in MetaSizes \cup {NoMeta}
      /\ directory \in UNION {[names -> FileSizes] : names \in SUBSET Names}
  BY DEF DownloadInit
<1>2. /\ pc = "idle" /\ closed = FALSE /\ terminated = FALSE /\ declared = 0 /\ output = <<>>
      /\ reports = 0
  BY <1>1 DEF Init
<1>3. CallerHas
  BY <1>2 DEF CallerHas
<1>4. ClientTypes
  <2>1. PICK names \in SUBSET Names : directory \in [names -> FileSizes]
    BY <1>1
  <2>2. DOMAIN directory \subseteq Names /\ \A name \in DOMAIN directory : directory[name] \in Nat
    BY <2>1, DownloadAssumption
  <2>3. meta \in Nat \cup {NoMeta}
    BY <1>1, DownloadAssumption
  <2> QED BY <1>1, <2>2, <2>3 DEF ClientTypes
<1>5. StageFits
  BY <1>1, <1>2 DEF StageFits, Listed
<1>6. AdmittedFit
  BY <1>1, <1>2 DEF AdmittedFit, Follows
<1>7. QueueFits
  BY <1>1 DEF QueueFits, SortedByName, Listed
<1>8. SentFits
  BY <1>1, <1>2 DEF SentFits, Listed
<1> QED BY <1>1, <1>3, <1>4, <1>5, <1>6, <1>7, <1>8, ReaderStart DEF DownloadInv, ClientInv

LEMMA DownloadStep ==
    ASSUME DownloadInv, [DownloadNext]_downloadVars
    PROVE  DownloadInv'
<1>1. ClientInv'
  <2>1. CASE ReadMeta \/ ListDirectory \/ BeginPoll
    BY <2>1, ReadMetaKeeps, ListDirectoryKeeps, BeginPollKeeps
  <2>2. CASE AdmitFile
    <3>1. /\ stage = "admit" /\ queue # <<>> /\ PushNext
          /\ UNCHANGED <<directory, meta, stage, remaining, sent>>
      BY <2>2 DEF AdmitFile
    <3> QED BY <3>1, AdmitKeeps
  <2>3. CASE CloseAfterLast \/ AdmissionRefused \/ ReadNext
    BY <2>3, CloseAfterLastKeeps, AdmissionRefusedKeeps, ReadNextKeeps
  <2>4. CASE DriveFiles \/ ReadReturns \/ OfferAgain \/ Progress
    BY <2>4, DriveFilesKeeps, ReadReturnsKeeps, OfferAgainKeeps, ProgressKeeps
  <2>5. CASE SendFrame \/ SocketFails \/ Shutdown \/ DropReader
    BY <2>5, SendFrameKeeps, SocketFailsKeeps, ShutdownKeeps, DropReaderKeeps
  <2>6. CASE Surroundings \/ UNCHANGED downloadVars
    BY <2>6, SurroundingsKeep
  <2> QED BY <2>1, <2>2, <2>3, <2>4, <2>5, <2>6 DEF DownloadNext, Transfer
<1>2. ReaderInv' /\ CallerHas'
  BY DownloadMoves
<1> QED BY <1>1, <1>2 DEF DownloadInv

LEMMA DownloadInvariance == DownloadSpec => []DownloadInv
<1>1. DownloadInit => DownloadInv
  BY DownloadStart
<1>2. DownloadInv /\ [DownloadNext]_downloadVars => DownloadInv'
  BY DownloadStep
<1> QED BY <1>1, <1>2, PTL DEF DownloadSpec

(* What was sent is the beginning of the stream, and all of it at the end. *)
LEMMA StreamIsSent ==
    ASSUME DownloadInv
    PROVE  SentIsRestored
<1>1. /\ ClientTypes /\ StageFits /\ AdmittedFit /\ QueueFits /\ SentFits
      /\ Len(output) <= declared /\ Len(admitted) = declared
      /\ Len(output) \in Nat /\ declared \in Nat /\ Len(sent) \in Nat
  BY ClientFacts
<1>2. DOMAIN sent = 1..Len(sent) /\ DOMAIN admitted = 1..Len(admitted)
  BY <1>1 DEF ClientTypes
<1>3. Len(sent) <= Len(admitted)
  BY <1>1 DEF SentFits
<1>4. \A k \in 1..Len(sent) : k \in DOMAIN admitted /\ sent[k].block = admitted[k]
  BY <1>1, <1>2, <1>3 DEF SentFits
<1>5. ASSUME NEW k \in DOMAIN sent
      PROVE  /\ sent[k].block \in AllBlocks
             /\ {block \in AllBlocks : Earlier(block, sent[k].block)} = {sent[j].block : j \in 1..(k - 1)}
             /\ sent[k].length = IF k * Block <= meta THEN Block ELSE meta % Block
  <2>1. k \in DOMAIN admitted /\ sent[k].block = admitted[k] /\ admitted[k] \in AllBlocks
    BY <1>1, <1>2, <1>4 DEF ClientTypes
  <2>2. \A j \in 1..(k - 1) : sent[j].block = admitted[j]
    BY <1>1, <1>2, <1>4
  <2>3. {sent[j].block : j \in 1..(k - 1)} = {admitted[j] : j \in 1..(k - 1)}
    BY <2>2
  <2>4. {block \in AllBlocks : Earlier(block, admitted[k])} = {admitted[j] : j \in 1..(k - 1)}
    BY <1>1, <2>1 DEF AdmittedFit, Follows
  <2>5. sent[k].length = CutAt(k)
    BY <1>1 DEF SentFits
  <2> QED BY <2>1, <2>3, <2>4, <2>5 DEF CutAt
<1>6. ASSUME stage = "done"
      PROVE  /\ {sent[k].block : k \in DOMAIN sent} = AllBlocks
             /\ Len(sent) = (meta + Block - 1) \div Block
  <2>1. /\ Listed /\ queue = <<>> /\ Len(sent) = Len(admitted)
        /\ Cardinality(AllBlocks) = (meta + Block - 1) \div Block
    BY <1>1, <1>6 DEF StageFits, SentFits, Listed
  <2>2. \A block \in AllBlocks : \E k \in DOMAIN admitted : admitted[k] = block
    BY <1>1, <2>1 DEF QueueFits
  <2>3. Len(admitted) = Cardinality(AllBlocks)
    BY <1>1, <2>2, AdmittedCounts
  <2>4. ASSUME NEW block \in AllBlocks PROVE \E k \in DOMAIN sent : sent[k].block = block
    BY <1>2, <1>4, <2>1, <2>2
  <2>5. {sent[k].block : k \in DOMAIN sent} = AllBlocks
    BY <1>5, <2>4
  <2> QED BY <2>1, <2>3, <2>5
<1> QED BY <1>5, <1>6 DEF SentIsRestored

(* A transfer sends the stream from its beginning, and all of it when it    *)
(* says so, for every size of frame and file, every directory and its       *)
(* order, every total in stream.meta, every window, and every failure of    *)
(* the backend, the socket or the directory on the way.                     *)
THEOREM SentStaysRestored == DownloadSpec => []SentIsRestored
<1>1. DownloadInv => SentIsRestored
  BY StreamIsSent
<1> QED BY <1>1, DownloadInvariance, PTL

(* The reader that the transfer drives is the ordered stream too, although  *)
(* the client admits files without being polled again, drives the files     *)
(* while it sends and gives up at any time.                                 *)
THEOREM DownloadReadsInOrder == DownloadSpec => ImplementsOrderedRead
<1>1. DownloadInit => Ordered!StreamInit
  BY SelfAssumption DEF DownloadInit, Init, BudgetStart, Ordered!StreamInit
<1>2. DownloadInv /\ [DownloadNext]_downloadVars => [Ordered!StreamNext]_StreamView
  <2> SUFFICES ASSUME DownloadInv, [DownloadNext]_downloadVars
               PROVE  [Ordered!StreamNext]_StreamView
    OBVIOUS
  <2>1. ReaderInv
    BY ClientFacts
  <2>2. CASE OwnMove
    BY <2>1, <2>2, OwnMoveStreams
  <2>3. CASE DropReader
    BY <2>1, <2>3, StreamPart DEF DropReader, Next, Calls
  <2>4. CASE BudgetThread(Self)
    BY <2>1, <2>4, StreamPart, SelfAssumption DEF Next, Outside
  <2>5. CASE OnlyWakes
    <3>1. UNCHANGED <<declared, closed, output, alive, terminated, error>>
      BY <2>5 DEF OnlyWakes, schedulerVars, budgetVars
    <3> QED BY <3>1 DEF StreamView, Status
  <2> QED BY <2>2, <2>3, <2>4, <2>5, DownloadActs
<1>3. [Ordered!StreamNext]_StreamView => [Ordered!StreamNext]_Ordered!streamVars
  BY DEF StreamView, Status, Ordered!streamVars
<1> QED BY <1>1, <1>2, <1>3, DownloadInvariance, PTL
        DEF DownloadSpec, ImplementsOrderedRead, Ordered!StreamSpec

-----------------------------------------------------------------------------
(* The transfer's permit is the only one of its budget: it never waits. *)
OwnBudget ==
    /\ waiters = <<>> /\ parked[Self] = NoTask
    /\ ~request[Self].waiting /\ request[Self].granted = 0
    /\ available + capacity[Self] = Total

(* The stages of the client when the reader has said that it waits, and the *)
(* task is not yet awake again.                                             *)
Resting == (stage = "await" /\ ~runnable) \/ stage = "retry"

(* A read that says that it waits has a frame to wait for. *)
RestIsEarned ==
    /\ stage \notin {"done", "failed"} => alive[Self]
    /\ stage \in {"meta", "list"} => runnable
    /\ stage = "read" /\ pc = "polled" /\ ~terminated => Len(output) < declared
    /\ Resting => asleep /\ call = "read" /\ ~terminated /\ Len(output) < declared
    /\ stage = "await" /\ ~runnable => closed \/ Full
    /\ stage = "send" /\ pc = "idle" /\ ~runnable => asleep

TransferInv ==
    /\ DownloadInv /\ OwnBudget /\ RestIsEarned
    /\ DriveIsThorough /\ (stage # "admit" => PollIsThorough)

(* While the task sleeps, every file with an operation is waiting for the   *)
(* disk, with a frame on its way to the socket too.  If it sleeps for a     *)
(* frame, the file that the frame is in waits for it; and no file is left   *)
(* out that could be admitted, although admission wakes nobody.             *)
WaitsForFilesOnly ==
    /\ stage \in {"await", "send"} /\ pc = "idle" /\ ~runnable =>
          \A i \in DOMAIN files : HasOperation(files[i]) => files[i].io = "waiting"
    /\ stage = "await" /\ ~runnable =>
          /\ files # <<>> /\ Head(files).io = "waiting" /\ ~HeadComplete
          /\ closed \/ Full

(* A call on the only permit finds the frames that it asks for. *)
LEMMA OwnBudgetKept ==
    ASSUME DownloadInv, OwnBudget, [DownloadNext]_downloadVars
    PROVE  OwnBudget'
<1>1. /\ ReaderInv /\ Self \in Permits /\ Total \in Nat /\ capacity[Self] \in 0..Total
      /\ request \in [Permits -> Request] /\ capacity \in [Permits -> 0..Total]
      /\ parked \in [Permits -> Tasks \cup {NoTask}] /\ available \in 0..Total
  BY ClientFacts, DriveFacts, SelfTypes DEF IInv, TypeOK
<1>2. Held(Self) = capacity[Self]
  BY <1>1 DEF OwnBudget, Held
<1>3. CASE UNCHANGED budgetVars
  BY <1>3 DEF OwnBudget, budgetVars
<1>4. ASSUME NEW keep \in 0..Total, keep <= capacity[Self], GiveBack(Self, keep)
      PROVE  OwnBudget'
  <2>1. /\ waiters' = <<>> /\ parked'[Self] = NoTask
        /\ ~request'[Self].waiting /\ request'[Self].granted = 0
    BY <1>1, <1>4 DEF OwnBudget, GiveBack, Without, Request
  <2>2. available' = available + (capacity[Self] - keep) /\ capacity'[Self] = keep
    BY <1>1, <1>4 DEF OwnBudget, GiveBack, Refund
  <2> QED BY <1>1, <1>4, <2>1, <2>2 DEF OwnBudget
<1>5. ASSUME NEW minimum \in Nat, NEW desired \in Nat, PollGrow(Self, Reader, minimum, desired)
      PROVE  OwnBudget'
  <2>1. minimum <= desired /\ desired <= Total
    BY <1>5 DEF PollGrow
  <2>2. CASE GrowSatisfied(Self, minimum)
    BY <1>1, <2>2 DEF GrowSatisfied, OwnBudget
  <2>3. CASE Callable(Self) /\ capacity[Self] < minimum
    <3>1. ServedAtOnce(minimum - Held(Self)) /\ ~request[Self].waiting
      BY <1>1, <1>2, <2>1, <2>3 DEF OwnBudget, ServedAtOnce
    <3>2. GrowImmediate(Self, minimum, desired)
      BY <1>1, <1>2, <1>5, <2>3, <3>1
         DEF PollGrow, GrowSatisfied, GrowClaimed, GrowRepeated, GrowQueued, GrowLocked
    <3> DEFINE grant == Share(minimum - Held(Self), desired - Held(Self))
    <3>3. grant \in Int
      BY <1>1, <1>2 DEF Share
    <3>4. /\ capacity'[Self] = capacity[Self] + grant /\ available' = available - grant
          /\ waiters' = waiters /\ parked'[Self] = NoTask
          /\ request'[Self].waiting = request[Self].waiting /\ request'[Self].granted = 0
      BY <1>1, <1>2, <3>2 DEF GrowImmediate, Request
    <3> HIDE DEF grant
    <3> QED BY <1>1, <3>1, <3>3, <3>4 DEF OwnBudget
  <2>4. Callable(Self) /\ (capacity[Self] < minimum \/ GrowSatisfied(Self, minimum))
    BY <1>5 DEF PollGrow, GrowSatisfied, GrowClaimed, GrowRepeated, GrowImmediate, GrowQueued,
                GrowLocked
  <2> QED BY <2>2, <2>3, <2>4
<1>6. CASE OwnMove
  <2>1. OwnUse(Reader)
    BY <1>1, <1>6, OwnMoveUses
  <2>2. ASSUME NEW limit \in Nat, Shrink(limit) PROVE OwnBudget'
    <3> DEFINE keep == IF limit < capacity[Self] THEN limit ELSE capacity[Self]
    <3>1. keep \in 0..Total /\ keep <= capacity[Self]
      BY <1>1
    <3>2. GiveBack(Self, keep)
      BY <2>2 DEF Shrink, ShrinkTo
    <3> HIDE DEF keep
    <3> QED BY <1>4, <3>1, <3>2
  <2> QED BY <1>3, <1>5, <2>1, <2>2 DEF OwnUse
<1>7. CASE DropReader
  <2>1. GiveBack(Self, 0)
    BY <1>7 DEF DropReader, DropScheduler, Drop
  <2> QED BY <1>1, <1>4, <2>1
<1>8. CASE BudgetThread(Self)
  BY <1>8 DEF BudgetThread, Dispatch, Unlock, HeadServable, OwnBudget
<1>9. CASE OnlyWakes
  BY <1>3, <1>9 DEF OnlyWakes
<1> QED BY <1>6, <1>7, <1>8, <1>9, DownloadActs

-----------------------------------------------------------------------------
-----------------------------------------------------------------------------
LEMMA TransferFacts ==
    ASSUME TransferInv
    PROVE  /\ DownloadInv /\ ReaderInv /\ ReaderTypeOK /\ Control /\ StageFits
           /\ OwnBudget /\ RestIsEarned /\ DriveIsThorough
           /\ stage # "admit" => SleepInv
           /\ stage \notin {"read", "send"} => pc = "idle"
<1>1. /\ DownloadInv /\ OwnBudget /\ RestIsEarned /\ DriveIsThorough
      /\ stage # "admit" => PollIsThorough
  BY DEF TransferInv
<1>2. ReaderInv /\ ReaderTypeOK /\ StageFits
  BY <1>1, ClientFacts
<1>3. Control
  BY <1>2, DriveFacts
<1>4. stage \notin {"read", "send"} => pc = "idle"
  BY <1>2 DEF StageFits
<1> QED BY <1>1, <1>2, <1>3, <1>4 DEF SleepInv

(* The permit lives until the transfer is over. *)
LEMMA AliveStays ==
    ASSUME TransferInv, [DownloadNext]_downloadVars
    PROVE  stage' \notin {"done", "failed"} => alive'[Self]
<1>1. /\ DownloadInv /\ RestIsEarned /\ ReaderInv /\ IInv
  BY TransferFacts, DriveFacts
<1>2. ASSUME stage \in {"done", "failed"} PROVE stage' = stage
  <2>1. ~(ReadMeta \/ ListDirectory \/ BeginPoll \/ AdmitFile \/ CloseAfterLast \/ AdmissionRefused)
    BY <1>2 DEF ReadMeta, ListDirectory, BeginPoll, AdmitFile, CloseAfterLast, AdmissionRefused
  <2>2. ~(ReadNext \/ OfferAgain \/ Progress \/ Shutdown \/ SendFrame \/ SocketFails)
    BY <1>2 DEF ReadNext, OfferAgain, Progress, Shutdown, SendFrame, SocketFails
  <2>3. ~ReadReturns
    <3>1. pc = "idle"
      BY <1>2, TransferFacts
    <3> QED BY <3>1 DEF ReadReturns, FrameRead, StreamRead, ReadFails, NothingRead, Emit, ReportEnd,
                        ReportError, ReturnPending, InRead
  <2>4. UNCHANGED clientVars
    BY <2>1, <2>2, <2>3 DEF DownloadNext, Transfer, DriveFiles, DropReader, Surroundings, downloadVars
  <2> QED BY <2>4 DEF clientVars
<1>3. ASSUME stage' \notin {"done", "failed"} PROVE alive'[Self]
  <2>1. alive[Self] /\ stage \notin {"done", "failed"}
    BY <1>1, <1>2, <1>3 DEF RestIsEarned
  <2>2. CASE OwnMove
    <3>1. UNCHANGED alive
      BY <1>1, <2>2, OwnMoveUses, OwnStep, ReaderAssumption
    <3> QED BY <2>1, <3>1
  <2>3. CASE BudgetThread(Self)
    BY <2>1, <2>3 DEF BudgetThread, Dispatch, Unlock
  <2>4. CASE OnlyWakes
    BY <2>1, <2>4 DEF OnlyWakes, budgetVars
  <2>5. ~DropReader
    BY <2>1 DEF DropReader
  <2> QED BY <1>1, <2>2, <2>3, <2>4, <2>5, DownloadActs
<1> QED BY <1>3

(* What each stage may count on when the task rests. *)
LEMMA RestKept ==
    ASSUME TransferInv, [DownloadNext]_downloadVars
    PROVE  RestIsEarned'
<1>1. /\ DownloadInv /\ ReaderInv /\ Control /\ StageFits /\ RestIsEarned
      /\ stage \notin {"read", "send"} => pc = "idle"
  BY TransferFacts
<1>2. stage' \notin {"done", "failed"} => alive'[Self]
  BY AliveStays
<1>3. CASE ReadMeta \/ ListDirectory
  <2>1. /\ stage \in {"meta", "list"} /\ stage' \in {"list", "await", "failed"}
        /\ UNCHANGED runnable
    BY <1>3 DEF ReadMeta, ListDirectory, vars, outsideVars
  <2> QED BY <1>1, <1>2, <2>1 DEF RestIsEarned, Resting
<1>4. CASE BeginPoll \/ AdmitFile \/ CloseAfterLast
  <2>1. stage' = "admit"
    BY <1>4 DEF BeginPoll, AdmitFile, CloseAfterLast, clientVars
  <2> QED BY <1>2, <2>1 DEF RestIsEarned, Resting
<1>5. CASE AdmissionRefused \/ ReadNext
  <2>1. CASE stage' = "failed"
    BY <1>2, <2>1 DEF RestIsEarned, Resting
  <2>2. CASE stage' = "read" /\ Begin("read") /\ (closed \/ (Full /\ ~terminated))
    <3>1. ASSUME pc' = "polled", ~terminated' PROVE Len(output') < declared'
      <4>1. ~terminated /\ files = <<>> /\ terminated' = closed
        BY <2>2, <3>1 DEF Begin, EndedByClose
      <4>2. alive[Self] /\ Full
        BY <2>2, <3>1, <4>1 DEF Begin, Idle, Callable
      <4> QED BY <1>1, <4>1, <4>2, FullHasFiles
    <3> QED BY <1>2, <2>2, <3>1 DEF RestIsEarned, Resting
  <2> QED BY <1>5, <2>1, <2>2 DEF AdmissionRefused, ReadNext
<1>6. CASE DriveFiles
  <2>1. UNCHANGED <<stage, output, declared>> /\ pc # "idle"
    BY <1>6 DEF DriveFiles, Grow, DriveStep, ProgressReturns, Continue, Fail, PollBackend, Retry,
                Receive, clientVars, outsideVars
  <2>2. pc' = "polled" => pc = "drive"
    BY <1>6 DEF DriveFiles, Grow, DriveStep, ProgressReturns
  <2>3. pc' = "idle" => asleep'
    <3>1. DriveStep => pc' \in {"drive", "polled"}
      BY DEF DriveStep, PollBackend, Receive, Retry, Continue, Fail
    <3> QED BY <1>6, <3>1 DEF DriveFiles, Grow, ProgressReturns
  <2>4. pc' = "polled" => Len(output') < declared'
    BY <1>1, <2>1, <2>2, FilesAndFrames DEF Control
  <2>5. stage' \in {"read", "send"}
    BY <1>1, <2>1
  <2> QED BY <1>2, <2>3, <2>4, <2>5 DEF RestIsEarned, Resting
<1>7. CASE ReadReturns
  <2>1. CASE FrameRead \/ StreamRead \/ ReadFails
    <3>1. runnable' = TRUE /\ stage' \in {"send", "shutdown", "failed"}
      BY <2>1 DEF FrameRead, StreamRead, ReadFails, Emit, ReportEnd, ReportError, ReturnReady
    <3> QED BY <1>2, <3>1 DEF RestIsEarned, Resting
  <2>2. CASE NothingRead
    <3>1. /\ pc = "polled" /\ call = "read" /\ ~terminated /\ asleep' = TRUE /\ stage' = "retry"
          /\ UNCHANGED <<call, terminated, output, declared>>
      BY <2>2 DEF NothingRead, ReturnPending, InRead, schedulerVars
    <3>2. stage = "read"
      BY <1>1, <3>1 DEF StageFits
    <3> QED BY <1>1, <1>2, <3>1, <3>2 DEF RestIsEarned, Resting
  <2> QED BY <1>7, <2>1, <2>2 DEF ReadReturns
<1>8. CASE OfferAgain
  <2>1. stage = "retry" /\ stage' = "await" /\ pc = "idle"
    BY <1>1, <1>8 DEF OfferAgain
  <2>2. CASE runnable' = TRUE
    BY <1>2, <2>1, <2>2 DEF RestIsEarned, Resting
  <2>3. CASE UNCHANGED vars /\ (closed \/ Full)
    <3>1. UNCHANGED <<files, window, discovered, emitted, closed, asleep, call, terminated, output,
                      declared>>
      BY <2>3 DEF vars, schedulerVars, pollVars, outsideVars
    <3>2. closed' \/ Full'
      BY <2>3, <3>1 DEF Full, Horizon, Distance
    <3> QED BY <1>1, <1>2, <2>1, <3>1, <3>2 DEF RestIsEarned, Resting
  <2> QED BY <1>8, <2>2, <2>3 DEF OfferAgain
<1>9. CASE Progress
  <2>1. stage' = "send" /\ pc' # "idle"
    BY <1>9 DEF Progress, Poll, Begin, clientVars
  <2> QED BY <1>2, <2>1 DEF RestIsEarned, Resting
<1>10. CASE SendFrame
  <2>1. stage' = "await" /\ runnable' = TRUE
    BY <1>10 DEF SendFrame, PolledAgain
  <2> QED BY <1>2, <2>1 DEF RestIsEarned, Resting
<1>11. CASE SocketFails \/ Shutdown \/ DropReader
  <2>1. stage' \in {"done", "failed"}
    BY <1>11 DEF SocketFails, Shutdown, DropReader, clientVars
  <2> QED BY <2>1 DEF RestIsEarned, Resting
<1>12. CASE \/ BudgetThread(Self) /\ UNCHANGED clientVars
            \/ UNCHANGED downloadVars
  <2>1. /\ UNCHANGED <<stage, runnable, asleep, call, terminated, output, declared, files, window,
                       discovered, emitted, closed, pc>>
    BY <1>12 DEF BudgetThread, BudgetOnly, downloadVars, vars, clientVars, schedulerVars, pollVars,
                 outsideVars
  <2>2. Full' <=> Full
    BY <2>1 DEF Full, Horizon, Distance
  <2> QED BY <1>1, <1>2, <2>1, <2>2 DEF RestIsEarned, Resting
<1>13. CASE (\E i \in DOMAIN files : BackendEvent(i)) /\ UNCHANGED clientVars
  <2>1. /\ runnable' = TRUE
        /\ UNCHANGED <<stage, asleep, call, terminated, output, declared, pc>>
    BY <1>13 DEF BackendEvent, clientVars, pollVars
  <2> QED BY <1>1, <1>2, <2>1 DEF RestIsEarned, Resting
<1> QED BY <1>3, <1>4, <1>5, <1>6, <1>7, <1>8, <1>9, <1>10, <1>11, <1>12, <1>13
        DEF DownloadNext, Transfer, Surroundings

(* The loop of drive leaves nothing undone in this client's polls either. *)
LEMMA DrivingKept ==
    ASSUME TransferInv, [DownloadNext]_downloadVars
    PROVE  DriveIsThorough' /\ (stage' # "admit" => PollIsThorough')
<1>1. /\ DownloadInv /\ ReaderInv /\ StageFits
      /\ stage # "admit" => SleepInv
      /\ stage \notin {"read", "send"} => pc = "idle"
  BY TransferFacts
<1>2. CASE ReadMeta \/ ListDirectory \/ SocketFails \/ Shutdown
  <2>1. stage # "admit" /\ UNCHANGED vars
    BY <1>2 DEF ReadMeta, ListDirectory, SocketFails, Shutdown
  <2> QED BY <1>1, <2>1, OutsideSleeps
<1>3. CASE BeginPoll \/ AdmitFile \/ CloseAfterLast
  <2>1. stage' = "admit" /\ pc' = "idle"
    BY <1>3 DEF BeginPoll, AdmitFile, CloseAfterLast, PushNext, Push, Close, Idle, pollVars, clientVars
  <2> QED BY <2>1 DEF DriveIsThorough
<1>4. CASE AdmissionRefused \/ ReadNext
  <2>1. CASE Begin("read")
    BY <2>1, BeginIsThorough
  <2>2. CASE terminated /\ UNCHANGED vars
    <3>1. pc' = "idle" /\ terminated'
      BY <1>1, <1>4, <2>2 DEF AdmissionRefused, ReadNext, vars, schedulerVars, pollVars
    <3> QED BY <3>1 DEF DriveIsThorough, PollIsThorough
  <2> QED BY <1>4, <2>1, <2>2 DEF AdmissionRefused, ReadNext
<1>5. CASE DriveFiles
  <2>1. stage # "admit"
    BY <1>1, <1>5, DriveKeepsCall DEF DriveFiles, Grow, ProgressReturns
  <2> QED BY <1>1, <1>5, <2>1, GrowSleeps, DriveSleeps, CallsSleep DEF DriveFiles
<1>6. CASE ReadReturns
  <2>1. Emit \/ ReportEnd \/ ReportError \/ ReturnPending
    BY <1>6 DEF ReadReturns, FrameRead, StreamRead, ReadFails, NothingRead
  <2>2. stage # "admit"
    BY <1>1, <2>1 DEF Emit, ReportEnd, ReportError, ReturnPending, InRead
  <2> QED BY <1>1, <2>1, <2>2, CallsSleep
<1>7. CASE OfferAgain
  <2>1. stage = "retry"
    BY <1>7 DEF OfferAgain
  <2>2. CASE UNCHANGED vars
    BY <1>1, <2>1, <2>2, OutsideSleeps
  <2>3. CASE PushNext /\ runnable' = TRUE
    <3>1. ~closed /\ Push(Blocks(Head(queue)))
      BY <2>3 DEF PushNext, Push
    <3>2. Listed /\ queue # <<>>
      BY <1>1, <2>1, <3>1 DEF StageFits, Listed
    <3>3. Blocks(Head(queue)) \in FrameCounts
      BY <1>1, <3>2, AdmittedCount
    <3>4. PushFile(Blocks(Head(queue)))
      BY <2>3, <3>1 DEF PushFile, Repoll
    <3> QED BY <1>1, <2>1, <3>3, <3>4, CallsSleep
  <2> QED BY <1>7, <2>2, <2>3 DEF OfferAgain
<1>8. CASE Progress
  <2>1. stage = "send" /\ Poll("progress")
    BY <1>8 DEF Progress
  <2> QED BY <1>1, <2>1, CallsSleep
<1>9. CASE SendFrame
  <2>1. /\ stage = "send" /\ pc = "idle" /\ runnable' = TRUE
        /\ UNCHANGED <<pc, call, cells, asleep, terminated>>
    BY <1>9 DEF SendFrame, PolledAgain, Idle, pollVars, schedulerVars
  <2>2. PollIsThorough
    BY <1>1, <2>1 DEF SleepInv
  <2> QED BY <2>1, <2>2 DEF DriveIsThorough, PollIsThorough, HeadComplete
<1>10. CASE DropReader
  <2>1. stage # "admit" /\ DropScheduler
    BY <1>10 DEF DropReader
  <2> QED BY <1>1, <2>1, CallsSleep
<1>11. CASE Surroundings \/ UNCHANGED downloadVars
  <2>1. (Outside \/ UNCHANGED vars) /\ UNCHANGED <<stage, pc>>
    BY <1>11, SelfAssumption DEF Surroundings, Outside, BudgetThread, BudgetOnly, BackendEvent,
                                 downloadVars, vars, pollVars, clientVars
  <2>2. CASE stage = "admit"
    BY <1>1, <2>1, <2>2 DEF DriveIsThorough
  <2>3. CASE stage # "admit"
    BY <1>1, <2>1, <2>3, OutsideSleeps
  <2> QED BY <2>2, <2>3
<1> QED BY <1>2, <1>3, <1>4, <1>5, <1>6, <1>7, <1>8, <1>9, <1>10, <1>11 DEF DownloadNext, Transfer

LEMMA TransferInvariance == DownloadSpec => []TransferInv
<1>1. ASSUME DownloadInit PROVE TransferInv
  <2>1. Init /\ stage = "meta"
    BY <1>1 DEF DownloadInit
  <2>2. OwnBudget
    BY <2>1, SelfAssumption, BudgetAssumption DEF Init, BudgetStart, OwnBudget, DefaultRequest
  <2>3. RestIsEarned /\ DriveIsThorough /\ PollIsThorough
    BY <2>1, SelfAssumption DEF Init, BudgetStart, RestIsEarned, Resting, DriveIsThorough, PollIsThorough
  <2> QED BY <1>1, <2>2, <2>3, DownloadStart DEF TransferInv
<1>2. ASSUME TransferInv, [DownloadNext]_downloadVars PROVE TransferInv'
  <2>1. DownloadInv /\ OwnBudget
    BY <1>2, TransferFacts
  <2> QED BY <1>2, <2>1, DownloadStep, OwnBudgetKept, RestKept, DrivingKept DEF TransferInv
<1> QED BY <1>1, <1>2, PTL DEF DownloadSpec

(* A transfer sleeps only for the disk or for the socket: with its own      *)
(* budget it never waits for frames, whatever the window; a file refused as *)
(* Full is not forgotten while there is room for it; and no wake is lost    *)
(* between the reads, the offers and the frames that are being sent.        *)
THEOREM DownloadWaitsForFiles == DownloadSpec => []WaitsForFilesOnly
<1>1. ASSUME TransferInv PROVE WaitsForFilesOnly
  <2>1. /\ ReaderInv /\ Control /\ OwnBudget /\ RestIsEarned
        /\ stage # "admit" => SleepInv
        /\ stage \notin {"read", "send"} => pc = "idle"
    BY <1>1, TransferFacts
  <2>2. parked[Self] # Reader
    BY <2>1, BudgetAssumption, ReaderAssumption DEF OwnBudget
  <2>3. ASSUME stage \in {"await", "send"}, pc = "idle", ~runnable, NEW i \in DOMAIN files,
               HasOperation(files[i])
        PROVE  files[i].io = "waiting"
    <3>1. asleep /\ files # <<>> /\ ~terminated
      BY <2>1, <2>3 DEF RestIsEarned, Resting, Control
    <3>2. SleepsOnlyWhenStuck
      BY <2>1, <2>3, StuckWhenAsleep
    <3> QED BY <2>3, <3>1, <3>2 DEF SleepsOnlyWhenStuck
  <2>4. ASSUME stage = "await", ~runnable
        PROVE  /\ files # <<>> /\ Head(files).io = "waiting" /\ ~HeadComplete
               /\ closed \/ Full
    <3>1. /\ pc = "idle" /\ asleep /\ call = "read" /\ ~terminated /\ Len(output) < declared
          /\ alive[Self] /\ (closed \/ Full)
      BY <2>1, <2>4 DEF RestIsEarned, Resting
    <3>2. files # <<>>
      BY <2>1, <3>1, FilesAndFrames
    <3>3. SleepsOnlyWhenStuck
      BY <2>1, <2>4, StuckWhenAsleep
    <3> QED BY <2>2, <2>4, <3>1, <3>2, <3>3 DEF SleepsOnlyWhenStuck
  <2> QED BY <2>3, <2>4 DEF WaitsForFilesOnly
<1> QED BY <1>1, TransferInvariance, PTL

=============================================================================
