------------------------- MODULE ReadSchedulerProofs -------------------------
(***************************************************************************)
(* Proofs about ReadScheduler for every budget, window, set of files, batch *)
(* and modulus.                                                            *)
(***************************************************************************)
EXTENDS ReadScheduler, SchedulerPermitProofs

(* The number after the last frame of a slot's file. *)
Past(slot) == slot.first + slot.count

(* The positions are the numbers of the next frame to emit and to declare,  *)
(* wrapped; they are less than a turn apart.                                *)
Positions ==
    /\ emitted = Len(output) % Modulus /\ discovered = declared % Modulus
    /\ Len(output) <= declared /\ declared - Len(output) < Modulus

(* Every file has declared frames, some of them not emitted; what of it was *)
(* emitted, was received.                                                   *)
SlotPlaces ==
    \A i \in DOMAIN files :
        /\ files[i].start = (files[i].first - 1) % Modulus
        /\ Len(output) + 1 < Past(files[i]) /\ Past(files[i]) <= declared + 1
        /\ Len(output) < files[i].first + files[i].received

FilesInOrder == \A i, j \in DOMAIN files : i < j => Past(files[i]) <= files[j].first

(* Every frame to come belongs to a file, unless the stream has ended. *)
FramesHaveFiles ==
    alive[Self] /\ ~terminated =>
        \A n \in (Len(output) + 1)..declared : \E i \in DOMAIN files :
            n \in files[i].first..(Past(files[i]) - 1)

(* What a cell may hold, as frame n of a slot's file. *)
CellFits(cell, slot, n) ==
    /\ cell.state = "complete" <=> n < slot.first + slot.received
    /\ cell.state = "complete" => cell.value = n
    /\ cell.state = "filling" => n = slot.first + slot.received

(* Every cell holds what its file has of its frame, and every frame that a  *)
(* file received and nobody took has a cell.                                *)
CellsFit(fs, cs) ==
    /\ \A k \in DOMAIN cs : \A i \in DOMAIN fs :
          Len(output) + k \in fs[i].first..(Past(fs[i]) - 1)
             => CellFits(cs[k], fs[i], Len(output) + k)
    /\ \A i \in DOMAIN fs : fs[i].received > 0 =>
          fs[i].first + fs[i].received <= Len(output) + Len(cs) + 1

CellsInPlace == CellsFit(files, cells)

WindowFits == Len(cells) <= declared - Len(output) /\ Len(cells) <= capacity[Self]

(* Where a poll may be, and what an error means. *)
Control ==
    /\ pc # "idle" => alive[Self] /\ ~asleep
    /\ pc \in {"grow", "drive"} => ~terminated /\ files # <<>>
    /\ terminated \/ ~alive[Self] => files = <<>> /\ cells = <<>>
    /\ error # "none" => terminated /\ reports = 0
    /\ ~terminated => reports = 0
    /\ error # "position"

(* A permit that holds no frame of a scheduler without files is out of the  *)
(* queue, too; a scheduler that has ended, or was polled, holds none.       *)
Released ==
    /\ files = <<>> /\ capacity[Self] = 0 =>
          request[Self].granted = 0 /\ ~request[Self].waiting
    /\ terminated \/ ~alive[Self] => capacity[Self] = 0
    /\ files = <<>> /\ (asleep \/ pc = "polled") => capacity[Self] = 0

ReaderInv ==
    /\ IInv /\ ReaderTypeOK
    /\ Positions /\ SlotPlaces /\ FilesInOrder /\ FramesHaveFiles
    /\ CellsInPlace /\ WindowFits /\ Control /\ Released

-----------------------------------------------------------------------------
(* Wrapped positions. *)
LEMMA WrappedDistance ==
    ASSUME NEW m \in Nat \ {0}, NEW a \in Nat, NEW b \in Nat, b <= a, a - b < m
    PROVE  ((a % m) - (b % m)) % m = a - b
<1> DEFINE q == a \div m
           p == b \div m
<1>1. a = q * m + (a % m) /\ q \in Int /\ a % m \in 0..(m - 1)
  OBVIOUS
<1>2. b = p * m + (b % m) /\ p \in Int /\ b % m \in 0..(m - 1)
  OBVIOUS
<1>3. (p - q) * m = p * m - q * m /\ p - q \in Int /\ q * m \in Int /\ p * m \in Int
  BY <1>1, <1>2
<1> DEFINE ra == a % m
           rb == b % m
<1>r. ra \in Int /\ rb \in Int /\ a = q * m + ra /\ b = p * m + rb
  BY <1>1, <1>2
<1> HIDE DEF q, p, ra, rb
<1>4. ra - rb = (p - q) * m + (a - b) /\ ra - rb \in Int
  BY <1>r, <1>3
<1>5. a - b \in 0..(m - 1)
  OBVIOUS
<1>6. (ra - rb) % m = a - b
  BY <1>3, <1>4, <1>5, WrapOf
<1> QED BY <1>6 DEF ra, rb

-----------------------------------------------------------------------------
(* What the types say of one slot. *)
LEMMA SlotFacts ==
    ASSUME ReaderTypeOK, NEW i \in DOMAIN files
    PROVE  /\ files[i] \in SlotType /\ i \in 1..Len(files) /\ Len(files) \in Nat
           /\ files[i].start \in 0..(Modulus - 1) /\ files[i].first \in 1..MaxFrames
           /\ files[i].count \in 1..(Modulus - 1) /\ files[i].count \in FrameCounts
           /\ files[i].received \in 0..files[i].count /\ files[i].retries \in 0..MaxRetries
           /\ Past(files[i]) \in Nat
<1>1. files \in Seq(SlotType) /\ files[i].received <= files[i].count
  BY DEF ReaderTypeOK
<1>2. files[i] \in SlotType /\ i \in 1..Len(files) /\ Len(files) \in Nat
  BY <1>1
<1>3. /\ files[i].start \in 0..(Modulus - 1) /\ files[i].first \in 1..MaxFrames
      /\ files[i].count \in FrameCounts \ {0} /\ files[i].received \in Nat
      /\ files[i].retries \in 0..MaxRetries
  BY <1>2 DEF SlotType
<1>4. FrameCounts \subseteq 0..(Modulus - 1) /\ Modulus \in Nat /\ MaxFrames \in Nat
  BY ReaderAssumption
<1>5. /\ files[i].count \in 1..(Modulus - 1) /\ files[i].count \in FrameCounts
      /\ files[i].received \in 0..files[i].count
  <2>1. files[i].count \in FrameCounts /\ files[i].count # 0
    BY <1>3
  <2>2. files[i].count \in 0..(Modulus - 1)
    BY <1>4, <2>1
  <2> QED BY <1>1, <1>3, <1>4, <2>1, <2>2
<1>6. Past(files[i]) \in Nat
  BY <1>3, <1>4, <1>5 DEF Past
<1> QED BY <1>2, <1>3, <1>5, <1>6

(* The types of the positions and their history. *)
LEMMA CountFacts ==
    ASSUME ReaderTypeOK, Positions
    PROVE  /\ Modulus \in Nat \ {0} /\ MaxFrames \in Nat
           /\ Len(output) \in Nat /\ declared \in 0..MaxFrames /\ Len(output) <= declared
           /\ Len(cells) \in Nat /\ cells \in Seq(CellType) /\ output \in Seq(1..MaxFrames)
           /\ Distance(discovered, emitted) = declared - Len(output)
<1>1. /\ Modulus \in Nat \ {0} /\ MaxFrames \in Nat
      /\ Len(output) \in Nat /\ declared \in 0..MaxFrames /\ Len(output) <= declared
      /\ Len(cells) \in Nat /\ cells \in Seq(CellType) /\ output \in Seq(1..MaxFrames)
  BY ReaderAssumption DEF ReaderTypeOK, Positions
<1>2. ((declared % Modulus) - (Len(output) % Modulus)) % Modulus = declared - Len(output)
  <2>1. declared \in Nat /\ declared - Len(output) < Modulus
    BY <1>1 DEF Positions
  <2> QED BY <1>1, <2>1, WrappedDistance, Zenon
<1>3. emitted = Len(output) % Modulus /\ discovered = declared % Modulus
  BY DEF Positions
<1> QED BY <1>1, <1>2, <1>3, Zenon DEF Distance

(* A wrapped position of the stream, and its distance from the front. *)
LEMMA PlaceOf ==
    ASSUME ReaderTypeOK, Positions, NEW first \in Nat \ {0}, NEW more \in Nat,
           Len(output) < first + more, first + more <= declared + 1
    PROVE  /\ Plus((first - 1) % Modulus, more) = (first - 1 + more) % Modulus
           /\ Distance(Plus((first - 1) % Modulus, more), emitted) = first - 1 + more - Len(output)
<1>0. /\ Modulus \in Nat \ {0} /\ Len(output) \in Nat /\ declared \in Nat
      /\ emitted = Len(output) % Modulus /\ declared - Len(output) < Modulus
  BY CountFacts DEF Positions
<1>1. first - 1 \in Nat
  OBVIOUS
<1>2. (((first - 1) % Modulus) + more) % Modulus = (first - 1 + more) % Modulus
  BY <1>0, <1>1, WrappedSum, Zenon
<1>3. Plus((first - 1) % Modulus, more) = (first - 1 + more) % Modulus
  BY <1>2, Zenon DEF Plus
<1> DEFINE place == first - 1 + more
<1>4. place \in Nat /\ Len(output) <= place /\ place - Len(output) < Modulus
  BY <1>0
<1> HIDE DEF place
<1>5. ((place % Modulus) - (Len(output) % Modulus)) % Modulus = place - Len(output)
  BY <1>0, <1>4, WrappedDistance, Zenon
<1>6. Distance(place % Modulus, emitted) = place - Len(output)
  BY <1>0, <1>5, Zenon DEF Distance
<1>7. Distance((first - 1 + more) % Modulus, emitted) = first - 1 + more - Len(output)
  BY <1>6 DEF place
<1>8. Distance(Plus((first - 1) % Modulus, more), emitted) = first - 1 + more - Len(output)
  BY <1>3, <1>7
<1> QED BY <1>3, <1>8

(* The next frame of a file lies where its number says. *)
LEMMA OffsetOf ==
    ASSUME ReaderTypeOK, Positions, SlotPlaces, NEW i \in DOMAIN files
    PROVE  Offset(files[i]) = files[i].first + files[i].received - Len(output)
<1>1. /\ files[i].first \in Nat \ {0} /\ files[i].received \in Nat
      /\ files[i].received <= files[i].count /\ files[i].count \in Nat
  BY SlotFacts, CountFacts
<1>2. /\ Len(output) < files[i].first + files[i].received
      /\ files[i].first + files[i].received <= declared + 1
      /\ files[i].start = (files[i].first - 1) % Modulus
  BY <1>1, CountFacts DEF SlotPlaces, Past
<1> DEFINE first == files[i].first
           more == files[i].received
           away == Distance(Plus((first - 1) % Modulus, more), emitted)
<1>3. first \in Nat \ {0} /\ more \in Nat /\ Len(output) \in Nat
      /\ Len(output) < first + more /\ first + more <= declared + 1
  BY <1>1, <1>2, CountFacts
<1>4. Offset(files[i]) = away + 1
  BY <1>2, Zenon DEF Offset
<1>5. away = first - 1 + more - Len(output)
  BY <1>3, PlaceOf
<1> HIDE DEF first, more, away
<1>6. Offset(files[i]) = first + more - Len(output)
  BY <1>3, <1>4, <1>5
<1> QED BY <1>6 DEF first, more

(* While a file has frames to emit, it does not retire. *)
LEMMA NotRetired ==
    ASSUME ReaderTypeOK, Positions, SlotPlaces, files # <<>>,
           NEW fs \in Seq(SlotType), fs # <<>>,
           fs[1].start = files[1].start, fs[1].count = files[1].count
    PROVE  Kept(fs, emitted) = fs
<1> DEFINE end == Plus(files[1].start, files[1].count)
<1>1. 1 \in DOMAIN files
  BY DEF ReaderTypeOK
<1>2. /\ files[1].first \in Nat \ {0} /\ files[1].count \in Nat
      /\ Len(output) \in Nat /\ declared \in Nat
  BY <1>1, SlotFacts, CountFacts
<1>3. /\ Len(output) + 1 < files[1].first + files[1].count
      /\ files[1].first + files[1].count <= declared + 1
      /\ files[1].start = (files[1].first - 1) % Modulus
  BY <1>1 DEF SlotPlaces, Past
<1>4. Len(output) < files[1].first + files[1].count
  BY <1>2, <1>3
<1>5. Distance(end, emitted) = files[1].first - 1 + files[1].count - Len(output)
  BY <1>2, <1>3, <1>4, PlaceOf, Zenon
<1>6. Distance(end, emitted) # 0
  BY <1>2, <1>3, <1>5
<1>7. Distance(emitted, emitted) = 0
  <2>1. emitted - emitted = 0
    BY DEF ReaderTypeOK
  <2>2. 0 % Modulus = 0
    BY CountFacts
  <2> QED BY <2>1, <2>2 DEF Distance
<1>8. emitted # end
  BY <1>6, <1>7
<1>9. emitted # End(Head(fs))
  BY <1>8 DEF End
<1> QED BY <1>9 DEF Kept

-----------------------------------------------------------------------------
(* A queue of slots with one of them replaced by a slot of the same file. *)
SameFile(a, b) == a.start = b.start /\ a.count = b.count /\ a.first = b.first

Put(cs, k, cell) == [cs EXCEPT ![k] = cell]

LEMMA PutFacts ==
    ASSUME NEW cs \in Seq(CellType), NEW k \in DOMAIN cs, NEW cell \in CellType
    PROVE  /\ Put(cs, k, cell) \in Seq(CellType) /\ Len(Put(cs, k, cell)) = Len(cs)
           /\ DOMAIN Put(cs, k, cell) = DOMAIN cs /\ Put(cs, k, cell)[k] = cell
           /\ \A j \in DOMAIN cs \ {k} : Put(cs, k, cell)[j] = cs[j]
BY DEF Put

LEMMA Replaced ==
    ASSUME ReaderTypeOK, NEW i \in DOMAIN files, NEW slot \in SlotType, SameFile(slot, files[i])
    PROVE  /\ With(i, slot) \in Seq(SlotType) /\ Len(With(i, slot)) = Len(files)
           /\ DOMAIN With(i, slot) = DOMAIN files /\ With(i, slot)[i] = slot
           /\ \A j \in DOMAIN files \ {i} : With(i, slot)[j] = files[j]
           /\ \A j \in DOMAIN files : SameFile(With(i, slot)[j], files[j])
<1>1. files \in Seq(SlotType)
  BY DEF ReaderTypeOK
<1> QED BY <1>1 DEF With, SameFile

(* The window grows by empty cells, as far as the grant and the files go. *)
LEMMA WindowGrows ==
    ASSUME ReaderTypeOK, Positions, NEW grant \in Nat, NEW cs \in Seq(CellType)
    PROVE  /\ Window(grant, cs) \in Seq(CellType)
           /\ Len(cs) <= Len(Window(grant, cs))
           /\ Len(cs) <= grant => Len(Window(grant, cs)) <= grant
           /\ Len(cs) <= declared - Len(output)
                 => Len(Window(grant, cs)) <= declared - Len(output)
           /\ \A k \in 1..Len(cs) : Window(grant, cs)[k] = cs[k]
           /\ \A k \in 1..Len(Window(grant, cs)) : k > Len(cs) => Window(grant, cs)[k] = NewCell
<1> DEFINE room == Less(WindowLimit(grant), Len(cs))
           known == Less(Distance(discovered, emitted), Len(cs))
           more == [k \in 1..Least(room, known) |-> NewCell]
<1>1. /\ Len(output) \in Nat /\ declared \in Nat /\ Len(output) <= declared /\ Len(cs) \in Nat
      /\ Distance(discovered, emitted) = declared - Len(output)
  BY CountFacts
<1>2. WindowLimit(grant) \in Nat /\ WindowLimit(grant) <= grant
  BY ReaderAssumption DEF WindowLimit, Least, ReaderTypeOK
<1>3. /\ Least(room, known) \in Nat /\ Least(room, known) <= room /\ Least(room, known) <= known
      /\ room \in Nat /\ known \in Nat
  BY <1>1, <1>2 DEF Less, Least
<1>4. /\ Len(cs) <= grant => Len(cs) + Least(room, known) <= grant
      /\ Len(cs) <= declared - Len(output)
            => Len(cs) + Least(room, known) <= declared - Len(output)
  BY <1>1, <1>2, <1>3 DEF Less
<1>5. NewCell \in CellType
  BY ReaderAssumption DEF NewCell, CellType
<1>6. /\ more \in Seq(CellType) /\ Len(more) = Least(room, known)
      /\ \A k \in 1..Least(room, known) : more[k] = NewCell
  BY <1>3, <1>5
<1>7. Window(grant, cs) = cs \o more
  BY DEF Window
<1> HIDE DEF room, known, more
<1>8. /\ cs \o more \in Seq(CellType) /\ Len(cs \o more) = Len(cs) + Len(more)
      /\ \A k \in 1..Len(cs) : (cs \o more)[k] = cs[k]
      /\ \A k \in 1..Len(cs \o more) : k > Len(cs) => (cs \o more)[k] = more[k - Len(cs)]
  BY <1>6
<1>9. \A k \in 1..Len(cs \o more) : k > Len(cs) => (cs \o more)[k] = NewCell
  <2> SUFFICES ASSUME NEW k \in 1..Len(cs \o more), k > Len(cs)
               PROVE  (cs \o more)[k] = NewCell
    OBVIOUS
  <2>1. k - Len(cs) \in 1..Least(room, known)
    BY <1>1, <1>3, <1>6, <1>8
  <2> QED BY <1>6, <1>8, <2>1
<1> QED BY <1>1, <1>3, <1>4, <1>6, <1>7, <1>8, <1>9

(* The new cells fit: no file has received a frame beyond the window. *)
LEMMA WindowFitsCells ==
    ASSUME ReaderTypeOK, Positions, NEW fs \in Seq(SlotType), NEW grant \in Nat,
           NEW cs \in Seq(CellType), CellsFit(fs, cs)
    PROVE  CellsFit(fs, Window(grant, cs))
<1> DEFINE w == Window(grant, cs)
<1>1. /\ Len(cs) \in Nat /\ Len(w) \in Nat /\ Len(cs) <= Len(w) /\ DOMAIN w = 1..Len(w)
      /\ \A k \in 1..Len(cs) : w[k] = cs[k]
      /\ \A k \in 1..Len(w) : k > Len(cs) => w[k] = NewCell
      /\ Len(output) \in Nat
  BY WindowGrows, CountFacts
<1> HIDE DEF w
<1>4. ASSUME NEW i \in DOMAIN fs PROVE fs[i].first \in Nat /\ fs[i].received \in Nat
  <2>1. fs[i] \in SlotType
    OBVIOUS
  <2> QED BY <2>1, ReaderAssumption DEF SlotType
<1>2. ASSUME NEW k \in DOMAIN w, NEW i \in DOMAIN fs,
             Len(output) + k \in fs[i].first..(Past(fs[i]) - 1)
      PROVE  CellFits(w[k], fs[i], Len(output) + k)
  <2>1. CASE k \in DOMAIN cs
    BY <1>1, <1>2, <2>1 DEF CellsFit
  <2>2. CASE k \notin DOMAIN cs
    <3>1. fs[i].first \in Nat /\ fs[i].received \in Nat /\ k \in Nat
      BY <1>1, <1>4
    <3>2. w[k].state = "empty"
      BY <1>1, <2>2 DEF NewCell
    <3>3. ~(Len(output) + k < fs[i].first + fs[i].received)
      <4>1. k > Len(cs) /\ Len(cs) \in Nat /\ Len(output) \in Nat
        BY <1>1, <2>2, <3>1
      <4>2. CASE fs[i].received > 0
        <5>1. fs[i].first + fs[i].received <= Len(output) + Len(cs) + 1
          BY <4>2 DEF CellsFit
        <5> QED BY <3>1, <4>1, <5>1
      <4>3. CASE fs[i].received = 0
        <5>1. fs[i].first <= Len(output) + k
          BY <1>2, <3>1, <4>1
        <5> QED BY <3>1, <4>1, <4>3, <5>1
      <4> QED BY <3>1, <4>2, <4>3
    <3> QED BY <3>2, <3>3 DEF CellFits
  <2> QED BY <2>1, <2>2
<1>3. ASSUME NEW i \in DOMAIN fs, fs[i].received > 0
      PROVE  fs[i].first + fs[i].received <= Len(output) + Len(w) + 1
  <2>1. fs[i].first \in Nat /\ fs[i].received \in Nat
    BY <1>4
  <2>2. fs[i].first + fs[i].received <= Len(output) + Len(cs) + 1
    BY <1>3 DEF CellsFit
  <2> QED BY <1>1, <2>1, <2>2
<1> QED BY <1>2, <1>3 DEF CellsFit, w

-----------------------------------------------------------------------------
(* Steps that leave every file in its place, and take no frame back. *)
FilesStay ==
    /\ files' \in Seq(SlotType) /\ Len(files') = Len(files)
    /\ \A j \in DOMAIN files :
          SameFile(files'[j], files[j]) /\ files[j].received <= files'[j].received
    /\ UNCHANGED <<emitted, discovered, declared, output>>

LEMMA FilesKept ==
    ASSUME ReaderInv, FilesStay, alive'[Self] /\ ~terminated' => alive[Self] /\ ~terminated
    PROVE  Positions' /\ SlotPlaces' /\ FilesInOrder' /\ FramesHaveFiles'
<1> USE DEF FilesStay
<1>1. /\ DOMAIN files' = DOMAIN files
      /\ \A j \in DOMAIN files :
            /\ files'[j].start = files[j].start /\ files'[j].first = files[j].first
            /\ files'[j].count = files[j].count /\ Past(files'[j]) = Past(files[j])
            /\ files[j].received <= files'[j].received
  BY DEF ReaderInv, ReaderTypeOK, SameFile, Past
<1>2. Positions'
  BY DEF ReaderInv, Positions
<1>3. SlotPlaces'
  <2> SUFFICES ASSUME NEW i \in DOMAIN files
               PROVE  /\ files'[i].start = (files'[i].first - 1) % Modulus
                      /\ Len(output) + 1 < Past(files'[i]) /\ Past(files'[i]) <= declared + 1
                      /\ Len(output) < files'[i].first + files'[i].received
    BY <1>1 DEF SlotPlaces
  <2>1. /\ files[i].start = (files[i].first - 1) % Modulus
        /\ Len(output) + 1 < Past(files[i]) /\ Past(files[i]) <= declared + 1
        /\ Len(output) < files[i].first + files[i].received
    BY DEF ReaderInv, SlotPlaces
  <2>2. /\ files[i].first \in Nat /\ files[i].received \in Nat /\ Len(output) \in Nat
        /\ files'[i].received \in Nat
    <3>1. ReaderTypeOK /\ Positions
      BY DEF ReaderInv
    <3>2. files[i].first \in Nat /\ files[i].received \in Nat /\ Len(output) \in Nat
      BY <3>1, SlotFacts, CountFacts
    <3>3. files'[i] \in SlotType
      BY <1>1
    <3>4. files'[i].received \in Nat
      BY <3>3 DEF SlotType
    <3> QED BY <3>2, <3>4
  <2> QED BY <1>1, <2>1, <2>2
<1>4. FilesInOrder'
  BY <1>1 DEF ReaderInv, FilesInOrder
<1>5. FramesHaveFiles'
  BY <1>1 DEF ReaderInv, FramesHaveFiles
<1> QED BY <1>2, <1>3, <1>4, <1>5

(* What drive does to the stream: nothing, or an error that ends it. *)
Goes == UNCHANGED <<alive, closed, terminated, error, declared, output, reports>>

Breaks ==
    /\ ~terminated /\ terminated' = TRUE /\ error' # "none" /\ Len(output) < declared
    /\ UNCHANGED <<alive, closed, declared, output, reports>>

(* drive goes on: no file retires before its last frame was emitted. *)
LEMMA ContinueEffect ==
    ASSUME ReaderInv, pc = "drive", NEW i \in DOMAIN files, NEW slot \in SlotType,
           SameFile(slot, files[i]), NEW written, NEW progress, NEW polled,
           Continue(With(i, slot), written, progress, polled),
           NEW stepped, stepped = With(i, slot), NEW polls, polls = Less(round.polls, polled)
    PROVE  /\ files' = stepped /\ cursor' = NextCursor /\ cursor' \in Nat
           /\ runnable' = SelfWoken(polls, stepped)
           /\ cells' = IF polls > 0 /\ round.left = 1 THEN Window(capacity[Self], written)
                       ELSE written
           /\ IF RoundsEnd(polls, polls > 0 /\ round.left = 1, round.progressed \/ progress)
              THEN pc' = "polled"
              ELSE /\ pc' = "drive"
                   /\ round' = [left |-> IF polls > 0 /\ round.left = 1 THEN Len(files)
                                         ELSE round.left - 1,
                                progressed |-> (round.progressed \/ progress)
                                                  /\ ~(polls > 0 /\ round.left = 1),
                                polls |-> polls]
           /\ UNCHANGED <<budgetVars, terminated, emitted, discovered, closed, window, error, call,
                          asleep, declared, output, reports>>
<1> DEFINE progressed == round.progressed \/ progress
           ended == polls > 0 /\ round.left = 1
           kept == IF ended THEN Kept(stepped, emitted) ELSE stepped
<1>1. /\ ReaderTypeOK /\ Positions /\ SlotPlaces /\ files # <<>>
  BY DEF ReaderInv, Control
<1>2. /\ stepped \in Seq(SlotType) /\ Len(stepped) = Len(files)
      /\ DOMAIN stepped = DOMAIN files
      /\ \A j \in DOMAIN files : SameFile(stepped[j], files[j])
  BY <1>1, Replaced
<1>3. stepped # <<>> /\ 1 \in DOMAIN files
  BY <1>1, <1>2 DEF ReaderTypeOK
<1>4. kept = stepped
  <2>1. stepped[1].start = files[1].start /\ stepped[1].count = files[1].count
    BY <1>2, <1>3 DEF SameFile
  <2> QED BY <1>1, <1>2, <1>3, <2>1, NotRetired
<1>5. /\ files' = kept /\ cursor' = Less(NextCursor, IF kept = stepped THEN 0 ELSE 1)
      /\ runnable' = SelfWoken(polls, stepped)
      /\ cells' = IF ended /\ kept # <<>> THEN Window(capacity[Self], written) ELSE written
      /\ IF ended /\ kept = <<>> THEN ReturnGrant /\ terminated' = closed
         ELSE UNCHANGED <<budgetVars, terminated>>
      /\ IF RoundsEnd(polls, ended, progressed) \/ kept = <<>>
         THEN pc' = "polled" /\ round' = NoRound
         ELSE /\ round' = [left |-> IF ended THEN Len(kept) ELSE round.left - 1,
                           progressed |-> progressed /\ ~ended, polls |-> polls]
              /\ UNCHANGED pc
      /\ UNCHANGED <<emitted, discovered, closed, window, error, call, asleep,
                     declared, output, reports>>
  BY DEF Continue
<1>6. NextCursor \in Nat
  <2>1. Len(files) \in Nat \ {0} /\ cursor \in Nat
    BY <1>1 DEF ReaderTypeOK
  <2>2. cursor % Len(files) \in Nat
    BY <2>1, WrapType
  <2>3. (cursor % Len(files)) + 1 \in Int
    BY <2>2
  <2> QED BY <2>1, <2>3, WrapType, Zenon DEF NextCursor
<1>7. cursor' = NextCursor
  BY <1>4, <1>5, <1>6 DEF Less
<1> HIDE DEF kept, progressed
<1> QED BY <1>2, <1>3, <1>4, <1>5, <1>6, <1>7 DEF progressed

(* drive goes on, after a step that left the cells as the files have them. *)
LEMMA ContinueKeeps ==
    ASSUME ReaderInv, pc = "drive", NEW i \in DOMAIN files, NEW slot \in SlotType,
           SameFile(slot, files[i]), files[i].received <= slot.received,
           slot.received <= slot.count,
           NEW written \in Seq(CellType), Len(written) = Len(cells),
           CellsFit(With(i, slot), written),
           NEW progress, NEW polled, Continue(With(i, slot), written, progress, polled)
    PROVE  ReaderInv' /\ Goes
<1> DEFINE stepped == With(i, slot)
           polls == Less(round.polls, polled)
<1>1. /\ IInv /\ ReaderTypeOK /\ Positions /\ SlotPlaces /\ Control /\ WindowFits
      /\ alive[Self] /\ ~asleep /\ ~terminated /\ files # <<>>
  BY DEF ReaderInv, Control
<1>2. /\ stepped \in Seq(SlotType) /\ Len(stepped) = Len(files)
      /\ DOMAIN stepped = DOMAIN files /\ stepped[i] = slot
      /\ \A j \in DOMAIN files \ {i} : stepped[j] = files[j]
      /\ \A j \in DOMAIN files : SameFile(stepped[j], files[j])
  BY <1>1, Replaced
<1>3. stepped # <<>>
  BY <1>1, <1>2 DEF ReaderTypeOK
<1>5. /\ files' = stepped /\ cursor' \in Nat
      /\ runnable' = SelfWoken(polls, stepped)
      /\ cells' \in {written, Window(capacity[Self], written)}
      /\ UNCHANGED <<budgetVars, terminated>>
      /\ pc' \in {"polled", "drive"}
      /\ UNCHANGED <<emitted, discovered, closed, window, error, call, asleep,
                     declared, output, reports>>
  BY ContinueEffect
<1> HIDE DEF stepped, polls
<1>6. /\ IInv' /\ UNCHANGED alive /\ capacity'[Self] = capacity[Self]
      /\ request'[Self] = request[Self]
  BY <1>1, <1>5, BudgetStays
<1>7. capacity[Self] \in Nat
  BY <1>1, SelfTypes
<1>8. /\ cells' \in Seq(CellType) /\ CellsFit(files', cells')
      /\ Len(cells') <= capacity[Self] /\ Len(cells') <= declared - Len(output)
  <2>0. /\ Len(written) <= capacity[Self] /\ Len(written) <= declared - Len(output)
        /\ CellsFit(stepped, written)
    BY <1>1 DEF WindowFits, stepped
  <2>1. CASE cells' = written
    BY <1>5, <2>0, <2>1
  <2>2. CASE cells' = Window(capacity[Self], written)
    BY <1>1, <1>2, <1>5, <1>7, <2>0, <2>2, WindowGrows, WindowFitsCells
  <2> QED BY <1>5, <2>1, <2>2
<1>9. cursor' \in Nat
  BY <1>5
<1>10. runnable' \in BOOLEAN
  BY <1>1, <1>5, Zenon DEF SelfWoken, ReaderTypeOK
<1>11. FilesStay
  <2> SUFFICES ASSUME NEW j \in DOMAIN files PROVE files[j].received <= stepped[j].received
    BY <1>2, <1>5 DEF FilesStay
  <2>1. files[j].received \in Nat
    BY <1>1, SlotFacts
  <2> QED BY <1>2, <2>1
<1>12. ReaderTypeOK'
  <2>1. TypeOK'
    BY <1>6 DEF IInv
  <2>2. \A j \in DOMAIN stepped : stepped[j].received <= stepped[j].count
    BY <1>1, <1>2 DEF ReaderTypeOK
  <2> QED BY <1>1, <1>2, <1>5, <1>8, <1>9, <1>10, <2>1, <2>2 DEF ReaderTypeOK
<1>13. CellsInPlace'
  BY <1>5, <1>8 DEF CellsInPlace, CellsFit, CellFits
<1>14. WindowFits'
  BY <1>5, <1>6, <1>8 DEF WindowFits
<1>15. Control'
  BY <1>1, <1>3, <1>5, <1>6 DEF Control
<1>16. Released'
  BY <1>1, <1>3, <1>5, <1>6 DEF Released
<1> QED BY <1>5, <1>6, <1>11, <1>12, <1>13, <1>14, <1>15, <1>16, FilesKept DEF ReaderInv, Goes

(* An error drops all work and the grant. *)
LEMMA FailKeeps ==
    ASSUME ReaderInv, pc = "drive", NEW reason \in {"backend", "eof"}, Fail(reason)
    PROVE  ReaderInv' /\ Breaks
<1>1. /\ IInv /\ ReaderTypeOK /\ Positions /\ SlotPlaces /\ Control /\ WindowFits
      /\ alive[Self] /\ ~asleep /\ ~terminated /\ files # <<>> /\ reports = 0
  BY DEF ReaderInv, Control
<1>2. /\ files' = <<>> /\ cells' = <<>> /\ terminated' = TRUE /\ error' = reason
      /\ pc' = "polled" /\ cursor' = NextCursor
      /\ UNCHANGED <<emitted, discovered, closed, window, call, runnable, asleep, declared,
                     output, reports>>
  BY DEF Fail, outsideVars
<1>3. IInv' /\ UNCHANGED alive /\ capacity'[Self] = 0 /\ SelfReleased
  <2>1. Shrink(0)
    BY DEF Fail, ReturnGrant
  <2>2. Least(0, capacity[Self]) = 0
    BY <1>1, SelfTypes DEF Least
  <2> QED BY <1>1, <2>1, <2>2, ShrinkStep
<1>4. cursor' \in Nat
  <2>1. Len(files) \in Nat \ {0} /\ cursor \in Nat
    BY <1>1 DEF ReaderTypeOK
  <2>2. cursor % Len(files) \in Nat
    BY <2>1, WrapType
  <2>3. (cursor % Len(files)) + 1 \in Int
    BY <2>2
  <2> QED BY <1>2, <2>1, <2>3, WrapType, Zenon DEF NextCursor
<1>5. ReaderTypeOK'
  <2>1. TypeOK'
    BY <1>3 DEF IInv
  <2> QED BY <1>1, <1>2, <1>4, <2>1 DEF ReaderTypeOK
<1>6. Positions'
  BY <1>1, <1>2 DEF Positions
<1>7. SlotPlaces' /\ FilesInOrder' /\ FramesHaveFiles' /\ CellsInPlace'
  BY <1>2 DEF SlotPlaces, FilesInOrder, FramesHaveFiles, CellsInPlace, CellsFit
<1>8. WindowFits'
  BY <1>1, <1>2, <1>3, CountFacts DEF WindowFits
<1>9. Control'
  BY <1>1, <1>2, <1>3 DEF Control
<1>10. Released'
  BY <1>2, <1>3 DEF Released, SelfReleased
<1>11. Len(output) < declared
  <2>1. 1 \in DOMAIN files /\ Len(output) \in Nat /\ declared \in Nat
    BY <1>1, CountFacts DEF ReaderTypeOK
  <2>2. Past(files[1]) \in Nat
    BY <1>1, <2>1, SlotFacts
  <2>3. Len(output) + 1 < Past(files[1]) /\ Past(files[1]) <= declared + 1
    BY <1>1, <2>1 DEF SlotPlaces
  <2> QED BY <2>1, <2>2, <2>3
<1>12. Breaks
  <2>1. error' # "none"
    BY <1>2
  <2> QED BY <1>1, <1>2, <1>3, <1>11, <2>1 DEF Breaks
<1> QED BY <1>3, <1>5, <1>6, <1>7, <1>8, <1>9, <1>10, <1>12 DEF ReaderInv

-----------------------------------------------------------------------------
(* drive's steps: what it leaves of the cells fits the files. *)
LEMMA DriveFacts ==
    ASSUME ReaderInv
    PROVE  /\ IInv /\ ReaderTypeOK /\ Positions /\ SlotPlaces /\ FilesInOrder /\ FramesHaveFiles
           /\ CellsInPlace /\ CellsFit(files, cells) /\ WindowFits /\ Control /\ Released
BY DEF ReaderInv, CellsInPlace

LEMMA SameCellsFit ==
    ASSUME ReaderInv, NEW i \in DOMAIN files, NEW slot \in SlotType,
           SameFile(slot, files[i]), slot.received = files[i].received
    PROVE  CellsFit(With(i, slot), cells)
<1> DEFINE fs == With(i, slot)
<1>1. ReaderTypeOK /\ CellsFit(files, cells)
  BY DriveFacts
<1>2. /\ DOMAIN fs = DOMAIN files /\ fs[i] = slot
      /\ \A j \in DOMAIN files \ {i} : fs[j] = files[j]
      /\ \A j \in DOMAIN files : SameFile(fs[j], files[j])
  BY <1>1, Replaced
<1> HIDE DEF fs
<1>3. \A j \in DOMAIN files :
         /\ fs[j].first = files[j].first /\ fs[j].received = files[j].received
         /\ Past(fs[j]) = Past(files[j])
  BY <1>2 DEF SameFile, Past
<1>4. CellsFit(fs, cells)
  BY <1>1, <1>2, <1>3 DEF CellsFit, CellFits
<1> QED BY <1>4 DEF fs

(* The cell of the frame a file is about to read belongs to that file alone, *)
(* and its frame has not come.                                              *)
LEMMA NextCell ==
    ASSUME ReaderInv, NEW i \in DOMAIN files, ~AllReceived(files[i]), Authorized(files[i]),
           NEW off, off = Offset(files[i])
    PROVE  /\ off \in DOMAIN cells /\ off \in Nat
           /\ Len(output) + off = files[i].first + files[i].received
           /\ Len(output) + off \in files[i].first..(Past(files[i]) - 1)
           /\ files[i].first + files[i].received \in 1..MaxFrames
           /\ files[i].received + 1 <= files[i].count
           /\ cells[off].state # "complete"
           /\ \A j \in DOMAIN files :
                 Len(output) + off \in files[j].first..(Past(files[j]) - 1) => j = i
<1>1. ReaderTypeOK /\ Positions /\ SlotPlaces /\ FilesInOrder /\ CellsFit(files, cells)
  BY DriveFacts
<1>2. /\ Len(output) \in Nat /\ declared \in 0..MaxFrames /\ MaxFrames \in Nat
      /\ cells \in Seq(CellType)
  BY <1>1, CountFacts
<1>3. /\ files[i].first \in 1..MaxFrames /\ files[i].count \in Nat
      /\ files[i].received \in 0..files[i].count /\ files[i].received # files[i].count
      /\ Past(files[i]) \in Nat
  BY <1>1, SlotFacts DEF AllReceived
<1>4. off = files[i].first + files[i].received - Len(output)
  BY <1>1, OffsetOf
<1>5. off \in DOMAIN cells /\ off \in Nat
  BY <1>2 DEF Authorized
<1>6. Len(output) + off = files[i].first + files[i].received
  BY <1>2, <1>3, <1>4
<1>7. files[i].received + 1 <= files[i].count
  BY <1>3
<1>8. Past(files[i]) <= declared + 1
  BY <1>1 DEF SlotPlaces
<1>9. /\ Len(output) + off \in files[i].first..(Past(files[i]) - 1)
      /\ files[i].first + files[i].received \in 1..MaxFrames
  BY <1>2, <1>3, <1>6, <1>7, <1>8 DEF Past
<1>10. cells[off].state # "complete"
  <2>1. CellFits(cells[off], files[i], Len(output) + off)
    BY <1>1, <1>5, <1>9 DEF CellsFit
  <2>2. ~(Len(output) + off < files[i].first + files[i].received)
    BY <1>2, <1>3, <1>6
  <2> QED BY <2>1, <2>2 DEF CellFits
<1>11. ASSUME NEW j \in DOMAIN files,
              Len(output) + off \in files[j].first..(Past(files[j]) - 1)
       PROVE  j = i
  <2>1. files[j].first \in Nat /\ Past(files[j]) \in Nat /\ i \in Nat /\ j \in Nat
    BY <1>1, SlotFacts
  <2>2. ~(i < j)
    BY <1>1, <1>2, <1>3, <1>9, <1>11, <2>1 DEF FilesInOrder
  <2>3. ~(j < i)
    BY <1>1, <1>2, <1>3, <1>9, <1>11, <2>1 DEF FilesInOrder
  <2> QED BY <2>1, <2>2, <2>3
<1> QED BY <1>5, <1>6, <1>7, <1>9, <1>10, <1>11

(* A read that has begun. *)
LEMMA BegunFits ==
    ASSUME ReaderInv, NEW i \in DOMAIN files, ~AllReceived(files[i]), Authorized(files[i]),
           NEW slot \in SlotType, SameFile(slot, files[i]), slot.received = files[i].received,
           NEW begun,
           begun = Put(cells, Offset(files[i]),
                       [cells[Offset(files[i])] EXCEPT !.state = "filling"])
    PROVE  begun \in Seq(CellType) /\ Len(begun) = Len(cells) /\ CellsFit(With(i, slot), begun)
<1> DEFINE off == Offset(files[i])
           fs == With(i, slot)
<1>1. /\ off \in DOMAIN cells /\ off \in Nat
      /\ Len(output) + off = files[i].first + files[i].received
      /\ cells[off].state # "complete"
      /\ \A j \in DOMAIN files :
            Len(output) + off \in files[j].first..(Past(files[j]) - 1) => j = i
  BY NextCell
<1>2. cells \in Seq(CellType) /\ ReaderTypeOK /\ Len(output) \in Nat
  BY DriveFacts, CountFacts
<1>3. begun = Put(cells, off, [cells[off] EXCEPT !.state = "filling"])
  OBVIOUS
<1>4. CellsFit(fs, cells)
  BY SameCellsFit
<1>5. DOMAIN fs = DOMAIN files /\ \A j \in DOMAIN files : fs[j].first = files[j].first /\ Past(fs[j]) = Past(files[j])
  BY <1>2, Replaced DEF SameFile, Past
<1>6. fs[i] = slot
  BY <1>2, Replaced
<1> HIDE DEF off, fs
<1>7. cells[off] \in CellType
  BY <1>1, <1>2
<1>8. [cells[off] EXCEPT !.state = "filling"] \in CellType
  BY <1>7 DEF CellType
<1>9. /\ begun \in Seq(CellType) /\ Len(begun) = Len(cells) /\ DOMAIN begun = DOMAIN cells
      /\ begun[off].state = "filling"
      /\ \A k \in DOMAIN cells \ {off} : begun[k] = cells[k]
  <2> DEFINE cell == [cells[off] EXCEPT !.state = "filling"]
  <2>1. cell.state = "filling" /\ begun = Put(cells, off, cell) /\ cell \in CellType
    BY <1>3, <1>7, <1>8 DEF CellType
  <2>2. off \in DOMAIN cells /\ cells \in Seq(CellType)
    BY <1>1, <1>2
  <2> HIDE DEF cell
  <2>3. /\ Put(cells, off, cell) \in Seq(CellType) /\ Len(Put(cells, off, cell)) = Len(cells)
        /\ DOMAIN Put(cells, off, cell) = DOMAIN cells /\ Put(cells, off, cell)[off] = cell
        /\ \A k \in DOMAIN cells \ {off} : Put(cells, off, cell)[k] = cells[k]
    BY <2>1, <2>2, PutFacts
  <2> QED BY <2>1, <2>3, Zenon
<1>10. ASSUME NEW k \in DOMAIN begun, NEW j \in DOMAIN fs,
              Len(output) + k \in fs[j].first..(Past(fs[j]) - 1)
       PROVE  CellFits(begun[k], fs[j], Len(output) + k)
  <2>1. CASE k # off
    BY <1>4, <1>9, <1>10, <2>1 DEF CellsFit
  <2>2. CASE k = off
    <3>1. j = i
      BY <1>1, <1>5, <1>10, <2>2
    <3>2. Len(output) + off = fs[i].first + fs[i].received
      BY <1>1, <1>6 DEF SameFile
    <3>3. CellFits(cells[off], fs[i], Len(output) + off)
      BY <1>1, <1>4, <1>10, <2>2, <3>1 DEF CellsFit
    <3>4. ~(Len(output) + off < fs[i].first + fs[i].received)
      BY <1>1, <3>3 DEF CellFits
    <3> QED BY <1>9, <2>2, <3>1, <3>2, <3>4 DEF CellFits
  <2> QED BY <2>1, <2>2
<1>11. CellsFit(fs, begun)
  BY <1>4, <1>9, <1>10 DEF CellsFit
<1> QED BY <1>9, <1>11 DEF fs

(* A frame that came. *)
LEMMA ReceivedFits ==
    ASSUME ReaderInv, NEW i \in DOMAIN files, ~AllReceived(files[i]), Authorized(files[i]),
           NEW slot \in SlotType, SameFile(slot, files[i]), slot.received = files[i].received + 1,
           NEW filled,
           filled = Put(cells, Offset(files[i]),
                        [state |-> "complete", value |-> files[i].first + files[i].received])
    PROVE  filled \in Seq(CellType) /\ Len(filled) = Len(cells) /\ CellsFit(With(i, slot), filled)
<1> DEFINE off == Offset(files[i])
           fs == With(i, slot)
           frame == [state |-> "complete", value |-> files[i].first + files[i].received]
<1>1. /\ off \in DOMAIN cells /\ off \in Nat
      /\ Len(output) + off = files[i].first + files[i].received
      /\ files[i].first + files[i].received \in 1..MaxFrames
      /\ \A j \in DOMAIN files :
            Len(output) + off \in files[j].first..(Past(files[j]) - 1) => j = i
  BY NextCell
<1>2. /\ cells \in Seq(CellType) /\ ReaderTypeOK /\ Len(output) \in Nat
      /\ CellsFit(files, cells) /\ Len(cells) \in Nat
  BY DriveFacts, CountFacts
<1>3. filled = Put(cells, off, frame)
  OBVIOUS
<1>4. frame \in CellType
  BY <1>1, ReaderAssumption DEF CellType
<1>5. /\ DOMAIN fs = DOMAIN files
      /\ \A j \in DOMAIN files : fs[j].first = files[j].first /\ Past(fs[j]) = Past(files[j])
  BY <1>2, Replaced DEF SameFile, Past
<1>6. fs[i] = slot /\ \A j \in DOMAIN files \ {i} : fs[j] = files[j]
  BY <1>2, Replaced
<1>7. files[i].first \in Nat /\ files[i].received \in Nat
  BY <1>2, SlotFacts
<1>f. frame.state = "complete" /\ frame.value = files[i].first + files[i].received
  OBVIOUS
<1> HIDE DEF off, fs, frame
<1>9. /\ filled \in Seq(CellType) /\ Len(filled) = Len(cells) /\ DOMAIN filled = DOMAIN cells
      /\ filled[off] = frame
      /\ \A k \in DOMAIN cells \ {off} : filled[k] = cells[k]
  <2>1. off \in DOMAIN cells /\ cells \in Seq(CellType)
    BY <1>1, <1>2
  <2>2. /\ Put(cells, off, frame) \in Seq(CellType) /\ Len(Put(cells, off, frame)) = Len(cells)
        /\ DOMAIN Put(cells, off, frame) = DOMAIN cells /\ Put(cells, off, frame)[off] = frame
        /\ \A k \in DOMAIN cells \ {off} : Put(cells, off, frame)[k] = cells[k]
    BY <1>4, <2>1, PutFacts
  <2> QED BY <1>3, <2>2, Zenon
<1>8. fs[i].first = files[i].first /\ fs[i].received = files[i].received + 1
  BY <1>5, <1>6
<1>10. ASSUME NEW k \in DOMAIN filled, NEW j \in DOMAIN fs,
              Len(output) + k \in fs[j].first..(Past(fs[j]) - 1)
       PROVE  CellFits(filled[k], fs[j], Len(output) + k)
  <2>0. k \in Nat /\ k \in DOMAIN cells /\ j \in DOMAIN files
    BY <1>2, <1>5, <1>9
  <2>1. CASE k = off
    <3>1. j = i
      BY <1>1, <1>5, <1>10, <2>1
    <3>2. Len(output) + off < fs[i].first + fs[i].received
      BY <1>1, <1>2, <1>7, <1>8
    <3> QED BY <1>1, <1>9, <1>f, <2>1, <3>1, <3>2 DEF CellFits
  <2>2. CASE k # off /\ j # i
    BY <1>2, <1>5, <1>6, <1>9, <1>10, <2>0, <2>2 DEF CellsFit
  <2>3. CASE k # off /\ j = i
    <3>1. CellFits(cells[k], files[i], Len(output) + k)
      BY <1>2, <1>5, <1>10, <2>0, <2>3 DEF CellsFit
    <3>2. filled[k] = cells[k]
      BY <1>9, <2>0, <2>3
    <3>3. Len(output) + k # files[i].first + files[i].received
      BY <1>1, <1>2, <2>0, <2>3
    <3>4. Len(output) + k < files[i].first + files[i].received
             <=> Len(output) + k < fs[i].first + fs[i].received
      <4>1. files[i].first + files[i].received + 1 = fs[i].first + fs[i].received
        BY <1>7, <1>8
      <4>2. files[i].first + files[i].received \in Nat /\ Len(output) + k \in Nat
        BY <1>2, <1>7, <2>0
      <4> QED BY <3>3, <4>1, <4>2
    <3> QED BY <2>3, <3>1, <3>2, <3>3, <3>4 DEF CellFits
  <2> QED BY <2>1, <2>2, <2>3
<1>11. ASSUME NEW j \in DOMAIN fs, fs[j].received > 0
       PROVE  fs[j].first + fs[j].received <= Len(output) + Len(filled) + 1
  <2>1. CASE j = i
    <3>1. off <= Len(cells)
      BY <1>1, <1>2
    <3> QED BY <1>1, <1>2, <1>7, <1>8, <1>9, <2>1, <3>1
  <2>2. CASE j # i
    BY <1>2, <1>5, <1>6, <1>9, <1>11, <2>2 DEF CellsFit
  <2> QED BY <2>1, <2>2
<1>12. CellsFit(fs, filled)
  BY <1>10, <1>11 DEF CellsFit
<1> QED BY <1>9, <1>12 DEF fs

(* A step that changes a slot, but neither its file nor what it received. *)
LEMMA SlotStepKeeps ==
    ASSUME ReaderInv, pc = "drive", NEW i \in DOMAIN files, NEW slot \in SlotType,
           SameFile(slot, files[i]), slot.received = files[i].received,
           NEW progress, NEW polled, Continue(With(i, slot), cells, progress, polled)
    PROVE  ReaderInv' /\ Goes
<1>1. ReaderTypeOK /\ Positions
  BY DriveFacts
<1>2. cells \in Seq(CellType) /\ CellsFit(With(i, slot), cells)
  BY <1>1, CountFacts, SameCellsFit
<1>3. /\ files[i].received \in Nat /\ files[i].received <= files[i].count
      /\ slot.count = files[i].count
  BY <1>1, SlotFacts DEF SameFile
<1>4. files[i].received <= slot.received /\ slot.received <= slot.count
  BY <1>3
<1> QED BY <1>2, <1>4, ContinueKeeps

(* An open or a read that must be tried again, or one time too often. *)
LEMMA RetryKeeps ==
    ASSUME ReaderInv, pc = "drive", NEW i \in DOMAIN files, Retry(i)
    PROVE  ReaderInv' /\ (Goes \/ Breaks)
<1>1. CASE files[i].retries = MaxRetries
  <2>1. Fail("backend")
    BY <1>1 DEF Retry
  <2> QED BY <2>1, FailKeeps
<1>2. CASE files[i].retries # MaxRetries
  <2> DEFINE slot == NextTry(files[i])
  <2>1. files[i] \in SlotType /\ files[i].retries \in 0..MaxRetries
    BY DriveFacts, SlotFacts
  <2>2. files[i].retries + 1 \in 0..MaxRetries
    BY <1>2, <2>1, ReaderAssumption
  <2>3. slot \in SlotType /\ SameFile(slot, files[i]) /\ slot.received = files[i].received
    BY <2>1, <2>2 DEF NextTry, SlotType, SameFile
  <2>4. Continue(With(i, slot), cells, TRUE, 1)
    BY <1>2 DEF Retry
  <2> HIDE DEF slot
  <2> QED BY <2>3, <2>4, SlotStepKeeps
<1> QED BY <1>1, <1>2

LEMMA ReceiveKeeps ==
    ASSUME ReaderInv, pc = "drive", NEW i \in DOMAIN files,
           ~AllReceived(files[i]), Authorized(files[i]), Receive(i)
    PROVE  ReaderInv' /\ Goes
<1> DEFINE full == files[i].received + 1 = files[i].count
           slot == [files[i] EXCEPT !.received = @ + 1, !.io = "new", !.blocked = full]
           filled == Put(cells, Offset(files[i]),
                         [state |-> "complete", value |-> files[i].first + files[i].received])
<1>1. Continue(With(i, slot), filled, TRUE, 1)
  BY DEF Receive, FrameOffset, Put
<1>2. files[i] \in SlotType /\ files[i].received \in Nat
  BY DriveFacts, SlotFacts
<1>3. /\ slot \in SlotType /\ SameFile(slot, files[i])
      /\ slot.received = files[i].received + 1 /\ slot.count = files[i].count
  <2>1. full \in BOOLEAN
    BY Zenon
  <2>2. files[i].received + 1 \in Nat
    BY <1>2
  <2>3. \A n \in Nat, b \in BOOLEAN :
           LET s == [files[i] EXCEPT !.received = n, !.io = "new", !.blocked = b]
           IN  s \in SlotType /\ SameFile(s, files[i]) /\ s.received = n
    BY <1>2 DEF SlotType, SameFile
  <2>4. slot = [files[i] EXCEPT !.received = files[i].received + 1, !.io = "new", !.blocked = full]
    OBVIOUS
  <2> HIDE DEF full, slot
  <2>5. slot \in SlotType /\ SameFile(slot, files[i]) /\ slot.received = files[i].received + 1
    BY <2>1, <2>2, <2>3, <2>4, Zenon
  <2> QED BY <2>5 DEF SameFile
<1>4. files[i].received + 1 <= files[i].count
  BY NextCell
<1> HIDE DEF slot
<1>5. filled \in Seq(CellType) /\ Len(filled) = Len(cells) /\ CellsFit(With(i, slot), filled)
  BY <1>3, ReceivedFits
<1> HIDE DEF filled
<1>6. files[i].received <= slot.received /\ slot.received <= slot.count
  BY <1>2, <1>3, <1>4
<1> QED BY <1>1, <1>3, <1>5, <1>6, ContinueKeeps

LEMMA PollBackendKeeps ==
    ASSUME ReaderInv, pc = "drive", NEW i \in DOMAIN files, HasOperation(files[i]), PollBackend(i)
    PROVE  ReaderInv' /\ (Goes \/ Breaks)
<1> DEFINE slot == files[i]
           begun == IF slot.state = "Opening" THEN cells
                    ELSE [cells EXCEPT ![Offset(slot)].state = "filling"]
<1>1. files[i] \in SlotType /\ ReaderTypeOK /\ Positions
  BY DriveFacts, SlotFacts
<1>2. CASE Continue(With(i, [slot EXCEPT !.blocked = TRUE, !.io = "waiting"]), begun, FALSE, 1)
  <2> DEFINE waiting == [slot EXCEPT !.blocked = TRUE, !.io = "waiting"]
  <2>1. /\ waiting \in SlotType /\ SameFile(waiting, files[i])
        /\ waiting.received = files[i].received
    BY <1>1 DEF SlotType, SameFile
  <2>2. Continue(With(i, waiting), begun, FALSE, 1)
    BY <1>2
  <2> HIDE DEF waiting
  <2>3. CASE slot.state = "Opening"
    BY <2>1, <2>2, <2>3, SlotStepKeeps
  <2>4. CASE slot.state # "Opening"
    <3>1. ~AllReceived(files[i]) /\ Authorized(files[i])
      BY <2>4 DEF HasOperation
    <3>2. begun = [cells EXCEPT ![Offset(files[i])].state = "filling"]
      BY <2>4
    <3>3. begun = Put(cells, Offset(files[i]),
                      [cells[Offset(files[i])] EXCEPT !.state = "filling"])
      BY <3>2 DEF Put
    <3> HIDE DEF begun
    <3>4. begun \in Seq(CellType) /\ Len(begun) = Len(cells) /\ CellsFit(With(i, waiting), begun)
      BY <2>1, <3>1, <3>3, BegunFits
    <3>5. /\ files[i].received \in Nat /\ files[i].received <= files[i].count
          /\ waiting.count = files[i].count
      BY <1>1, <2>1, SlotFacts DEF SameFile
    <3>6. files[i].received <= waiting.received /\ waiting.received <= waiting.count
      BY <2>1, <3>5
    <3> QED BY <2>1, <2>2, <3>4, <3>6, ContinueKeeps
  <2> QED BY <2>3, <2>4
<1>3. CASE /\ slot.state = "Opening"
           /\ Continue(With(i, [slot EXCEPT !.state = "Reading", !.io = "new"]), cells, TRUE, 1)
  <2> DEFINE opened == [slot EXCEPT !.state = "Reading", !.io = "new"]
  <2>1. opened \in SlotType /\ SameFile(opened, files[i]) /\ opened.received = files[i].received
    BY <1>1 DEF SlotType, SameFile
  <2>2. Continue(With(i, opened), cells, TRUE, 1)
    BY <1>3
  <2> HIDE DEF opened
  <2> QED BY <2>1, <2>2, SlotStepKeeps
<1>4. CASE slot.state # "Opening" /\ Receive(i)
  BY <1>4, ReceiveKeeps DEF HasOperation
<1>5. CASE Retry(i)
  BY <1>5, RetryKeeps
<1>6. CASE Fail("backend") \/ Fail("eof")
  BY <1>6, FailKeeps
<1> QED BY <1>2, <1>3, <1>4, <1>5, <1>6 DEF PollBackend

(* No frame is ever found in its cell before it is read. *)
LEMMA DriveStepKeeps ==
    ASSUME ReaderInv, DriveStep
    PROVE  ReaderInv' /\ (Goes \/ Breaks)
<1> DEFINE i == (cursor % Len(files)) + 1
           done == files[i].state = "Reading" /\ AllReceived(files[i])
           passed == [files[i] EXCEPT !.blocked = @ \/ done]
<1>1. pc = "drive" /\ ReaderTypeOK /\ Positions /\ files # <<>>
  BY DriveFacts DEF DriveStep, Control
<1>2. i \in DOMAIN files
  <2>1. Len(files) \in Nat \ {0} /\ cursor \in Nat /\ DOMAIN files = 1..Len(files)
    BY <1>1 DEF ReaderTypeOK
  <2>2. cursor % Len(files) \in 0..(Len(files) - 1)
    BY <2>1
  <2> QED BY <2>1, <2>2
<1>3. IF files[i].blocked \/ ~HasOperation(files[i])
      THEN Continue(With(i, passed), cells, FALSE, 0)
      ELSE IF files[i].state = "Reading" /\ cells[Offset(files[i])].state = "complete"
      THEN Fail("position")
      ELSE PollBackend(i)
  BY DEF DriveStep
<1>4. CASE files[i].blocked \/ ~HasOperation(files[i])
  <2>1. files[i] \in SlotType
    BY <1>1, <1>2, SlotFacts
  <2>2. (files[i].blocked \/ done) \in BOOLEAN
    BY Zenon
  <2>3. passed \in SlotType /\ SameFile(passed, files[i]) /\ passed.received = files[i].received
    BY <2>1, <2>2 DEF SlotType, SameFile
  <2>4. Continue(With(i, passed), cells, FALSE, 0)
    BY <1>3, <1>4
  <2> HIDE DEF i, passed
  <2> QED BY <1>1, <1>2, <2>3, <2>4, SlotStepKeeps
<1>5. CASE ~files[i].blocked /\ HasOperation(files[i])
  <2> HIDE DEF i
  <2>1. ~(files[i].state = "Reading" /\ cells[Offset(files[i])].state = "complete")
    <3> SUFFICES ASSUME files[i].state = "Reading" PROVE cells[Offset(files[i])].state # "complete"
      OBVIOUS
    <3>1. ~AllReceived(files[i]) /\ Authorized(files[i])
      BY <1>5 DEF HasOperation
    <3> QED BY <1>2, <3>1, NextCell
  <2>2. PollBackend(i)
    BY <1>3, <1>5, <2>1
  <2> QED BY <1>1, <1>2, <1>5, <2>2, PollBackendKeeps
<1> QED BY <1>4, <1>5

-----------------------------------------------------------------------------
(* Steps that leave the files, the cells and the positions alone. *)
StreamStays == UNCHANGED <<files, cells, emitted, discovered, declared, output>>

LEMMA StreamKept ==
    ASSUME ReaderInv, StreamStays, Len(cells) <= capacity'[Self],
           alive'[Self] /\ ~terminated' => alive[Self] /\ ~terminated
    PROVE  /\ Positions' /\ SlotPlaces' /\ FilesInOrder' /\ FramesHaveFiles'
           /\ CellsInPlace' /\ WindowFits'
<1> USE DriveFacts DEF StreamStays
<1>1. Positions' /\ FilesInOrder' /\ WindowFits'
  BY DEF Positions, FilesInOrder, WindowFits, Past
<1>2. SlotPlaces'
  BY DEF SlotPlaces, Past
<1>3. CellsInPlace'
  BY DEF CellsInPlace, CellsFit, CellFits, Past
<1>4. FramesHaveFiles'
  BY DEF FramesHaveFiles, Past
<1> QED BY <1>1, <1>2, <1>3, <1>4

(* The scheduler without a file has no authorized frame. *)
LEMMA NoFilesNoCells ==
    ASSUME ReaderInv, files = <<>>, alive[Self]
    PROVE  cells = <<>> /\ (~terminated => Len(output) = declared)
<1>1. ReaderTypeOK /\ Positions /\ FramesHaveFiles /\ WindowFits /\ Control
  BY DriveFacts
<1>2. /\ Len(output) \in Nat /\ declared \in Nat /\ Len(output) <= declared
      /\ Len(cells) \in Nat /\ cells \in Seq(CellType)
  BY <1>1, CountFacts
<1>3. CASE terminated
  BY <1>1, <1>3 DEF Control
<1>4. CASE ~terminated
  <2>1. ~(Len(output) + 1 \in (Len(output) + 1)..declared)
    BY <1>1, <1>4 DEF FramesHaveFiles
  <2>2. Len(output) = declared
    BY <1>2, <2>1
  <2>3. Len(cells) = 0
    BY <1>1, <1>2, <2>2 DEF WindowFits
  <2> QED BY <1>2, <2>2, <2>3
<1> QED BY <1>3, <1>4

(* poll_read and poll_progress begin; the grant goes back without files. *)
LEMMA BeginKeeps ==
    ASSUME ReaderInv, NEW kind \in {"read", "progress"}, Begin(kind), runnable' \in BOOLEAN
    PROVE  ReaderInv'
<1>1. /\ IInv /\ ReaderTypeOK /\ Control /\ Released /\ WindowFits
      /\ capacity[Self] \in Nat /\ Len(cells) \in Nat
  BY DriveFacts, SelfTypes, CountFacts
<1>2. /\ alive[Self] /\ call' = kind /\ asleep' = FALSE
      /\ UNCHANGED <<files, cells, emitted, discovered, cursor, closed, window, error,
                     declared, output, reports>>
  BY DEF Begin, Idle, Callable
<1>3. CASE terminated \/ files # <<>>
  <2>1. /\ UNCHANGED <<budgetVars, terminated>>
        /\ pc' = IF terminated THEN "polled" ELSE "grow"
    BY <1>3 DEF Begin
  <2>2. /\ IInv' /\ UNCHANGED alive /\ capacity'[Self] = capacity[Self]
        /\ request'[Self] = request[Self]
    BY <1>1, <2>1, BudgetStays
  <2>3. /\ Positions' /\ SlotPlaces' /\ FilesInOrder' /\ FramesHaveFiles'
        /\ CellsInPlace' /\ WindowFits'
    BY <1>1, <1>2, <2>1, <2>2, StreamKept DEF StreamStays, WindowFits
  <2>4. ReaderTypeOK'
    BY <1>1, <1>2, <2>1, <2>2 DEF ReaderTypeOK, IInv
  <2>5. Control'
    BY <1>1, <1>2, <1>3, <2>1, <2>2 DEF Control
  <2>6. Released'
    BY <1>1, <1>2, <1>3, <2>1, <2>2 DEF Released
  <2> QED BY <2>2, <2>3, <2>4, <2>5, <2>6 DEF ReaderInv
<1>4. CASE ~terminated /\ files = <<>>
  <2>1. /\ pc' = "polled" /\ terminated' = closed
        /\ IF capacity[Self] > 0 THEN Shrink(0) ELSE UNCHANGED budgetVars
    BY <1>4 DEF Begin, EndedByClose, ReturnGrant
  <2>2. IInv' /\ UNCHANGED alive /\ capacity'[Self] = 0 /\ SelfReleased
    <3>1. CASE capacity[Self] > 0
      <4>1. Least(0, capacity[Self]) = 0
        BY <1>1 DEF Least
      <4> QED BY <1>1, <2>1, <3>1, <4>1, ShrinkStep
    <3>2. CASE ~(capacity[Self] > 0)
      <4>1. capacity[Self] = 0
        BY <1>1, <3>2
      <4> QED BY <1>1, <1>4, <2>1, <3>2, <4>1, BudgetStays DEF Released, SelfReleased
    <3> QED BY <3>1, <3>2
  <2>3. cells = <<>>
    BY <1>2, <1>4, NoFilesNoCells
  <2>4. /\ Positions' /\ SlotPlaces' /\ FilesInOrder' /\ FramesHaveFiles'
        /\ CellsInPlace' /\ WindowFits'
    BY <1>2, <1>4, <2>2, <2>3, StreamKept DEF StreamStays
  <2>5. ReaderTypeOK'
    BY <1>1, <1>2, <2>1, <2>2 DEF ReaderTypeOK, IInv
  <2>6. Control'
    BY <1>1, <1>2, <1>4, <2>1, <2>2, <2>3 DEF Control
  <2>7. Released'
    BY <1>2, <1>4, <2>2 DEF Released, SelfReleased
  <2> QED BY <2>2, <2>4, <2>5, <2>6, <2>7 DEF ReaderInv
<1> QED BY <1>3, <1>4

(* drive up to its loop. *)
LEMMA GrowKeeps ==
    ASSUME ReaderInv, Grow
    PROVE  ReaderInv'
<1> DEFINE minimum == Least(capacity[Self] + Least(Target, Batch), Target)
<1>1. /\ IInv /\ ReaderTypeOK /\ Positions /\ Control /\ Released /\ WindowFits
      /\ CellsFit(files, cells) /\ capacity[Self] \in Nat /\ Total \in Nat
      /\ Len(cells) \in Nat /\ cells \in Seq(CellType)
  BY DriveFacts, SelfTypes, CountFacts
<1>2. /\ pc = "grow" /\ pc' = "drive" /\ alive[Self] /\ ~asleep /\ ~terminated /\ files # <<>>
      /\ cells' = Window(capacity'[Self], cells)
      /\ files' = [i \in DOMAIN files |-> [files[i] EXCEPT !.blocked = FALSE]]
      /\ UNCHANGED <<emitted, discovered, cursor, closed, terminated, window, error, call,
                     runnable, asleep, declared, output, reports>>
  BY <1>1 DEF Grow, Control, outsideVars
<1>3. minimum \in Nat /\ Target \in Nat
  <2>1. window \in Windows
    BY <1>1 DEF ReaderTypeOK
  <2>2. window.target \in Nat /\ Batch \in Nat
    BY <2>1, ReaderAssumption
  <2>3. Target \in Nat
    BY <1>1, <2>2 DEF Target, Least
  <2> QED BY <1>1, <2>2, <2>3 DEF Least
<1>4. /\ IInv' /\ UNCHANGED alive /\ capacity'[Self] \in Nat
      /\ capacity[Self] <= capacity'[Self]
  <2>1. CASE UNCHANGED budgetVars
    BY <1>1, <2>1, BudgetStays
  <2>2. CASE PollGrow(Self, Reader, minimum, Target)
    <3>1. Reader \in Tasks
      BY ReaderAssumption
    <3>2. IInv' /\ UNCHANGED alive /\ capacity'[Self] \in capacity[Self]..Total
      BY <1>1, <1>3, <2>2, <3>1, GrowStep
    <3> QED BY <1>1, <3>2
  <2> QED BY <2>1, <2>2 DEF Grow
<1> HIDE DEF minimum
<1>5. /\ files' \in Seq(SlotType) /\ Len(files') = Len(files) /\ DOMAIN files' = DOMAIN files
      /\ \A i \in DOMAIN files :
            SameFile(files'[i], files[i]) /\ files'[i].received = files[i].received
  <2>1. files \in Seq(SlotType)
    BY <1>1 DEF ReaderTypeOK
  <2>2. ASSUME NEW i \in DOMAIN files
        PROVE  /\ [files[i] EXCEPT !.blocked = FALSE] \in SlotType
               /\ SameFile([files[i] EXCEPT !.blocked = FALSE], files[i])
               /\ [files[i] EXCEPT !.blocked = FALSE].received = files[i].received
    <3>1. files[i] \in SlotType
      BY <2>1
    <3> QED BY <3>1 DEF SlotType, SameFile
  <2>3. DOMAIN files' = 1..Len(files) /\ DOMAIN files = 1..Len(files) /\ Len(files) \in Nat
    BY <1>2, <2>1
  <2>4. \A i \in DOMAIN files : files'[i] = [files[i] EXCEPT !.blocked = FALSE]
    BY <1>2
  <2>5. \A i \in DOMAIN files :
           /\ files'[i] \in SlotType /\ SameFile(files'[i], files[i])
           /\ files'[i].received = files[i].received
    BY <2>2, <2>4, Zenon
  <2>6. files' = [i \in 1..Len(files) |-> files'[i]]
    BY <1>2, <2>3
  <2>7. files' \in [1..Len(files) -> SlotType]
    BY <2>3, <2>5, <2>6
  <2>8. files' \in Seq(SlotType) /\ Len(files') = Len(files)
    BY <2>3, <2>7
  <2> QED BY <2>3, <2>5, <2>8
<1>6. FilesStay
  <2>1. \A i \in DOMAIN files : files[i].received \in Nat
    BY <1>1, SlotFacts
  <2> QED BY <1>2, <1>5, <2>1 DEF FilesStay
<1>7. CellsFit(files', cells)
  <2>1. \A i \in DOMAIN files :
           /\ files'[i].first = files[i].first /\ files'[i].received = files[i].received
           /\ Past(files'[i]) = Past(files[i])
    BY <1>5 DEF SameFile, Past
  <2> QED BY <1>1, <1>5, <2>1 DEF CellsFit, CellFits
<1>8. /\ cells' \in Seq(CellType) /\ CellsFit(files', cells')
      /\ Len(cells') <= capacity'[Self] /\ Len(cells') <= declared - Len(output)
  <2>1. Len(cells) <= capacity'[Self] /\ Len(cells) <= declared - Len(output)
    BY <1>1, <1>4 DEF WindowFits
  <2>2. CellsFit(files', Window(capacity'[Self], cells))
    BY <1>1, <1>4, <1>5, <1>7, WindowFitsCells
  <2> QED BY <1>1, <1>2, <1>4, <2>1, <2>2, WindowGrows
<1>9. CellsInPlace'
  BY <1>2, <1>8 DEF CellsInPlace, CellsFit, CellFits
<1>10. WindowFits'
  BY <1>2, <1>8 DEF WindowFits
<1>11. ReaderTypeOK'
  <2>1. \A i \in DOMAIN files : files'[i].received <= files'[i].count
    BY <1>1, <1>5 DEF ReaderTypeOK, SameFile
  <2> QED BY <1>1, <1>2, <1>4, <1>5, <1>8, <2>1 DEF ReaderTypeOK, IInv
<1>12. Control' /\ Released'
  <2>1. files' # <<>>
    BY <1>2, <1>5 DEF ReaderTypeOK
  <2> QED BY <1>1, <1>2, <1>4, <2>1 DEF Control, Released
<1> QED BY <1>2, <1>4, <1>6, <1>9, <1>10, <1>11, <1>12, FilesKept DEF ReaderInv

(* The end of a poll that has no frame to hand over. *)
LEMMA ReturnKeeps ==
    ASSUME ReaderInv, ProgressReturns \/ ReportError \/ ReportEnd \/ ReturnPending
    PROVE  ReaderInv'
<1>1. /\ IInv /\ ReaderTypeOK /\ Control /\ Released /\ WindowFits
  BY DriveFacts
<1>2. /\ pc = "polled" /\ pc' = "idle" /\ alive[Self]
      /\ UNCHANGED <<budgetVars, files, cells, emitted, discovered, cursor, closed, terminated,
                     window, call, declared, output>>
      /\ runnable' \in {runnable, TRUE} /\ asleep' \in {asleep, TRUE}
  BY DEF ProgressReturns, ReportError, ReportEnd, ReturnPending, InRead, ReturnReady, Callable,
         schedulerVars
<1>3. \/ UNCHANGED <<error, reports>>
      \/ error # "none" /\ error' = "none" /\ reports' = reports + 1
  BY DEF ProgressReturns, ReportError, ReportEnd, ReturnPending, schedulerVars, TakeError
<1>4. IInv' /\ UNCHANGED alive /\ capacity'[Self] = capacity[Self] /\ request'[Self] = request[Self]
  BY <1>1, <1>2, BudgetStays
<1>5. /\ Positions' /\ SlotPlaces' /\ FilesInOrder' /\ FramesHaveFiles'
      /\ CellsInPlace' /\ WindowFits'
  BY <1>1, <1>2, <1>4, StreamKept DEF StreamStays, WindowFits
<1>6. ReaderTypeOK'
  <2>1. runnable' \in BOOLEAN /\ asleep' \in BOOLEAN
    BY <1>1, <1>2 DEF ReaderTypeOK
  <2>2. reports' \in 0..1
    BY <1>1, <1>3 DEF ReaderTypeOK, Control
  <2>3. error' \in {"none", "backend", "eof", "position"}
    BY <1>1, <1>3 DEF ReaderTypeOK
  <2> QED BY <1>1, <1>2, <1>4, <2>1, <2>2, <2>3 DEF ReaderTypeOK, IInv
<1>7. Control'
  BY <1>1, <1>2, <1>3, <1>4 DEF Control
<1>8. Released'
  BY <1>1, <1>2, <1>4 DEF Released
<1> QED BY <1>4, <1>5, <1>6, <1>7, <1>8 DEF ReaderInv

(* The front of the window is the next frame, and belongs to the first file. *)
LEMMA FrontFrame ==
    ASSUME ReaderInv, cells # <<>>, alive[Self], ~terminated
    PROVE  /\ files # <<>> /\ 1 \in DOMAIN files /\ 1 \in DOMAIN cells
           /\ Len(output) + 1 \in files[1].first..(Past(files[1]) - 1)
           /\ CellFits(cells[1], files[1], Len(output) + 1)
           /\ Len(output) + 1 <= declared
<1>1. /\ ReaderTypeOK /\ Positions /\ SlotPlaces /\ FilesInOrder /\ FramesHaveFiles
      /\ CellsFit(files, cells) /\ WindowFits
  BY DriveFacts
<1>2. /\ Len(output) \in Nat /\ declared \in Nat /\ cells \in Seq(CellType) /\ Len(cells) \in Nat
      /\ files \in Seq(SlotType)
  BY <1>1, CountFacts DEF ReaderTypeOK
<1>3. Len(cells) >= 1 /\ 1 \in DOMAIN cells
  BY <1>2
<1>4. Len(output) + 1 <= declared
  BY <1>1, <1>2, <1>3 DEF WindowFits
<1>5. Len(output) + 1 \in (Len(output) + 1)..declared
  BY <1>2, <1>4
<1>6. PICK i \in DOMAIN files : Len(output) + 1 \in files[i].first..(Past(files[i]) - 1)
  BY <1>1, <1>5 DEF FramesHaveFiles
<1>7. files # <<>> /\ 1 \in DOMAIN files /\ i \in Nat /\ i >= 1
  BY <1>2
<1>8. i = 1
  <2>1. Past(files[1]) \in Nat /\ files[i].first \in Nat /\ Past(files[i]) \in Nat
    BY <1>1, <1>7, SlotFacts
  <2>2. Len(output) + 1 < Past(files[1])
    BY <1>1, <1>7 DEF SlotPlaces
  <2>3. ~(1 < i)
    BY <1>1, <1>2, <1>6, <1>7, <2>1, <2>2 DEF FilesInOrder
  <2> QED BY <1>7, <2>3
<1>9. CellFits(cells[1], files[1], Len(output) + 1)
  BY <1>1, <1>3, <1>6, <1>7, <1>8 DEF CellsFit
<1> QED BY <1>3, <1>4, <1>6, <1>7, <1>8, <1>9

(* A file retires exactly when its last frame leaves. *)
LEMMA Retires ==
    ASSUME ReaderInv, cells # <<>>, alive[Self], ~terminated
    PROVE  /\ Plus(emitted, 1) = (Len(output) + 1) % Modulus
           /\ Plus(emitted, 1) \in 0..(Modulus - 1)
           /\ Kept(files, Plus(emitted, 1)) =
                 IF Past(files[1]) = Len(output) + 2 THEN Tail(files) ELSE files
<1> DEFINE a == Len(output) + 1
           b == files[1].first - 1 + files[1].count
<1>1. ReaderTypeOK /\ Positions /\ SlotPlaces
  BY DriveFacts
<1>2. /\ Len(output) \in Nat /\ declared \in Nat /\ Modulus \in Nat \ {0}
      /\ emitted = Len(output) % Modulus /\ declared - Len(output) < Modulus
  BY <1>1, CountFacts DEF Positions
<1>3. ((Len(output) % Modulus) + 1) % Modulus = a % Modulus
  BY <1>2, WrappedSum, Zenon
<1>4. Plus(emitted, 1) = a % Modulus
  BY <1>2, <1>3, Zenon DEF Plus
<1>5. files # <<>> /\ 1 \in DOMAIN files
  BY FrontFrame
<1>6. /\ files[1].first \in Nat \ {0} /\ files[1].count \in Nat
      /\ files[1].start = (files[1].first - 1) % Modulus
      /\ Len(output) + 1 < Past(files[1]) /\ Past(files[1]) <= declared + 1
  <2>1. files[1].first \in 1..MaxFrames /\ files[1].count \in 1..(Modulus - 1)
    BY <1>1, <1>5, SlotFacts
  <2>2. MaxFrames \in Nat
    BY <1>1, CountFacts
  <2>3. /\ files[1].start = (files[1].first - 1) % Modulus
        /\ Len(output) + 1 < Past(files[1]) /\ Past(files[1]) <= declared + 1
    BY <1>1, <1>5 DEF SlotPlaces
  <2>4. files[1].first \in Nat \ {0} /\ files[1].count \in Nat
    BY <1>2, <2>1, <2>2
  <2> QED BY <2>3, <2>4
<1>7. /\ files[1].first + files[1].count <= declared + 1
      /\ Len(output) < files[1].first + files[1].count
  BY <1>2, <1>6 DEF Past
<1>8. Plus(files[1].start, files[1].count) = b % Modulus
  BY <1>1, <1>6, <1>7, PlaceOf
<1>9. /\ a \in Nat /\ b \in Nat /\ a <= b /\ b - a < Modulus
      /\ Past(files[1]) = Len(output) + 2 <=> a = b
  <2> DEFINE past == Past(files[1])
  <2>1. past \in Int /\ past = files[1].first + files[1].count
    BY <1>6 DEF Past
  <2>2. b = past - 1
    BY <1>6, <2>1
  <2>3. Len(output) + 1 < past /\ past <= declared + 1 /\ a = Len(output) + 1
    BY <1>6
  <2> DEFINE sent == Len(output)
  <2>4. sent \in Nat /\ declared \in Nat /\ Modulus \in Nat /\ declared - sent < Modulus
    BY <1>2
  <2>5. sent + 1 < past /\ past <= declared + 1 /\ a = sent + 1
    BY <2>3
  <2> HIDE DEF past, a, b, sent
  <2>6. a \in Nat /\ b \in Nat /\ a <= b /\ b - a < Modulus
    BY <2>1, <2>2, <2>4, <2>5
  <2>7. past = sent + 2 <=> a = b
    BY <2>1, <2>2, <2>4, <2>5
  <2>8. /\ a \in Nat /\ b \in Nat /\ a <= b /\ b - a < Modulus
        /\ past = Len(output) + 2 <=> a = b
    BY <2>6, <2>7 DEF sent
  <2> QED BY <2>8 DEF past
<1> HIDE DEF a, b
<1>10. ((b % Modulus) - (a % Modulus)) % Modulus = b - a
  BY <1>2, <1>9, WrappedDistance, Zenon
<1>11. a % Modulus = b % Modulus <=> a = b
  <2>1. ASSUME a % Modulus = b % Modulus PROVE a = b
    <3>1. (b % Modulus) - (a % Modulus) = 0
      BY <1>2, <1>9, <2>1
    <3>2. 0 % Modulus = 0
      BY <1>2
    <3>3. b - a = 0
      BY <1>10, <3>1, <3>2
    <3> QED BY <1>9, <3>3
  <2> QED BY <2>1
<1>12. Plus(emitted, 1) = End(Head(files)) <=> Past(files[1]) = Len(output) + 2
  BY <1>4, <1>5, <1>8, <1>9, <1>11 DEF End
<1>13. a % Modulus \in 0..(Modulus - 1)
  BY <1>2, <1>9
<1> QED BY <1>4, <1>5, <1>12, <1>13 DEF Kept, a

(* The next frame is handed to the caller, and its file may retire. *)
LEMMA EmitKeeps ==
    ASSUME ReaderInv, Emit
    PROVE  ReaderInv'
<1> DEFINE gone == Past(files[1]) = Len(output) + 2
           d == IF gone THEN 1 ELSE 0
<1>1. /\ IInv /\ ReaderTypeOK /\ Positions /\ SlotPlaces /\ FilesInOrder /\ FramesHaveFiles
      /\ CellsFit(files, cells) /\ WindowFits /\ Control /\ Released
      /\ capacity[Self] \in Nat
  BY DriveFacts, SelfTypes
<1>2. /\ pc = "polled" /\ pc' = "idle" /\ alive[Self] /\ ~terminated /\ error = "none"
      /\ cells # <<>> /\ cells[1].state = "complete"
      /\ output' = Append(output, cells[1].value) /\ cells' = Tail(cells)
      /\ emitted' = Plus(emitted, 1) /\ files' = Kept(files, Plus(emitted, 1))
      /\ cursor' = Less(cursor, IF files' = files THEN 0 ELSE 1)
      /\ Adjust(Len(cells')) /\ runnable' = TRUE
      /\ UNCHANGED <<call, asleep, declared, discovered, closed, terminated, window, error,
                     reports>>
  BY DEF Emit, InRead, Callable, HeadComplete, ReturnReady
<1>3. /\ Len(output) \in Nat /\ declared \in 0..MaxFrames /\ MaxFrames \in Nat
      /\ Len(output) <= declared /\ output \in Seq(1..MaxFrames)
      /\ cells \in Seq(CellType) /\ Len(cells) \in Nat /\ files \in Seq(SlotType)
      /\ Len(files) \in Nat
  BY <1>1, CountFacts DEF ReaderTypeOK
<1>4. /\ files # <<>> /\ 1 \in DOMAIN files /\ 1 \in DOMAIN cells
      /\ Len(output) + 1 \in files[1].first..(Past(files[1]) - 1)
      /\ CellFits(cells[1], files[1], Len(output) + 1)
      /\ Len(output) + 1 <= declared
  BY <1>2, FrontFrame
<1>5. cells[1].value = Len(output) + 1 /\ Len(output) + 1 < files[1].first + files[1].received
  BY <1>2, <1>4 DEF CellFits
<1>6. /\ emitted' = (Len(output) + 1) % Modulus /\ emitted' \in 0..(Modulus - 1)
      /\ files' = IF gone THEN Tail(files) ELSE files
  BY <1>2, Retires
<1>7. Len(output') = Len(output) + 1 /\ output' \in Seq(1..MaxFrames)
  <2>1. Len(output) + 1 \in 1..MaxFrames
    BY <1>3, <1>4
  <2>2. output' = Append(output, Len(output) + 1)
    BY <1>2, <1>5
  <2> QED BY <1>3, <2>1, <2>2
<1>8. /\ d \in 0..1 /\ files' \in Seq(SlotType) /\ Len(files') = Len(files) - d
      /\ \A i \in DOMAIN files' : i + d \in DOMAIN files /\ files'[i] = files[i + d]
      /\ \A i \in DOMAIN files : i > d => i - d \in DOMAIN files' /\ files'[i - d] = files[i]
  <2> HIDE DEF gone
  <2>1. CASE gone
    <3>1. files' = Tail(files) /\ d = 1
      BY <1>6, <2>1
    <3> HIDE DEF d
    <3> QED BY <1>3, <1>4, <3>1
  <2>2. CASE ~gone
    <3>1. files' = files /\ d = 0
      BY <1>6, <2>2
    <3> HIDE DEF d
    <3> QED BY <1>3, <1>4, <3>1
  <2> QED BY <2>1, <2>2
<1>9. /\ cells' \in Seq(CellType) /\ Len(cells') = Len(cells) - 1 /\ Len(cells) >= 1
      /\ \A k \in DOMAIN cells' : k + 1 \in DOMAIN cells /\ cells'[k] = cells[k + 1]
  BY <1>2, <1>3
<1>10. ASSUME NEW i \in DOMAIN files, i > d
       PROVE  /\ files[i].start = (files[i].first - 1) % Modulus
              /\ Len(output) + 2 < Past(files[i]) /\ Past(files[i]) <= declared + 1
              /\ Len(output) + 1 < files[i].first + files[i].received
  <2>1. /\ files[i].start = (files[i].first - 1) % Modulus
        /\ Len(output) + 1 < Past(files[i]) /\ Past(files[i]) <= declared + 1
    BY <1>1 DEF SlotPlaces
  <2>2. /\ Past(files[i]) \in Nat /\ files[i].first \in Nat /\ files[i].received \in Nat
        /\ Past(files[1]) \in Nat /\ files[i].first < Past(files[i]) /\ i \in Nat
    <3>1. files[i].count \in 1..(Modulus - 1) /\ Modulus \in Nat
      BY <1>1, SlotFacts, CountFacts
    <3>2. Past(files[i]) \in Nat /\ files[i].first \in 1..MaxFrames
      BY <1>1, SlotFacts
    <3>3. files[i].received \in 0..files[i].count
      BY <1>1, SlotFacts
    <3>4. Past(files[1]) \in Nat
      BY <1>1, <1>4, SlotFacts
    <3>5. files[i].first < Past(files[i])
      BY <1>3, <3>1, <3>2 DEF Past
    <3> QED BY <1>3, <3>1, <3>2, <3>3, <3>4, <3>5
  <2>3. CASE i = 1
    <3>1. Past(files[1]) # Len(output) + 2
      BY <1>10, <2>3
    <3>2. Len(output) + 2 < Past(files[i])
      BY <1>3, <2>1, <2>2, <2>3, <3>1
    <3> QED BY <1>5, <2>1, <2>3, <3>2
  <2>4. CASE i # 1
    <3> HIDE DEF d
    <3>1. 1 < i
      BY <1>3, <2>2, <2>4
    <3>2. Past(files[1]) <= files[i].first
      BY <1>1, <1>4, <3>1 DEF FilesInOrder
    <3>3. Len(output) + 1 < Past(files[1])
      BY <1>1, <1>4 DEF SlotPlaces
    <3>4. Len(output) + 2 <= files[i].first
      BY <1>3, <2>2, <3>2, <3>3
    <3>5. Len(output) + 2 < Past(files[i])
      BY <1>3, <2>2, <3>4
    <3>6. Len(output) + 1 < files[i].first + files[i].received
      BY <1>3, <2>2, <3>4
    <3> QED BY <2>1, <3>5, <3>6
  <2> QED BY <2>3, <2>4
<1>11. ASSUME NEW i \in DOMAIN files'
       PROVE  i + d \in DOMAIN files /\ files'[i] = files[i + d] /\ i + d > d /\ i \in Nat
  BY <1>8
<1>d. d = 1 => Past(files[1]) = Len(output) + 2
  OBVIOUS
<1> HIDE DEF gone, d
<1>12. /\ IInv' /\ UNCHANGED alive /\ Len(cells') <= capacity'[Self]
       /\ capacity'[Self] = 0 => request'[Self].granted = 0 /\ ~request'[Self].waiting
  <2> DEFINE keep == Most(window.target, Len(cells'))
  <2>1. Shrink(keep) \/ UNCHANGED budgetVars
    BY <1>2 DEF Adjust
  <2>2. Len(cells) <= capacity[Self]
    BY <1>1 DEF WindowFits
  <2>3. CASE UNCHANGED budgetVars
    <3>1. IInv' /\ UNCHANGED alive /\ capacity'[Self] = capacity[Self]
      BY <1>1, <2>3, BudgetStays
    <3> QED BY <1>1, <1>3, <1>9, <2>2, <3>1
  <2>4. CASE Shrink(keep)
    <3>1. window.target \in Nat
      BY <1>1, ReaderAssumption DEF ReaderTypeOK
    <3>2. keep \in Nat /\ Len(cells') <= keep
      BY <1>3, <1>9, <3>1 DEF Most
    <3> HIDE DEF keep
    <3>3. IInv' /\ UNCHANGED alive /\ capacity'[Self] = Least(keep, capacity[Self]) /\ SelfReleased
      BY <1>1, <2>4, <3>2, ShrinkStep
    <3>4. Len(cells') <= capacity'[Self]
      BY <1>1, <1>3, <1>9, <2>2, <3>2, <3>3 DEF Least
    <3> QED BY <3>3, <3>4 DEF SelfReleased
  <2> QED BY <2>1, <2>3, <2>4
<1>13. ReaderTypeOK'
  <2>1. \A i \in DOMAIN files' : files'[i].received <= files'[i].count
    BY <1>1, <1>11 DEF ReaderTypeOK
  <2>2. cursor' \in Nat
    BY <1>1, <1>2 DEF Less, ReaderTypeOK
  <2>3. TypeOK'
    BY <1>12 DEF IInv
  <2> QED BY <1>1, <1>2, <1>6, <1>7, <1>8, <1>9, <2>1, <2>2, <2>3 DEF ReaderTypeOK
<1>14. Positions'
  <2>1. discovered = declared % Modulus /\ declared - Len(output) < Modulus
    BY <1>1 DEF Positions
  <2>2. Modulus \in Nat
    BY ReaderAssumption
  <2>3. declared - (Len(output) + 1) < Modulus
    BY <1>3, <2>1, <2>2
  <2> QED BY <1>2, <1>4, <1>6, <1>7, <2>1, <2>3 DEF Positions
<1>15. SlotPlaces'
  <2> SUFFICES ASSUME NEW i \in DOMAIN files'
               PROVE  /\ files'[i].start = (files'[i].first - 1) % Modulus
                      /\ Len(output') + 1 < Past(files'[i]) /\ Past(files'[i]) <= declared' + 1
                      /\ Len(output') < files'[i].first + files'[i].received
    BY DEF SlotPlaces, Past
  <2>1. i + d \in DOMAIN files /\ files'[i] = files[i + d] /\ i + d > d
    BY <1>11
  <2>2. /\ files[i + d].start = (files[i + d].first - 1) % Modulus
        /\ Len(output) + 2 < Past(files[i + d]) /\ Past(files[i + d]) <= declared + 1
        /\ Len(output) + 1 < files[i + d].first + files[i + d].received
    BY <1>10, <2>1
  <2>3. Len(output') + 1 = Len(output) + 2 /\ declared' = declared
    BY <1>2, <1>3, <1>7
  <2> QED BY <1>7, <2>1, <2>2, <2>3
<1>16. FilesInOrder'
  <2> SUFFICES ASSUME NEW i \in DOMAIN files', NEW j \in DOMAIN files', i < j
               PROVE  Past(files'[i]) <= files'[j].first
    BY DEF FilesInOrder, Past
  <2>1. /\ i + d \in DOMAIN files /\ files'[i] = files[i + d] /\ i \in Nat
        /\ j + d \in DOMAIN files /\ files'[j] = files[j + d] /\ j \in Nat
    BY <1>11
  <2>2. i + d < j + d
    BY <1>8, <2>1
  <2> QED BY <1>1, <2>1, <2>2 DEF FilesInOrder
<1>17. FramesHaveFiles'
  <2> SUFFICES ASSUME NEW n \in (Len(output') + 1)..declared'
               PROVE  \E i \in DOMAIN files' : n \in files'[i].first..(Past(files'[i]) - 1)
    BY DEF FramesHaveFiles, Past
  <2>1. n \in (Len(output) + 1)..declared /\ n >= Len(output) + 2
    BY <1>2, <1>3, <1>7
  <2>2. PICK i \in DOMAIN files : n \in files[i].first..(Past(files[i]) - 1)
    BY <1>1, <1>2, <2>1 DEF FramesHaveFiles
  <2>3. i \in Nat /\ i >= 1
    BY <1>3
  <2>4. i > d
    <3>1. ASSUME i = 1, d = 1 PROVE FALSE
      BY <1>d, <1>3, <2>1, <2>2, <3>1
    <3> QED BY <1>8, <2>3, <3>1
  <2> QED BY <1>8, <2>2, <2>4
<1>18. CellsInPlace'
  <2>1. ASSUME NEW k \in DOMAIN cells', NEW i \in DOMAIN files',
               Len(output') + k \in files'[i].first..(Past(files'[i]) - 1)
        PROVE  CellFits(cells'[k], files'[i], Len(output') + k)
    <3>1. k + 1 \in DOMAIN cells /\ cells'[k] = cells[k + 1] /\ k \in Nat
      BY <1>9
    <3>2. i + d \in DOMAIN files /\ files'[i] = files[i + d]
      BY <1>11
    <3>3. Len(output') + k = Len(output) + (k + 1)
      BY <1>3, <1>7, <3>1
    <3> QED BY <1>1, <2>1, <3>1, <3>2, <3>3 DEF CellsFit
  <2>2. ASSUME NEW i \in DOMAIN files', files'[i].received > 0
        PROVE  files'[i].first + files'[i].received <= Len(output') + Len(cells') + 1
    <3>1. i + d \in DOMAIN files /\ files'[i] = files[i + d]
      BY <1>11
    <3>2. files'[i].first + files'[i].received <= Len(output) + Len(cells) + 1
      BY <1>1, <2>2, <3>1 DEF CellsFit
    <3>3. Len(output') + Len(cells') + 1 = Len(output) + Len(cells) + 1
      BY <1>3, <1>7, <1>9
    <3> QED BY <3>2, <3>3
  <2> QED BY <2>1, <2>2 DEF CellsInPlace, CellsFit, CellFits, Past
<1>19. WindowFits'
  <2>1. Len(cells) <= declared - Len(output)
    BY <1>1 DEF WindowFits
  <2>2. Len(cells') <= declared' - Len(output')
    BY <1>2, <1>3, <1>7, <1>9, <2>1
  <2> QED BY <1>12, <2>2 DEF WindowFits
<1>20. Control'
  BY <1>1, <1>2, <1>12 DEF Control
<1>21. Released'
  BY <1>1, <1>2, <1>12 DEF Released, Control
<1> QED BY <1>12, <1>13, <1>14, <1>15, <1>16, <1>17, <1>18, <1>19, <1>20, <1>21 DEF ReaderInv

-----------------------------------------------------------------------------
(* A file is admitted behind the others. *)
LEMMA PushKeeps ==
    ASSUME ReaderInv, NEW count \in FrameCounts, Push(count), runnable' \in BOOLEAN
    PROVE  ReaderInv'
<1> DEFINE slot == NewSlot(count)
           n == Len(files)
<1>1. /\ IInv /\ ReaderTypeOK /\ Positions /\ SlotPlaces /\ FilesInOrder /\ FramesHaveFiles
      /\ CellsFit(files, cells) /\ WindowFits /\ Control /\ Released
  BY DriveFacts
<1>2. /\ pc = "idle" /\ alive[Self] /\ ~terminated /\ count > 0
      /\ declared - Len(output) + count < Modulus /\ declared + count <= MaxFrames
      /\ files' = Append(files, slot) /\ discovered' = Plus(discovered, count)
      /\ declared' = declared + count /\ asleep' = FALSE
      /\ UNCHANGED <<budgetVars, cells, emitted, cursor, closed, terminated, window, error,
                     pc, call, output, reports>>
  BY <1>1, CountFacts DEF Push, Idle, Callable, pollVars
<1>3. /\ Len(output) \in Nat /\ declared \in 0..MaxFrames /\ MaxFrames \in Nat
      /\ Modulus \in Nat \ {0} /\ Len(output) <= declared /\ Len(cells) \in Nat
      /\ files \in Seq(SlotType) /\ n \in Nat /\ count \in Nat
      /\ cells \in Seq(CellType)
  BY <1>1, CountFacts, ReaderAssumption DEF ReaderTypeOK
<1>4. /\ slot.start = discovered /\ slot.count = count /\ slot.received = 0
      /\ slot.first = declared + 1 /\ slot \in SlotType
  <2>1. declared + 1 \in 1..MaxFrames /\ count \in FrameCounts \ {0}
    BY <1>2, <1>3
  <2>2. discovered \in 0..(Modulus - 1) /\ 0 \in 0..MaxRetries
    BY <1>1, ReaderAssumption DEF ReaderTypeOK
  <2> QED BY <2>1, <2>2 DEF NewSlot, SlotType
<1> HIDE DEF slot
<1>5. /\ files' \in Seq(SlotType) /\ Len(files') = n + 1 /\ DOMAIN files' = 1..(n + 1)
      /\ DOMAIN files = 1..n /\ files'[n + 1] = slot
      /\ \A i \in DOMAIN files : i \in DOMAIN files' /\ files'[i] = files[i]
  BY <1>2, <1>3, <1>4
<1>6. Past(slot) = declared + count + 1 /\ Past(slot) = declared' + 1
  BY <1>2, <1>3, <1>4 DEF Past
<1>7. ASSUME NEW i \in DOMAIN files', i # n + 1
      PROVE  i \in DOMAIN files /\ files'[i] = files[i]
  BY <1>3, <1>5, <1>7
<1>8. IInv' /\ UNCHANGED alive /\ capacity'[Self] = capacity[Self]
  BY <1>1, <1>2, BudgetStays
<1>9. discovered' = declared' % Modulus /\ discovered' \in 0..(Modulus - 1)
  <2>1. discovered = declared % Modulus /\ declared \in Nat
    BY <1>1, <1>3 DEF Positions
  <2>2. ((declared % Modulus) + count) % Modulus = (declared + count) % Modulus
    BY <1>3, <2>1, WrappedSum, Zenon
  <2>3. discovered' = declared' % Modulus
    BY <1>2, <2>1, <2>2, Zenon DEF Plus
  <2>4. declared' \in Nat
    BY <1>2, <1>3, <2>1
  <2>5. declared' \in Int
    BY <2>4
  <2>6. declared' % Modulus \in 0..(Modulus - 1)
    BY <1>3, <2>5, WrapType, Zenon
  <2> QED BY <2>3, <2>6
<1> HIDE DEF n
<1>10. Positions'
  <2>1. emitted = Len(output) % Modulus
    BY <1>1 DEF Positions
  <2>2. Len(output) <= declared' /\ declared' - Len(output) < Modulus
    BY <1>2, <1>3
  <2> QED BY <1>2, <1>9, <2>1, <2>2 DEF Positions
<1>11. SlotPlaces'
  <2> SUFFICES ASSUME NEW i \in DOMAIN files'
               PROVE  /\ files'[i].start = (files'[i].first - 1) % Modulus
                      /\ Len(output) + 1 < Past(files'[i]) /\ Past(files'[i]) <= declared' + 1
                      /\ Len(output) < files'[i].first + files'[i].received
    BY <1>2 DEF SlotPlaces, Past
  <2>1. CASE i = n + 1
    <3>1. files'[i] = slot
      BY <1>5, <2>1
    <3>2. slot.first - 1 = declared
      BY <1>3, <1>4
    <3>3. slot.start = (slot.first - 1) % Modulus
      BY <1>1, <1>4, <3>2 DEF Positions
    <3>4. Len(output) + 1 < Past(slot) /\ Past(slot) <= declared' + 1
      BY <1>2, <1>3, <1>6
    <3>5. Len(output) < slot.first + slot.received
      BY <1>3, <1>4
    <3> QED BY <3>1, <3>3, <3>4, <3>5
  <2>2. CASE i # n + 1
    <3>1. i \in DOMAIN files /\ files'[i] = files[i]
      BY <1>7, <2>2
    <3>2. Past(files[i]) \in Nat
      BY <1>1, <3>1, SlotFacts
    <3>3. /\ files[i].start = (files[i].first - 1) % Modulus
          /\ Len(output) + 1 < Past(files[i]) /\ Past(files[i]) <= declared + 1
          /\ Len(output) < files[i].first + files[i].received
      BY <1>1, <3>1 DEF SlotPlaces
    <3>4. Past(files[i]) <= declared' + 1
      BY <1>2, <1>3, <3>2, <3>3
    <3> QED BY <3>1, <3>3, <3>4
  <2> QED BY <2>1, <2>2
<1>12. FilesInOrder'
  <2> SUFFICES ASSUME NEW i \in DOMAIN files', NEW j \in DOMAIN files', i < j
               PROVE  Past(files'[i]) <= files'[j].first
    BY DEF FilesInOrder, Past
  <2>1. i # n + 1
    BY <1>3, <1>5
  <2>2. i \in DOMAIN files /\ files'[i] = files[i]
    BY <1>7, <2>1
  <2>3. CASE j = n + 1
    <3>1. Past(files[i]) <= declared + 1
      BY <1>1, <2>2 DEF SlotPlaces
    <3> QED BY <1>4, <1>5, <2>2, <2>3, <3>1
  <2>4. CASE j # n + 1
    BY <1>1, <1>7, <2>2, <2>4 DEF FilesInOrder
  <2> QED BY <2>3, <2>4
<1>13. FramesHaveFiles'
  <2> SUFFICES ASSUME NEW k \in (Len(output) + 1)..declared'
               PROVE  \E i \in DOMAIN files' : k \in files'[i].first..(Past(files'[i]) - 1)
    BY <1>2 DEF FramesHaveFiles, Past
  <2>1. CASE k <= declared
    <3>1. k \in (Len(output) + 1)..declared
      BY <1>3, <2>1
    <3>2. PICK i \in DOMAIN files : k \in files[i].first..(Past(files[i]) - 1)
      BY <1>1, <1>2, <3>1 DEF FramesHaveFiles
    <3> QED BY <1>5, <3>2
  <2>2. CASE declared < k
    <3>1. k \in slot.first..(Past(slot) - 1)
      BY <1>2, <1>3, <1>4, <1>6, <2>2
    <3>2. n + 1 \in DOMAIN files'
      BY <1>3, <1>5
    <3> QED BY <1>5, <3>1, <3>2
  <2> QED BY <1>2, <1>3, <2>1, <2>2
<1>14. CellsInPlace'
  <2>1. ASSUME NEW k \in DOMAIN cells, NEW i \in DOMAIN files',
               Len(output) + k \in files'[i].first..(Past(files'[i]) - 1)
        PROVE  CellFits(cells[k], files'[i], Len(output) + k)
    <3>1. CASE i = n + 1
      <4>1. Len(output) + k <= declared /\ k \in Nat
        BY <1>1, <1>3 DEF WindowFits
      <4>2. Len(output) + k \in (declared + 1)..(Past(slot) - 1)
        BY <1>4, <1>5, <2>1, <3>1
      <4> QED BY <1>3, <4>1, <4>2
    <3>2. CASE i # n + 1
      <4>1. i \in DOMAIN files /\ files'[i] = files[i]
        BY <1>7, <3>2
      <4> QED BY <1>1, <2>1, <4>1 DEF CellsFit
    <3> QED BY <3>1, <3>2
  <2>2. ASSUME NEW i \in DOMAIN files', files'[i].received > 0
        PROVE  files'[i].first + files'[i].received <= Len(output) + Len(cells) + 1
    <3>1. i # n + 1
      BY <1>4, <1>5, <2>2
    <3> QED BY <1>1, <1>7, <2>2, <3>1 DEF CellsFit
  <2> QED BY <1>2, <2>1, <2>2 DEF CellsInPlace, CellsFit, CellFits, Past
<1>15. WindowFits'
  <2>1. Len(cells) <= declared - Len(output) /\ Len(cells) <= capacity[Self]
    BY <1>1 DEF WindowFits
  <2>2. Len(cells) <= declared' - Len(output)
    BY <1>2, <1>3, <2>1
  <2> QED BY <1>2, <1>8, <2>1, <2>2 DEF WindowFits
<1>16. ReaderTypeOK'
  <2>1. ASSUME NEW i \in DOMAIN files' PROVE files'[i].received <= files'[i].count
    <3>1. CASE i = n + 1
      BY <1>2, <1>3, <1>4, <1>5, <3>1
    <3>2. CASE i # n + 1
      BY <1>1, <1>7, <3>2 DEF ReaderTypeOK
    <3> QED BY <3>1, <3>2
  <2>2. declared' \in 0..MaxFrames
    BY <1>2, <1>3
  <2>3. TypeOK'
    BY <1>8 DEF IInv
  <2> QED BY <1>1, <1>2, <1>5, <1>9, <2>1, <2>2, <2>3 DEF ReaderTypeOK
<1>17. files' # <<>>
  BY <1>3, <1>5
<1>18. Control' /\ Released'
  BY <1>1, <1>2, <1>8, <1>17 DEF Control, Released
<1> QED BY <1>8, <1>10, <1>11, <1>12, <1>13, <1>14, <1>15, <1>16, <1>18 DEF ReaderInv

(* No more files will come. *)
LEMMA CloseKeeps ==
    ASSUME ReaderInv, Close, runnable' \in BOOLEAN
    PROVE  ReaderInv'
<1>1. /\ IInv /\ ReaderTypeOK /\ Control /\ Released /\ WindowFits
  BY DriveFacts
<1>2. /\ pc = "idle" /\ closed' = TRUE /\ asleep' = FALSE
      /\ UNCHANGED <<budgetVars, files, cells, emitted, discovered, cursor, terminated, window,
                     error, pc, call, declared, output, reports>>
  BY DEF Close, Idle, pollVars
<1>3. IInv' /\ UNCHANGED alive /\ capacity'[Self] = capacity[Self] /\ request'[Self] = request[Self]
  BY <1>1, <1>2, BudgetStays
<1>4. /\ Positions' /\ SlotPlaces' /\ FilesInOrder' /\ FramesHaveFiles'
      /\ CellsInPlace' /\ WindowFits'
  BY <1>1, <1>2, <1>3, StreamKept DEF StreamStays, WindowFits
<1>5. ReaderTypeOK'
  BY <1>1, <1>2, <1>3 DEF ReaderTypeOK, IInv
<1>6. Control' /\ Released'
  BY <1>1, <1>2, <1>3 DEF Control, Released
<1> QED BY <1>3, <1>4, <1>5, <1>6 DEF ReaderInv

(* A smaller window takes no frame that is in use. *)
LEMMA SetWindowKeeps ==
    ASSUME ReaderInv, NEW w \in Windows, SetWindow(w)
    PROVE  ReaderInv'
<1>1. /\ IInv /\ ReaderTypeOK /\ Positions /\ Control /\ Released /\ WindowFits
      /\ Len(cells) \in Nat /\ capacity[Self] \in Nat
  BY DriveFacts, SelfTypes, CountFacts
<1>2. /\ pc = "idle" /\ window' = w /\ asleep' = FALSE /\ runnable' = TRUE /\ Shrink(KeptGrant(w))
      /\ UNCHANGED <<files, cells, emitted, discovered, cursor, closed, terminated, error,
                     pc, call, declared, output, reports>>
  BY DEF SetWindow, Idle, Repoll, pollVars
<1>3. /\ KeptGrant(w) \in Nat /\ Len(cells) <= Least(KeptGrant(w), capacity[Self])
      /\ (capacity[Self] = 0 => Least(KeptGrant(w), capacity[Self]) = 0)
  <2>1. w.target \in Nat
    BY ReaderAssumption
  <2>2. Len(cells) <= capacity[Self]
    BY <1>1 DEF WindowFits
  <2> QED BY <1>1, <2>1, <2>2 DEF KeptGrant, Least, Most
<1>4. /\ IInv' /\ UNCHANGED alive /\ SelfReleased
      /\ capacity'[Self] = Least(KeptGrant(w), capacity[Self])
  BY <1>1, <1>2, <1>3, ShrinkStep
<1>5. /\ Positions' /\ SlotPlaces' /\ FilesInOrder' /\ FramesHaveFiles'
      /\ CellsInPlace' /\ WindowFits'
  BY <1>2, <1>3, <1>4, StreamKept DEF StreamStays
<1>6. ReaderTypeOK'
  BY <1>1, <1>2, <1>4 DEF ReaderTypeOK, IInv
<1>7. Control'
  BY <1>1, <1>2, <1>4 DEF Control
<1>8. Released'
  BY <1>1, <1>2, <1>3, <1>4 DEF Released, SelfReleased
<1> QED BY <1>4, <1>5, <1>6, <1>7, <1>8 DEF ReaderInv

(* The scheduler is dropped. *)
LEMMA DropKeeps ==
    ASSUME ReaderInv, DropScheduler
    PROVE  ReaderInv'
<1>1. /\ IInv /\ ReaderTypeOK /\ Positions /\ Control /\ WindowFits /\ Len(cells) \in Nat
  BY DriveFacts, CountFacts
<1>2. /\ pc = "idle" /\ Drop(Self) /\ files' = <<>> /\ cells' = <<>> /\ asleep' = FALSE
      /\ UNCHANGED <<emitted, discovered, cursor, closed, terminated, window, error,
                     pc, call, runnable, declared, output, reports>>
  BY DEF DropScheduler, Idle, pollVars
<1>3. IInv' /\ ~alive'[Self] /\ capacity'[Self] = 0 /\ SelfReleased
  BY <1>1, <1>2, DropStep
<1>4. ReaderTypeOK'
  <2>1. TypeOK'
    BY <1>3 DEF IInv
  <2>2. /\ files' \in Seq(SlotType) /\ cells' \in Seq(CellType) /\ asleep' \in BOOLEAN
        /\ \A i \in DOMAIN files' : files'[i].received <= files'[i].count
    <3>1. files' = <<>> /\ cells' = <<>>
      BY <1>2
    <3>2. files' \in Seq(SlotType) /\ cells' \in Seq(CellType)
      BY <3>1
    <3>3. \A i \in DOMAIN files' : files'[i].received <= files'[i].count
      BY <3>1
    <3>4. asleep' \in BOOLEAN
      BY <1>2
    <3> QED BY <3>2, <3>3, <3>4
  <2>3. ReaderTypeOK
    BY <1>1
  <2> QED BY <1>2, <2>1, <2>2, <2>3 DEF ReaderTypeOK
<1>5. Positions'
  BY <1>1, <1>2 DEF Positions
<1>6. SlotPlaces' /\ FilesInOrder' /\ CellsInPlace'
  BY <1>2 DEF SlotPlaces, FilesInOrder, CellsInPlace, CellsFit
<1>7. FramesHaveFiles'
  BY <1>3 DEF FramesHaveFiles
<1>8. WindowFits'
  BY <1>1, <1>2, <1>3, CountFacts DEF WindowFits
<1>9. Control'
  BY <1>1, <1>2, <1>3 DEF Control
<1>10. Released'
  BY <1>2, <1>3 DEF Released, SelfReleased
<1> QED BY <1>3, <1>4, <1>5, <1>6, <1>7, <1>8, <1>9, <1>10 DEF ReaderInv

(* An operation of the backend can be polled again. *)
LEMMA BackendEventKeeps ==
    ASSUME ReaderInv, NEW i \in DOMAIN files, BackendEvent(i)
    PROVE  ReaderInv'
<1> DEFINE slot == [files[i] EXCEPT !.io = "ready"]
<1>1. /\ IInv /\ ReaderTypeOK /\ Control /\ Released /\ WindowFits
  BY DriveFacts
<1>2. /\ files' = With(i, slot) /\ runnable' = TRUE
      /\ UNCHANGED <<budgetVars, cells, emitted, discovered, cursor, closed, terminated, window,
                     error, pc, call, asleep, declared, output, reports>>
  BY DEF BackendEvent, With, pollVars
<1>3. files[i] \in SlotType /\ files[i].received \in Nat /\ files[i].received <= files[i].count
  BY <1>1, SlotFacts
<1>4. slot \in SlotType /\ SameFile(slot, files[i]) /\ slot.received = files[i].received
  BY <1>3 DEF SlotType, SameFile
<1> HIDE DEF slot
<1>5. /\ With(i, slot) \in Seq(SlotType) /\ Len(With(i, slot)) = Len(files)
      /\ DOMAIN With(i, slot) = DOMAIN files /\ With(i, slot)[i] = slot
      /\ \A j \in DOMAIN files \ {i} : With(i, slot)[j] = files[j]
      /\ \A j \in DOMAIN files : SameFile(With(i, slot)[j], files[j])
  BY <1>1, <1>4, Replaced
<1>6. ASSUME NEW j \in DOMAIN files PROVE files[j].received <= files'[j].received
  <2>1. files[j].received \in Nat
    BY <1>1, SlotFacts
  <2> QED BY <1>2, <1>4, <1>5, <2>1
<1>7. FilesStay
  BY <1>2, <1>5, <1>6 DEF FilesStay
<1>8. CellsFit(With(i, slot), cells)
  BY <1>4, SameCellsFit
<1>9. CellsInPlace'
  BY <1>2, <1>8 DEF CellsInPlace, CellsFit, CellFits
<1>10. IInv' /\ UNCHANGED alive /\ capacity'[Self] = capacity[Self] /\ request'[Self] = request[Self]
  BY <1>1, <1>2, BudgetStays
<1>11. WindowFits'
  BY <1>1, <1>2, <1>10 DEF WindowFits
<1>12. ReaderTypeOK'
  <2>1. \A j \in DOMAIN files : files'[j].received <= files'[j].count
    BY <1>1, <1>2, <1>3, <1>4, <1>5 DEF SameFile, ReaderTypeOK
  <2> QED BY <1>1, <1>2, <1>5, <1>10, <2>1 DEF ReaderTypeOK, IInv
<1>13. files # <<>> /\ files' # <<>>
  BY <1>1, <1>2, <1>5 DEF ReaderTypeOK
<1>14. Control' /\ Released'
  BY <1>1, <1>2, <1>10, <1>13 DEF Control, Released
<1> QED BY <1>2, <1>7, <1>9, <1>10, <1>11, <1>12, <1>14, FilesKept DEF ReaderInv

(* A step of others leaves the scheduler's grant alone; it may wake its task *)
(* and serve its request.                                                    *)
LEMMA BystanderKeeps ==
    ASSUME ReaderInv, IInv', UNCHANGED alive, capacity'[Self] = capacity[Self],
           ~request[Self].waiting => request'[Self] = request[Self], runnable' \in BOOLEAN,
           UNCHANGED <<files, cells, emitted, discovered, cursor, closed, terminated, window,
                       error, pc, call, asleep, declared, output, reports>>
    PROVE  ReaderInv'
<1>1. /\ IInv /\ ReaderTypeOK /\ Control /\ Released /\ WindowFits
  BY DriveFacts
<1>2. /\ Positions' /\ SlotPlaces' /\ FilesInOrder' /\ FramesHaveFiles'
      /\ CellsInPlace' /\ WindowFits'
  BY <1>1, StreamKept DEF StreamStays, WindowFits
<1>3. ReaderTypeOK'
  BY <1>1 DEF ReaderTypeOK, IInv
<1>4. Control' /\ Released'
  BY <1>1 DEF Control, Released
<1> QED BY <1>2, <1>3, <1>4 DEF ReaderInv

(* What the budget's other users and the waking threads do. *)
LEMMA OthersKeep ==
    ASSUME ReaderInv,
           \/ \E p \in Permits : BudgetThread(p) \/ BudgetWake(p)
           \/ \E p \in Rivals : RivalStep(p)
           \/ UNCHANGED vars
    PROVE  ReaderInv'
<1>1. /\ IInv /\ ReaderTypeOK /\ Control /\ Released /\ WindowFits
  BY DriveFacts
<1>2. /\ UNCHANGED <<files, cells, emitted, discovered, cursor, closed, terminated, window,
                     error, pc, call, asleep, declared, output, reports>>
  BY DEF BudgetThread, BudgetWake, RivalStep, BudgetOnly, vars, schedulerVars, pollVars,
         outsideVars
<1>3. runnable' \in BOOLEAN
  <2>1. UNCHANGED runnable \/ \E task : runnable' = Woken(task)
    BY DEF BudgetThread, BudgetWake, RivalStep, BudgetOnly, vars, outsideVars
  <2>2. runnable \in BOOLEAN
    BY <1>1 DEF ReaderTypeOK
  <2> QED BY <2>1, <2>2, Zenon DEF Woken
<1>4. /\ IInv' /\ UNCHANGED alive /\ capacity'[Self] = capacity[Self]
      /\ ~request[Self].waiting => request'[Self] = request[Self]
  <2>1. CASE UNCHANGED vars
    BY <1>1, <2>1, BudgetStays DEF vars
  <2>2. CASE \E p \in Permits : BudgetThread(p) \/ BudgetWake(p)
    BY <1>1, <2>2, OthersStep DEF BudgetThread, BudgetWake
  <2>3. CASE \E p \in Rivals : RivalStep(p)
    BY <1>1, <2>3, OthersStep DEF RivalStep, Rivals
  <2> QED BY <2>1, <2>2, <2>3
<1> QED BY <1>2, <1>3, <1>4, BystanderKeeps

(* What the scheduler, its task and its backends do while the scheduler     *)
(* exists; the caller may be woken or not.                                  *)
OwnMove ==
    \/ InPoll
    \/ \E kind \in {"read", "progress"} : Begin(kind)
    \/ \E count \in FrameCounts : Push(count)
    \/ Close
    \/ \E w \in Windows : SetWindow(w)
    \/ \E i \in DOMAIN files : BackendEvent(i)

LEMMA OwnMoveKeeps ==
    ASSUME ReaderInv, OwnMove, InPoll \/ runnable' \in BOOLEAN
    PROVE  ReaderInv'
<1>1. CASE InPoll
  BY <1>1, GrowKeeps, DriveStepKeeps, ReturnKeeps, EmitKeeps DEF InPoll
<1>2. CASE ~InPoll
  BY <1>2, BeginKeeps, PushKeeps, CloseKeeps, SetWindowKeeps, BackendEventKeeps DEF OwnMove
<1> QED BY <1>1, <1>2

LEMMA NextMoves ==
    ASSUME ReaderInv, [Next]_vars
    PROVE  \/ OwnMove /\ runnable' \in BOOLEAN
           \/ DropScheduler
           \/ \E p \in Permits : BudgetThread(p) \/ BudgetWake(p)
           \/ \E p \in Rivals : RivalStep(p)
           \/ UNCHANGED vars
<1>1. CASE InPoll
  <2>1. ReaderInv'
    BY <1>1, GrowKeeps, DriveStepKeeps, ReturnKeeps, EmitKeeps DEF InPoll
  <2> QED BY <1>1, <2>1 DEF OwnMove, ReaderInv, ReaderTypeOK
<1>2. CASE Calls
  <2>1. CASE \E kind \in {"read", "progress"} : Poll(kind)
    BY <2>1 DEF Poll, OwnMove
  <2>2. CASE \E count \in FrameCounts : PushFile(count)
    BY <2>2 DEF PushFile, Repoll, OwnMove
  <2>3. CASE CloseFiles
    BY <2>3 DEF CloseFiles, Repoll, OwnMove
  <2>4. CASE \E w \in Windows : SetWindow(w)
    BY <2>4 DEF SetWindow, Repoll, OwnMove
  <2> QED BY <1>2, <2>1, <2>2, <2>3, <2>4 DEF Calls
<1>3. CASE \E i \in DOMAIN files : BackendEvent(i)
  BY <1>3 DEF BackendEvent, OwnMove
<1> QED BY <1>1, <1>2, <1>3 DEF Next, Outside

(* Every step. *)
LEMMA ReaderStep ==
    ASSUME ReaderInv, [Next]_vars
    PROVE  ReaderInv'
BY NextMoves, OwnMoveKeeps, DropKeeps, OthersKeep

LEMMA ReaderStart ==
    ASSUME Init
    PROVE  ReaderInv
<1>1. /\ files = <<>> /\ cells = <<>> /\ emitted = 0 /\ discovered = 0 /\ cursor = 0
      /\ closed = FALSE /\ terminated = FALSE /\ window \in Windows /\ error = "none"
      /\ pc = "idle" /\ call = "read" /\ runnable = TRUE /\ asleep = FALSE
      /\ declared = 0 /\ output = <<>> /\ reports = 0 /\ BudgetStart(Permits)
  BY DEF Init
<1>2. IInv
  <2>1. BudgetInit
    BY <1>1 DEF BudgetInit
  <2> QED BY <2>1, InitIInv
<1>3. request[Self] = DefaultRequest
  BY <1>1, SelfAssumption DEF BudgetStart
<1>4. capacity[Self] \in Nat
  BY <1>2, SelfTypes
<1>5. Modulus \in Nat \ {0} /\ MaxFrames \in Nat
  BY ReaderAssumption
<1>6. ReaderTypeOK
  <2>1. TypeOK
    BY <1>2 DEF IInv
  <2>2. /\ emitted \in 0..(Modulus - 1) /\ discovered \in 0..(Modulus - 1) /\ cursor \in Nat
        /\ declared \in 0..MaxFrames /\ reports \in 0..1
    BY <1>1, <1>5
  <2>3. /\ files \in Seq(SlotType) /\ cells \in Seq(CellType) /\ output \in Seq(1..MaxFrames)
        /\ \A i \in DOMAIN files : files[i].received <= files[i].count
    BY <1>1
  <2>4. /\ closed \in BOOLEAN /\ terminated \in BOOLEAN
        /\ runnable \in BOOLEAN /\ asleep \in BOOLEAN
        /\ window \in Windows /\ error \in {"none", "backend", "eof", "position"}
        /\ pc \in {"idle", "grow", "drive", "polled"} /\ call \in {"read", "progress"}
    BY <1>1
  <2> QED BY <2>1, <2>2, <2>3, <2>4 DEF ReaderTypeOK
<1>7. Positions
  <2>1. 0 % Modulus = 0
    BY <1>5
  <2> QED BY <1>1, <1>5, <2>1 DEF Positions
<1>8. SlotPlaces /\ FilesInOrder /\ CellsInPlace /\ FramesHaveFiles
  BY <1>1 DEF SlotPlaces, FilesInOrder, CellsInPlace, CellsFit, FramesHaveFiles
<1>9. WindowFits
  BY <1>1, <1>4 DEF WindowFits
<1>10. Control
  BY <1>1 DEF Control
<1>11. Released
  <2>1. request[Self].granted = 0 /\ ~request[Self].waiting
    BY <1>3 DEF DefaultRequest
  <2>2. capacity[Self] = 0
    BY <1>1, SelfAssumption DEF BudgetStart
  <2> QED BY <2>1, <2>2 DEF Released
<1> QED BY <1>2, <1>6, <1>7, <1>8, <1>9, <1>10, <1>11 DEF ReaderInv

LEMMA ReaderInvariance == Spec => []ReaderInv
<1>1. Init => ReaderInv
  BY ReaderStart
<1>2. ReaderInv /\ [Next]_vars => ReaderInv'
  BY ReaderStep
<1> QED BY <1>1, <1>2, PTL DEF Spec

-----------------------------------------------------------------------------
(* The scheduler's variables keep their types. *)
THEOREM ReaderTypeCorrect == Spec => []ReaderTypeOK
<1>1. ReaderInv => ReaderTypeOK
  BY DriveFacts
<1> QED BY <1>1, ReaderInvariance, PTL

(* Every authorized frame lies where its file says, whatever the wrapping. *)
THEOREM WindowStaysAligned == Spec => []WindowIsAligned
<1>1. ASSUME ReaderInv PROVE WindowIsAligned
  <2>1. /\ ReaderTypeOK /\ Positions /\ SlotPlaces /\ FramesHaveFiles /\ CellsFit(files, cells)
        /\ WindowFits /\ Control
    BY <1>1, DriveFacts
  <2>2. error # "position"
    BY <2>1 DEF Control
  <2>3. ASSUME NEW k \in DOMAIN cells
        PROVE  \E i \in DOMAIN files :
                  LET number == Len(output) + k
                      received == files[i].first + files[i].received
                  IN  /\ number \in files[i].first..(files[i].first + files[i].count - 1)
                      /\ cells[k].state = "complete" <=> number < received
                      /\ cells[k].state = "complete" => cells[k].value = number
                      /\ cells[k].state = "filling" => number = received
    <3>1. /\ Len(output) \in Nat /\ declared \in Nat /\ cells \in Seq(CellType)
          /\ Len(cells) \in Nat /\ k \in 1..Len(cells)
      BY <2>1, CountFacts
    <3>2. alive[Self] /\ ~terminated
      BY <2>1, <3>1 DEF Control
    <3>3. Len(output) + k \in (Len(output) + 1)..declared
      BY <2>1, <3>1 DEF WindowFits
    <3>4. PICK i \in DOMAIN files : Len(output) + k \in files[i].first..(Past(files[i]) - 1)
      BY <2>1, <3>2, <3>3 DEF FramesHaveFiles
    <3>5. CellFits(cells[k], files[i], Len(output) + k)
      BY <2>1, <3>4 DEF CellsFit
    <3>6. /\ Len(output) + k \in files[i].first..(files[i].first + files[i].count - 1)
          /\ cells[k].state = "complete" <=> Len(output) + k < files[i].first + files[i].received
          /\ cells[k].state = "complete" => cells[k].value = Len(output) + k
          /\ cells[k].state = "filling" => Len(output) + k = files[i].first + files[i].received
      <4>1. Past(files[i]) - 1 = files[i].first + files[i].count - 1
        <5>1. files[i].first \in 1..MaxFrames /\ files[i].count \in 1..(Modulus - 1)
          BY <2>1, SlotFacts
        <5> QED BY <5>1, ReaderAssumption DEF Past
      <4>2. Len(output) + k \in files[i].first..(files[i].first + files[i].count - 1)
        BY <3>4, <4>1
      <4> QED BY <3>5, <4>2, Zenon DEF CellFits
    <3> QED BY <3>6
  <2> QED BY <2>2, <2>3 DEF WindowIsAligned
<1> QED BY <1>1, ReaderInvariance, PTL

(* The frames of the window are covered by the scheduler's grant. *)
THEOREM WindowStaysGranted == Spec => []WindowIsGranted
<1>1. ReaderInv => WindowIsGranted
  BY DriveFacts DEF WindowFits, WindowIsGranted
<1> QED BY <1>1, ReaderInvariance, PTL

(* A scheduler without work keeps no frame and waits for none. *)
THEOREM NothingIsKept == Spec => []NothingKeptWithoutFiles
<1>1. ASSUME ReaderInv PROVE NothingKeptWithoutFiles
  <2>1. IInv /\ ReaderTypeOK /\ Control /\ Released /\ WindowFits
    BY <1>1, DriveFacts
  <2> SUFFICES ASSUME terminated \/ ~alive[Self] \/ (asleep /\ files = <<>>)
               PROVE  /\ Held(Self) = 0 /\ ~request[Self].waiting
                      /\ files = <<>> /\ cells = <<>>
    BY DEF NothingKeptWithoutFiles
  <2>2. files = <<>> /\ capacity[Self] = 0
    BY <2>1 DEF Control, Released
  <2>3. request[Self].granted = 0 /\ ~request[Self].waiting
    BY <2>1, <2>2 DEF Released
  <2>4. Held(Self) = 0
    BY <2>2, <2>3 DEF Held
  <2>5. cells = <<>>
    <3>1. Len(cells) <= 0 /\ cells \in Seq(CellType)
      BY <2>1, <2>2 DEF WindowFits, ReaderTypeOK
    <3> QED BY <3>1
  <2> QED BY <2>2, <2>3, <2>4, <2>5
<1> QED BY <1>1, ReaderInvariance, PTL

(* The active files hold the frames to come, from the next one to the last   *)
(* one declared, in order and without a gap.                                *)
THEOREM FilesStayContiguous == Spec => []FilesAreContiguous
<1>1. ASSUME ReaderInv PROVE FilesAreContiguous
  <2> SUFFICES ASSUME alive[Self], ~terminated
               PROVE  /\ files = <<>> => Len(output) = declared
                      /\ files # <<>> =>
                            /\ Len(output) + 1 \in Head(files).first..(Head(files).first
                                                                         + Head(files).count - 1)
                            /\ Last(files).first + Last(files).count - 1 = declared
                      /\ \A i \in 2..Len(files) :
                            files[i].first = files[i - 1].first + files[i - 1].count
    BY DEF FilesAreContiguous
  <2>1. /\ ReaderTypeOK /\ Positions /\ SlotPlaces /\ FilesInOrder /\ FramesHaveFiles
    BY <1>1, DriveFacts
  <2>2. /\ Len(output) \in Nat /\ declared \in Nat /\ files \in Seq(SlotType)
        /\ Len(files) \in Nat /\ DOMAIN files = 1..Len(files)
    BY <2>1, CountFacts DEF ReaderTypeOK
  <2>3. ASSUME NEW i \in DOMAIN files
        PROVE  /\ Past(files[i]) \in Nat /\ files[i].first \in Nat /\ files[i].count \in Nat
               /\ files[i].first < Past(files[i]) /\ i \in Nat
               /\ Past(files[i]) = files[i].first + files[i].count
               /\ Len(output) + 1 < Past(files[i]) /\ Past(files[i]) <= declared + 1
    <3>1. Modulus \in Nat /\ MaxFrames \in Nat
      BY ReaderAssumption
    <3>2. /\ files[i].first \in 1..MaxFrames /\ files[i].count \in 1..(Modulus - 1)
          /\ Past(files[i]) \in Nat /\ i \in 1..Len(files)
      BY <2>1, SlotFacts
    <3>3. Len(output) + 1 < Past(files[i]) /\ Past(files[i]) <= declared + 1
      BY <2>1 DEF SlotPlaces
    <3>4. Past(files[i]) = files[i].first + files[i].count
      BY DEF Past
    <3> QED BY <3>1, <3>2, <3>3, <3>4
  <2>4. ASSUME NEW i \in DOMAIN files, NEW j \in DOMAIN files, i < j
        PROVE  Past(files[i]) <= files[j].first /\ Past(files[i]) < Past(files[j])
    <3>1. Past(files[i]) <= files[j].first
      BY <2>1, <2>4 DEF FilesInOrder
    <3> QED BY <2>3, <3>1
  <2>5. ASSUME NEW n \in Nat, Len(output) < n, n <= declared
        PROVE  \E i \in DOMAIN files : files[i].first <= n /\ n < Past(files[i])
    <3>1. n \in (Len(output) + 1)..declared
      BY <2>2, <2>5
    <3>2. PICK i \in DOMAIN files : n \in files[i].first..(Past(files[i]) - 1)
      BY <2>1, <3>1 DEF FramesHaveFiles
    <3>3. Past(files[i]) \in Nat /\ files[i].first \in Nat
      BY <2>3
    <3> QED BY <3>2, <3>3
  <2>6. files = <<>> => Len(output) = declared
    BY <1>1, NoFilesNoCells
  <2>7. ASSUME files # <<>>
        PROVE  /\ Len(output) + 1 \in Head(files).first..(Head(files).first
                                                             + Head(files).count - 1)
               /\ Last(files).first + Last(files).count - 1 = declared
    <3>1. Len(files) >= 1 /\ 1 \in DOMAIN files /\ Len(files) \in DOMAIN files
      BY <2>2, <2>7
    <3>2. Len(output) + 1 <= declared
      BY <2>2, <2>3, <3>1
    <3>3. PICK i \in DOMAIN files : files[i].first <= Len(output) + 1
      BY <2>2, <2>5, <3>2
    <3>4. files[1].first <= Len(output) + 1
      <4>1. i = 1 \/ 1 < i
        BY <2>2
      <4>2. CASE 1 < i
        BY <2>2, <2>3, <2>4, <3>1, <3>3, <4>2
      <4> QED BY <3>3, <4>1, <4>2
    <3>5. Len(output) + 1 \in files[1].first..(files[1].first + files[1].count - 1)
      BY <2>2, <2>3, <3>1, <3>4
    <3>6. PICK j \in DOMAIN files : declared < Past(files[j])
      BY <2>2, <2>5, <3>2
    <3>7. Past(files[Len(files)]) = declared + 1
      <4>1. j = Len(files) \/ j < Len(files)
        BY <2>2
      <4>2. CASE j < Len(files)
        <5>1. Past(files[j]) < Past(files[Len(files)])
          BY <2>4, <3>1, <4>2
        <5> QED BY <2>2, <2>3, <3>1, <3>6, <5>1
      <4>3. CASE j = Len(files)
        BY <2>2, <2>3, <3>1, <3>6, <4>3
      <4> QED BY <4>1, <4>2, <4>3
    <3>8. files[Len(files)].first + files[Len(files)].count - 1 = declared
      <4>1. /\ files[Len(files)].first \in Nat /\ files[Len(files)].count \in Nat
            /\ Past(files[Len(files)]) = files[Len(files)].first + files[Len(files)].count
        BY <2>3, <3>1
      <4> QED BY <2>2, <3>7, <4>1
    <3> QED BY <3>5, <3>8 DEF Last
  <2>8. ASSUME NEW i \in 2..Len(files)
        PROVE  files[i].first = files[i - 1].first + files[i - 1].count
    <3> DEFINE h == i - 1
    <3>1. i \in DOMAIN files /\ h \in DOMAIN files /\ h < i /\ i \in Nat /\ h = i - 1
      BY <2>2
    <3> HIDE DEF h
    <3>2. Past(files[h]) <= files[i].first
      BY <2>4, <3>1
    <3>3. ASSUME Past(files[h]) < files[i].first PROVE FALSE
      <4>1. Past(files[h]) \in Nat /\ Len(output) < Past(files[h]) /\ Past(files[h]) <= declared
        BY <2>2, <2>3, <3>1, <3>3
      <4>2. PICK j \in DOMAIN files :
               files[j].first <= Past(files[h]) /\ Past(files[h]) < Past(files[j])
        BY <2>5, <4>1
      <4>3. j < h \/ j = h \/ j = i \/ i < j
        BY <2>3, <3>1
      <4>4. ~(j < h)
        BY <2>3, <2>4, <3>1, <4>2
      <4>5. j # h
        BY <2>3, <3>1, <4>2
      <4>6. ~(i < j)
        BY <2>3, <2>4, <3>1, <3>3, <4>2
      <4>7. j # i
        BY <2>3, <3>1, <3>3, <4>2
      <4> QED BY <4>3, <4>4, <4>5, <4>6, <4>7
    <3>4. files[i].first = Past(files[h])
      BY <2>3, <3>1, <3>2, <3>3
    <3> QED BY <3>1, <3>4 DEF Past
  <2> QED BY <2>6, <2>7, <2>8
<1> QED BY <1>1, ReaderInvariance, PTL

-----------------------------------------------------------------------------
(* A scheduler asks for frames only in Grow; otherwise it may give some back. *)
LEMMA OnlyGrowAsks ==
    ASSUME ReaderInv, OwnMove
    PROVE  UNCHANGED budgetVars \/ (\E limit \in Nat : Shrink(limit)) \/ Grow
<1>1. /\ ReaderTypeOK /\ capacity[Self] \in Nat /\ Len(cells) \in Nat
  BY DriveFacts, SelfTypes, CountFacts
<1>t. window.target \in Nat /\ \A w \in Windows : w.target \in Nat
  BY <1>1, ReaderAssumption DEF ReaderTypeOK
<1>2. CASE DriveStep
  <2>1. ASSUME NEW stepped, NEW written, NEW progress, NEW polled,
               Continue(stepped, written, progress, polled)
        PROVE  ReturnGrant \/ UNCHANGED budgetVars
    BY <2>1 DEF Continue
  <2>2. ASSUME NEW reason, Fail(reason) PROVE ReturnGrant
    BY <2>2 DEF Fail
  <2>3. ASSUME NEW i, PollBackend(i) PROVE ReturnGrant \/ UNCHANGED budgetVars
    BY <2>1, <2>2, <2>3 DEF PollBackend, Receive, Retry
  <2>4. ReturnGrant \/ UNCHANGED budgetVars
    BY <1>2, <2>1, <2>2, <2>3 DEF DriveStep
  <2> QED BY <2>4 DEF ReturnGrant
<1>3. CASE ProgressReturns \/ ReportError \/ ReportEnd \/ ReturnPending
  BY <1>3 DEF ProgressReturns, ReportError, ReportEnd, ReturnPending
<1>4. CASE Emit
  <2>1. Len(cells') \in Nat
    BY <1>4, EmitKeeps DEF ReaderTypeOK, ReaderInv
  <2>2. Most(window.target, Len(cells')) \in Nat
    BY <1>t, <2>1 DEF Most
  <2> QED BY <1>4, <2>2 DEF Emit, Adjust
<1>5. CASE \E kind \in {"read", "progress"} : Begin(kind)
  BY <1>5 DEF Begin, ReturnGrant
<1>6. CASE \/ \E count \in FrameCounts : Push(count)
           \/ Close
           \/ \E i \in DOMAIN files : BackendEvent(i)
  BY <1>6 DEF Push, Close, BackendEvent
<1>7. CASE \E w \in Windows : SetWindow(w)
  <2>1. PICK w \in Windows : SetWindow(w)
    BY <1>7
  <2>2. KeptGrant(w) \in Nat
    BY <1>1, <1>t DEF KeptGrant, Least, Most
  <2> QED BY <2>1, <2>2 DEF SetWindow
<1> QED BY <1>2, <1>3, <1>4, <1>5, <1>6, <1>7 DEF OwnMove, InPoll

LEMMA GrowUses ==
    ASSUME ReaderInv, Grow
    PROVE  \/ UNCHANGED budgetVars
           \/ \E minimum \in Nat : PollGrow(Self, Reader, minimum, Target)
<1>1. ReaderTypeOK /\ capacity[Self] \in Nat /\ Total \in Nat /\ Batch \in Nat
  BY DriveFacts, SelfTypes, ReaderAssumption
<1>2. window.target \in Nat
  BY <1>1, ReaderAssumption DEF ReaderTypeOK
<1>3. Target \in Nat
  BY <1>1, <1>2 DEF Target, Least
<1>4. Least(capacity[Self] + Least(Target, Batch), Target) \in Nat
  BY <1>1, <1>3 DEF Least
<1> QED BY <1>4 DEF Grow

(* The scheduler uses its permit as the budget's specification allows. *)
LEMMA OwnMoveUses ==
    ASSUME ReaderInv, OwnMove
    PROVE  OwnUse(Reader)
<1>1. Target \in Nat
  <2>1. Total \in Nat /\ ReaderTypeOK
    BY DriveFacts, SelfTypes
  <2> QED BY <2>1, ReaderAssumption DEF ReaderTypeOK, Target, Least
<1> QED BY <1>1, OnlyGrowAsks, GrowUses DEF OwnUse

LEMMA BudgetPart ==
    ASSUME ReaderInv, [Next]_vars
    PROVE  [BudgetNext]_budgetVars
<1>1. IInv /\ Reader \in Tasks
  BY DriveFacts, ReaderAssumption
<1>2. CASE OwnMove
  BY <1>1, <1>2, OwnMoveUses, OwnStep
<1>3. CASE DropScheduler
  BY <1>1, <1>3, DropStep DEF DropScheduler
<1>4. CASE \E p \in Permits : BudgetThread(p) \/ BudgetWake(p)
  BY <1>1, <1>4, OthersStep DEF BudgetThread, BudgetWake
<1>5. CASE \E p \in Rivals : RivalStep(p)
  BY <1>1, <1>5, OthersStep DEF RivalStep, Rivals
<1>6. CASE UNCHANGED vars
  BY <1>6 DEF vars
<1> QED BY <1>2, <1>3, <1>4, <1>5, <1>6, NextMoves

(* Whatever the reader, its rivals and the backends do, the budget they share *)
(* behaves as FrameBudget says: what is proved of it holds here, too.        *)
THEOREM ReaderKeepsBudget == Spec => BudgetSpec
<1>1. Init => BudgetInit
  BY DEF Init, BudgetInit
<1>2. ReaderInv /\ [Next]_vars => [BudgetNext]_budgetVars
  BY BudgetPart
<1> QED BY <1>1, <1>2, ReaderInvariance, PTL DEF Spec, BudgetSpec

-----------------------------------------------------------------------------
(* The ordered stream, step by step: what a step of the scheduler may do to *)
(* it, besides nothing and an error (Goes and Breaks).                      *)
Admits ==
    /\ ~closed /\ ~terminated /\ declared' \in Nat /\ declared' > declared
    /\ UNCHANGED <<alive, closed, terminated, error, output, reports>>

Closes ==
    /\ ~closed /\ closed' = TRUE
    /\ UNCHANGED <<alive, terminated, error, declared, output, reports>>

Delivers ==
    /\ ~terminated /\ Len(output) < declared /\ output' = Append(output, Len(output) + 1)
    /\ UNCHANGED <<alive, closed, terminated, error, declared, reports>>

Finishes ==
    /\ ~terminated /\ terminated' = TRUE /\ closed /\ Len(output) = declared /\ error = "none"
    /\ UNCHANGED <<alive, closed, error, declared, output, reports>>

Reports ==
    /\ terminated /\ error # "none" /\ error' = "none" /\ reports' = reports + 1
    /\ UNCHANGED <<alive, closed, terminated, declared, output>>

LEMMA EmitSeen == ASSUME ReaderInv, Emit PROVE Delivers /\ alive[Self]
<1>1. /\ alive[Self] /\ ~terminated /\ cells # <<>> /\ cells[1].state = "complete"
      /\ output' = Append(output, cells[1].value)
      /\ UNCHANGED <<closed, terminated, error, declared, reports>>
  BY DEF Emit, InRead, Callable, HeadComplete, ReturnReady
<1>2. UNCHANGED alive
  BY DEF Emit, Adjust, Shrink, ShrinkTo, budgetVars
<1>3. /\ CellFits(cells[1], files[1], Len(output) + 1) /\ Len(output) + 1 <= declared
  BY <1>1, FrontFrame
<1>4. output' = Append(output, Len(output) + 1)
  BY <1>1, <1>3 DEF CellFits
<1>5. Len(output) \in Nat /\ declared \in Nat
  BY DriveFacts, CountFacts
<1>6. Len(output) < declared
  BY <1>3, <1>5
<1> QED BY <1>1, <1>2, <1>4, <1>6 DEF Delivers

LEMMA BeginSeen ==
    ASSUME ReaderInv, NEW kind \in {"read", "progress"}, Begin(kind)
    PROVE  (Goes \/ Finishes) /\ alive[Self]
<1>1. /\ UNCHANGED <<alive, closed, error, declared, output, reports>> /\ alive[Self]
      /\ UNCHANGED terminated \/ (~terminated /\ files = <<>> /\ terminated' = closed)
  BY DEF Begin, ReturnGrant, EndedByClose, Idle, Callable, Shrink, ShrinkTo, budgetVars
<1>2. CASE UNCHANGED terminated
  BY <1>1, <1>2 DEF Goes
<1>3. CASE ~terminated /\ files = <<>> /\ terminated' = closed
  <2>1. Len(output) = declared /\ error = "none" /\ closed \in BOOLEAN /\ terminated \in BOOLEAN
    BY <1>1, <1>3, DriveFacts, NoFilesNoCells DEF Control, ReaderTypeOK
  <2>2. CASE closed = FALSE
    BY <1>1, <1>3, <2>1, <2>2 DEF Goes
  <2>3. CASE closed = TRUE
    BY <1>1, <1>3, <2>1, <2>3 DEF Finishes
  <2> QED BY <2>1, <2>2, <2>3
<1> QED BY <1>1, <1>2, <1>3

LEMMA OwnMoveSeen ==
    ASSUME ReaderInv, OwnMove
    PROVE  \/ Goes
           \/ alive[Self] /\ (Breaks \/ Admits \/ Closes \/ Delivers \/ Finishes \/ Reports)
<1>b. ASSUME UNCHANGED budgetVars PROVE UNCHANGED alive
  BY <1>b DEF budgetVars
<1>1. CASE Grow
  <2>1. UNCHANGED alive
    BY <1>1, <1>b DEF Grow, PollGrow, GrowSatisfied, GrowClaimed, GrowRepeated, GrowImmediate,
                      GrowQueued
  <2> QED BY <1>1, <2>1 DEF Grow, Goes, outsideVars
<1>2. CASE DriveStep
  <2>1. alive[Self]
    BY <1>2 DEF DriveStep, Callable
  <2> QED BY <1>2, <2>1, DriveStepKeeps
<1>3. CASE ProgressReturns \/ ReportEnd \/ ReturnPending
  BY <1>3, <1>b DEF ProgressReturns, ReportEnd, ReturnPending, ReturnReady, schedulerVars, Goes
<1>4. CASE ReportError
  <2>1. alive[Self] /\ Reports
    BY <1>4, <1>b, DriveFacts DEF ReportError, InRead, Callable, TakeError, ReturnReady, Control,
                                  Reports
  <2> QED BY <2>1
<1>5. CASE \E count \in FrameCounts : Push(count)
  <2>1. PICK count \in FrameCounts : Push(count)
    BY <1>5
  <2>2. /\ alive[Self] /\ ~closed /\ ~terminated /\ count > 0 /\ declared' = declared + count
        /\ UNCHANGED <<alive, closed, terminated, error, output, reports>>
    BY <2>1, <1>b DEF Push, Idle, Callable
  <2>3. count \in Nat /\ declared \in Nat
    BY ReaderAssumption, DriveFacts, CountFacts
  <2>4. declared' \in Nat /\ declared' > declared
    BY <2>2, <2>3
  <2> QED BY <2>2, <2>4 DEF Admits
<1>6. CASE Close
  BY <1>6, <1>b DEF Close, Idle, Callable, Closes
<1>7. CASE \E w \in Windows : SetWindow(w)
  BY <1>7 DEF SetWindow, Goes, Shrink, ShrinkTo
<1>8. CASE \E i \in DOMAIN files : BackendEvent(i)
  BY <1>8, <1>b DEF BackendEvent, Goes
<1> QED BY <1>1, <1>2, <1>3, <1>4, <1>5, <1>6, <1>7, <1>8, EmitSeen, BeginSeen
        DEF OwnMove, InPoll

Status == IF ~alive[Self] THEN "gone"
          ELSE IF ~terminated THEN "open"
          ELSE IF error # "none" THEN "broken" ELSE "over"

StreamView == <<declared, closed, output, Status>>

LEMMA OwnMoveStreams ==
    ASSUME ReaderInv, OwnMove
    PROVE  [Ordered!StreamNext]_StreamView
<1> USE DEF Status, StreamView
<1>1. CASE Goes
  BY <1>1 DEF Goes
<1>2. CASE alive[Self] /\ (Breaks \/ Admits \/ Closes \/ Delivers \/ Finishes \/ Reports)
  <2>1. CASE Breaks
    <3>1. Ordered!Break
      BY <1>2, <2>1 DEF Breaks, Ordered!Break
    <3> QED BY <3>1 DEF Ordered!StreamNext
  <2>2. CASE Admits
    <3>1. Ordered!Admit
      BY <1>2, <2>2 DEF Admits, Ordered!Admit
    <3> QED BY <3>1 DEF Ordered!StreamNext
  <2>3. CASE Closes
    <3>1. Ordered!CloseAdmission
      BY <1>2, <2>3 DEF Closes, Ordered!CloseAdmission
    <3> QED BY <3>1 DEF Ordered!StreamNext
  <2>4. CASE Delivers
    <3>1. Ordered!Deliver
      BY <1>2, <2>4 DEF Delivers, Ordered!Deliver
    <3> QED BY <3>1 DEF Ordered!StreamNext
  <2>5. CASE Finishes
    <3>1. Ordered!EndOfStream
      BY <1>2, <2>5 DEF Finishes, Ordered!EndOfStream
    <3> QED BY <3>1 DEF Ordered!StreamNext
  <2>6. CASE Reports
    <3>1. Ordered!Report
      BY <1>2, <2>6 DEF Reports, Ordered!Report
    <3> QED BY <3>1 DEF Ordered!StreamNext
  <2> QED BY <1>2, <2>1, <2>2, <2>3, <2>4, <2>5, <2>6
<1> QED BY <1>1, <1>2, OwnMoveSeen

LEMMA StreamPart ==
    ASSUME ReaderInv, [Next]_vars
    PROVE  [Ordered!StreamNext]_StreamView
<1> USE DEF Status, StreamView
<1>1. IInv
  BY DriveFacts
<1>2. CASE Goes
  BY <1>2 DEF Goes
<1>3. CASE DropScheduler
  <2>1. /\ alive[Self] /\ ~alive'[Self] /\ UNCHANGED <<closed, declared, output>>
    BY <1>1, <1>3, DropStep DEF DropScheduler, Idle, Callable
  <2>2. Ordered!Abandon
    BY <2>1 DEF Ordered!Abandon
  <2> QED BY <2>2 DEF Ordered!StreamNext
<1>4. CASE \/ \E p \in Permits : BudgetThread(p) \/ BudgetWake(p)
           \/ \E p \in Rivals : RivalStep(p)
  <2>1. UNCHANGED alive
    BY <1>1, <1>4, OthersStep DEF BudgetThread, BudgetWake, RivalStep, Rivals
  <2> QED BY <1>2, <1>4, <2>1 DEF BudgetThread, BudgetWake, RivalStep, BudgetOnly, schedulerVars,
                                  outsideVars, Goes
<1>5. CASE UNCHANGED vars
  BY <1>2, <1>5 DEF vars, budgetVars, schedulerVars, outsideVars, Goes
<1> QED BY <1>3, <1>4, <1>5, NextMoves, OwnMoveStreams

(* What the caller has: the frames in order, and, unless an error was      *)
(* reported, at the end all that the files declared.                       *)
CallerHas ==
    /\ \A k \in DOMAIN output : output[k] = k
    /\ terminated /\ error = "none" /\ reports = 0 => closed /\ Len(output) = declared

LEMMA CallerHasMore ==
    ASSUME ReaderInv, CallerHas, OwnMove
    PROVE  CallerHas'
<1>1. output \in Seq(1..MaxFrames) /\ Len(output) \in Nat /\ reports \in 0..1
  BY DriveFacts DEF ReaderTypeOK
<1>2. CASE Goes \/ Breaks \/ Admits \/ Closes \/ Finishes \/ Reports
  <2>1. UNCHANGED output
    BY <1>2 DEF Goes, Breaks, Admits, Closes, Finishes, Reports
  <2>2. terminated' /\ error' = "none" /\ reports' = 0 => closed' /\ Len(output') = declared'
    <3>1. CASE Reports
      BY <1>1, <3>1 DEF Reports
    <3> QED BY <1>2, <3>1 DEF Goes, Breaks, Admits, Closes, Finishes, CallerHas
  <2> QED BY <2>1, <2>2 DEF CallerHas
<1>3. CASE Delivers
  <2>1. \A k \in DOMAIN output' : output'[k] = k
    BY <1>1, <1>3 DEF Delivers, CallerHas
  <2> QED BY <1>3, <2>1 DEF Delivers, CallerHas
<1> QED BY <1>2, <1>3, OwnMoveSeen

(* The scheduler is the ordered stream: every step is a step of it, or none. *)
THEOREM ReaderImplementsStream == Spec => ImplementsOrderedRead
<1>1. Init => Ordered!StreamInit
  BY SelfAssumption DEF Init, BudgetStart, Ordered!StreamInit
<1>2. ReaderInv /\ [Next]_vars => [Ordered!StreamNext]_StreamView
  BY StreamPart
<1>3. [Ordered!StreamNext]_StreamView => [Ordered!StreamNext]_Ordered!streamVars
  BY DEF StreamView, Status, Ordered!streamVars
<1> QED BY <1>1, <1>2, <1>3, ReaderInvariance, PTL
        DEF Spec, ImplementsOrderedRead, Ordered!StreamSpec

-----------------------------------------------------------------------------
(* A file is admitted exactly while there are frames to come. *)
LEMMA FilesAndFrames ==
    ASSUME ReaderInv
    PROVE  /\ files # <<>> => Len(output) < declared
           /\ alive[Self] /\ ~terminated /\ Len(output) < declared => files # <<>>
<1>1. /\ ReaderTypeOK /\ Positions /\ SlotPlaces /\ FramesHaveFiles
      /\ Len(output) \in Nat /\ declared \in Nat /\ files \in Seq(SlotType)
  BY DriveFacts, CountFacts DEF ReaderTypeOK
<1>2. ASSUME files # <<>> PROVE Len(output) < declared
  <2>1. 1 \in DOMAIN files
    BY <1>1, <1>2
  <2>2. Past(files[1]) \in Nat
    BY <1>1, <2>1, SlotFacts
  <2> QED BY <1>1, <2>1, <2>2 DEF SlotPlaces
<1>3. ASSUME alive[Self], ~terminated, Len(output) < declared PROVE files # <<>>
  <2>1. Len(output) + 1 \in (Len(output) + 1)..declared
    BY <1>1, <1>3
  <2>2. \E i \in DOMAIN files : Len(output) + 1 \in files[i].first..(Past(files[i]) - 1)
    BY <1>1, <1>3, <2>1 DEF FramesHaveFiles
  <2> QED BY <2>2
<1> QED BY <1>2, <1>3

(* A reader that is full has a file. *)
LEMMA FullHasFiles ==
    ASSUME ReaderInv, alive[Self], ~terminated, Full
    PROVE  files # <<>>
<1>1. /\ ReaderTypeOK /\ Positions /\ Len(output) \in Nat /\ declared \in Nat
      /\ Distance(discovered, emitted) = declared - Len(output)
  BY DriveFacts, CountFacts
<1>2. window.maxActive \in Nat \ {0} /\ window.target \in Nat \ {0} /\ window.openAhead \in Nat
  BY <1>1, ReaderAssumption DEF ReaderTypeOK
<1>3. Horizon > 0 /\ Horizon \in Nat
  BY <1>2 DEF Horizon, Most
<1>4. SUFFICES ASSUME files = <<>> PROVE FALSE
  OBVIOUS
<1>5. Len(files) = 0
  BY <1>4
<1>6. declared - Len(output) >= Horizon
  BY <1>1, <1>2, <1>5 DEF Full
<1>7. Len(output) < declared
  BY <1>1, <1>3, <1>6
<1> QED BY <1>4, <1>7, FilesAndFrames

-----------------------------------------------------------------------------
(* While its window stays as it is, a scheduler neither owns nor asks for    *)
(* more frames than the window has: it grows in batches up to the window.    *)
KeepsToWindow == Reach <= window.target

LEMMA OwnMoveKeepsToWindow ==
    ASSUME ReaderInv, ReaderInv', KeepsToWindow, OwnMove, UNCHANGED window
    PROVE  KeepsToWindow'
<1>1. IInv /\ IInv' /\ window.target \in Nat /\ Total \in Nat /\ Reader \in Tasks
  <2>1. IInv /\ IInv' /\ Total \in Nat
    BY SelfTypes DEF ReaderInv
  <2>2. window \in Windows
    BY DriveFacts DEF ReaderTypeOK
  <2> QED BY <2>1, <2>2, ReaderAssumption
<1>2. Reach \in Nat /\ capacity[Self] \in Nat /\ capacity[Self] <= Reach
  BY <1>1, ReachType
<1>3. Reach' \in Nat
  BY <1>1, ReachLater
<1>4. CASE UNCHANGED budgetVars
  BY <1>4, BudgetStays, <1>1 DEF KeepsToWindow, Reach, Held
<1>5. CASE \E limit \in Nat : Shrink(limit)
  <2>1. PICK limit \in Nat : Shrink(limit)
    BY <1>5
  <2>2. Reach' = Least(limit, capacity[Self])
    BY <1>1, <2>1, ShrinkReach
  <2>3. Reach' <= Reach
    BY <1>2, <2>2 DEF Least
  <2> QED BY <1>1, <1>2, <1>3, <2>3 DEF KeepsToWindow
<1>6. CASE \E minimum \in Nat : PollGrow(Self, Reader, minimum, Target)
  <2>1. PICK minimum \in Nat : PollGrow(Self, Reader, minimum, Target)
    BY <1>6
  <2>2. Target \in Nat /\ Target <= window.target
    BY <1>1 DEF Target, Least
  <2>3. Reach' <= Reach \/ Reach' <= Target
    BY <1>1, <2>1, <2>2, GrowReach
  <2> QED BY <1>1, <1>2, <1>3, <2>2, <2>3 DEF KeepsToWindow
<1> QED BY <1>4, <1>5, <1>6, OnlyGrowAsks, GrowUses

(* It waits for a batch of frames at a time, or for what its window lacks.   *)
AsksInBatches == request[Self].waiting => request[Self].minimum <= Least(window.target, Batch)

LEMMA OwnMoveAsksInBatches ==
    ASSUME ReaderInv, ReaderInv', AsksInBatches, OwnMove, UNCHANGED window
    PROVE  AsksInBatches'
<1>1. /\ IInv /\ IInv' /\ window.target \in Nat /\ Total \in Nat /\ Batch \in Nat
      /\ capacity[Self] \in Nat /\ Reader \in Tasks
  <2>1. IInv /\ IInv' /\ Total \in Nat /\ capacity[Self] \in Nat
    BY SelfTypes DEF ReaderInv
  <2>2. window \in Windows
    BY DriveFacts DEF ReaderTypeOK
  <2> QED BY <2>1, <2>2, ReaderAssumption
<1>2. CASE UNCHANGED budgetVars
  BY <1>2, BudgetStays, <1>1 DEF AsksInBatches
<1>3. CASE \E limit \in Nat : Shrink(limit)
  BY <1>1, <1>3, ShrinkReach DEF AsksInBatches
<1>4. CASE Grow /\ ~UNCHANGED budgetVars
  <2> DEFINE batch == Least(Target, Batch)
             minimum == Least(capacity[Self] + batch, Target)
  <2>1. PollGrow(Self, Reader, minimum, Target)
    BY <1>4 DEF Grow
  <2>2. Target \in Nat /\ batch \in Nat /\ batch <= Least(window.target, Batch)
    BY <1>1 DEF Target, Least
  <2>3. minimum \in Nat /\ minimum <= capacity[Self] + batch
    BY <1>1, <2>2 DEF Least
  <2> HIDE DEF minimum, batch
  <2>4. request'[Self].waiting =>
          \/ request[Self].waiting /\ request'[Self].minimum = request[Self].minimum
          \/ /\ capacity[Self] <= capacity'[Self]
             /\ capacity'[Self] + request'[Self].minimum = minimum
    BY <1>1, <2>1, <2>2, <2>3, GrowReach
  <2>5. /\ capacity'[Self] \in Nat /\ Least(window.target, Batch) \in Nat
        /\ request'[Self].waiting => request'[Self].minimum \in Nat
    <3>1. /\ capacity'[Self] \in Nat
          /\ request'[Self].waiting => request'[Self].minimum \in Nat
      BY <1>1, AskedLater
    <3> QED BY <1>1, <3>1 DEF Least
  <2>6. UNCHANGED <<window, Least(window.target, Batch)>>
    BY DEF Least
  <2> QED BY <1>1, <2>2, <2>3, <2>4, <2>5, <2>6 DEF AsksInBatches
<1> QED BY <1>2, <1>3, <1>4, OnlyGrowAsks

-----------------------------------------------------------------------------
(***************************************************************************)
(* No wake-up of a reader is lost: what drive leaves behind when it puts   *)
(* its task to sleep.                                                      *)
(***************************************************************************)

(* A round of drive: the m-th file that it will still look at. *)
Ahead(m) == ((cursor + m) % Len(files)) + 1

(* The window has all the cells that the grant and the files allow. *)
FullWindow == Least(WindowLimit(capacity[Self]), declared - Len(output)) <= Len(cells)

(* Without a frame, the task is asleep in the budget's queue. *)
AsksForFrames == capacity[Self] = 0 => parked[Self] = Reader

Settled(slot) == slot.blocked \/ ~HasOperation(slot)

(* drive remembers as blocked a file that waits for its event or has all its *)
(* frames; in a round without progress it leaves no file with work behind.   *)
DriveIsThorough ==
    pc = "drive" =>
        /\ round.left \in 1..Len(files) /\ round.polls \in Nat \ {0}
        /\ FullWindow
        /\ ~runnable =>
              /\ AsksForFrames
              /\ \A i \in DOMAIN files : files[i].blocked =>
                    files[i].io = "waiting" \/ (files[i].state = "Reading" /\ AllReceived(files[i]))
              /\ ~round.progressed => \A i \in DOMAIN files :
                    (\A m \in 0..(round.left - 1) : i # Ahead(m)) => Settled(files[i])

(* A poll that is over, and that nothing has happened since, left no work. *)
PollIsThorough ==
    /\ ~runnable /\ ~terminated /\ files # <<>> /\ (pc = "polled" \/ (pc = "idle" /\ asleep))
          => /\ FullWindow /\ AsksForFrames
             /\ \A i \in DOMAIN files : HasOperation(files[i]) => files[i].io = "waiting"
    /\ pc = "idle" /\ asleep /\ ~terminated /\ call = "read" => ~HeadComplete

SleepInv == ReaderInv /\ DriveIsThorough /\ PollIsThorough

-----------------------------------------------------------------------------
LEMMA SleepFacts ==
    ASSUME SleepInv
    PROVE  /\ ReaderInv /\ IInv /\ ReaderTypeOK /\ Positions /\ SlotPlaces /\ FilesInOrder
           /\ FramesHaveFiles /\ CellsFit(files, cells) /\ WindowFits /\ Control /\ Released
           /\ DriveIsThorough /\ PollIsThorough
           /\ capacity[Self] \in Nat /\ Total \in Nat /\ Total > 0
           /\ Len(files) \in Nat /\ Len(cells) \in Nat /\ cursor \in Nat
           /\ cells \in Seq(CellType) /\ files \in Seq(SlotType)
           /\ Len(output) \in Nat /\ declared \in Nat /\ Len(output) <= declared
           /\ window.target \in Nat \ {0}
<1>1. ReaderInv /\ DriveIsThorough /\ PollIsThorough
  BY DEF SleepInv
<1>2. /\ IInv /\ ReaderTypeOK /\ Positions /\ SlotPlaces /\ FilesInOrder
      /\ FramesHaveFiles /\ CellsFit(files, cells) /\ WindowFits /\ Control /\ Released
  BY <1>1, DriveFacts
<1>3. /\ capacity[Self] \in Nat /\ Total \in Nat /\ Total > 0
  BY <1>2, SelfTypes, RivalAssumption
<1>4. /\ Len(files) \in Nat /\ cursor \in Nat /\ files \in Seq(SlotType)
  BY <1>2 DEF ReaderTypeOK
<1>5. /\ Len(cells) \in Nat /\ cells \in Seq(CellType)
      /\ Len(output) \in Nat /\ declared \in Nat /\ Len(output) <= declared
  BY <1>2, CountFacts
<1>6. window.target \in Nat \ {0}
  <2>1. window \in Windows
    BY <1>2 DEF ReaderTypeOK
  <2> QED BY <2>1, ReaderAssumption
<1> QED BY <1>1, <1>2, <1>3, <1>4, <1>5, <1>6

(* authorize fills the window, and adds nothing to a full one. *)
LEMMA WindowFills ==
    ASSUME ReaderTypeOK, Positions, NEW grant \in Nat, NEW cs \in Seq(CellType)
    PROVE  /\ Least(WindowLimit(grant), declared - Len(output)) <= Len(Window(grant, cs))
           /\ Least(WindowLimit(grant), declared - Len(output)) <= Len(cs)
                 => Len(Window(grant, cs)) = Len(cs)
<1> DEFINE limit == WindowLimit(grant)
           known == declared - Len(output)
           added == Least(Less(limit, Len(cs)), Less(known, Len(cs)))
           more == [k \in 1..added |-> NewCell]
<1>1. known \in Nat /\ Len(cs) \in Nat /\ Distance(discovered, emitted) = known
  BY CountFacts
<1>2. limit \in Nat
  BY ReaderAssumption DEF WindowLimit, Least, ReaderTypeOK
<1>3. Window(grant, cs) = cs \o more
  BY <1>1 DEF Window
<1>4. more \in Seq(CellType) /\ Len(more) = added /\ added \in Nat
  <2>1. added \in Nat
    BY <1>1, <1>2 DEF Least, Less
  <2>2. NewCell \in CellType
    BY ReaderAssumption DEF NewCell, CellType
  <2> HIDE DEF added
  <2> QED BY <2>1, <2>2
<1>5. Len(cs \o more) = Len(cs) + added
  <2> HIDE DEF more, added
  <2> QED BY <1>4
<1>6. /\ Least(limit, known) <= Len(cs) + added
      /\ Least(limit, known) <= Len(cs) => added = 0
  <2> HIDE DEF limit, known
  <2> QED BY <1>1, <1>2 DEF Least, Less
<1>7. added = 0 => Len(cs) + added = Len(cs)
  BY <1>1
<1> HIDE DEF added, more
<1> QED BY <1>3, <1>5, <1>6, <1>7

(* A round looks at every file, one after the other. *)
LEMMA RoundFacts ==
    ASSUME ReaderTypeOK, files # <<>>
    PROVE  /\ Ahead(0) = (cursor % Len(files)) + 1
           /\ \A i \in 1..Len(files) : \E m \in 0..(Len(files) - 1) : i = Ahead(m)
           /\ \A m \in Nat : ((NextCursor + m) % Len(files)) + 1 = Ahead(m + 1)
           /\ Ahead(Len(files)) = Ahead(0)
<1> DEFINE n == Len(files)
<1>1. n \in Nat \ {0} /\ cursor \in Nat
  BY DEF ReaderTypeOK
<1> HIDE DEF n
<1>2. NextCursor = ((cursor % n) + 1) % n /\ \A m : Ahead(m) = ((cursor + m) % n) + 1
  BY DEF NextCursor, Ahead, n
<1>3. cursor + 0 = cursor
  BY <1>1
<1>4. /\ \A i \in 1..n : \E m \in 0..(n - 1) : i = ((cursor + m) % n) + 1
      /\ \A m \in Nat : ((NextCursor + m) % n) + 1 = ((cursor + (m + 1)) % n) + 1
      /\ (cursor + n) % n = cursor % n
  BY <1>1, <1>2, TurnFacts, Zenon
<1> QED BY <1>2, <1>3, <1>4 DEF n

-----------------------------------------------------------------------------
(* What a file can do depends on its own progress and on the window. *)
LEMMA SameOperation ==
    ASSUME emitted' = emitted, DOMAIN cells' = DOMAIN cells, NEW j \in DOMAIN files'
    PROVE  HasOperation(files[j])' <=> HasOperation(files'[j])
BY DEF HasOperation, Authorized, Offset, AllReceived, Distance, Plus

BlockedRight(slot) ==
    slot.blocked => slot.io = "waiting" \/ (slot.state = "Reading" /\ AllReceived(slot))

(* drive goes on: a step without progress settles its file. *)
LEMMA ContinueSleeps ==
    ASSUME SleepInv, pc = "drive", NEW i \in DOMAIN files, i = Ahead(0), NEW slot \in SlotType,
           SameFile(slot, files[i]), NEW written \in Seq(CellType), Len(written) = Len(cells),
           NEW progress, NEW polled \in Nat, Continue(With(i, slot), written, progress, polled),
           ~runnable => BlockedRight(slot),
           ~progress => Settled(slot)
    PROVE  DriveIsThorough' /\ PollIsThorough'
<1> DEFINE stepped == With(i, slot)
           polls == Less(round.polls, polled)
           ended == polls > 0 /\ round.left = 1
           progressed == round.progressed \/ progress
<1>1. /\ ReaderInv /\ ReaderTypeOK /\ Positions /\ Control /\ ~asleep /\ ~terminated
      /\ files # <<>> /\ capacity[Self] \in Nat /\ Len(files) \in Nat /\ Len(cells) \in Nat
      /\ cells \in Seq(CellType)
  BY SleepFacts DEF Control
<1>2. /\ round.left \in 1..Len(files) /\ round.polls \in Nat \ {0} /\ FullWindow
      /\ ~runnable => /\ AsksForFrames /\ \A j \in DOMAIN files : BlockedRight(files[j])
                      /\ ~round.progressed => \A j \in DOMAIN files :
                            (\A m \in 0..(round.left - 1) : j # Ahead(m)) => Settled(files[j])
  BY SleepFacts DEF DriveIsThorough, BlockedRight
<1>3. /\ stepped \in Seq(SlotType) /\ Len(stepped) = Len(files)
      /\ DOMAIN stepped = DOMAIN files /\ stepped[i] = slot
      /\ \A j \in DOMAIN files \ {i} : stepped[j] = files[j]
  BY <1>1, Replaced
<1>4. /\ files' = stepped /\ cursor' = NextCursor
      /\ runnable' = SelfWoken(polls, stepped)
      /\ cells' = IF ended THEN Window(capacity[Self], written) ELSE written
      /\ IF RoundsEnd(polls, ended, progressed)
         THEN pc' = "polled"
         ELSE /\ pc' = "drive"
              /\ round' = [left |-> IF ended THEN Len(files) ELSE round.left - 1,
                           progressed |-> progressed /\ ~ended, polls |-> polls]
      /\ UNCHANGED <<budgetVars, terminated, emitted, discovered, closed, window, error, call,
                     asleep, declared, output, reports>>
  BY <1>1, ContinueEffect
<1>5. polls \in Nat
  BY <1>2 DEF Less
<1> HIDE DEF stepped, polls
<1>6. cells' \in Seq(CellType) /\ Len(cells') = Len(cells) /\ DOMAIN cells' = DOMAIN cells
  <2>1. Len(Window(capacity[Self], written)) = Len(written)
    BY <1>1, <1>2, WindowFills DEF FullWindow
  <2>2. Window(capacity[Self], written) \in Seq(CellType)
    BY <1>1, WindowGrows
  <2> QED BY <1>1, <1>4, <2>1, <2>2
<1>7. FullWindow' /\ (AsksForFrames => AsksForFrames')
  BY <1>2, <1>4, <1>6 DEF FullWindow, AsksForFrames, WindowLimit, budgetVars
<1>8. ~runnable' => /\ ~runnable /\ (polls = 0 => \A j \in DOMAIN stepped : stepped[j].blocked)
  BY <1>4, Zenon DEF SelfWoken
<1>9. ASSUME ~runnable', NEW j \in DOMAIN files'
      PROVE  BlockedRight(files'[j])
  BY <1>2, <1>3, <1>4, <1>8, <1>9
<1>10. ASSUME NEW j \in DOMAIN files', Settled(files'[j])
       PROVE  Settled(files[j])'
  BY <1>4, <1>6, <1>10, SameOperation DEF Settled
<1>11. ASSUME NEW j \in DOMAIN files', ~runnable', Settled(files'[j]), HasOperation(files[j])'
       PROVE  files'[j].io = "waiting"
  <2>1. HasOperation(files'[j])
    BY <1>4, <1>6, <1>11, SameOperation
  <2>2. ~(files'[j].state = "Reading" /\ AllReceived(files'[j]))
    BY <2>1 DEF HasOperation
  <2> QED BY <1>9, <1>11, <2>1, <2>2 DEF Settled, BlockedRight
<1>12. /\ Ahead(0) = (cursor % Len(files)) + 1
       /\ \A j \in 1..Len(files) : \E m \in 0..(Len(files) - 1) : j = Ahead(m)
       /\ \A m \in Nat : Ahead(m)' = Ahead(m + 1)
       /\ Ahead(Len(files)) = Ahead(0)
  BY <1>1, <1>3, <1>4, RoundFacts DEF Ahead
<1>13. CASE RoundsEnd(polls, ended, progressed)
  <2>1. pc' = "polled"
    BY <1>4, <1>13
  <2>2. ASSUME ~runnable', NEW j \in DOMAIN files'
        PROVE  Settled(files'[j])
    <3>1. CASE polls = 0
      BY <1>4, <1>8, <2>2, <3>1 DEF Settled
    <3>2. CASE polls # 0
      <4>1. round.left = 1 /\ ~round.progressed /\ ~progress
        BY <1>13, <3>2 DEF RoundsEnd
      <4>2. CASE j = i
        BY <1>3, <1>4, <4>1, <4>2
      <4>3. CASE j # i
        <5>1. \A m \in 0..(round.left - 1) : j # Ahead(m)
          BY <4>1, <4>3
        <5>2. Settled(files[j])
          BY <1>2, <1>3, <1>4, <1>8, <2>2, <4>1, <5>1
        <5> QED BY <1>3, <1>4, <4>3, <5>2
      <4> QED BY <4>2, <4>3
    <3> QED BY <3>1, <3>2
  <2>3. ~runnable' => /\ FullWindow' /\ AsksForFrames'
                      /\ \A j \in DOMAIN files' : HasOperation(files[j])' => files'[j].io = "waiting"
    BY <1>2, <1>7, <1>8, <1>11, <2>2
  <2> QED BY <2>1, <2>3 DEF DriveIsThorough, PollIsThorough
<1>14. CASE ~RoundsEnd(polls, ended, progressed)
  <2>1. /\ pc' = "drive" /\ polls # 0
        /\ round' = [left |-> IF ended THEN Len(files) ELSE round.left - 1,
                     progressed |-> progressed /\ ~ended, polls |-> polls]
    BY <1>4, <1>14 DEF RoundsEnd
  <2>2. round'.left \in 1..Len(files') /\ round'.polls \in Nat \ {0}
    <3>1. CASE ended
      BY <1>1, <1>2, <1>3, <1>4, <1>5, <2>1, <3>1
    <3>2. CASE ~ended
      <4>1. round.left # 1
        BY <1>5, <2>1, <3>2
      <4> QED BY <1>1, <1>2, <1>3, <1>4, <1>5, <2>1, <3>2, <4>1
    <3> QED BY <3>1, <3>2
  <2>3. ASSUME ~runnable', ~round'.progressed, NEW j \in DOMAIN files',
               \A m \in 0..(round'.left - 1) : j # Ahead(m)'
        PROVE  Settled(files[j])'
    <3>1. round'.left \in Nat /\ j \in DOMAIN files /\ j \in 1..Len(files) /\ Len(files) >= 1
      BY <1>1, <1>3, <1>4, <2>2
    <3>2. ~ended
      <4> SUFFICES ASSUME ended PROVE FALSE
        OBVIOUS
      <4>1. round'.left = Len(files)
        BY <2>1
      <4>2. PICK m \in 0..(Len(files) - 1) : j = Ahead(m)
        BY <1>12, <3>1
      <4>3. PICK h \in Nat : h \in 0..(Len(files) - 1) /\ Ahead(h + 1) = j
        <5>1. CASE m = 0
          <6> DEFINE h == Len(files) - 1
          <6>1. h \in Nat /\ h \in 0..(Len(files) - 1) /\ h + 1 = Len(files)
            BY <3>1
          <6> HIDE DEF h
          <6>2. Ahead(h + 1) = j
            BY <1>12, <4>2, <5>1, <6>1
          <6> QED BY <6>1, <6>2
        <5>2. CASE m # 0
          <6> DEFINE h == m - 1
          <6>1. h \in Nat /\ h \in 0..(Len(files) - 1) /\ h + 1 = m
            BY <1>1, <4>2, <5>2
          <6> HIDE DEF h
          <6> QED BY <4>2, <6>1
        <5> QED BY <5>1, <5>2
      <4>4. Ahead(h)' = j
        BY <1>12, <4>3
      <4>5. h \in 0..(round'.left - 1)
        BY <4>1, <4>3
      <4> QED BY <2>3, <4>4, <4>5
    <3>3. ~round.progressed /\ ~progress /\ round'.left = round.left - 1
      BY <2>1, <2>3, <3>2, Zenon
    <3>4. CASE j = i
      BY <1>3, <1>4, <1>10, <3>3, <3>4
    <3>5. CASE j # i
      <4>1. ASSUME NEW m \in 0..(round.left - 1) PROVE j # Ahead(m)
        <5>1. CASE m = 0
          BY <3>5, <5>1
        <5>2. CASE m # 0
          <6>1. m - 1 \in 0..(round'.left - 1) /\ (m - 1) + 1 = m /\ m - 1 \in Nat
            BY <1>2, <3>3, <5>2
          <6> QED BY <1>12, <2>3, <6>1
        <5> QED BY <5>1, <5>2
      <4>2. Settled(files[j])
        BY <1>2, <1>8, <2>3, <3>1, <3>3, <4>1
      <4> QED BY <1>3, <1>4, <1>10, <3>1, <3>5, <4>2
    <3> QED BY <3>4, <3>5
  <2>4. ~runnable' => /\ AsksForFrames' /\ \A j \in DOMAIN files' : BlockedRight(files'[j])
    BY <1>2, <1>7, <1>8, <1>9
  <2> QED BY <1>7, <2>1, <2>2, <2>3, <2>4
          DEF DriveIsThorough, PollIsThorough, BlockedRight, AllReceived
<1> QED BY <1>13, <1>14

(* A poll_file of the loop in drive. *)
LEMMA DriveSleeps ==
    ASSUME SleepInv, DriveStep
    PROVE  DriveIsThorough' /\ PollIsThorough'
<1> DEFINE i == (cursor % Len(files)) + 1
           slot == files[i]
           done == slot.state = "Reading" /\ AllReceived(slot)
           passed == [slot EXCEPT !.blocked = @ \/ done]
<1>1. /\ pc = "drive" /\ ReaderTypeOK /\ files # <<>> /\ Len(files) \in Nat /\ cursor \in Nat
      /\ files \in Seq(SlotType) /\ cells \in Seq(CellType) /\ ReaderInv
  BY SleepFacts DEF DriveStep, Control
<1>2. i = Ahead(0) /\ i \in DOMAIN files
  <2>1. Len(files) \in Nat \ {0} /\ DOMAIN files = 1..Len(files)
    BY <1>1
  <2>2. cursor % Len(files) \in 0..(Len(files) - 1)
    BY <1>1, <2>1
  <2>3. Ahead(0) = (cursor % Len(files)) + 1
    BY <1>1, RoundFacts
  <2>4. (cursor % Len(files)) + 1 \in 1..Len(files)
    BY <2>1, <2>2
  <2> QED BY <2>1, <2>3, <2>4
<1>3. slot \in SlotType
  BY <1>1, <1>2
<1>4. IF slot.blocked \/ ~HasOperation(slot)
      THEN Continue(With(i, passed), cells, FALSE, 0)
      ELSE IF slot.state = "Reading" /\ cells[Offset(slot)].state = "complete"
      THEN Fail("position")
      ELSE PollBackend(i)
  BY DEF DriveStep
<1> HIDE DEF i
<1>f. ASSUME NEW reason, Fail(reason) PROVE DriveIsThorough' /\ PollIsThorough'
  BY <1>f DEF Fail, DriveIsThorough, PollIsThorough
<1>5. CASE slot.blocked \/ ~HasOperation(slot)
  <2>1. (slot.blocked \/ done) \in BOOLEAN
    BY Zenon
  <2>2. /\ passed \in SlotType /\ SameFile(passed, slot) /\ passed.received = slot.received
        /\ passed.state = slot.state /\ passed.io = slot.io
        /\ passed.blocked = (slot.blocked \/ done)
    BY <1>3, <2>1 DEF SlotType, SameFile
  <2>3. Continue(With(i, passed), cells, FALSE, 0)
    BY <1>4, <1>5
  <2> HIDE DEF passed
  <2>4. HasOperation(passed) <=> HasOperation(slot)
    BY <2>2 DEF HasOperation, Authorized, Offset, AllReceived, SameFile
  <2>5. Settled(passed)
    BY <1>5, <2>2, <2>4, Zenon DEF Settled
  <2>6. ~runnable => BlockedRight(passed)
    <3>1. ASSUME ~runnable PROVE BlockedRight(slot)
      BY <1>1, <1>2, <3>1, SleepFacts DEF DriveIsThorough, BlockedRight
    <3> QED BY <2>2, <3>1 DEF BlockedRight, AllReceived, SameFile
  <2> QED BY <1>1, <1>2, <2>2, <2>3, <2>5, <2>6, ContinueSleeps
<1>6. CASE ~slot.blocked /\ HasOperation(slot)
  <2>1. PollBackend(i) \/ Fail("position")
    BY <1>4, <1>6
  <2>2. CASE PollBackend(i)
    <3> DEFINE begun == IF slot.state = "Opening" THEN cells
                        ELSE [cells EXCEPT ![Offset(slot)].state = "filling"]
               waiting == [slot EXCEPT !.blocked = TRUE, !.io = "waiting"]
               opened == [slot EXCEPT !.state = "Reading", !.io = "new"]
    <3>1. CASE Continue(With(i, waiting), begun, FALSE, 1)
      <4>1. /\ waiting \in SlotType /\ SameFile(waiting, slot) /\ waiting.blocked
            /\ waiting.io = "waiting"
        BY <1>3 DEF SlotType, SameFile
      <4> HIDE DEF waiting
      <4>2. begun \in Seq(CellType) /\ Len(begun) = Len(cells)
        <5>1. CASE slot.state = "Opening"
          BY <1>1, <5>1
        <5>2. CASE slot.state # "Opening"
          <6> DEFINE off == Offset(slot)
                     cell == [cells[off] EXCEPT !.state = "filling"]
          <6>1. off \in DOMAIN cells
            BY <1>6, <5>2 DEF HasOperation, Authorized
          <6>2. cells[off] \in CellType
            BY <1>1, <6>1
          <6>3. cell \in CellType
            BY <6>2 DEF CellType
          <6>4. begun = Put(cells, off, cell)
            BY <5>2 DEF Put
          <6> HIDE DEF off, cell
          <6>5. Put(cells, off, cell) \in Seq(CellType) /\ Len(Put(cells, off, cell)) = Len(cells)
            BY <1>1, <6>1, <6>3, PutFacts
          <6> QED BY <6>4, <6>5
        <5> QED BY <5>1, <5>2
      <4> HIDE DEF begun
      <4>3. Settled(waiting) /\ BlockedRight(waiting)
        BY <4>1 DEF Settled, BlockedRight
      <4> QED BY <1>1, <1>2, <3>1, <4>1, <4>2, <4>3, ContinueSleeps
    <3>2. CASE Continue(With(i, opened), cells, TRUE, 1)
      <4>1. opened \in SlotType /\ SameFile(opened, slot) /\ opened.blocked = slot.blocked
        BY <1>3 DEF SlotType, SameFile
      <4> HIDE DEF opened
      <4>2. BlockedRight(opened)
        BY <1>6, <4>1 DEF BlockedRight
      <4> QED BY <1>1, <1>2, <3>2, <4>1, <4>2, ContinueSleeps
    <3>3. CASE slot.state # "Opening" /\ Receive(i)
      <4> DEFINE full == slot.received + 1 = slot.count
                 got == [slot EXCEPT !.received = @ + 1, !.io = "new", !.blocked = full]
                 off == Offset(slot)
                 frame == [state |-> "complete", value |-> slot.first + slot.received]
      <4>1. Continue(With(i, got), Put(cells, off, frame), TRUE, 1)
        BY <3>3 DEF Receive, FrameOffset, Put
      <4>2. slot.received \in Nat /\ slot.state = "Reading" /\ ~AllReceived(slot) /\ Authorized(slot)
        BY <1>3, <1>6, <3>3 DEF SlotType, HasOperation
      <4>3. /\ got \in SlotType /\ SameFile(got, slot) /\ got.state = "Reading"
            /\ got.blocked = full /\ got.received = slot.received + 1
        <5>1. full \in BOOLEAN
          BY Zenon
        <5>2. slot.received + 1 \in Nat
          BY <4>2
        <5>3. \A n \in Nat, b \in BOOLEAN :
                 LET s == [slot EXCEPT !.received = n, !.io = "new", !.blocked = b]
                 IN  /\ s \in SlotType /\ SameFile(s, slot) /\ s.state = slot.state
                     /\ s.blocked = b /\ s.received = n
          BY <1>3 DEF SlotType, SameFile
        <5>4. got = [slot EXCEPT !.received = slot.received + 1, !.io = "new", !.blocked = full]
          OBVIOUS
        <5> HIDE DEF full, got
        <5>5. /\ got \in SlotType /\ SameFile(got, slot) /\ got.state = slot.state
              /\ got.blocked = full /\ got.received = slot.received + 1
          BY <5>1, <5>2, <5>3, <5>4, Zenon
        <5> QED BY <4>2, <5>5
      <4>4. BlockedRight(got)
        BY <4>3 DEF BlockedRight, AllReceived, SameFile
      <4>5. frame \in CellType
        <5>1. files[i].first + files[i].received \in 1..MaxFrames
          BY <1>1, <1>2, <4>2, NextCell
        <5> QED BY <5>1, ReaderAssumption DEF CellType
      <4> HIDE DEF got, frame
      <4>6. Put(cells, off, frame) \in Seq(CellType) /\ Len(Put(cells, off, frame)) = Len(cells)
        BY <1>1, <4>2, <4>5, PutFacts DEF Authorized
      <4> HIDE DEF off
      <4> QED BY <1>1, <1>2, <4>1, <4>3, <4>4, <4>6, ContinueSleeps
    <3>4. CASE Retry(i)
      <4>1. CASE slot.retries = MaxRetries
        BY <1>f, <3>4, <4>1 DEF Retry
      <4>2. CASE slot.retries # MaxRetries
        <5> DEFINE again == NextTry(slot)
        <5>1. slot.retries \in 0..MaxRetries
          BY <1>3 DEF SlotType
        <5>2. slot.retries + 1 \in 0..MaxRetries
          BY <4>2, <5>1, ReaderAssumption
        <5>3. again \in SlotType /\ SameFile(again, slot) /\ again.blocked = slot.blocked
          BY <1>3, <5>2 DEF NextTry, SlotType, SameFile
        <5>4. Continue(With(i, again), cells, TRUE, 1)
          BY <3>4, <4>2 DEF Retry
        <5> HIDE DEF again
        <5>5. BlockedRight(again)
          BY <1>6, <5>3 DEF BlockedRight
        <5> QED BY <1>1, <1>2, <5>3, <5>4, <5>5, ContinueSleeps
      <4> QED BY <4>1, <4>2
    <3>5. CASE Fail("backend") \/ Fail("eof")
      BY <1>f, <3>5
    <3> QED BY <2>2, <3>1, <3>2, <3>3, <3>4, <3>5 DEF PollBackend
  <2> QED BY <1>f, <2>1, <2>2
<1> QED BY <1>5, <1>6

(* A poll that begins looks at every file again; a task without a grant is   *)
(* in the budget's queue.                                                    *)
LEMMA GrowSleeps ==
    ASSUME SleepInv, Grow
    PROVE  DriveIsThorough' /\ PollIsThorough'
<1> DEFINE minimum == Least(capacity[Self] + Least(Target, Batch), Target)
<1>1. /\ ReaderInv /\ IInv /\ ReaderTypeOK /\ Positions /\ Control
      /\ capacity[Self] \in Nat /\ Total \in Nat /\ Total > 0
      /\ Len(files) \in Nat /\ files \in Seq(SlotType) /\ cells \in Seq(CellType)
      /\ window.target \in Nat \ {0}
  BY SleepFacts
<1>2. /\ pc = "grow" /\ pc' = "drive" /\ files # <<>>
      /\ cells' = Window(capacity'[Self], cells)
      /\ files' = [i \in DOMAIN files |-> [files[i] EXCEPT !.blocked = FALSE]]
      /\ round' = [left |-> Len(files), progressed |-> FALSE,
                   polls |-> Most(MaxPollOps, Len(files))]
      /\ UNCHANGED <<emitted, discovered, cursor, window, declared, output>>
  BY <1>1 DEF Grow, Control, outsideVars
<1>3. ReaderInv' /\ capacity'[Self] \in Nat
  <2>1. ReaderInv'
    BY <1>1, GrowKeeps
  <2>2. IInv'
    BY <2>1 DEF ReaderInv
  <2>3. capacity'[Self] \in 0..Total
    BY <2>2, SelfAssumption DEF IInv, TypeOK
  <2> QED BY <1>1, <2>1, <2>3
<1>4. /\ Target \in Nat /\ Target > 0 /\ minimum \in Nat /\ minimum > 0
  <2>1. Target \in Nat /\ Target > 0
    BY <1>1 DEF Target, Least
  <2>2. Batch \in Nat \ {0}
    BY ReaderAssumption
  <2> QED BY <1>1, <2>1, <2>2 DEF Least
<1>5. AsksForFrames'
  <2> SUFFICES ASSUME capacity'[Self] = 0 PROVE parked'[Self] = Reader
    BY DEF AsksForFrames
  <2>1. capacity[Self] < Target
    <3>1. ASSUME ~(capacity[Self] < Target) PROVE FALSE
      <4>1. UNCHANGED budgetVars
        BY <3>1 DEF Grow
      <4> QED BY <1>1, <1>4, <3>1, <4>1 DEF budgetVars
    <3> QED BY <3>1
  <2>2. PollGrow(Self, Reader, minimum, Target)
    BY <2>1 DEF Grow
  <2>3. Reader \in Tasks
    BY ReaderAssumption
  <2> HIDE DEF minimum
  <2> QED BY <1>1, <1>4, <2>2, <2>3, GrowAsks
<1>6. FullWindow'
  <2>1. Least(WindowLimit(capacity'[Self]), declared - Len(output))
           <= Len(Window(capacity'[Self], cells))
    BY <1>1, <1>3, WindowFills
  <2> QED BY <1>2, <2>1 DEF FullWindow, WindowLimit
<1>7. /\ DOMAIN files' = DOMAIN files /\ DOMAIN files = 1..Len(files) /\ Len(files') = Len(files)
      /\ Len(files) >= 1
  <2>1. DOMAIN files' = 1..Len(files) /\ DOMAIN files = 1..Len(files) /\ Len(files) >= 1
    BY <1>1, <1>2
  <2>2. Len(files') \in Nat /\ DOMAIN files' = 1..Len(files')
    BY <1>3 DEF ReaderInv, ReaderTypeOK
  <2> QED BY <1>1, <2>1, <2>2
<1>8. \A i \in DOMAIN files' : ~files'[i].blocked
  <2>1. ASSUME NEW i \in DOMAIN files PROVE ~files'[i].blocked
    <3>1. files[i] \in SlotType
      BY <1>1
    <3>2. files'[i] = [files[i] EXCEPT !.blocked = FALSE]
      BY <1>2
    <3> QED BY <3>1, <3>2 DEF SlotType
  <2> QED BY <1>7, <2>1
<1>9. round'.left \in 1..Len(files') /\ round'.polls \in Nat \ {0} /\ round'.left = Len(files)
  BY <1>1, <1>2, <1>7, ReaderAssumption DEF Most
<1>10. ASSUME NEW i \in DOMAIN files' PROVE \E m \in 0..(round'.left - 1) : i = Ahead(m)'
  <2>1. \A k \in 1..Len(files) : \E m \in 0..(Len(files) - 1) : k = Ahead(m)
    BY <1>1, <1>2, RoundFacts
  <2>2. \A m : Ahead(m)' = Ahead(m)
    BY <1>2, <1>7 DEF Ahead
  <2> QED BY <1>7, <1>9, <2>1, <2>2
<1> QED BY <1>2, <1>5, <1>6, <1>8, <1>9, <1>10 DEF DriveIsThorough, PollIsThorough

(* Every other step of the task leaves the drive, or wakes it. *)
LEMMA CallsSleep ==
    ASSUME SleepInv,
           \/ \E kind \in {"read", "progress"} : Poll(kind)
           \/ ProgressReturns \/ ReportError \/ ReportEnd \/ Emit \/ ReturnPending
           \/ \E count \in FrameCounts : PushFile(count)
           \/ CloseFiles \/ DropScheduler
           \/ \E w \in Windows : SetWindow(w)
    PROVE  DriveIsThorough' /\ PollIsThorough'
<1>1. Control /\ PollIsThorough
  BY SleepFacts
<1>2. CASE \E kind \in {"read", "progress"} : Poll(kind)
  BY <1>1, <1>2 DEF Poll, Begin, DriveIsThorough, PollIsThorough
<1>3. CASE ReportError \/ ReportEnd \/ Emit
  <2>1. runnable' /\ pc' = "idle" /\ ~asleep'
    BY <1>1, <1>3 DEF ReportError, ReportEnd, Emit, InRead, ReturnReady, Control
  <2> QED BY <2>1 DEF DriveIsThorough, PollIsThorough
<1>4. CASE ProgressReturns \/ ReturnPending
  <2>1. /\ pc = "polled" /\ pc' = "idle" /\ (call = "read" => terminated \/ ~HeadComplete)
        /\ UNCHANGED <<budgetVars, schedulerVars, call, runnable, declared, output>>
    BY <1>4 DEF ProgressReturns, ReturnPending, InRead
  <2>2. UNCHANGED <<capacity, parked, files, cells, emitted, discovered, window, terminated>>
    BY <2>1 DEF budgetVars, schedulerVars
  <2>3. /\ FullWindow' = FullWindow /\ AsksForFrames' = AsksForFrames
        /\ HeadComplete' = HeadComplete
    BY <2>1, <2>2 DEF FullWindow, AsksForFrames, HeadComplete, WindowLimit
  <2>4. \A i \in DOMAIN files : HasOperation(files[i])' => HasOperation(files[i])
    BY <2>2 DEF HasOperation, Authorized, Offset, AllReceived, Distance, Plus
  <2>5. DriveIsThorough'
    BY <2>1 DEF DriveIsThorough
  <2> QED BY <1>1, <2>1, <2>2, <2>3, <2>4, <2>5 DEF PollIsThorough
<1>5. CASE \/ \E count \in FrameCounts : PushFile(count)
           \/ CloseFiles
           \/ \E w \in Windows : SetWindow(w)
  <2>1. runnable' = TRUE /\ pc' = "idle" /\ asleep' = FALSE
    BY <1>5 DEF PushFile, Push, CloseFiles, Close, SetWindow, Idle, Repoll, pollVars
  <2> QED BY <2>1 DEF DriveIsThorough, PollIsThorough
<1>6. CASE DropScheduler
  BY <1>6 DEF DropScheduler, Idle, pollVars, DriveIsThorough, PollIsThorough
<1> QED BY <1>2, <1>3, <1>4, <1>5, <1>6

(* What leaves the files, the window and the poll alone, and neither puts    *)
(* the task to sleep nor takes its place in the queue.                       *)
LEMMA SleepStays ==
    ASSUME SleepInv,
           UNCHANGED <<files, cells, emitted, discovered, cursor, terminated, window, pc, call,
                       round, asleep, declared, output>>,
           capacity'[Self] = capacity[Self],
           ~runnable' => ~runnable /\ (parked[Self] = Reader => parked'[Self] = Reader)
    PROVE  DriveIsThorough' /\ PollIsThorough'
<1>1. DriveIsThorough /\ PollIsThorough
  BY SleepFacts
<1>2. ~runnable' => (AsksForFrames => AsksForFrames')
  BY DEF AsksForFrames
<1>3. FullWindow' = FullWindow /\ HeadComplete' = HeadComplete
  BY DEF FullWindow, HeadComplete, WindowLimit
<1>4. \A i \in DOMAIN files : /\ HasOperation(files[i])' <=> HasOperation(files[i])
                              /\ Settled(files[i])' <=> Settled(files[i])
                              /\ AllReceived(files[i])' <=> AllReceived(files[i])
  BY DEF HasOperation, Authorized, Offset, AllReceived, Distance, Plus, Settled
<1>5. \A m : Ahead(m)' = Ahead(m)
  BY DEF Ahead
<1>6. DriveIsThorough'
  BY <1>1, <1>2, <1>3, <1>4, <1>5 DEF DriveIsThorough
<1>7. PollIsThorough'
  BY <1>1, <1>2, <1>3, <1>4 DEF PollIsThorough
<1> QED BY <1>6, <1>7

(* An event wakes the task; nothing else from outside changes what it has to *)
(* do or takes its place in the queue.                                       *)
LEMMA OutsideSleeps ==
    ASSUME SleepInv, Outside \/ UNCHANGED vars
    PROVE  DriveIsThorough' /\ PollIsThorough'
<1>1. /\ IInv /\ ReaderTypeOK /\ Control /\ DriveIsThorough /\ PollIsThorough
      /\ files \in Seq(SlotType)
  BY SleepFacts
<1>2. CASE \E i \in DOMAIN files : BackendEvent(i)
  <2>1. PICK i \in DOMAIN files : BackendEvent(i)
    BY <1>2
  <2>2. /\ runnable' = TRUE /\ UNCHANGED <<budgetVars, cells, emitted, discovered, terminated, window,
                                          pc, call, round, asleep, declared, output>>
        /\ files' = [files EXCEPT ![i].io = "ready"]
    BY <2>1 DEF BackendEvent, pollVars
  <2>3. Len(files') = Len(files) /\ files # <<>>
    BY <1>1, <2>2
  <2>4. FullWindow' = FullWindow /\ HeadComplete' = HeadComplete
    BY <2>2 DEF FullWindow, HeadComplete, WindowLimit, budgetVars
  <2> QED BY <1>1, <2>2, <2>3, <2>4 DEF DriveIsThorough, PollIsThorough
<1>3. CASE \/ \E p \in Permits : BudgetThread(p) \/ BudgetWake(p)
           \/ \E p \in Rivals : RivalStep(p)
           \/ UNCHANGED vars
  <2>1. UNCHANGED <<schedulerVars, pollVars, asleep, declared, output>>
    BY <1>3 DEF BudgetThread, BudgetWake, RivalStep, BudgetOnly, vars, outsideVars
  <2>2. UNCHANGED <<files, cells, emitted, discovered, cursor, terminated, window, pc, call, round>>
    BY <2>1 DEF schedulerVars, pollVars
  <2>3. capacity'[Self] = capacity[Self]
    BY <1>1, <1>3, OthersStep, BudgetStays DEF BudgetThread, BudgetWake, RivalStep, Rivals, vars
  <2>4. /\ ~runnable' => ~runnable
        /\ ~runnable' => parked'[Self] = parked[Self] \/ parked[Self] # Reader
    <3>1. CASE \E p \in Permits : BudgetThread(p)
      BY <1>1, <3>1, OthersPark DEF BudgetThread, BudgetOnly, outsideVars
    <3>2. CASE \E p \in Rivals : RivalStep(p)
      BY <1>1, <3>2, OthersPark DEF RivalStep, Rivals, BudgetOnly, outsideVars
    <3>3. CASE UNCHANGED vars
      BY <3>3 DEF vars, outsideVars, budgetVars
    <3>4. CASE \E p \in Permits : BudgetWake(p)
      <4>1. PICK p \in Permits : BudgetWake(p)
        BY <3>4
      <4> DEFINE task == Head(wakes[p])
      <4>2. parked' = Awoken(task) /\ runnable' = Woken(task)
        BY <4>1 DEF BudgetWake, Wake
      <4> HIDE DEF task
      <4>3. ~runnable' => ~runnable /\ task # Reader
        BY <4>2, Zenon DEF Woken
      <4>4. parked'[Self] = parked[Self] \/ parked[Self] = task
        BY <4>2, SelfAssumption DEF Awoken
      <4> QED BY <4>3, <4>4
    <3> QED BY <1>3, <3>1, <3>2, <3>3, <3>4
  <2> QED BY <2>1, <2>2, <2>3, <2>4, SleepStays
<1> QED BY <1>2, <1>3 DEF Outside

LEMMA BeginIsThorough ==
    ASSUME NEW kind, Begin(kind)
    PROVE  DriveIsThorough' /\ PollIsThorough'
BY DEF Begin, DriveIsThorough, PollIsThorough

LEMMA SleepInvariance == Spec => []SleepInv
<1>1. Init => SleepInv
  BY ReaderStart DEF Init, SleepInv, DriveIsThorough, PollIsThorough
<1>2. ASSUME SleepInv, [Next]_vars PROVE SleepInv'
  <2>1. ReaderInv'
    BY <1>2, SleepFacts, ReaderStep
  <2>2. DriveIsThorough' /\ PollIsThorough'
    BY <1>2, DriveSleeps, GrowSleeps, CallsSleep, OutsideSleeps DEF Next, InPoll, Calls
  <2> QED BY <2>1, <2>2 DEF SleepInv
<1> QED BY <1>1, <1>2, PTL DEF Spec

(* With frames of the budget, a reader that sleeps waits for the file whose  *)
(* frame comes next, or has that frame.                                      *)
LEMMA FramesSuffice ==
    ASSUME SleepInv, pc = "idle", asleep, ~runnable, ~terminated, files # <<>>,
           capacity[Self] > 0, ~(Head(files).io = "waiting")
    PROVE  HeadComplete
<1> DEFINE slot == files[1]
<1>1. /\ ReaderInv /\ ReaderTypeOK /\ Positions /\ SlotPlaces /\ CellsFit(files, cells)
      /\ Control /\ PollIsThorough /\ FramesHaveFiles /\ FilesInOrder
      /\ capacity[Self] \in Nat /\ Len(cells) \in Nat /\ cells \in Seq(CellType)
      /\ files \in Seq(SlotType) /\ Len(output) \in Nat /\ declared \in Nat
      /\ window.target \in Nat \ {0} /\ Len(output) <= declared
  BY SleepFacts
<1>2. /\ FullWindow /\ AsksForFrames
      /\ \A i \in DOMAIN files : HasOperation(files[i]) => files[i].io = "waiting"
  BY <1>1 DEF PollIsThorough
<1>3. 1 \in DOMAIN files /\ alive[Self]
  BY <1>1 DEF Control
<1>4. ~HasOperation(slot)
  BY <1>2, <1>3
<1>5. /\ slot \in SlotType /\ slot.first \in Nat /\ slot.count \in Nat
      /\ slot.received \in 0..slot.count /\ Past(slot) \in Nat
  <2>1. slot \in SlotType /\ slot.first \in 1..MaxFrames /\ slot.count \in 1..(Modulus - 1)
        /\ slot.received \in 0..slot.count /\ Past(slot) \in Nat
    BY <1>1, <1>3, SlotFacts
  <2> QED BY <2>1, ReaderAssumption
<1>6. slot.state = "Reading"
  BY <1>4, <1>5 DEF SlotType, HasOperation
<1>7. /\ Len(output) + 1 < Past(slot) /\ Past(slot) <= declared + 1
      /\ Len(output) < slot.first + slot.received
  BY <1>1, <1>3 DEF SlotPlaces
<1>8. cells # <<>>
  <2>1. Least(WindowLimit(capacity[Self]), declared - Len(output)) > 0
    BY <1>1, <1>5, <1>7 DEF Least, WindowLimit
  <2>2. Least(WindowLimit(capacity[Self]), declared - Len(output)) <= Len(cells)
    BY <1>2 DEF FullWindow
  <2>3. Least(WindowLimit(capacity[Self]), declared - Len(output)) \in Int
    BY <1>1 DEF Least, WindowLimit
  <2>4. Len(cells) > 0
    BY <1>1, <2>1, <2>2, <2>3
  <2> QED BY <1>1, <2>4
<1>9. /\ 1 \in DOMAIN cells /\ CellFits(cells[1], slot, Len(output) + 1)
  BY <1>1, <1>3, <1>8, FrontFrame
<1>10. Len(output) + 1 < slot.first + slot.received
  <2> SUFFICES ASSUME ~(Len(output) + 1 < slot.first + slot.received) PROVE FALSE
    OBVIOUS
  <2>1. slot.first + slot.received = Len(output) + 1
    BY <1>1, <1>5, <1>7
  <2>2. ~AllReceived(slot)
    BY <1>5, <1>7, <2>1 DEF AllReceived, Past
  <2>3. Offset(slot) = slot.first + slot.received - Len(output)
    BY <1>1, <1>3, OffsetOf
  <2>4. Offset(slot) = 1
    BY <1>1, <1>5, <2>1, <2>3
  <2> QED BY <1>4, <1>6, <1>9, <2>2, <2>4 DEF HasOperation, Authorized
<1>11. cells[1].state = "complete"
  BY <1>9, <1>10 DEF CellFits
<1> QED BY <1>8, <1>11 DEF HeadComplete

LEMMA StuckWhenAsleep == ASSUME SleepInv PROVE SleepsOnlyWhenStuck
<1> SUFFICES ASSUME pc = "idle", asleep, ~runnable, ~terminated, files # <<>>
             PROVE  /\ \A i \in DOMAIN files :
                          HasOperation(files[i]) => files[i].io = "waiting"
                    /\ call = "read" => ~HeadComplete
                    /\ Head(files).io = "waiting" \/ HeadComplete \/ parked[Self] = Reader
  BY DEF SleepsOnlyWhenStuck
<1>1. PollIsThorough /\ capacity[Self] \in Nat
  BY SleepFacts
<1>2. /\ AsksForFrames
      /\ \A i \in DOMAIN files : HasOperation(files[i]) => files[i].io = "waiting"
      /\ call = "read" => ~HeadComplete
  BY <1>1 DEF PollIsThorough
<1>3. Head(files).io = "waiting" \/ HeadComplete \/ capacity[Self] = 0
  BY <1>1, FramesSuffice
<1> QED BY <1>2, <1>3 DEF AsksForFrames

(* A task that was put to sleep, and that nobody has woken, has left nothing *)
(* undone: its operations wait for their events, poll_read had no frame to   *)
(* return, and the file whose frame comes next waits for I/O, or the task is *)
(* asleep in the budget's queue.                                             *)
THEOREM ReaderSleepsWhenStuck == Spec => []SleepsOnlyWhenStuck
<1>1. SleepInv => SleepsOnlyWhenStuck
  BY StuckWhenAsleep
<1> QED BY <1>1, SleepInvariance, PTL

=============================================================================
