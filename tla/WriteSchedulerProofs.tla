------------------------ MODULE WriteSchedulerProofs ------------------------
(***************************************************************************)
(* Proofs about WriteScheduler for every budget, window, set of file       *)
(* capacities, number of retries and length of the input.                  *)
(***************************************************************************)
EXTENDS WriteScheduler, SchedulerPermitProofs

(* Running totals of sizes, from base to total; beyond the place `from`,    *)
(* nothing is added any more.                                               *)
Adds(s, sizes, base, from, total) ==
    /\ sizes \in Seq(Nat) /\ base \in Nat /\ from \in Nat /\ total \in Nat
    /\ s \in [0..Len(sizes) -> base..total]
    /\ s[0] = base /\ s[Len(sizes)] = total
    /\ \A i \in DOMAIN sizes : s[i] = s[i - 1] + sizes[i]
    /\ \A i, j \in 0..Len(sizes) : i <= j => s[i] <= s[j]
    /\ \A i \in DOMAIN sizes : i > from => s[i] = total

(* What a slot buffers, what its backend accepted and what its state says   *)
(* agree.                                                                   *)
Sound(slot) ==
    /\ slot.assigned <= slot.capacity /\ slot.written <= slot.assigned
    /\ slot.assigned = 0 <=> slot.state = "Idle"
    /\ slot.state = "Idle" => slot.frames = <<>> /\ slot.content = <<>>
    /\ slot.state \in {"Idle", "Opening"} => slot.written = 0
    /\ slot.state = "Opening" /\ ~Replay => slot.content = <<>>
    /\ slot.state \in {"Writing", "Closing"} =>
          /\ Len(slot.content) = slot.written
          /\ Replay => slot.content = SubSeq(slot.frames, 1, slot.written)
    /\ slot.state \in {"Closing", "Closed"} => Len(slot.content) = slot.assigned
    /\ slot.state = "Closed" => slot.frames = <<>>
    /\ Len(FramesOf(slot)) = slot.assigned

(* A slot of the queue, seen from the file being filled. *)
Placed(slot, i, index, ended) ==
    /\ i <= index => slot.assigned = slot.capacity
    /\ i = index + 1 => slot.assigned < slot.capacity
    /\ i > index + 1 => slot.assigned = 0
    /\ slot.state \in {"Closing", "Closed"} => slot.assigned = slot.capacity \/ ended
    /\ ended => slot.assigned > 0

Streaming == phase \in {"Writing", "Closing"}

FileSizes(fs) == [i \in DOMAIN fs |-> fs[i].assigned]

ReservedOf(fs, part, index) ==
    [i \in DOMAIN fs |-> Reserves(fs[i], part # "none" /\ i = index + 1)]

StartedOf(part, count) == IF part = "some" THEN count - 1 ELSE count

(* The queue of slots, the partial frame and the index of its file.         *)
Shape(fs, part, index, ended) ==
    /\ fs \in Seq(SlotType) /\ part \in {"none", "empty", "some"} /\ index \in 0..Len(fs)
    /\ \A i \in DOMAIN fs : Sound(fs[i]) /\ Placed(fs[i], i, index, ended)
    /\ part # "none" => index < Len(fs) /\ ~ended

(* What they reserve adds up. *)
Uses(fs, part, index, total) == \E s : Adds(s, ReservedOf(fs, part, index), 0, index, total)

(* Every frame is in its place; ends[i] is the last one of file i. *)
Ends(ends, fs, part, index, count, back) ==
    /\ Adds(ends, FileSizes(fs), Len(back), index, StartedOf(part, count))
    /\ \A i \in DOMAIN fs : FramesOf(fs[i]) = Numbers(ends[i - 1], ends[i])

Holds(fs, part, index, count, back) ==
    /\ count \in 0..MaxFrames /\ back \in Seq(1..MaxFrames)
    /\ part = "some" => count > 0
    /\ back = Numbers(0, Len(back))
    /\ \E ends : Ends(ends, fs, part, index, count, back)

QueueInOrder ==
    Streaming =>
        /\ Shape(files, partial, fillIndex, phase = "Closing")
        /\ Uses(files, partial, fillIndex, used)
        /\ Holds(files, partial, fillIndex, begun, delivered)

(* A scheduler that has failed, or is gone, keeps nothing. *)
NothingLeft == ~Streaming => files = <<>> /\ partial = "none" /\ used = 0

UsedIsGranted == used <= capacity[Self]

(* Where a poll may be. *)
Control ==
    /\ pc # "idle" => alive[Self] /\ Streaming
    /\ pc = "drive" => files # <<>>
    /\ pc = "grow" => phase = "Writing" /\ MayReserve
    /\ pc = "fill" => phase = "Writing"
    /\ alive[Self] <=> phase # "Dropped"

WriterInv ==
    /\ IInv /\ WriterTypeOK
    /\ QueueInOrder /\ NothingLeft /\ UsedIsGranted /\ Control /\ NoSpareAfterInput

-----------------------------------------------------------------------------
(* Sequences of numbers. *)
LEMMA NumbersFacts ==
    ASSUME NEW a \in Nat, NEW b \in Nat, a <= b
    PROVE  /\ Numbers(a, b) \in Seq(Nat) /\ Len(Numbers(a, b)) = b - a
           /\ DOMAIN Numbers(a, b) = 1..(b - a)
           /\ \A k \in 1..(b - a) : Numbers(a, b)[k] = a + k
BY DEF Numbers

LEMMA NumbersFrom ==
    ASSUME NEW a \in Nat, NEW n \in Nat
    PROVE  Numbers(a, a + n) = [k \in 1..n |-> a + k]
<1>1. (a + n) - a = n
  OBVIOUS
<1>2. Numbers(a, a + n) = [k \in 1..((a + n) - a) |-> a + k]
  BY DEF Numbers
<1> QED BY <1>1, <1>2

LEMMA NumbersAre ==
    ASSUME NEW a \in Nat, NEW b \in Nat, a <= b, NEW S, NEW q \in Seq(S), Len(q) = b - a,
           \A k \in 1..(b - a) : q[k] = a + k
    PROVE  q = Numbers(a, b)
BY DEF Numbers

LEMMA NumbersJoin ==
    ASSUME NEW a \in Nat, NEW b \in Nat, NEW c \in Nat, a <= b, b <= c
    PROVE  Numbers(a, b) \o Numbers(b, c) = Numbers(a, c)
<1> DEFINE n == b - a
           m == c - b
           p == Numbers(a, b)
           r == Numbers(b, c)
           q == p \o r
<1>0. n \in Nat /\ m \in Nat /\ c - a = n + m /\ a <= c /\ a + n = b
  OBVIOUS
<1>p. p \in Seq(Nat) /\ Len(p) = n
  BY NumbersFacts
<1>1. \A k \in 1..n : p[k] = a + k
  BY NumbersFacts
<1>r. r \in Seq(Nat) /\ Len(r) = m
  BY NumbersFacts
<1>2. \A k \in 1..m : r[k] = b + k
  BY NumbersFacts
<1> HIDE DEF n, m, p, r
<1>3. q \in Seq(Nat) /\ Len(q) = n + m
  BY <1>p, <1>r
<1>4. ASSUME NEW k \in 1..(n + m) PROVE q[k] = a + k
  <2>0. k \in Nat /\ k >= 1 /\ k <= n + m
    BY <1>0
  <2>1. CASE k <= n
    <3>1. q[k] = p[k] /\ k \in 1..n
      BY <1>0, <1>p, <1>r, <2>0, <2>1
    <3> QED BY <1>1, <3>1
  <2>2. CASE ~(k <= n)
    <3>1. k - n \in 1..m
      BY <1>0, <2>0, <2>2
    <3>2. q[k] = r[k - n]
      <4>1. k \in 1..(Len(p) + Len(r)) /\ k > Len(p) /\ Len(p) = n
        BY <1>p, <1>r, <2>0, <2>2, <1>0
      <4>2. p \in Seq(Nat) /\ r \in Seq(Nat)
        BY <1>p, <1>r
      <4>3. q[k] = r[k - Len(p)]
        BY <4>1, <4>2
      <4> QED BY <4>1, <4>3
    <3>3. r[k - n] = b + (k - n)
      BY <1>2, <3>1
    <3>4. b + (k - n) = a + k
      BY <1>0, <2>0
    <3> QED BY <3>2, <3>3, <3>4
  <2> QED BY <2>1, <2>2
<1> HIDE DEF q
<1>5. q = Numbers(a, c)
  BY <1>0, <1>3, <1>4, NumbersAre
<1> QED BY <1>5 DEF q, p, r

LEMMA NumbersNext ==
    ASSUME NEW a \in Nat, NEW b \in Nat, a <= b
    PROVE  Append(Numbers(a, b), b + 1) = Numbers(a, b + 1)
<1> DEFINE q == Append(Numbers(a, b), b + 1)
<1>1. /\ Numbers(a, b) \in Seq(Nat) /\ Len(Numbers(a, b)) = b - a
      /\ \A k \in 1..(b - a) : Numbers(a, b)[k] = a + k
  BY NumbersFacts
<1>2. q \in Seq(Nat) /\ Len(q) = (b + 1) - a
  BY <1>1
<1>3. ASSUME NEW k \in 1..((b + 1) - a) PROVE q[k] = a + k
  BY <1>1
<1> HIDE DEF q
<1>4. q = Numbers(a, b + 1)
  BY <1>2, <1>3, NumbersAre
<1> QED BY <1>4 DEF q

(* Moving the first element of a sequence to the end of the one before it, *)
(* or adding an element to the second, is the same for the two together.   *)
LEMMA MovedAcross ==
    ASSUME NEW S, NEW c \in Seq(S), NEW f \in Seq(S), f # <<>>
    PROVE  Append(c, Head(f)) \o Tail(f) = c \o f
OBVIOUS

LEMMA ElementOf ==
    ASSUME NEW S, NEW q \in Seq(S), NEW n \in 1..Len(q)
    PROVE  q[n] \in S
OBVIOUS

LEMMA HeadAndTail ==
    ASSUME NEW S, NEW q \in Seq(S), q # <<>>
    PROVE  /\ Head(q) \in S /\ Tail(q) \in Seq(S) /\ Len(Tail(q)) + 1 = Len(q)
           /\ \A i \in 1..Len(Tail(q)) : Tail(q)[i] = q[i + 1]
OBVIOUS

LEMMA AddedBehind ==
    ASSUME NEW S, NEW c \in Seq(S), NEW f \in Seq(S), NEW x \in S
    PROVE  c \o Append(f, x) = Append(c \o f, x)
OBVIOUS

LEMMA PrefixGrows ==
    ASSUME NEW S, NEW f \in Seq(S), NEW n \in Nat, n < Len(f)
    PROVE  Append(SubSeq(f, 1, n), f[n + 1]) = SubSeq(f, 1, n + 1)
OBVIOUS

LEMMA PrefixStays ==
    ASSUME NEW S, NEW f \in Seq(S), NEW n \in Nat, n <= Len(f), NEW x \in S
    PROVE  SubSeq(Append(f, x), 1, n) = SubSeq(f, 1, n)
OBVIOUS

-----------------------------------------------------------------------------
(* Running totals. *)
LEMMA AddsFacts ==
    ASSUME NEW sizes, NEW base, NEW from, NEW total, NEW s, Adds(s, sizes, base, from, total)
    PROVE  /\ Len(sizes) \in Nat /\ DOMAIN sizes = 1..Len(sizes)
           /\ base \in Nat /\ from \in Nat /\ total \in Nat /\ base <= total
           /\ s = [i \in 0..Len(sizes) |-> s[i]] /\ DOMAIN s = 0..Len(sizes)
           /\ s[0] = base /\ s[Len(sizes)] = total
           /\ \A i \in 0..Len(sizes) : s[i] \in Nat /\ base <= s[i] /\ s[i] <= total
           /\ \A i \in 1..Len(sizes) : sizes[i] \in Nat /\ s[i] = s[i - 1] + sizes[i]
           /\ \A i, j \in 0..Len(sizes) : i <= j => s[i] <= s[j]
           /\ \A i \in 1..Len(sizes) : i > from => s[i] = total
<1>1. /\ sizes \in Seq(Nat) /\ base \in Nat /\ from \in Nat /\ total \in Nat
      /\ s \in [0..Len(sizes) -> base..total] /\ s[0] = base /\ s[Len(sizes)] = total
      /\ \A i \in DOMAIN sizes : s[i] = s[i - 1] + sizes[i]
      /\ \A i, j \in 0..Len(sizes) : i <= j => s[i] <= s[j]
      /\ \A i \in DOMAIN sizes : i > from => s[i] = total
  BY DEF Adds
<1>2. Len(sizes) \in Nat /\ DOMAIN sizes = 1..Len(sizes)
  BY <1>1
<1>3. \A i \in 0..Len(sizes) : s[i] \in base..total
  BY <1>1
<1>4. \A i \in 0..Len(sizes) : s[i] \in Nat /\ base <= s[i] /\ s[i] <= total
  BY <1>1, <1>3
<1>5. \A i \in 1..Len(sizes) : sizes[i] \in Nat /\ s[i] = s[i - 1] + sizes[i]
  <2>1. \A i \in 1..Len(sizes) : sizes[i] \in Nat
    BY <1>1
  <2> QED BY <1>1, <1>2, <2>1
<1>6. base <= total
  <2>1. 0 \in 0..Len(sizes)
    BY <1>2
  <2> QED BY <1>1, <1>4, <2>1
<1>7. \A i \in 1..Len(sizes) : i > from => s[i] = total
  BY <1>1, <1>2
<1>8. s = [i \in 0..Len(sizes) |-> s[i]] /\ DOMAIN s = 0..Len(sizes)
  BY <1>1
<1> QED BY <1>1, <1>2, <1>4, <1>5, <1>6, <1>7, <1>8

(* The same facts put together. *)
LEMMA AddsFrom ==
    ASSUME NEW sizes \in Seq(Nat), NEW base \in Nat, NEW from \in Nat, NEW total \in Nat,
           NEW s, s = [i \in 0..Len(sizes) |-> s[i]], s[0] = base, s[Len(sizes)] = total,
           \A i \in 0..Len(sizes) : s[i] \in Nat,
           \A i \in 1..Len(sizes) : s[i] = s[i - 1] + sizes[i],
           \A i, j \in 0..Len(sizes) : i <= j => s[i] <= s[j],
           \A i \in 1..Len(sizes) : i > from => s[i] = total
    PROVE  Adds(s, sizes, base, from, total)
<1>0. Len(sizes) \in Nat /\ DOMAIN sizes = 1..Len(sizes)
  OBVIOUS
<1>1. ASSUME NEW i \in 0..Len(sizes) PROVE s[i] \in base..total
  <2>1. i \in Nat /\ 0 <= i /\ i <= Len(sizes) /\ s[i] \in Nat
    BY <1>0
  <2>2. 0 \in 0..Len(sizes) /\ Len(sizes) \in 0..Len(sizes)
    BY <1>0
  <2>3. s[0] <= s[i] /\ s[i] <= s[Len(sizes)]
    BY <2>1, <2>2
  <2> QED BY <2>1, <2>3
<1>2. s \in [0..Len(sizes) -> base..total]
  BY <1>1
<1> QED BY <1>0, <1>2 DEF Adds

LEMMA AddsAt ==
    ASSUME NEW sizes, NEW base, NEW from, NEW total, NEW s,
           Adds(s, sizes, base, from, total), NEW k \in DOMAIN sizes
    PROVE  /\ k \in Nat /\ k >= 1 /\ k <= Len(sizes) /\ sizes[k] \in Nat
           /\ s[k - 1] \in Nat /\ base <= s[k - 1] /\ s[k] \in Nat /\ s[k] <= total
           /\ s[k] = s[k - 1] + sizes[k] /\ base + sizes[k] <= total
<1>1. k \in 1..Len(sizes) /\ Len(sizes) \in Nat /\ base \in Nat /\ total \in Nat
  BY AddsFacts
<1>2. k \in Nat /\ k >= 1 /\ k <= Len(sizes) /\ k \in 0..Len(sizes) /\ k - 1 \in 0..Len(sizes)
  BY <1>1
<1>3. sizes[k] \in Nat /\ s[k] = s[k - 1] + sizes[k]
  BY <1>1, AddsFacts
<1>4. s[k - 1] \in Nat /\ base <= s[k - 1] /\ s[k] \in Nat /\ s[k] <= total
  BY <1>2, AddsFacts
<1> QED BY <1>1, <1>2, <1>3, <1>4

Raised(s, k, d) == [i \in DOMAIN s |-> IF i < k THEN s[i] ELSE s[i] + d]

(* All sizes but that of place k are the same. *)
Differs(changed, sizes, k) ==
    /\ changed \in Seq(Nat) /\ Len(changed) = Len(sizes)
    /\ \A i \in DOMAIN sizes \ {k} : changed[i] = sizes[i]

(* One size changes, at or before the place beyond which nothing is added. *)
LEMMA AddsReplaced ==
    ASSUME NEW sizes, NEW base, NEW from, NEW total, NEW s,
           Adds(s, sizes, base, from, total),
           NEW k \in DOMAIN sizes, k <= from + 1, NEW changed, Differs(changed, sizes, k)
    PROVE  /\ total + (changed[k] - sizes[k]) \in Nat
           /\ Adds(Raised(s, k, changed[k] - sizes[k]), changed, base, from,
                   total + (changed[k] - sizes[k]))
<1> DEFINE d == changed[k] - sizes[k]
           t == Raised(s, k, d)
           n == Len(sizes)
<1>f. /\ n \in Nat /\ DOMAIN sizes = 1..n
      /\ base \in Nat /\ from \in Nat /\ total \in Nat /\ base <= total
      /\ DOMAIN s = 0..n /\ s[0] = base /\ s[n] = total
      /\ \A i \in 0..n : s[i] \in Nat /\ base <= s[i] /\ s[i] <= total
      /\ \A i \in 1..n : sizes[i] \in Nat /\ s[i] = s[i - 1] + sizes[i]
      /\ \A i, j \in 0..n : i <= j => s[i] <= s[j]
      /\ \A i \in 1..n : i > from => s[i] = total
  BY AddsFacts
<1>k. /\ k \in Nat /\ k >= 1 /\ k <= n /\ sizes[k] \in Nat
      /\ s[k - 1] \in Nat /\ base <= s[k - 1] /\ s[k] \in Nat /\ s[k] <= total
      /\ s[k] = s[k - 1] + sizes[k] /\ base + sizes[k] <= total
  BY AddsAt
<1>n. n \in Nat /\ DOMAIN sizes = 1..n /\ base \in Nat /\ total \in Nat
  BY <1>f
<1>c1. /\ changed \in Seq(Nat) /\ Len(changed) = n
       /\ \A i \in DOMAIN sizes \ {k} : changed[i] = sizes[i]
  BY DEF Differs
<1>c2. DOMAIN changed = 1..n
  BY <1>c1
<1>c. /\ changed \in Seq(Nat) /\ Len(changed) = n /\ DOMAIN changed = 1..n
      /\ \A i \in 1..n : i # k => changed[i] = sizes[i]
  BY <1>c1, <1>c2, <1>n
<1>p. k \in 0..n /\ k - 1 \in 0..n /\ k \in 1..n
  BY <1>k, <1>n
<1>v. changed[k] \in Nat
  BY <1>c1, <1>c2, <1>p
<1>d. d \in Int /\ changed[k] = sizes[k] + d
  BY <1>k, <1>v
<1>1. d \in Int /\ changed[k] = sizes[k] + d /\ k \in 0..n /\ k - 1 \in 0..n /\ k \in 1..n
  BY <1>p, <1>d
<1>5. /\ t = [i \in 0..n |-> t[i]]
      /\ \A i \in 0..n : i < k => t[i] = s[i]
      /\ \A i \in 0..n : ~(i < k) => t[i] = s[i] + d
  BY <1>f DEF Raised
<1>i. \A i \in 0..n : i \in Nat /\ i >= 0 /\ i <= n
  BY <1>f
<1>m. \A i, j \in 0..n : i <= j => s[i] <= s[j]
  BY <1>f
<1> HIDE DEF t, d, n
<1>4. total + d \in Nat /\ base <= total + d
  BY <1>n, <1>k, <1>v, <1>d
<1>8. t[0] = base /\ t[n] = total + d
  <2>1. 0 \in 0..n /\ n \in 0..n /\ 0 < k /\ ~(n < k)
    BY <1>n, <1>k
  <2> QED BY <1>5, <1>f, <2>1
<1>6. ASSUME NEW i \in 0..n PROVE t[i] \in Nat
  <2>0. i \in Nat /\ s[i] \in Nat
    BY <1>i, <1>f
  <2>1. CASE i < k
    BY <1>5, <2>0, <2>1
  <2>2. CASE ~(i < k)
    <3>1. s[k] <= s[i]
      <4>1. k <= i
        BY <1>k, <2>0, <2>2
      <4> QED BY <1>m, <1>p, <4>1
    <3>2. s[k] + d >= 0
      BY <1>1, <1>k, <1>v
    <3> QED BY <1>5, <1>1, <1>k, <2>0, <2>2, <3>1, <3>2
  <2> QED BY <2>1, <2>2
<1>7. \A i, j \in 0..n : i <= j => t[i] <= t[j]
  <2> SUFFICES ASSUME NEW i \in 0..n, NEW j \in 0..n, i <= j PROVE t[i] <= t[j]
    OBVIOUS
  <2>0. i \in Nat /\ j \in Nat /\ s[i] \in Nat /\ s[j] \in Nat /\ s[i] <= s[j]
    BY <1>i, <1>f
  <2>1. CASE j < k
    <3>1. i < k
      BY <1>k, <2>0, <2>1
    <3> QED BY <1>5, <2>0, <2>1, <3>1
  <2>2. CASE ~(i < k)
    <3>1. ~(j < k)
      BY <1>k, <2>0, <2>2
    <3> QED BY <1>1, <1>5, <2>0, <2>2, <3>1
  <2>3. CASE i < k /\ ~(j < k)
    <3>1. i <= k - 1 /\ k <= j
      BY <1>k, <2>0, <2>3
    <3>2. s[i] <= s[k - 1] /\ s[k] <= s[j]
      BY <1>f, <1>1, <3>1
    <3>3. t[i] = s[i] /\ t[j] = s[j] + d
      BY <1>5, <2>3
    <3> QED BY <1>1, <1>k, <1>v, <2>0, <3>2, <3>3
  <2> QED BY <2>1, <2>2, <2>3
<1>10. ASSUME NEW i \in 1..n PROVE t[i] = t[i - 1] + changed[i]
  <2>0. i \in Nat /\ i >= 1 /\ i - 1 \in 0..n /\ i \in 0..n
    BY <1>f
  <2>s. s[i] = s[i - 1] + sizes[i] /\ s[i - 1] \in Nat /\ sizes[i] \in Nat
    BY <1>f, <2>0
  <2>1. CASE i < k
    <3>1. i - 1 < k /\ i # k
      BY <1>k, <2>0, <2>1
    <3>2. t[i - 1] = s[i - 1] /\ t[i] = s[i] /\ changed[i] = sizes[i]
      BY <1>5, <1>c, <2>0, <2>1, <3>1
    <3> QED BY <2>s, <3>2
  <2>2. CASE i = k
    <3>1. i - 1 < k /\ ~(i < k)
      BY <1>k, <2>2
    <3>2. t[i - 1] = s[i - 1] /\ t[i] = s[i] + d /\ changed[i] = sizes[i] + d
      BY <1>5, <1>1, <2>0, <2>2, <3>1
    <3> QED BY <1>1, <2>s, <3>2
  <2>3. CASE i > k
    <3>1. ~(i - 1 < k) /\ ~(i < k) /\ i # k
      BY <1>k, <2>0, <2>3
    <3>2. t[i - 1] = s[i - 1] + d /\ t[i] = s[i] + d /\ changed[i] = sizes[i]
      BY <1>5, <1>c, <2>0, <3>1
    <3> QED BY <1>1, <2>s, <3>2
  <2> QED BY <1>k, <2>0, <2>1, <2>2, <2>3
<1>11. ASSUME NEW i \in 1..n, i > from PROVE t[i] = total + d
  <2>0. i \in Nat /\ i \in 0..n
    BY <1>f
  <2>1. ~(i < k)
    <3>1. k \in Nat /\ from \in Nat
      BY <1>f, <1>k
    <3> QED BY <1>11, <2>0, <3>1
  <2>2. s[i] = total
    BY <1>f, <1>11
  <2> QED BY <1>5, <2>0, <2>1, <2>2
<1>12. Adds(t, changed, base, from, total + d)
  BY <1>f, <1>c, <1>4, <1>5, <1>6, <1>7, <1>8, <1>10, <1>11, AddsFrom
<1> QED BY <1>4, <1>12 DEF t, d

(* Nothing is added beyond a later place, either. *)
LEMMA AddsFurther ==
    ASSUME NEW sizes, NEW base, NEW from, NEW total, NEW s,
           Adds(s, sizes, base, from, total), NEW later \in Nat, from <= later
    PROVE  Adds(s, sizes, base, later, total)
<1>1. from \in Nat /\ DOMAIN sizes = 1..Len(sizes) /\ Len(sizes) \in Nat
  BY AddsFacts
<1>2. \A i \in 1..Len(sizes) : i > from => s[i] = total
  BY AddsFacts
<1>3. \A i \in DOMAIN sizes : i > later => s[i] = total
  BY <1>1, <1>2
<1> QED BY <1>3 DEF Adds

(* The total is already reached before a place of size 0. *)
LEMMA AddsNearer ==
    ASSUME NEW sizes, NEW base, NEW from, NEW total, NEW s,
           Adds(s, sizes, base, from, total), from \in 0..Len(sizes),
           from + 1 \in DOMAIN sizes => sizes[from + 1] = 0
    PROVE  s[from] = total
<1>1. DOMAIN sizes = 1..Len(sizes) /\ Len(sizes) \in Nat /\ s[Len(sizes)] = total /\ from \in Nat
  BY AddsFacts
<1>2. CASE from = Len(sizes)
  BY <1>1, <1>2
<1>3. CASE from # Len(sizes)
  <2>0. from \in Nat /\ from <= Len(sizes) /\ Len(sizes) \in Nat
    BY <1>1
  <2>a. from + 1 \in 1..Len(sizes)
    BY <1>3, <2>0
  <2>b. (from + 1) - 1 = from /\ from + 1 > from
    BY <2>0
  <2>1. from + 1 \in DOMAIN sizes /\ from + 1 \in 1..Len(sizes) /\ (from + 1) - 1 = from
        /\ from + 1 > from
    BY <1>1, <2>a, <2>b
  <2>2. s[from + 1] = s[from] + 0 /\ s[from] \in Nat
    BY <2>1, AddsAt
  <2>3. s[from + 1] = total
    BY <2>1, AddsFacts
  <2> QED BY <2>2, <2>3
<1> QED BY <1>2, <1>3

(* The sizes up to `last`, behind which all of them are 0. *)
LEMMA AddsCut ==
    ASSUME NEW sizes, NEW base, NEW from, NEW total, NEW s,
           Adds(s, sizes, base, from, total), NEW last \in 0..Len(sizes), from <= last,
           \A i \in DOMAIN sizes : i > last => sizes[i] = 0
    PROVE  Adds([i \in 0..last |-> s[i]], SubSeq(sizes, 1, last), base, from, total)
<1> DEFINE n == Len(sizes)
           t == [i \in 0..last |-> s[i]]
           cut == SubSeq(sizes, 1, last)
<1>1. /\ n \in Nat /\ DOMAIN sizes = 1..n
      /\ base \in Nat /\ from \in Nat /\ total \in Nat
      /\ s[0] = base
      /\ \A i \in 0..n : s[i] \in Nat
      /\ \A i \in 1..n : s[i] = s[i - 1] + sizes[i]
      /\ \A i, j \in 0..n : i <= j => s[i] <= s[j]
      /\ \A i \in 1..n : i > from => s[i] = total
  BY AddsFacts
<1>2. Adds(s, sizes, base, last, total)
  BY <1>1, AddsFurther
<1>3. s[last] = total
  <2>1. last + 1 \in DOMAIN sizes => sizes[last + 1] = 0
    OBVIOUS
  <2> QED BY <1>2, <2>1, AddsNearer
<1>4. sizes \in Seq(Nat)
  BY DEF Adds
<1>5. last \in Nat /\ last <= n
  BY <1>1
<1>6. cut \in Seq(Nat) /\ Len(cut) = last /\ \A i \in 1..last : cut[i] = sizes[i]
  BY <1>4, <1>5
<1>7. 0..last \subseteq 0..n /\ 1..last \subseteq 1..n
      /\ \A i \in 1..last : i \in 0..last /\ i - 1 \in 0..last
  BY <1>1, <1>5
<1>8. t = [i \in 0..last |-> t[i]] /\ \A i \in 0..last : t[i] = s[i]
  OBVIOUS
<1> HIDE DEF n, t, cut
<1>9. t[0] = base /\ t[last] = total
  <2>1. 0 \in 0..last /\ last \in 0..last
    BY <1>5
  <2> QED BY <1>1, <1>3, <1>8, <2>1
<1>10. \A i \in 1..last : t[i] = t[i - 1] + cut[i]
  BY <1>1, <1>6, <1>7, <1>8
<1>11. /\ \A i \in 0..last : t[i] \in Nat
       /\ \A i, j \in 0..last : i <= j => t[i] <= t[j]
       /\ \A i \in 1..last : i > from => t[i] = total
  BY <1>1, <1>7, <1>8
<1>12. Adds(t, cut, base, from, total)
  BY <1>1, <1>6, <1>8, <1>9, <1>10, <1>11, AddsFrom
<1> QED BY <1>12 DEF t, cut

(* A size of 0 is added behind. *)
LEMMA AddsExtended ==
    ASSUME NEW sizes, NEW base, NEW from, NEW total, NEW s,
           Adds(s, sizes, base, from, total)
    PROVE  Adds([i \in 0..(Len(sizes) + 1) |-> IF i <= Len(sizes) THEN s[i] ELSE total],
                Append(sizes, 0), base, from, total)
<1> DEFINE n == Len(sizes)
           t == [i \in 0..(n + 1) |-> IF i <= n THEN s[i] ELSE total]
           more == Append(sizes, 0)
<1>1. /\ n \in Nat /\ base \in Nat /\ from \in Nat /\ total \in Nat
      /\ s[0] = base /\ s[n] = total
      /\ \A i \in 0..n : s[i] \in Nat /\ s[i] <= total
      /\ \A i \in 1..n : s[i] = s[i - 1] + sizes[i]
      /\ \A i, j \in 0..n : i <= j => s[i] <= s[j]
      /\ \A i \in 1..n : i > from => s[i] = total
  BY AddsFacts
<1>2. sizes \in Seq(Nat)
  BY DEF Adds
<1>3. more \in Seq(Nat) /\ Len(more) = n + 1 /\ more[n + 1] = 0
      /\ \A i \in 1..n : more[i] = sizes[i]
  BY <1>2
<1>4. /\ t = [i \in 0..(n + 1) |-> t[i]] /\ \A i \in 0..n : t[i] = s[i]
      /\ t[n + 1] = total
  BY <1>1
<1>n. n \in Nat
  BY <1>1
<1> HIDE DEF n, t, more
<1>5. \A i \in 0..(n + 1) : i \in 0..n \/ i = n + 1
  BY <1>n
<1>6. t[0] = base
  <2>1. 0 \in 0..n
    BY <1>n
  <2> QED BY <1>1, <1>4, <2>1
<1>7. \A i \in 0..(n + 1) : t[i] \in Nat
  BY <1>1, <1>4, <1>5
<1>8. ASSUME NEW i \in 1..(n + 1) PROVE t[i] = t[i - 1] + more[i]
  <2>1. CASE i = n + 1
    <3>1. i - 1 = n /\ n \in 0..n
      BY <1>n, <2>1
    <3>2. t[i - 1] = total /\ t[i] = total /\ more[i] = 0 /\ total \in Nat
      BY <1>1, <1>3, <1>4, <2>1, <3>1
    <3> QED BY <3>2
  <2>2. CASE i # n + 1
    <3>1. i \in 1..n /\ i \in 0..n /\ i - 1 \in 0..n
      BY <1>n, <2>2
    <3> QED BY <1>1, <1>3, <1>4, <3>1
  <2> QED BY <2>1, <2>2
<1>9. ASSUME NEW i \in 0..(n + 1), NEW j \in 0..(n + 1), i <= j PROVE t[i] <= t[j]
  <2>1. CASE i = n + 1
    <3>1. j = n + 1
      BY <1>n, <1>9, <2>1
    <3> QED BY <1>1, <1>4, <2>1, <3>1
  <2>2. CASE i # n + 1 /\ j = n + 1
    <3>1. i \in 0..n
      BY <1>5, <2>2
    <3> QED BY <1>1, <1>4, <2>2, <3>1
  <2>3. CASE i # n + 1 /\ j # n + 1
    <3>1. i \in 0..n /\ j \in 0..n
      BY <1>5, <2>3
    <3> QED BY <1>1, <1>4, <1>9, <3>1
  <2> QED BY <2>1, <2>2, <2>3
<1>10. ASSUME NEW i \in 1..(n + 1), i > from PROVE t[i] = total
  <2>1. CASE i = n + 1
    BY <1>4, <2>1
  <2>2. CASE i # n + 1
    <3>1. i \in 1..n /\ i \in 0..n
      BY <1>n, <2>2
    <3> QED BY <1>1, <1>4, <1>10, <3>1
  <2> QED BY <2>1, <2>2
<1>11. Adds(t, more, base, from, total)
  BY <1>1, <1>3, <1>4, <1>6, <1>7, <1>8, <1>9, <1>10, AddsFrom
<1> QED BY <1>11 DEF t, more, n

(* Without the first size. *)
LEMMA AddsTail ==
    ASSUME NEW sizes, NEW base, NEW from, NEW total, NEW s,
           Adds(s, sizes, base, from, total), sizes # <<>>
    PROVE  /\ s[1] \in Nat /\ s[1] = base + sizes[1]
           /\ Adds([i \in 0..(Len(sizes) - 1) |-> s[i + 1]], Tail(sizes), s[1],
                   Less(from, 1), total)
<1> DEFINE n == Len(sizes) - 1
           t == [i \in 0..n |-> s[i + 1]]
           rest == Tail(sizes)
           place == Less(from, 1)
<1>1. sizes \in Seq(Nat)
  BY DEF Adds
<1>2. n \in Nat /\ Len(sizes) = n + 1
  BY <1>1
<1>3. rest \in Seq(Nat) /\ Len(rest) = n /\ \A i \in 1..n : rest[i] = sizes[i + 1]
  BY <1>1
<1>4. /\ base \in Nat /\ from \in Nat /\ total \in Nat
      /\ s[0] = base /\ s[n + 1] = total
      /\ \A i \in 0..(n + 1) : s[i] \in Nat
      /\ \A i \in 1..(n + 1) : s[i] = s[i - 1] + sizes[i]
      /\ \A i, j \in 0..(n + 1) : i <= j => s[i] <= s[j]
      /\ \A i \in 1..(n + 1) : i > from => s[i] = total
  BY <1>2, AddsFacts
<1>5. place \in Nat /\ from <= place + 1
  BY <1>4 DEF Less
<1>6. t = [i \in 0..n |-> t[i]] /\ \A i \in 0..n : t[i] = s[i + 1]
  OBVIOUS
<1>n. n \in Nat
  BY <1>2
<1> HIDE DEF n, t, rest, place
<1>7. 0 \in 0..n /\ n \in 0..n /\ 1 \in 1..(n + 1) /\ 1 \in 0..(n + 1)
  BY <1>n
<1>8. s[1] \in Nat /\ s[1] = base + sizes[1]
  BY <1>4, <1>7
<1>9. t[0] = s[1] /\ t[n] = total
  <2>1. t[0] = s[0 + 1] /\ t[n] = s[n + 1]
    BY <1>6, <1>7
  <2> QED BY <1>4, <2>1
<1>10. \A i \in 0..n : t[i] \in Nat
  <2>1. \A i \in 0..n : i + 1 \in 0..(n + 1)
    BY <1>n
  <2> QED BY <1>4, <1>6, <2>1
<1>11. ASSUME NEW i \in 1..n PROVE t[i] = t[i - 1] + rest[i]
  <2>1. i \in 0..n /\ i - 1 \in 0..n /\ i + 1 \in 1..(n + 1) /\ (i + 1) - 1 = i
        /\ (i - 1) + 1 = i
    BY <1>n
  <2>2. s[i + 1] = s[i] + sizes[i + 1]
    BY <1>4, <2>1
  <2>3. t[i] = s[i + 1] /\ t[i - 1] = s[i]
    BY <1>6, <2>1
  <2>4. rest[i] = sizes[i + 1]
    BY <1>3
  <2> QED BY <2>2, <2>3, <2>4
<1>12. ASSUME NEW i \in 0..n, NEW j \in 0..n, i <= j PROVE t[i] <= t[j]
  <2>1. i + 1 \in 0..(n + 1) /\ j + 1 \in 0..(n + 1) /\ i + 1 <= j + 1
    BY <1>n, <1>12
  <2> QED BY <1>4, <1>6, <2>1
<1>13. ASSUME NEW i \in 1..n, i > place PROVE t[i] = total
  <2>1. i + 1 \in 1..(n + 1) /\ i + 1 > from /\ i \in 0..n
    BY <1>n, <1>4, <1>5, <1>13
  <2> QED BY <1>4, <1>6, <2>1
<1>14. Adds(t, rest, s[1], place, total)
  BY <1>3, <1>4, <1>5, <1>6, <1>8, <1>9, <1>10, <1>11, <1>12, <1>13, AddsFrom
<1> QED BY <1>8, <1>14 DEF t, rest, place, n

-----------------------------------------------------------------------------
(* One slot. *)
LEMMA SlotFacts ==
    ASSUME NEW slot \in SlotType
    PROVE  /\ slot.state \in {"Idle", "Opening", "Writing", "Closing", "Closed"}
           /\ slot.frames \in Seq(1..MaxFrames) /\ slot.content \in Seq(1..MaxFrames)
           /\ slot.capacity \in FileCapacities /\ slot.capacity \in Nat \ {0}
           /\ slot.assigned \in Nat /\ slot.written \in Nat
           /\ slot.retries \in 0..MaxRetries /\ slot.io \in {"new", "waiting", "ready"}
           /\ Len(slot.frames) \in Nat /\ Len(slot.content) \in Nat
<1>1. /\ slot.state \in {"Idle", "Opening", "Writing", "Closing", "Closed"}
      /\ slot.frames \in Seq(1..MaxFrames) /\ slot.content \in Seq(1..MaxFrames)
      /\ slot.capacity \in FileCapacities /\ slot.capacity # 0
      /\ slot.assigned \in Nat /\ slot.written \in Nat
      /\ slot.retries \in 0..MaxRetries /\ slot.io \in {"new", "waiting", "ready"}
  BY DEF SlotType
<1>2. slot.capacity \in Nat \ {0}
  BY <1>1, WriterAssumption
<1>3. Len(slot.frames) \in Nat /\ Len(slot.content) \in Nat
  BY <1>1
<1> QED BY <1>1, <1>2, <1>3

LEMMA ReservesType ==
    ASSUME NEW slot \in SlotType, NEW filling \in BOOLEAN
    PROVE  Reserves(slot, filling) \in Nat
<1>1. slot.capacity \in Nat /\ Len(slot.frames) \in Nat
  BY SlotFacts
<1> DEFINE one == IF filling THEN 1 ELSE 0
<1>2. one \in Nat
  OBVIOUS
<1>3. ~Replay => Reserves(slot, filling) = Len(slot.frames) + one
  BY DEF Reserves
<1>4. Replay => Reserves(slot, filling) \in {slot.capacity, 0}
  BY DEF Reserves
<1> HIDE DEF one
<1> QED BY <1>1, <1>2, <1>3, <1>4

(* `later` is a slot with the same file and the same frames as `slot`. *)
Continues(later, slot) ==
    /\ later \in SlotType /\ Sound(later)
    /\ later.assigned = slot.assigned /\ later.capacity = slot.capacity
    /\ FramesOf(later) = FramesOf(slot)
    /\ later.state \in {"Closing", "Closed"} =>
          slot.state \in {"Closing", "Closed"} \/ AllAssigned(slot)

(* The step gives back what the slot reserves no more. *)
Releases(released, later, slot) ==
    /\ released \in Nat
    /\ \A filling \in BOOLEAN : (filling => slot.state # "Closing") =>
          Reserves(later, filling) + released = Reserves(slot, filling)

(* The same slot, but for what its backend is doing and how often it tried. *)
LEMMA OnlyIo ==
    ASSUME NEW slot \in SlotType, Sound(slot), NEW io \in {"new", "waiting", "ready"}
    PROVE  /\ Continues([slot EXCEPT !.io = io], slot)
           /\ Releases(0, [slot EXCEPT !.io = io], slot)
<1> DEFINE later == [slot EXCEPT !.io = io]
<1>1. later \in SlotType
  BY DEF SlotType
<1>2. /\ later.state = slot.state /\ later.frames = slot.frames /\ later.content = slot.content
      /\ later.capacity = slot.capacity /\ later.assigned = slot.assigned
      /\ later.written = slot.written
  BY DEF SlotType
<1> HIDE DEF later
<1>3. FramesOf(later) = FramesOf(slot) /\ Done(later) = Done(slot)
  BY <1>2 DEF FramesOf, Done
<1>4. Sound(later)
  BY <1>2, <1>3 DEF Sound
<1>5. Continues(later, slot)
  BY <1>1, <1>2, <1>3, <1>4 DEF Continues
<1>6. \A filling \in BOOLEAN : Reserves(later, filling) = Reserves(slot, filling)
  BY <1>2, <1>3 DEF Reserves
<1>7. \A filling \in BOOLEAN : Reserves(slot, filling) \in Nat
  BY ReservesType
<1>8. Releases(0, later, slot)
  BY <1>6, <1>7 DEF Releases
<1> QED BY <1>5, <1>8 DEF later

(* Frames::accepted and the steps of Slot::poll around it. *)
LEMMA OpenedSlot ==
    ASSUME NEW slot \in SlotType, Sound(slot), slot.state = "Opening"
    PROVE  /\ Accepted(slot).slot.state = "Writing" /\ ~Accepted(slot).failed
           /\ Continues(Accepted(slot).slot, slot)
           /\ Releases(Accepted(slot).released, Accepted(slot).slot, slot)
<1> DEFINE none == <<>>
           later == [slot EXCEPT !.state = "Writing", !.io = "new", !.content = none]
<1>1. Accepted(slot) = Stepped(later, TRUE, 0)
  BY DEF Accepted
<1>n. none \in Seq(1..MaxFrames) /\ none = <<>>
  OBVIOUS
<1> HIDE DEF none
<1>2. /\ slot.frames \in Seq(1..MaxFrames) /\ slot.content \in Seq(1..MaxFrames)
      /\ Len(slot.frames) \in Nat
  BY SlotFacts
<1>3. later \in SlotType
  BY <1>n DEF SlotType
<1>4. /\ later.state = "Writing" /\ later.frames = slot.frames /\ later.content = <<>>
      /\ later.capacity = slot.capacity /\ later.assigned = slot.assigned
      /\ later.written = slot.written
  BY <1>n DEF SlotType
<1> HIDE DEF later
<1>5. FramesOf(later) = FramesOf(slot)
  <2>1. CASE Replay
    BY <1>4, <2>1 DEF FramesOf, Done
  <2>2. CASE ~Replay
    <3>1. slot.content = <<>>
      BY <2>2 DEF Sound
    <3> QED BY <1>4, <2>2, <3>1 DEF FramesOf, Done
  <2> QED BY <2>1, <2>2
<1>6. /\ slot.assigned <= slot.capacity /\ slot.written <= slot.assigned /\ slot.written = 0
      /\ slot.assigned # 0 /\ Len(FramesOf(slot)) = slot.assigned
  BY DEF Sound
<1>7. <<>> = SubSeq(slot.frames, 1, 0) /\ Len(<<>>) = 0
  BY <1>2
<1>8. Sound(later)
  BY <1>4, <1>5, <1>6, <1>7 DEF Sound
<1>9. Continues(later, slot)
  BY <1>3, <1>4, <1>5, <1>8 DEF Continues
<1>10. ASSUME NEW filling \in BOOLEAN PROVE Reserves(later, filling) = Reserves(slot, filling)
  BY <1>4 DEF Reserves, Done
<1>11. Releases(0, later, slot)
  BY <1>10, ReservesType DEF Releases
<1> QED BY <1>1, <1>4, <1>9, <1>11 DEF Stepped

LEMMA WrittenSlot ==
    ASSUME NEW slot \in SlotType, Sound(slot), slot.state = "Writing", Unwritten(slot)
    PROVE  /\ Accepted(slot).slot.state = "Writing" /\ ~Accepted(slot).failed
           /\ Continues(Accepted(slot).slot, slot)
           /\ Releases(Accepted(slot).released, Accepted(slot).slot, slot)
<1> DEFINE frame == NextFrame(slot)
           left == Rest(slot.frames)
           got == Append(slot.content, frame)
           count == slot.written + 1
           later == [slot EXCEPT !.written = count, !.io = "new", !.frames = left,
                                 !.content = got]
<1>1. Accepted(slot) = Stepped(later, TRUE, FrameReleased)
  BY DEF Accepted
<1>2. /\ slot.frames \in Seq(1..MaxFrames) /\ slot.content \in Seq(1..MaxFrames)
      /\ Len(slot.frames) \in Nat /\ Len(slot.content) \in Nat /\ slot.written \in Nat
      /\ slot.assigned \in Nat
  BY SlotFacts
<1>3. /\ slot.assigned <= slot.capacity /\ slot.written <= slot.assigned
      /\ Len(slot.content) = slot.written
      /\ Replay => slot.content = SubSeq(slot.frames, 1, slot.written)
      /\ Len(FramesOf(slot)) = slot.assigned /\ slot.assigned # 0
  BY DEF Sound
<1>4. /\ left \in Seq(1..MaxFrames) /\ frame \in 1..MaxFrames
      /\ slot.written + 1 <= slot.assigned
      /\ Replay => left = slot.frames /\ got = SubSeq(slot.frames, 1, slot.written + 1)
      /\ ~Replay => left = Tail(slot.frames) /\ got \o left = slot.content \o slot.frames
                    /\ Len(left) + 1 = Len(slot.frames)
  <2>1. CASE Replay
    <3>1. FramesOf(slot) = slot.frames
      BY <2>1 DEF FramesOf, Done
    <3>2. slot.written < Len(slot.frames) /\ frame = slot.frames[slot.written + 1]
          /\ left = slot.frames
      BY <2>1 DEF Unwritten, NextFrame, Rest
    <3>3. slot.written + 1 \in 1..Len(slot.frames) /\ slot.written + 1 <= slot.assigned
      BY <1>2, <1>3, <3>1, <3>2
    <3>4. frame \in 1..MaxFrames
      <4>1. slot.frames \in Seq(1..MaxFrames) /\ slot.written + 1 \in 1..Len(slot.frames)
        BY <1>2, <3>3
      <4> DEFINE fs == slot.frames
                 n == slot.written + 1
      <4>2. fs \in Seq(1..MaxFrames) /\ n \in 1..Len(fs)
        BY <4>1
      <4> HIDE DEF fs, n
      <4>3. fs[n] \in 1..MaxFrames
        BY <4>2, ElementOf, Zenon
      <4>4. slot.frames[slot.written + 1] \in 1..MaxFrames
        BY <4>3 DEF fs, n
      <4> QED BY <3>2, <4>4
    <3>5. Append(SubSeq(slot.frames, 1, slot.written), slot.frames[slot.written + 1])
             = SubSeq(slot.frames, 1, slot.written + 1)
      BY <1>2, <3>2, PrefixGrows
    <3> QED BY <1>2, <1>3, <2>1, <3>2, <3>3, <3>4, <3>5
  <2>2. CASE ~Replay
    <3>1. FramesOf(slot) = slot.content \o slot.frames
      BY <2>2 DEF FramesOf
    <3>2. slot.frames # <<>> /\ frame = Head(slot.frames) /\ left = Tail(slot.frames)
      BY <2>2 DEF Unwritten, NextFrame, Rest
    <3>3. Len(slot.content \o slot.frames) = Len(slot.content) + Len(slot.frames)
          /\ Len(slot.frames) >= 1
      BY <1>2, <3>2
    <3>4. slot.written + 1 <= slot.assigned
      <4>1. Len(slot.content) + Len(slot.frames) = slot.assigned /\ Len(slot.content) = slot.written
        BY <1>3, <3>1, <3>3
      <4> QED BY <1>2, <3>3, <4>1
    <3>5. frame \in 1..MaxFrames /\ left \in Seq(1..MaxFrames)
          /\ Len(left) + 1 = Len(slot.frames)
      <4>1. slot.frames \in Seq(1..MaxFrames) /\ slot.frames # <<>>
        BY <1>2, <3>2
      <4> DEFINE fs == slot.frames
      <4>2. fs \in Seq(1..MaxFrames) /\ fs # <<>>
        BY <4>1
      <4> HIDE DEF fs
      <4>3. /\ Head(fs) \in 1..MaxFrames /\ Tail(fs) \in Seq(1..MaxFrames)
            /\ Len(Tail(fs)) + 1 = Len(fs)
        BY <4>2, HeadAndTail, Zenon
      <4> QED BY <3>2, <4>3 DEF fs
    <3>6. Append(slot.content, Head(slot.frames)) \o Tail(slot.frames)
             = slot.content \o slot.frames
      BY <1>2, <3>2, MovedAcross
    <3> QED BY <2>2, <3>2, <3>4, <3>5, <3>6
  <2> QED BY <2>1, <2>2
<1> HIDE DEF frame, left
<1>5. got \in Seq(1..MaxFrames) /\ Len(got) = slot.written + 1
  BY <1>2, <1>3, <1>4
<1> HIDE DEF got
<1>n. count \in Nat /\ count = slot.written + 1
  BY <1>2
<1> HIDE DEF count
<1>m. left \in Seq(1..MaxFrames) /\ got \in Seq(1..MaxFrames) /\ count \in Nat
  BY <1>4, <1>5, <1>n
<1>6. later \in SlotType
  BY <1>m DEF SlotType
<1>7. /\ later.state = "Writing" /\ later.frames = left /\ later.content = got
      /\ later.capacity = slot.capacity /\ later.assigned = slot.assigned
      /\ later.written = slot.written + 1
  BY <1>n DEF SlotType
<1> HIDE DEF later
<1>8. FramesOf(later) = FramesOf(slot)
  BY <1>4, <1>7 DEF FramesOf, Done
<1>9. Sound(later)
  BY <1>3, <1>4, <1>5, <1>7, <1>8 DEF Sound
<1>10. Continues(later, slot)
  BY <1>6, <1>7, <1>8, <1>9 DEF Continues
<1>11. ASSUME NEW filling \in BOOLEAN
       PROVE  Reserves(later, filling) + FrameReleased = Reserves(slot, filling)
  <2>1. CASE Replay
    <3>1. Reserves(later, filling) = Reserves(slot, filling) /\ FrameReleased = 0
      BY <1>7, <2>1 DEF Reserves, Done, FrameReleased
    <3> QED BY <3>1, ReservesType
  <2>2. CASE ~Replay
    <3> DEFINE one == IF filling THEN 1 ELSE 0
    <3>1. Reserves(later, filling) = Len(left) + one /\ FrameReleased = 1
          /\ Reserves(slot, filling) = Len(slot.frames) + one
      BY <1>7, <2>2 DEF Reserves, FrameReleased
    <3>2. one \in Nat /\ Len(left) \in Nat
      BY <1>4
    <3> HIDE DEF one
    <3> QED BY <1>2, <1>4, <2>2, <3>1, <3>2
  <2> QED BY <2>1, <2>2
<1>12. Releases(FrameReleased, later, slot)
  BY <1>11 DEF Releases, FrameReleased
<1> QED BY <1>1, <1>7, <1>10, <1>12 DEF Stepped

LEMMA ClosedSlot ==
    ASSUME NEW slot \in SlotType, Sound(slot), slot.state = "Closing"
    PROVE  /\ Accepted(slot).slot.state = "Closed" /\ ~Accepted(slot).failed
           /\ Continues(Accepted(slot).slot, slot)
           /\ Releases(Accepted(slot).released, Accepted(slot).slot, slot)
<1> DEFINE none == <<>>
           later == [slot EXCEPT !.state = "Closed", !.io = "new", !.frames = none]
<1>1. Accepted(slot) = Stepped(later, TRUE, FileReleased(slot))
  BY DEF Accepted, Cleared
<1>n. none \in Seq(1..MaxFrames) /\ none = <<>>
  OBVIOUS
<1> HIDE DEF none
<1>2. /\ slot.frames \in Seq(1..MaxFrames) /\ slot.content \in Seq(1..MaxFrames)
      /\ Len(slot.frames) \in Nat /\ Len(slot.content) \in Nat /\ slot.written \in Nat
      /\ slot.assigned \in Nat /\ slot.capacity \in Nat
  BY SlotFacts
<1>3. /\ slot.assigned <= slot.capacity /\ slot.written <= slot.assigned
      /\ Len(slot.content) = slot.written /\ Len(slot.content) = slot.assigned
      /\ Replay => slot.content = SubSeq(slot.frames, 1, slot.written)
      /\ Len(FramesOf(slot)) = slot.assigned /\ slot.assigned # 0
  BY DEF Sound
<1>4. later \in SlotType
  BY <1>n DEF SlotType
<1>5. /\ later.state = "Closed" /\ later.frames = <<>> /\ later.content = slot.content
      /\ later.capacity = slot.capacity /\ later.assigned = slot.assigned
      /\ later.written = slot.written
  BY <1>n DEF SlotType
<1> HIDE DEF later
<1>6. FramesOf(later) = slot.content
  <2>1. FramesOf(later) = slot.content \o <<>>
    BY <1>5 DEF FramesOf, Done
  <2> QED BY <1>2, <2>1
<1>7. FramesOf(slot) = slot.content /\ (~Replay => Len(slot.frames) = 0)
  <2>1. CASE Replay
    <3>1. FramesOf(slot) = slot.frames
      BY <2>1 DEF FramesOf, Done
    <3>2. SubSeq(slot.frames, 1, Len(slot.frames)) = slot.frames
      BY <1>2
    <3> QED BY <1>3, <2>1, <3>1, <3>2
  <2>2. CASE ~Replay
    <3>1. FramesOf(slot) = slot.content \o slot.frames
      BY <2>2 DEF FramesOf
    <3>2. Len(slot.content \o slot.frames) = Len(slot.content) + Len(slot.frames)
      BY <1>2
    <3>3. Len(slot.frames) = 0
      <4>1. Len(slot.content) + Len(slot.frames) = Len(slot.content)
        BY <1>3, <3>1, <3>2
      <4> DEFINE m == Len(slot.frames)
                 n == Len(slot.content)
      <4>2. m \in Nat /\ n \in Nat /\ n + m = n
        BY <1>2, <4>1
      <4> HIDE DEF m, n
      <4>3. m = 0
        BY <4>2
      <4> QED BY <4>3 DEF m
    <3>4. slot.content \o slot.frames = slot.content
      <4>1. slot.frames \in Seq(1..MaxFrames) /\ slot.content \in Seq(1..MaxFrames)
        BY <1>2
      <4>2. slot.frames = <<>>
        BY <3>3, <4>1
      <4>3. slot.content \o <<>> = slot.content
        BY <4>1
      <4> QED BY <4>2, <4>3
    <3> QED BY <2>2, <3>1, <3>3, <3>4
  <2> QED BY <2>1, <2>2
<1>8. Sound(later)
  BY <1>3, <1>5, <1>6 DEF Sound
<1>9. Continues(later, slot)
  BY <1>4, <1>5, <1>6, <1>7, <1>8 DEF Continues
<1>10. Reserves(later, FALSE) + FileReleased(slot) = Reserves(slot, FALSE)
  <2>1. CASE Replay
    <3>1. Reserves(later, FALSE) = 0 /\ FileReleased(slot) = slot.capacity
          /\ Reserves(slot, FALSE) = slot.capacity
      BY <1>2, <1>3, <1>5, <2>1 DEF Reserves, Done, FileReleased
    <3> DEFINE c == slot.capacity
    <3>2. c \in Nat /\ Reserves(later, FALSE) = 0 /\ FileReleased(slot) = c
          /\ Reserves(slot, FALSE) = c
      BY <1>2, <3>1
    <3> HIDE DEF c
    <3>3. 0 + c = c
      BY <3>2
    <3> QED BY <3>2, <3>3, Zenon
  <2>2. CASE ~Replay
    <3>1. Reserves(later, FALSE) = Len(<<>>) + 0 /\ FileReleased(slot) = 0
          /\ Reserves(slot, FALSE) = Len(slot.frames) + 0
      BY <1>5, <2>2 DEF Reserves, FileReleased
    <3> DEFINE m == Len(slot.frames)
               n == Len(<<>>)
    <3>2. m = 0 /\ n = 0
      BY <1>7, <2>2
    <3>3. Reserves(later, FALSE) = n + 0 /\ FileReleased(slot) = 0
          /\ Reserves(slot, FALSE) = m + 0
      BY <3>1
    <3> HIDE DEF m, n
    <3>4. (n + 0) + 0 = m + 0
      BY <3>2
    <3> QED BY <3>3, <3>4, Zenon
  <2> QED BY <2>1, <2>2
<1>11. FileReleased(slot) \in Nat
  BY <1>2 DEF FileReleased
<1>12. Releases(FileReleased(slot), later, slot)
  BY <1>10, <1>11 DEF Releases
<1> QED BY <1>1, <1>5, <1>9, <1>12 DEF Stepped

(* Everything assigned was written. *)
LEMMA AllWritten ==
    ASSUME NEW slot \in SlotType, Sound(slot), slot.state = "Writing", ~Unwritten(slot)
    PROVE  Len(slot.content) = slot.assigned
<1> DEFINE f == slot.frames
           c == slot.content
           a == slot.assigned
           w == slot.written
<1>1. f \in Seq(1..MaxFrames) /\ c \in Seq(1..MaxFrames) /\ a \in Nat /\ w \in Nat
  BY SlotFacts
<1>2. w <= a /\ Len(c) = w /\ Len(FramesOf(slot)) = a
  BY DEF Sound
<1>3. CASE Replay
  <2>1. FramesOf(slot) = f
    BY <1>3 DEF FramesOf, Done
  <2>2. ~(w < Len(f))
    BY <1>3 DEF Unwritten
  <2> HIDE DEF f, c, a, w
  <2>3. Len(f) = a
    BY <1>2, <2>1
  <2>4. w = a
    BY <1>1, <1>2, <2>2, <2>3
  <2>5. Len(c) = a
    BY <1>2, <2>4
  <2> QED BY <2>5 DEF a, c
<1>4. CASE ~Replay
  <2>1. FramesOf(slot) = c \o f /\ f = <<>>
    BY <1>4 DEF FramesOf, Unwritten
  <2> HIDE DEF f, c, a, w
  <2>2. c \o <<>> = c
    BY <1>1
  <2>3. Len(c) = a
    BY <1>2, <2>1, <2>2
  <2> QED BY <2>3 DEF a, c
<1> QED BY <1>3, <1>4

LEMMA ClosingSlot ==
    ASSUME NEW slot \in SlotType, Sound(slot), slot.state = "Writing", ~Unwritten(slot),
           AllAssigned(slot)
    PROVE  /\ Continues([slot EXCEPT !.state = "Closing"], slot)
           /\ Releases(0, [slot EXCEPT !.state = "Closing"], slot)
<1> DEFINE later == [slot EXCEPT !.state = "Closing"]
<1>1. later \in SlotType
  BY DEF SlotType
<1>2. /\ later.state = "Closing" /\ later.frames = slot.frames /\ later.content = slot.content
      /\ later.capacity = slot.capacity /\ later.assigned = slot.assigned
      /\ later.written = slot.written
  BY DEF SlotType
<1> HIDE DEF later
<1>3. FramesOf(later) = FramesOf(slot) /\ Done(later) = Done(slot)
  BY <1>2 DEF FramesOf, Done
<1>4. Len(slot.content) = slot.assigned
  BY AllWritten
<1>5. Sound(later)
  BY <1>2, <1>3, <1>4 DEF Sound
<1>6. Continues(later, slot)
  BY <1>1, <1>2, <1>3, <1>5 DEF Continues
<1>7. \A filling \in BOOLEAN : Reserves(later, filling) = Reserves(slot, filling)
  BY <1>2, <1>3 DEF Reserves
<1>8. Releases(0, later, slot)
  BY <1>7, ReservesType DEF Releases
<1> QED BY <1>6, <1>8 DEF later

LEMMA RestartedSlot ==
    ASSUME NEW slot \in SlotType, Sound(slot), HasOperation(slot), slot.retries # MaxRetries
    PROVE  /\ Continues(Restarted(slot), slot) /\ Releases(0, Restarted(slot), slot)
           /\ Restarted(slot).state = "Opening"
<1> DEFINE more == slot.retries + 1
           later == [slot EXCEPT !.retries = more, !.written = 0, !.state = "Opening",
                                 !.io = "new"]
<1>1. Restarted(slot) = later
  BY DEF Restarted
<1>2. slot.retries \in 0..MaxRetries /\ MaxRetries \in Nat /\ slot.assigned \in Nat
  BY SlotFacts, WriterAssumption
<1>3. more \in 0..MaxRetries
  <2> DEFINE r == slot.retries
  <2>1. r \in 0..MaxRetries /\ r # MaxRetries /\ MaxRetries \in Nat
    BY <1>2
  <2> HIDE DEF r
  <2>2. r + 1 \in 0..MaxRetries
    BY <2>1
  <2> QED BY <2>2 DEF r
<1>4. Replay
  <2> DEFINE r == slot.retries
  <2>1. r \in 0..MaxRetries /\ r # MaxRetries /\ MaxRetries \in Nat
    BY <1>2
  <2> HIDE DEF r
  <2> QED BY <2>1 DEF Replay
<1> HIDE DEF more
<1>5. later \in SlotType
  BY <1>3 DEF SlotType
<1>6. /\ later.state = "Opening" /\ later.frames = slot.frames /\ later.content = slot.content
      /\ later.capacity = slot.capacity /\ later.assigned = slot.assigned
      /\ later.written = 0
  BY DEF SlotType
<1> HIDE DEF later
<1>7. slot.state \in {"Opening", "Writing", "Closing"}
  BY DEF HasOperation
<1>8. FramesOf(later) = FramesOf(slot)
  BY <1>4, <1>6, <1>7 DEF FramesOf, Done
<1>9. Sound(later)
  <2>1. /\ slot.assigned <= slot.capacity /\ slot.assigned # 0
        /\ Len(FramesOf(slot)) = slot.assigned
    BY <1>7 DEF Sound
  <2>2. 0 <= slot.assigned
    BY <1>2
  <2> QED BY <1>4, <1>6, <1>8, <2>1, <2>2 DEF Sound
<1>10. Continues(later, slot)
  BY <1>5, <1>6, <1>8, <1>9 DEF Continues
<1>11. \A filling \in BOOLEAN : Reserves(later, filling) = Reserves(slot, filling)
  BY <1>4, <1>6, <1>7 DEF Reserves, Done
<1>12. Releases(0, later, slot)
  BY <1>11, ReservesType DEF Releases
<1> QED BY <1>1, <1>6, <1>10, <1>12

(* What one poll may do to a slot, unless it fails for good. *)
LEMMA PolledFacts ==
    ASSUME NEW slot \in SlotType, Sound(slot), NEW result \in Polled(slot), ~result.failed
    PROVE  Continues(result.slot, slot) /\ Releases(result.released, result.slot, slot)
<1>1. CASE HasOperation(slot)
  <2>1. PICK answer \in Answers(slot) :
           result = CASE answer = "pending" -> Stepped([slot EXCEPT !.io = "waiting"], FALSE, 0)
                      [] answer = "ok" -> Accepted(slot)
                      [] answer = "error" -> Retried(slot)
    BY <1>1 DEF Polled
  <2>2. answer \in {"pending", "ok", "error"}
    BY SlotFacts DEF Answers
  <2>3. CASE answer = "pending"
    <3>1. result = Stepped([slot EXCEPT !.io = "waiting"], FALSE, 0)
      BY <2>1, <2>3
    <3>2. result.slot = [slot EXCEPT !.io = "waiting"] /\ result.released = 0
      BY <3>1 DEF Stepped
    <3> QED BY <3>2, OnlyIo
  <2>4. CASE answer = "ok"
    <3>1. result = Accepted(slot)
      BY <2>1, <2>4
    <3>2. \/ slot.state = "Opening" \/ slot.state = "Closing"
          \/ slot.state = "Writing" /\ Unwritten(slot)
      BY <1>1 DEF HasOperation
    <3> QED BY <3>1, <3>2, OpenedSlot, WrittenSlot, ClosedSlot
  <2>5. CASE answer = "error"
    <3>1. result = Retried(slot)
      BY <2>1, <2>5
    <3>2. slot.retries # MaxRetries
      BY <3>1 DEF Retried, Stepped
    <3>3. result = Stepped(Restarted(slot), TRUE, 0)
      BY <3>1, <3>2 DEF Retried
    <3>4. result.slot = Restarted(slot) /\ result.released = 0
      BY <3>3 DEF Stepped
    <3> QED BY <1>1, <3>2, <3>4, RestartedSlot
  <2> QED BY <2>2, <2>3, <2>4, <2>5
<1>2. CASE ~HasOperation(slot) /\ slot.state = "Writing" /\ AllAssigned(slot)
  <2>1. result = Stepped([slot EXCEPT !.state = "Closing"], TRUE, 0)
    BY <1>2 DEF Polled
  <2>2. result.slot = [slot EXCEPT !.state = "Closing"] /\ result.released = 0
    BY <2>1 DEF Stepped
  <2>3. ~Unwritten(slot)
    BY <1>2 DEF HasOperation
  <2> QED BY <1>2, <2>2, <2>3, ClosingSlot
<1>3. CASE ~HasOperation(slot) /\ ~(slot.state = "Writing" /\ AllAssigned(slot))
  <2>1. result = Stepped(slot, FALSE, 0)
    BY <1>3 DEF Polled
  <2>2. result.slot = slot /\ result.released = 0
    BY <2>1 DEF Stepped
  <2>3. Continues(slot, slot)
    BY DEF Continues
  <2>4. Releases(0, slot, slot)
    BY ReservesType DEF Releases
  <2> QED BY <2>2, <2>3, <2>4
<1> QED BY <1>1, <1>2, <1>3

-----------------------------------------------------------------------------
(* The queue. *)
LEMMA ReservedFacts ==
    ASSUME NEW fs \in Seq(SlotType), NEW part, NEW index
    PROVE  /\ ReservedOf(fs, part, index) \in Seq(Nat)
           /\ Len(ReservedOf(fs, part, index)) = Len(fs)
           /\ DOMAIN ReservedOf(fs, part, index) = DOMAIN fs /\ DOMAIN fs = 1..Len(fs)
           /\ Len(fs) \in Nat
           /\ \A i \in DOMAIN fs : ReservedOf(fs, part, index)[i]
                                      = Reserves(fs[i], part # "none" /\ i = index + 1)
<1> DEFINE r == ReservedOf(fs, part, index)
<1>1. DOMAIN fs = 1..Len(fs) /\ Len(fs) \in Nat /\ \A i \in DOMAIN fs : fs[i] \in SlotType
  OBVIOUS
<1>2. ASSUME NEW i \in DOMAIN fs PROVE Reserves(fs[i], part # "none" /\ i = index + 1) \in Nat
  <2>1. (part # "none" /\ i = index + 1) \in BOOLEAN
    OBVIOUS
  <2>2. fs[i] \in SlotType
    BY <1>1
  <2> QED BY <2>1, <2>2, ReservesType
<1>3. r = [i \in 1..Len(fs) |-> r[i]] /\ DOMAIN r = 1..Len(fs)
      /\ \A i \in DOMAIN fs : r[i] = Reserves(fs[i], part # "none" /\ i = index + 1)
  BY <1>1 DEF ReservedOf
<1> HIDE DEF r
<1>4. \A i \in 1..Len(fs) : r[i] \in Nat
  BY <1>1, <1>2, <1>3
<1>5. r \in Seq(Nat) /\ Len(r) = Len(fs)
  BY <1>1, <1>3, <1>4
<1> QED BY <1>1, <1>3, <1>5 DEF r

LEMMA SizesFacts ==
    ASSUME NEW fs \in Seq(SlotType)
    PROVE  /\ FileSizes(fs) \in Seq(Nat) /\ Len(FileSizes(fs)) = Len(fs)
           /\ DOMAIN FileSizes(fs) = DOMAIN fs /\ DOMAIN fs = 1..Len(fs) /\ Len(fs) \in Nat
           /\ \A i \in DOMAIN fs : FileSizes(fs)[i] = fs[i].assigned
<1> DEFINE r == FileSizes(fs)
<1>1. DOMAIN fs = 1..Len(fs) /\ Len(fs) \in Nat /\ \A i \in DOMAIN fs : fs[i] \in SlotType
  OBVIOUS
<1>2. ASSUME NEW i \in DOMAIN fs PROVE fs[i].assigned \in Nat
  BY <1>1, SlotFacts
<1>3. r = [i \in 1..Len(fs) |-> r[i]] /\ DOMAIN r = 1..Len(fs)
      /\ \A i \in DOMAIN fs : r[i] = fs[i].assigned
  BY <1>1 DEF FileSizes
<1> HIDE DEF r
<1>4. \A i \in 1..Len(fs) : r[i] \in Nat
  BY <1>1, <1>2, <1>3
<1>5. r \in Seq(Nat) /\ Len(r) = Len(fs)
  BY <1>1, <1>3, <1>4
<1> QED BY <1>1, <1>3, <1>5 DEF r

Put(fs, k, slot) == [fs EXCEPT ![k] = slot]

LEMMA PutFacts ==
    ASSUME NEW fs \in Seq(SlotType), NEW k \in DOMAIN fs, NEW slot \in SlotType
    PROVE  /\ Put(fs, k, slot) \in Seq(SlotType) /\ Len(Put(fs, k, slot)) = Len(fs)
           /\ DOMAIN Put(fs, k, slot) = DOMAIN fs /\ Put(fs, k, slot)[k] = slot
           /\ \A i \in DOMAIN fs \ {k} : Put(fs, k, slot)[i] = fs[i]
BY DEF Put

(* A poll of one slot keeps the queue in order. *)
LEMMA PutShape ==
    ASSUME NEW fs, NEW part, NEW index, Shape(fs, part, index, phase = "Closing"),
           NEW k \in DOMAIN fs, NEW later, Continues(later, fs[k])
    PROVE  Shape(Put(fs, k, later), part, index, phase = "Closing")
<1>1. /\ fs \in Seq(SlotType) /\ part \in {"none", "empty", "some"} /\ index \in 0..Len(fs)
      /\ \A i \in DOMAIN fs : Sound(fs[i]) /\ Placed(fs[i], i, index, phase = "Closing")
      /\ part # "none" => index < Len(fs) /\ ~(phase = "Closing")
  BY DEF Shape
<1>2. later \in SlotType /\ Sound(later)
  BY DEF Continues
<1>3. /\ Put(fs, k, later) \in Seq(SlotType) /\ Len(Put(fs, k, later)) = Len(fs)
      /\ DOMAIN Put(fs, k, later) = DOMAIN fs /\ Put(fs, k, later)[k] = later
      /\ \A i \in DOMAIN fs \ {k} : Put(fs, k, later)[i] = fs[i]
  <2>1. fs \in Seq(SlotType) /\ later \in SlotType /\ k \in DOMAIN fs
    BY <1>1, <1>2
  <2> QED BY ONLY <2>1, PutFacts, Zenon
<1>4. Placed(later, k, index, phase = "Closing")
  <2>1. Placed(fs[k], k, index, phase = "Closing")
    BY <1>1
  <2>2. /\ later.assigned = fs[k].assigned /\ later.capacity = fs[k].capacity
        /\ later.state \in {"Closing", "Closed"} =>
              \/ fs[k].state \in {"Closing", "Closed"}
              \/ fs[k].assigned = fs[k].capacity \/ phase = "Closing"
    BY DEF Continues, AllAssigned
  <2> QED BY <2>1, <2>2 DEF Placed
<1>5. ASSUME NEW i \in DOMAIN fs
      PROVE  Sound(Put(fs, k, later)[i]) /\ Placed(Put(fs, k, later)[i], i, index, phase = "Closing")
  <2>1. CASE i = k
    BY <1>2, <1>3, <1>4, <2>1
  <2>2. CASE i # k
    BY <1>1, <1>3, <2>2
  <2> QED BY <2>1, <2>2
<1> QED BY <1>1, <1>3, <1>5 DEF Shape

LEMMA PutUses ==
    ASSUME NEW fs, NEW part, NEW index, Shape(fs, part, index, phase = "Closing"),
           NEW k \in DOMAIN fs, NEW later, Continues(later, fs[k]),
           NEW released, Releases(released, later, fs[k]),
           NEW total, Uses(fs, part, index, total)
    PROVE  /\ released \in Nat /\ total \in Nat /\ released <= total
           /\ Uses(Put(fs, k, later), part, index, total - released)
<1> DEFINE old == ReservedOf(fs, part, index)
           new == ReservedOf(Put(fs, k, later), part, index)
           filling == part # "none" /\ k = index + 1
<1>1. /\ fs \in Seq(SlotType) /\ part \in {"none", "empty", "some"} /\ index \in 0..Len(fs)
      /\ Placed(fs[k], k, index, phase = "Closing")
      /\ part # "none" => ~(phase = "Closing")
  BY DEF Shape
<1>2. later \in SlotType
  BY DEF Continues
<1>3. /\ Put(fs, k, later) \in Seq(SlotType) /\ Len(Put(fs, k, later)) = Len(fs)
      /\ DOMAIN Put(fs, k, later) = DOMAIN fs /\ Put(fs, k, later)[k] = later
      /\ \A i \in DOMAIN fs \ {k} : Put(fs, k, later)[i] = fs[i]
  <2>1. fs \in Seq(SlotType) /\ later \in SlotType /\ k \in DOMAIN fs
    BY <1>1, <1>2
  <2> QED BY ONLY <2>1, PutFacts, Zenon
<1>4. /\ old \in Seq(Nat) /\ Len(old) = Len(fs) /\ DOMAIN old = DOMAIN fs
      /\ DOMAIN fs = 1..Len(fs) /\ Len(fs) \in Nat
      /\ \A i \in DOMAIN fs : old[i] = Reserves(fs[i], part # "none" /\ i = index + 1)
  BY <1>1, ReservedFacts
<1>5. /\ new \in Seq(Nat) /\ Len(new) = Len(fs) /\ DOMAIN new = DOMAIN fs
      /\ \A i \in DOMAIN fs :
            new[i] = Reserves(Put(fs, k, later)[i], part # "none" /\ i = index + 1)
  BY <1>3, ReservedFacts
<1>6. \A i \in DOMAIN old \ {k} : new[i] = old[i]
  BY <1>3, <1>4, <1>5
<1>7. old[k] = Reserves(fs[k], filling) /\ new[k] = Reserves(later, filling)
  BY <1>3, <1>4, <1>5
<1>8. filling \in BOOLEAN /\ (filling => fs[k].state # "Closing")
  <2>1. filling \in BOOLEAN
    OBVIOUS
  <2>2. ASSUME filling, fs[k].state = "Closing" PROVE FALSE
    <3>1. fs[k].assigned < fs[k].capacity /\ fs[k].assigned = fs[k].capacity
      BY <1>1, <2>2 DEF Placed
    <3>2. fs[k] \in SlotType
      BY <1>1
    <3>3. fs[k].assigned \in Nat /\ fs[k].capacity \in Nat
      BY <3>2, SlotFacts
    <3> DEFINE a == fs[k].assigned
               c == fs[k].capacity
    <3>4. a \in Nat /\ c \in Nat /\ a < c /\ a = c
      BY <3>1, <3>3
    <3> HIDE DEF a, c
    <3> QED BY <3>4
  <2> QED BY <2>1, <2>2
<1> HIDE DEF filling
<1>9. released \in Nat /\ Reserves(later, filling) + released = Reserves(fs[k], filling)
  BY <1>8 DEF Releases
<1> HIDE DEF old, new
<1>10. released \in Nat /\ new[k] + released = old[k] /\ new[k] \in Nat /\ old[k] \in Nat
  BY <1>4, <1>5, <1>7, <1>9
<1>11. PICK s : Adds(s, old, 0, index, total)
  BY DEF Uses, old
<1>12. k <= index + 1 \/ new[k] = old[k]
  <2>1. CASE k <= index + 1
    BY <2>1
  <2>2. CASE ~(k <= index + 1)
    <3>0. k \in Nat /\ index \in Nat
      BY <1>1, <1>4
    <3>1. k > index + 1 /\ k # index + 1
      BY <2>2, <3>0
    <3>2. fs[k].assigned = 0 /\ later.assigned = 0
      BY <1>1, <3>1 DEF Placed, Continues
    <3>3. Sound(fs[k]) /\ Sound(later)
      BY DEF Shape, Continues
    <3>4. /\ fs[k].state = "Idle" /\ later.state = "Idle"
          /\ fs[k].frames = <<>> /\ later.frames = <<>>
      BY <3>2, <3>3 DEF Sound
    <3>5. ~filling
      BY <3>1 DEF filling
    <3>6. fs[k] \in SlotType
      BY <1>1
    <3>7. Reserves(fs[k], filling) = Reserves(later, filling)
      <4>1. CASE Replay
        <5>1. fs[k].assigned = later.assigned /\ fs[k].capacity = later.capacity
          BY DEF Continues
        <5> QED BY <3>4, <3>5, <4>1, <5>1 DEF Reserves, Done
      <4>2. CASE ~Replay
        BY <3>4, <4>2 DEF Reserves
      <4> QED BY <4>1, <4>2
    <3> QED BY <1>7, <3>7
  <2> QED BY <2>1, <2>2
<1>13. DOMAIN old = 1..Len(old) /\ k \in DOMAIN old /\ total \in Nat /\ 0 + old[k] <= total
  BY <1>4, <1>11, AddsFacts, AddsAt
<1>14. released <= total
  BY <1>10, <1>13
<1>15. CASE k <= index + 1
  <2>1. Differs(new, old, k)
    BY <1>4, <1>5, <1>6 DEF Differs
  <2>2. Adds(Raised(s, k, new[k] - old[k]), new, 0, index, total + (new[k] - old[k]))
    BY <1>11, <1>13, <1>15, <2>1, AddsReplaced
  <2>3. total + (new[k] - old[k]) = total - released
    BY <1>10, <1>13
  <2>4. Adds(Raised(s, k, new[k] - old[k]), new, 0, index, total - released)
    BY <2>2, <2>3
  <2> QED BY <1>10, <1>13, <1>14, <2>4 DEF Uses, new
<1>16. CASE new[k] = old[k]
  <2>1. new = old
    <3>1. \A i \in 1..Len(old) : new[i] = old[i]
      BY <1>4, <1>6, <1>16
    <3>2. new \in Seq(Nat) /\ old \in Seq(Nat) /\ Len(new) = Len(old)
      BY <1>4, <1>5
    <3> QED BY ONLY <3>1, <3>2
  <2>2. total - released = total
    BY <1>10, <1>13, <1>16
  <2>3. Adds(s, new, 0, index, total - released)
    BY <1>11, <2>1, <2>2
  <2> QED BY <1>10, <1>13, <1>14, <2>3 DEF Uses, new
<1> QED BY <1>12, <1>15, <1>16

LEMMA PutHolds ==
    ASSUME NEW fs \in Seq(SlotType), NEW part, NEW index,
           NEW k \in DOMAIN fs, NEW later, Continues(later, fs[k]),
           NEW count, NEW back, Holds(fs, part, index, count, back)
    PROVE  Holds(Put(fs, k, later), part, index, count, back)
<1>1. PICK ends : Ends(ends, fs, part, index, count, back)
  BY DEF Holds
<1>2. later \in SlotType /\ later.assigned = fs[k].assigned /\ FramesOf(later) = FramesOf(fs[k])
  BY DEF Continues
<1>3. /\ Put(fs, k, later) \in Seq(SlotType) /\ Len(Put(fs, k, later)) = Len(fs)
      /\ DOMAIN Put(fs, k, later) = DOMAIN fs /\ Put(fs, k, later)[k] = later
      /\ \A i \in DOMAIN fs \ {k} : Put(fs, k, later)[i] = fs[i]
  BY <1>2, PutFacts, Zenon
<1>4. FileSizes(Put(fs, k, later)) = FileSizes(fs)
  <2>1. \A i \in DOMAIN fs : Put(fs, k, later)[i].assigned = fs[i].assigned
    BY <1>2, <1>3
  <2> QED BY <1>3, <2>1 DEF FileSizes
<1>5. \A i \in DOMAIN fs : FramesOf(Put(fs, k, later)[i]) = FramesOf(fs[i])
  BY <1>2, <1>3
<1>6. Ends(ends, Put(fs, k, later), part, index, count, back)
  BY <1>1, <1>3, <1>4, <1>5 DEF Ends
<1> QED BY <1>6 DEF Holds

(* What a partial frame needs from the budget, as part of its file. *)
NeededBy(slot) == IF ~Replay THEN 1 ELSE IF slot.assigned = 0 THEN slot.capacity ELSE 0

LEMMA FillSlotFacts ==
    ASSUME NEW fs, NEW part, NEW index, Shape(fs, part, index, FALSE), index < Len(fs)
    PROVE  /\ fs \in Seq(SlotType) /\ index + 1 \in DOMAIN fs /\ fs[index + 1] \in SlotType
           /\ Sound(fs[index + 1]) /\ Placed(fs[index + 1], index + 1, index, FALSE)
           /\ index \in Nat /\ index + 1 \in 1..Len(fs)
           /\ fs[index + 1].assigned < fs[index + 1].capacity
           /\ fs[index + 1].state \in {"Idle", "Opening", "Writing"}
<1>1. /\ fs \in Seq(SlotType) /\ index \in 0..Len(fs)
      /\ \A i \in DOMAIN fs : Sound(fs[i]) /\ Placed(fs[i], i, index, FALSE)
  BY DEF Shape
<1>2. Len(fs) \in Nat /\ DOMAIN fs = 1..Len(fs)
  BY <1>1
<1>3. index \in Nat /\ index + 1 \in 1..Len(fs)
  BY <1>1, <1>2
<1>4. fs[index + 1] \in SlotType /\ Sound(fs[index + 1])
      /\ Placed(fs[index + 1], index + 1, index, FALSE)
  <2>1. index + 1 \in DOMAIN fs
    BY <1>2, <1>3
  <2>2. fs[index + 1] \in SlotType
    BY <1>1, <2>1
  <2> QED BY <1>1, <2>1, <2>2
<1> DEFINE slot == fs[index + 1]
<1>5. slot.assigned < slot.capacity
      /\ (slot.state \in {"Closing", "Closed"} => slot.assigned = slot.capacity)
  BY <1>4 DEF Placed
<1>6. slot.assigned \in Nat /\ slot.capacity \in Nat
      /\ slot.state \in {"Idle", "Opening", "Writing", "Closing", "Closed"}
  BY <1>4, SlotFacts
<1>7. slot.assigned # slot.capacity
  <2> DEFINE a == slot.assigned
             c == slot.capacity
  <2>1. a \in Nat /\ c \in Nat /\ a < c
    BY <1>5, <1>6
  <2> HIDE DEF a, c
  <2>2. a # c
    BY <2>1
  <2> QED BY <2>2 DEF a, c
<1> QED BY <1>1, <1>2, <1>3, <1>4, <1>5, <1>6, <1>7

LEMMA FillSlotReserves ==
    ASSUME NEW fs, NEW part, NEW index, Shape(fs, part, index, FALSE), index < Len(fs)
    PROVE  /\ NeededBy(fs[index + 1]) \in Nat
           /\ Reserves(fs[index + 1], TRUE)
                 = Reserves(fs[index + 1], FALSE) + NeededBy(fs[index + 1])
<1> DEFINE slot == fs[index + 1]
           a == slot.assigned
           c == slot.capacity
           n == Len(slot.frames)
<1>1. slot \in SlotType /\ slot.state \in {"Idle", "Opening", "Writing"}
  BY FillSlotFacts
<1>2. a \in Nat /\ c \in Nat /\ n \in Nat
  BY <1>1, SlotFacts
<1>3. CASE Replay
  <2>1. ~Done(slot)
    BY <1>1 DEF Done
  <2>2. /\ Reserves(slot, TRUE) = c
        /\ Reserves(slot, FALSE) = IF a > 0 THEN c ELSE 0
        /\ NeededBy(slot) = IF a = 0 THEN c ELSE 0
    BY <1>3, <2>1 DEF Reserves, NeededBy
  <2> DEFINE x == Reserves(slot, TRUE)
             y == Reserves(slot, FALSE)
             z == NeededBy(slot)
  <2>3. x = c /\ y = (IF a > 0 THEN c ELSE 0) /\ z = (IF a = 0 THEN c ELSE 0)
    BY <2>2
  <2> HIDE DEF a, c, x, y, z
  <2>4. CASE a = 0
    <3>1. y = 0 /\ z = c
      BY <1>2, <2>3, <2>4
    <3>2. x = y + z /\ z \in Nat
      BY <1>2, <2>3, <3>1
    <3> QED BY <3>2 DEF x, y, z
  <2>5. CASE a # 0
    <3>1. y = c /\ z = 0
      BY <1>2, <2>3, <2>5
    <3>2. x = y + z /\ z \in Nat
      BY <1>2, <2>3, <3>1
    <3> QED BY <3>2 DEF x, y, z
  <2> QED BY <2>4, <2>5
<1>4. CASE ~Replay
  <2> DEFINE x == Reserves(slot, TRUE)
             y == Reserves(slot, FALSE)
             z == NeededBy(slot)
  <2>1. x = n + 1 /\ y = n + 0 /\ z = 1
    BY <1>4 DEF Reserves, NeededBy
  <2> HIDE DEF n, x, y, z
  <2>2. x = y + z /\ z \in Nat
    BY <1>2, <2>1
  <2> QED BY <2>2 DEF x, y, z
<1> QED BY <1>3, <1>4

(* The frame that is being filled is reserved, or reserved no more. *)
FillReserves(slot, part) == Reserves(slot, part # "none")

LEMMA FillSlotUses ==
    ASSUME NEW fs, NEW part, NEW index, Shape(fs, part, index, FALSE), index < Len(fs),
           NEW later, NEW total, Uses(fs, part, index, total),
           NEW size, size = FillReserves(fs[index + 1], later),
           NEW was, was = FillReserves(fs[index + 1], part)
    PROVE  /\ total \in Nat /\ size \in Nat /\ was \in Nat /\ was <= total
           /\ Uses(fs, later, index, total + (size - was))
<1> DEFINE old == ReservedOf(fs, part, index)
           new == ReservedOf(fs, later, index)
           k == index + 1
<1>1. fs \in Seq(SlotType) /\ k \in DOMAIN fs /\ index \in Nat /\ fs[k] \in SlotType
  BY FillSlotFacts
<1>2. /\ old \in Seq(Nat) /\ Len(old) = Len(fs) /\ DOMAIN old = DOMAIN fs
      /\ \A i \in DOMAIN fs : old[i] = Reserves(fs[i], part # "none" /\ i = index + 1)
  BY <1>1, ReservedFacts
<1>3. /\ new \in Seq(Nat) /\ Len(new) = Len(fs) /\ DOMAIN new = DOMAIN fs
      /\ \A i \in DOMAIN fs : new[i] = Reserves(fs[i], later # "none" /\ i = index + 1)
  BY <1>1, ReservedFacts
<1>4. old[k] = was /\ new[k] = size
  <2>1. (part # "none" /\ k = index + 1) = (part # "none")
    OBVIOUS
  <2>2. (later # "none" /\ k = index + 1) = (later # "none")
    OBVIOUS
  <2> QED BY <1>1, <1>2, <1>3, <2>1, <2>2 DEF FillReserves
<1>5. ASSUME NEW i \in DOMAIN old \ {k} PROVE new[i] = old[i]
  <2>1. (part # "none" /\ i = index + 1) = FALSE /\ (later # "none" /\ i = index + 1) = FALSE
    OBVIOUS
  <2> QED BY <1>2, <1>3, <2>1
<1>6. PICK s : Adds(s, old, 0, index, total)
  BY DEF Uses
<1>7. k <= index + 1
  BY <1>1
<1>8. old[k] \in Nat /\ new[k] \in Nat
  BY <1>1, <1>2, <1>3
<1> HIDE DEF old, new, k
<1>9. Differs(new, old, k) /\ k \in DOMAIN old
  BY <1>1, <1>2, <1>3, <1>5 DEF Differs
<1>10. Adds(Raised(s, k, new[k] - old[k]), new, 0, index, total + (new[k] - old[k]))
  BY <1>6, <1>7, <1>9, AddsReplaced
<1>11. total \in Nat /\ old[k] <= total
  BY <1>6, <1>8, <1>9, AddsFacts, AddsAt
<1>12. Uses(fs, later, index, total + (size - was))
  BY <1>4, <1>10 DEF Uses, new
<1> QED BY <1>4, <1>8, <1>11, <1>12

LEMMA Allocated ==
    ASSUME NEW fs, NEW index, Shape(fs, "none", index, FALSE), index < Len(fs),
           NEW total, Uses(fs, "none", index, total)
    PROVE  /\ total \in Nat /\ NeededBy(fs[index + 1]) \in Nat
           /\ Shape(fs, "empty", index, FALSE)
           /\ Uses(fs, "empty", index, total + NeededBy(fs[index + 1]))
<1> DEFINE needed == NeededBy(fs[index + 1])
           size == Reserves(fs[index + 1], TRUE)
           was == Reserves(fs[index + 1], FALSE)
<1>1. needed \in Nat /\ size = was + needed
  BY FillSlotReserves
<1>2. /\ total \in Nat /\ size \in Nat /\ was \in Nat
      /\ Uses(fs, "empty", index, total + (size - was))
  <2>1. size = FillReserves(fs[index + 1], "empty") /\ was = FillReserves(fs[index + 1], "none")
    BY DEF FillReserves
  <2> HIDE DEF size, was
  <2> QED BY <2>1, FillSlotUses, Zenon
<1>3. Shape(fs, "empty", index, FALSE)
  BY DEF Shape
<1> HIDE DEF needed, size, was
<1>4. total + (size - was) = total + needed
  BY <1>1, <1>2
<1> QED BY <1>1, <1>2, <1>3, <1>4 DEF needed

LEMMA Unallocated ==
    ASSUME NEW fs, NEW index, Shape(fs, "empty", index, FALSE),
           NEW total, Uses(fs, "empty", index, total)
    PROVE  /\ total \in Nat /\ NeededBy(fs[index + 1]) \in Nat
           /\ NeededBy(fs[index + 1]) <= total
           /\ Shape(fs, "none", index, FALSE)
           /\ Uses(fs, "none", index, total - NeededBy(fs[index + 1]))
<1> DEFINE needed == NeededBy(fs[index + 1])
           was == Reserves(fs[index + 1], TRUE)
           size == Reserves(fs[index + 1], FALSE)
<1>0. index < Len(fs)
  BY DEF Shape
<1>1. needed \in Nat /\ was = size + needed
  BY <1>0, FillSlotReserves
<1>2. /\ total \in Nat /\ size \in Nat /\ was \in Nat /\ was <= total
      /\ Uses(fs, "none", index, total + (size - was))
  <2>1. was = FillReserves(fs[index + 1], "empty") /\ size = FillReserves(fs[index + 1], "none")
    BY DEF FillReserves
  <2> HIDE DEF size, was
  <2> QED BY <1>0, <2>1, FillSlotUses, Zenon
<1>3. Shape(fs, "none", index, FALSE)
  BY DEF Shape
<1> HIDE DEF needed, size, was
<1>4. total + (size - was) = total - needed /\ needed <= total
  BY <1>1, <1>2
<1> QED BY <1>1, <1>2, <1>3, <1>4 DEF needed

(* Input arrives in an empty partial frame. *)
LEMMA FrameStarts ==
    ASSUME NEW fs, NEW index, Shape(fs, "empty", index, FALSE),
           NEW total, Uses(fs, "empty", index, total),
           NEW count, NEW back, Holds(fs, "empty", index, count, back), count + 1 <= MaxFrames
    PROVE  /\ Shape(fs, "some", index, FALSE) /\ Uses(fs, "some", index, total)
           /\ Holds(fs, "some", index, count + 1, back)
<1>1. Shape(fs, "some", index, FALSE)
  BY DEF Shape
<1>2. ReservedOf(fs, "some", index) = ReservedOf(fs, "empty", index)
  BY DEF ReservedOf
<1>3. Uses(fs, "some", index, total)
  BY <1>2 DEF Uses
<1>4. count \in 0..MaxFrames /\ MaxFrames \in Nat
  BY WriterAssumption DEF Holds
<1>5. count + 1 \in 0..MaxFrames /\ count + 1 > 0 /\ (count + 1) - 1 = count
  BY <1>4
<1>6. StartedOf("some", count + 1) = StartedOf("empty", count)
  BY <1>5 DEF StartedOf
<1>7. Holds(fs, "some", index, count + 1, back)
  BY <1>5, <1>6 DEF Holds, Ends
<1> QED BY <1>1, <1>3, <1>7

(* The partial frame goes to its file. *)
FlushedSlot(slot, frame) ==
    [slot EXCEPT !.frames = Append(@, frame), !.assigned = @ + 1,
                 !.state = IF slot.assigned = 0 THEN "Opening" ELSE @]

NextIndex(slot, index) == IF slot.assigned + 1 = slot.capacity THEN index + 1 ELSE index

LEMMA FlushedSlotFacts ==
    ASSUME NEW slot \in SlotType, Sound(slot), slot.assigned < slot.capacity,
           slot.state \in {"Idle", "Opening", "Writing"}, NEW frame \in 1..MaxFrames
    PROVE  /\ FlushedSlot(slot, frame) \in SlotType /\ Sound(FlushedSlot(slot, frame))
           /\ FlushedSlot(slot, frame).assigned = slot.assigned + 1
           /\ FlushedSlot(slot, frame).capacity = slot.capacity
           /\ FlushedSlot(slot, frame).state \in {"Opening", "Writing"}
           /\ FramesOf(FlushedSlot(slot, frame)) = Append(FramesOf(slot), frame)
           /\ Reserves(FlushedSlot(slot, frame), FALSE) = Reserves(slot, TRUE)
<1> DEFINE a == slot.assigned
           c == slot.capacity
           f == slot.frames
           w == slot.written
           more == a + 1
           longer == Append(f, frame)
           state == IF a = 0 THEN "Opening" ELSE slot.state
           later == [slot EXCEPT !.frames = longer, !.assigned = more, !.state = state]
<1>0. FlushedSlot(slot, frame) = later
  BY DEF FlushedSlot
<1>1. /\ a \in Nat /\ c \in Nat \ {0} /\ w \in Nat /\ f \in Seq(1..MaxFrames)
      /\ slot.content \in Seq(1..MaxFrames)
  BY SlotFacts
<1>a. a < c /\ w <= a /\ (a = 0 <=> slot.state = "Idle") /\ (a = 0 => f = <<>>)
      /\ (a = 0 => slot.content = <<>>)
  BY DEF Sound
<1>2. state \in {"Opening", "Writing"} /\ (state = "Writing" => slot.state = "Writing")
      /\ (state = "Opening" => slot.state \in {"Idle", "Opening"})
  BY <1>a
<1>3. longer \in Seq(1..MaxFrames) /\ Len(longer) = Len(f) + 1 /\ Len(f) \in Nat
  BY <1>1
<1> HIDE DEF a, c, w
<1>4. more \in Nat /\ more <= c /\ w <= more /\ more # 0 /\ more > 0
  BY <1>1, <1>a
<1> HIDE DEF more, state, f
<1>l. longer = Append(f, frame)
  OBVIOUS
<1> HIDE DEF longer
<1>5. later \in SlotType
  <2>1. state \in {"Idle", "Opening", "Writing", "Closing", "Closed"}
    BY <1>2
  <2> QED BY <1>3, <1>4, <2>1 DEF SlotType
<1>6. /\ later.state = state /\ later.frames = longer /\ later.content = slot.content
      /\ later.capacity = c /\ later.assigned = more /\ later.written = w
  BY DEF SlotType, c, w
<1> HIDE DEF later
<1>7. FramesOf(later) = Append(FramesOf(slot), frame)
  <2>1. ~Done(slot) /\ ~Done(later)
    BY <1>2, <1>6 DEF Done
  <2>2. CASE Replay
    BY <1>6, <2>1, <2>2, <1>l DEF FramesOf, f
  <2>3. CASE ~Replay
    <3>1. slot.content \o Append(f, frame) = Append(slot.content \o f, frame)
      <4> DEFINE g == slot.content
      <4>1. g \in Seq(1..MaxFrames) /\ f \in Seq(1..MaxFrames) /\ frame \in 1..MaxFrames
        BY <1>1
      <4> HIDE DEF g
      <4>2. g \o Append(f, frame) = Append(g \o f, frame)
        BY <4>1
      <4> QED BY <4>2 DEF g
    <3> QED BY <1>6, <1>l, <2>1, <2>3, <3>1 DEF FramesOf, f
  <2> QED BY <2>2, <2>3
<1>8. Len(FramesOf(later)) = more
  <2>1. Len(FramesOf(slot)) = a
    BY DEF Sound, a
  <2>2. FramesOf(slot) \in Seq(1..MaxFrames)
    <3>1. slot.content \in Seq(1..MaxFrames) /\ slot.frames \in Seq(1..MaxFrames)
      BY <1>1 DEF f
    <3>2. slot.content \o slot.frames \in Seq(1..MaxFrames)
      BY <3>1
    <3> QED BY <3>1, <3>2 DEF FramesOf
  <2>3. Len(Append(FramesOf(slot), frame)) = Len(FramesOf(slot)) + 1
    BY <2>2
  <2> QED BY <1>7, <2>1, <2>3 DEF more
<1>9. state = "Writing" => Len(slot.content) = w /\ (Replay => slot.content = SubSeq(longer, 1, w))
  <2> SUFFICES ASSUME state = "Writing"
               PROVE  Len(slot.content) = w /\ (Replay => slot.content = SubSeq(longer, 1, w))
    OBVIOUS
  <2>1. slot.state = "Writing"
    BY <1>2
  <2>2. Len(slot.content) = w /\ (Replay => slot.content = SubSeq(f, 1, w))
    BY <2>1 DEF Sound, f, w
  <2>3. ASSUME Replay PROVE SubSeq(longer, 1, w) = SubSeq(f, 1, w)
    <3>1. FramesOf(slot) = f /\ Len(FramesOf(slot)) = a
      BY <2>1, <2>3 DEF FramesOf, f, a, Done, Sound
    <3>2. w <= Len(f)
      BY <1>a, <3>1
    <3> QED BY <1>1, <1>l, <3>2, PrefixStays
  <2> QED BY <2>2, <2>3
<1>10. state = "Opening" => w = 0 /\ (~Replay => slot.content = <<>>)
  <2>1. slot.state \in {"Idle", "Opening"} => w = 0 /\ (~Replay => slot.content = <<>>)
    BY DEF Sound, w
  <2> QED BY <1>2, <2>1
<1>11. Sound(later)
  <2>1. /\ later.assigned <= later.capacity /\ later.written <= later.assigned
        /\ later.assigned # 0 /\ Len(FramesOf(later)) = later.assigned
    BY <1>4, <1>6, <1>8
  <2>2. later.state \in {"Opening", "Writing"}
    BY <1>2, <1>6
  <2>3. later.state = "Opening" => later.written = 0 /\ (~Replay => later.content = <<>>)
    BY <1>6, <1>10
  <2>4. later.state = "Writing" =>
           Len(later.content) = later.written
           /\ (Replay => later.content = SubSeq(later.frames, 1, later.written))
    BY <1>6, <1>9
  <2> QED BY <2>1, <2>2, <2>3, <2>4 DEF Sound
<1>12. Reserves(later, FALSE) = Reserves(slot, TRUE)
  <2>1. CASE Replay
    <3>1. ~Done(slot) /\ ~Done(later)
      BY <1>2, <1>6 DEF Done
    <3> QED BY <1>4, <1>6, <2>1, <3>1 DEF Reserves, c
  <2>2. CASE ~Replay
    <3> DEFINE m == Len(longer)
               n == Len(f)
               x == Reserves(later, FALSE)
               y == Reserves(slot, TRUE)
    <3>1. m = n + 1 /\ n \in Nat
      BY <1>3
    <3>2. x = m + 0 /\ y = n + 1
      BY <1>6, <2>2 DEF Reserves, f
    <3> HIDE DEF m, n, x, y
    <3>3. x = y
      BY <3>1, <3>2
    <3> QED BY <3>3 DEF x, y
  <2> QED BY <2>1, <2>2
<1> QED BY <1>0, <1>2, <1>5, <1>6, <1>7, <1>11, <1>12 DEF a, c, more

FlushedQueue(fs, index, frame) == Put(fs, index + 1, FlushedSlot(fs[index + 1], frame))

LEMMA FlushedFacts ==
    ASSUME NEW fs, NEW part, NEW index, Shape(fs, part, index, FALSE), index < Len(fs),
           NEW frame \in 1..MaxFrames
    PROVE  /\ FlushedQueue(fs, index, frame) \in Seq(SlotType)
           /\ Len(FlushedQueue(fs, index, frame)) = Len(fs)
           /\ DOMAIN FlushedQueue(fs, index, frame) = DOMAIN fs
           /\ FlushedQueue(fs, index, frame)[index + 1] = FlushedSlot(fs[index + 1], frame)
           /\ \A i \in DOMAIN fs \ {index + 1} : FlushedQueue(fs, index, frame)[i] = fs[i]
           /\ NextIndex(fs[index + 1], index) \in {index, index + 1}
<1>1. /\ fs \in Seq(SlotType) /\ index + 1 \in DOMAIN fs /\ fs[index + 1] \in SlotType
      /\ Sound(fs[index + 1]) /\ fs[index + 1].assigned < fs[index + 1].capacity
      /\ fs[index + 1].state \in {"Idle", "Opening", "Writing"}
  BY FillSlotFacts
<1>2. FlushedSlot(fs[index + 1], frame) \in SlotType
  BY <1>1, FlushedSlotFacts
<1>3. NextIndex(fs[index + 1], index) \in {index, index + 1}
  BY DEF NextIndex
<1>4. FlushedQueue(fs, index, frame) = Put(fs, index + 1, FlushedSlot(fs[index + 1], frame))
  BY DEF FlushedQueue
<1> DEFINE k == index + 1
           later == FlushedSlot(fs[index + 1], frame)
<1>5. fs \in Seq(SlotType) /\ k \in DOMAIN fs /\ later \in SlotType
  BY <1>1, <1>2
<1>6. /\ Put(fs, k, later) \in Seq(SlotType) /\ Len(Put(fs, k, later)) = Len(fs)
      /\ DOMAIN Put(fs, k, later) = DOMAIN fs /\ Put(fs, k, later)[k] = later
      /\ \A i \in DOMAIN fs \ {k} : Put(fs, k, later)[i] = fs[i]
  <2> HIDE DEF k, later
  <2> QED BY ONLY <1>5, PutFacts, Zenon
<1> QED BY <1>3, <1>4, <1>6, Zenon

LEMMA FlushedShape ==
    ASSUME NEW fs, NEW index, Shape(fs, "some", index, FALSE), NEW frame \in 1..MaxFrames
    PROVE  Shape(FlushedQueue(fs, index, frame), "none", NextIndex(fs[index + 1], index), FALSE)
<1> DEFINE k == index + 1
           later == FlushedSlot(fs[k], frame)
           queue == FlushedQueue(fs, index, frame)
           next == NextIndex(fs[k], index)
<1>1. /\ fs \in Seq(SlotType) /\ index \in 0..Len(fs) /\ index < Len(fs)
      /\ \A i \in DOMAIN fs : Sound(fs[i]) /\ Placed(fs[i], i, index, FALSE)
  BY DEF Shape
<1>2. /\ k \in DOMAIN fs /\ fs[k] \in SlotType /\ index \in Nat
      /\ Sound(fs[k]) /\ fs[k].assigned < fs[k].capacity
      /\ fs[k].state \in {"Idle", "Opening", "Writing"}
  BY <1>1, FillSlotFacts
<1>3. /\ later \in SlotType /\ Sound(later) /\ later.assigned = fs[k].assigned + 1
      /\ later.capacity = fs[k].capacity /\ later.state \in {"Opening", "Writing"}
  BY <1>2, FlushedSlotFacts
<1>4. /\ queue \in Seq(SlotType) /\ Len(queue) = Len(fs) /\ DOMAIN queue = DOMAIN fs
      /\ queue[k] = later /\ next \in {index, k}
      /\ \A i \in DOMAIN fs \ {k} : queue[i] = fs[i]
  <2>1. Shape(fs, "some", index, FALSE) /\ index < Len(fs) /\ frame \in 1..MaxFrames
    BY <1>1
  <2>2. /\ FlushedQueue(fs, index, frame) \in Seq(SlotType)
        /\ Len(FlushedQueue(fs, index, frame)) = Len(fs)
        /\ DOMAIN FlushedQueue(fs, index, frame) = DOMAIN fs
        /\ FlushedQueue(fs, index, frame)[index + 1] = FlushedSlot(fs[index + 1], frame)
        /\ \A i \in DOMAIN fs \ {index + 1} : FlushedQueue(fs, index, frame)[i] = fs[i]
        /\ NextIndex(fs[index + 1], index) \in {index, index + 1}
    BY <2>1, FlushedFacts, Zenon
  <2> QED BY <2>2
<1>5. \A i \in DOMAIN fs : i \in Nat
  BY <1>1
<1>6. fs[k].assigned \in Nat /\ fs[k].capacity \in Nat
  BY <1>2, SlotFacts
<1>7. /\ next = k => later.assigned = later.capacity
      /\ next = index => later.assigned < later.capacity
  <2> DEFINE a == fs[k].assigned
             c == fs[k].capacity
  <2>1. a \in Nat /\ c \in Nat /\ a < c /\ index + 1 # index
    BY <1>2, <1>6
  <2>2. next = IF a + 1 = c THEN index + 1 ELSE index
    BY DEF NextIndex
  <2>3. later.assigned = a + 1 /\ later.capacity = c
    BY <1>3
  <2> HIDE DEF a, c, next, later
  <2> QED BY <2>1, <2>2, <2>3 DEF k
<1>8. Placed(later, k, next, FALSE)
  <2>1. next = k \/ next = index
    BY <1>4
  <2> HIDE DEF next, later
  <2>2. CASE next = k
    <3>1. k # next + 1 /\ ~(k > next + 1)
      BY <1>2, <2>2
    <3> QED BY <1>3, <1>7, <2>2, <3>1 DEF Placed
  <2>3. CASE next = index
    <3>1. ~(k <= next) /\ ~(k > next + 1)
      BY <1>2, <2>3
    <3> QED BY <1>3, <1>7, <2>3, <3>1 DEF Placed
  <2> QED BY <2>1, <2>2, <2>3
<1>9. ASSUME NEW i \in DOMAIN fs, i # k PROVE Placed(fs[i], i, next, FALSE)
  <2>1. Placed(fs[i], i, index, FALSE) /\ i \in Nat
    BY <1>1, <1>5
  <2>2. fs[i] \in SlotType
    BY <1>1
  <2>3. 0 < fs[i].capacity
    <3> DEFINE c == fs[i].capacity
    <3>1. c \in Nat \ {0}
      BY <2>2, SlotFacts
    <3> HIDE DEF c
    <3>2. 0 < c
      BY <3>1
    <3> QED BY <3>2 DEF c
  <2>4. CASE i <= index
    <3>1. i <= next /\ i # next + 1 /\ ~(i > next + 1)
      BY <1>2, <1>4, <2>1, <2>4
    <3> QED BY <2>1, <2>4, <3>1 DEF Placed
  <2>5. CASE ~(i <= index)
    <3>1. i > index + 1 /\ ~(i <= next)
      BY <1>2, <1>4, <1>9, <2>1, <2>5
    <3>2. fs[i].assigned = 0
      BY <2>1, <3>1 DEF Placed
    <3> QED BY <2>1, <2>3, <3>1, <3>2 DEF Placed
  <2> QED BY <2>4, <2>5
<1>10. ASSUME NEW i \in DOMAIN queue PROVE Sound(queue[i]) /\ Placed(queue[i], i, next, FALSE)
  <2>1. CASE i = k
    BY <1>3, <1>4, <1>8, <2>1
  <2>2. CASE i # k
    BY <1>1, <1>4, <1>9, <2>2
  <2> QED BY <2>1, <2>2
<1>11. next \in 0..Len(queue)
  <2> DEFINE n == Len(fs)
  <2>1. n \in Nat /\ index \in Nat /\ index < n /\ Len(queue) = n
    BY <1>1, <1>2, <1>4
  <2>2. next = index \/ next = index + 1
    BY <1>4
  <2> HIDE DEF n, next, queue
  <2>3. next \in 0..n
    BY <2>1, <2>2
  <2> QED BY <2>1, <2>3
<1> QED BY <1>4, <1>10, <1>11 DEF Shape

LEMMA FlushedUses ==
    ASSUME NEW fs, NEW index, Shape(fs, "some", index, FALSE), NEW frame \in 1..MaxFrames,
           NEW total, Uses(fs, "some", index, total)
    PROVE  Uses(FlushedQueue(fs, index, frame), "none", NextIndex(fs[index + 1], index), total)
<1> DEFINE k == index + 1
           later == FlushedSlot(fs[k], frame)
           queue == FlushedQueue(fs, index, frame)
           next == NextIndex(fs[k], index)
           old == ReservedOf(fs, "some", index)
           new == ReservedOf(queue, "none", next)
<1>1. fs \in Seq(SlotType) /\ index \in 0..Len(fs) /\ index < Len(fs)
  BY DEF Shape
<1>2. /\ k \in DOMAIN fs /\ fs[k] \in SlotType /\ index \in Nat
      /\ Sound(fs[k]) /\ fs[k].assigned < fs[k].capacity
      /\ fs[k].state \in {"Idle", "Opening", "Writing"}
  BY <1>1, FillSlotFacts
<1>3. Reserves(later, FALSE) = Reserves(fs[k], TRUE)
  BY <1>2, FlushedSlotFacts
<1>4. /\ queue \in Seq(SlotType) /\ DOMAIN queue = DOMAIN fs
      /\ queue[k] = later /\ next \in {index, k}
      /\ \A i \in DOMAIN fs \ {k} : queue[i] = fs[i]
  <2>1. Shape(fs, "some", index, FALSE) /\ index < Len(fs) /\ frame \in 1..MaxFrames
    BY <1>1
  <2>2. /\ FlushedQueue(fs, index, frame) \in Seq(SlotType)
        /\ Len(FlushedQueue(fs, index, frame)) = Len(fs)
        /\ DOMAIN FlushedQueue(fs, index, frame) = DOMAIN fs
        /\ FlushedQueue(fs, index, frame)[index + 1] = FlushedSlot(fs[index + 1], frame)
        /\ \A i \in DOMAIN fs \ {index + 1} : FlushedQueue(fs, index, frame)[i] = fs[i]
        /\ NextIndex(fs[index + 1], index) \in {index, index + 1}
    BY <2>1, FlushedFacts, Zenon
  <2> QED BY <2>2
<1>5. DOMAIN old = DOMAIN fs /\ DOMAIN new = DOMAIN fs
  BY <1>1, <1>4 DEF ReservedOf
<1>6. ASSUME NEW i \in DOMAIN fs PROVE new[i] = old[i]
  <2>1. new[i] = Reserves(queue[i], "none" # "none" /\ i = next + 1)
    BY <1>4, <1>5 DEF ReservedOf
  <2>2. old[i] = Reserves(fs[i], "some" # "none" /\ i = index + 1)
    BY <1>5 DEF ReservedOf
  <2>3. ("none" # "none" /\ i = next + 1) = FALSE
    OBVIOUS
  <2>4. CASE i = k
    <3>1. ("some" # "none" /\ i = index + 1) = TRUE
      BY <2>4
    <3> QED BY <1>3, <1>4, <2>1, <2>2, <2>3, <2>4, <3>1
  <2>5. CASE i # k
    <3>1. ("some" # "none" /\ i = index + 1) = FALSE
      BY <2>5
    <3> QED BY <1>4, <2>1, <2>2, <2>3, <2>5, <3>1
  <2> QED BY <2>4, <2>5
<1>7. new = old
  <2>1. /\ new = [i \in DOMAIN queue |-> new[i]] /\ old = [i \in DOMAIN fs |-> old[i]]
    BY DEF ReservedOf
  <2> HIDE DEF new, old
  <2> QED BY <1>4, <1>6, <2>1
<1>8. PICK s : Adds(s, old, 0, index, total)
  BY DEF Uses
<1>9. next \in Nat /\ index <= next
  BY <1>2, <1>4
<1> HIDE DEF new, old, next
<1>10. Adds(s, new, 0, next, total)
  BY <1>7, <1>8, <1>9, AddsFurther
<1> QED BY <1>10 DEF Uses, new, next

LEMMA NumbersNone ==
    ASSUME NEW a \in Nat, NEW b \in Nat
    PROVE  Numbers(a, a) = Numbers(b, b) /\ Numbers(a, a) = <<>>
<1>1. \A n \in Nat : n - n = 0
  OBVIOUS
<1>2. Numbers(a, a) = [k \in 1..0 |-> a + k] /\ Numbers(b, b) = [k \in 1..0 |-> b + k]
  BY <1>1 DEF Numbers
<1>3. \A k \in 1..0 : FALSE
  OBVIOUS
<1> QED BY <1>2, <1>3

LEMMA FlushedHolds ==
    ASSUME NEW fs, NEW index, Shape(fs, "some", index, FALSE),
           NEW count, NEW back, Holds(fs, "some", index, count, back)
    PROVE  /\ count \in 1..MaxFrames
           /\ Holds(FlushedQueue(fs, index, count), "none", NextIndex(fs[index + 1], index),
                    count, back)
<1> DEFINE k == index + 1
           later == FlushedSlot(fs[k], count)
           queue == FlushedQueue(fs, index, count)
           next == NextIndex(fs[k], index)
           old == FileSizes(fs)
           new == FileSizes(queue)
           base == Len(back)
<1>0. /\ count \in 1..MaxFrames /\ count \in 0..MaxFrames /\ count - 1 \in Nat /\ count \in Nat
      /\ (count - 1) + 1 = count /\ back \in Seq(1..MaxFrames) /\ back = Numbers(0, Len(back))
  BY WriterAssumption DEF Holds
<1>1. fs \in Seq(SlotType) /\ index \in 0..Len(fs) /\ index < Len(fs)
  BY DEF Shape
<1>2. /\ k \in DOMAIN fs /\ fs[k] \in SlotType /\ index \in Nat
      /\ Sound(fs[k]) /\ fs[k].assigned < fs[k].capacity
      /\ fs[k].state \in {"Idle", "Opening", "Writing"}
  BY <1>1, FillSlotFacts
<1>3. /\ later \in SlotType /\ later.assigned = fs[k].assigned + 1
      /\ FramesOf(later) = Append(FramesOf(fs[k]), count)
  BY <1>0, <1>2, FlushedSlotFacts
<1>4. /\ queue \in Seq(SlotType) /\ DOMAIN queue = DOMAIN fs /\ Len(queue) = Len(fs)
      /\ queue[k] = later /\ next \in {index, k}
      /\ \A i \in DOMAIN fs \ {k} : queue[i] = fs[i]
  <2>1. Shape(fs, "some", index, FALSE) /\ index < Len(fs) /\ count \in 1..MaxFrames
    BY <1>0, <1>1
  <2>2. /\ FlushedQueue(fs, index, count) \in Seq(SlotType)
        /\ Len(FlushedQueue(fs, index, count)) = Len(fs)
        /\ DOMAIN FlushedQueue(fs, index, count) = DOMAIN fs
        /\ FlushedQueue(fs, index, count)[index + 1] = FlushedSlot(fs[index + 1], count)
        /\ \A i \in DOMAIN fs \ {index + 1} : FlushedQueue(fs, index, count)[i] = fs[i]
        /\ NextIndex(fs[index + 1], index) \in {index, index + 1}
    BY <2>1, FlushedFacts, Zenon
  <2> QED BY <2>2
<1>5. PICK ends : Ends(ends, fs, "some", index, count, back)
  BY DEF Holds
<1>6. /\ Adds(ends, old, base, index, count - 1)
      /\ \A i \in DOMAIN fs : FramesOf(fs[i]) = Numbers(ends[i - 1], ends[i])
  BY <1>5 DEF Ends, StartedOf
<1>7. /\ old \in Seq(Nat) /\ Len(old) = Len(fs) /\ DOMAIN old = DOMAIN fs
      /\ DOMAIN fs = 1..Len(fs) /\ Len(fs) \in Nat
      /\ \A i \in DOMAIN fs : old[i] = fs[i].assigned
  BY <1>1, SizesFacts
<1>8. /\ new \in Seq(Nat) /\ Len(new) = Len(fs) /\ DOMAIN new = DOMAIN fs
      /\ \A i \in DOMAIN fs : new[i] = queue[i].assigned
  BY <1>4, SizesFacts
<1>9. old[k] = fs[k].assigned /\ new[k] = fs[k].assigned + 1
      /\ \A i \in DOMAIN old \ {k} : new[i] = old[i]
  BY <1>2, <1>3, <1>4, <1>7, <1>8
<1>10. fs[k].assigned \in Nat
  BY <1>2, SlotFacts
<1>d. new[k] - old[k] = 1
  <2> DEFINE a == fs[k].assigned
  <2>1. old[k] = a /\ new[k] = a + 1 /\ a \in Nat
    BY <1>9, <1>10
  <2> HIDE DEF a, old, new
  <2> QED BY <2>1
<1>11. Differs(new, old, k) /\ k \in DOMAIN old /\ k <= index + 1
  BY <1>2, <1>7, <1>8, <1>9 DEF Differs
<1>q. queue = FlushedQueue(fs, index, count) /\ next \in Nat /\ index <= next /\ k \in Nat
      /\ index + 1 = k
  BY <1>2, <1>4
<1> HIDE DEF later, queue, next, old, new, base, k
<1>12. Adds(Raised(ends, k, 1), new, base, index, count)
  <2>1. Adds(Raised(ends, k, new[k] - old[k]), new, base, index, (count - 1) + (new[k] - old[k]))
    BY <1>6, <1>11, AddsReplaced
  <2> QED BY <1>0, <1>d, <2>1
<1>13. Adds(Raised(ends, k, 1), new, base, next, count)
  BY <1>12, <1>q, AddsFurther
<1>14. /\ DOMAIN ends = 0..Len(fs) /\ base <= count - 1 /\ base \in Nat
       /\ \A i \in 0..Len(fs) : ends[i] \in Nat /\ ends[i] <= count - 1
       /\ \A i \in 1..Len(fs) : i > index => ends[i] = count - 1
  <2>1. Len(old) = Len(fs) /\ Adds(ends, old, base, index, count - 1)
    BY <1>6, <1>7
  <2>2. /\ DOMAIN ends = 0..Len(old) /\ base <= count - 1 /\ base \in Nat
        /\ \A i \in 0..Len(old) : ends[i] \in Nat /\ base <= ends[i] /\ ends[i] <= count - 1
        /\ \A i \in 1..Len(old) : i > index => ends[i] = count - 1
    BY <2>1, AddsFacts
  <2> QED BY <2>1, <2>2
<1>15. ASSUME NEW i \in DOMAIN fs
       PROVE  FramesOf(queue[i]) = Numbers(Raised(ends, k, 1)[i - 1], Raised(ends, k, 1)[i])
  <2>0. i \in Nat /\ i \in 1..Len(fs) /\ i \in 0..Len(fs) /\ i - 1 \in 0..Len(fs)
    BY <1>7
  <2>1. /\ Raised(ends, k, 1)[i] = IF i < k THEN ends[i] ELSE ends[i] + 1
        /\ Raised(ends, k, 1)[i - 1] = IF i - 1 < k THEN ends[i - 1] ELSE ends[i - 1] + 1
    BY <1>14, <2>0 DEF Raised
  <2>2. CASE i < k
    <3>1. i - 1 < k /\ i # k
      BY <1>q, <2>0, <2>2
    <3> QED BY <1>4, <1>6, <2>1, <2>2, <3>1
  <2>3. CASE i = k
    <3>1. i - 1 < k /\ ~(i < k) /\ i > index
      BY <1>q, <1>2, <2>0, <2>3
    <3>2. ends[i] = count - 1 /\ ends[i - 1] \in Nat /\ ends[i - 1] <= count - 1
      BY <1>14, <2>0, <3>1
    <3>3. Append(Numbers(ends[i - 1], count - 1), (count - 1) + 1)
             = Numbers(ends[i - 1], (count - 1) + 1)
      BY <1>0, <3>2, NumbersNext
    <3>4. FramesOf(queue[i]) = Append(Numbers(ends[i - 1], ends[i]), count)
      BY <1>3, <1>4, <1>6, <2>3
    <3> QED BY <1>0, <2>1, <3>1, <3>2, <3>3, <3>4
  <2>4. CASE i > k
    <3>1. ~(i - 1 < k) /\ ~(i < k) /\ i > index /\ i - 1 > index /\ i # k /\ i - 1 \in 1..Len(fs)
      BY <1>q, <1>2, <1>7, <2>0, <2>4
    <3>2. ends[i] = count - 1 /\ ends[i - 1] = count - 1
      BY <1>14, <2>0, <3>1
    <3>3. FramesOf(queue[i]) = Numbers(count - 1, count - 1)
      BY <1>4, <1>6, <3>1, <3>2
    <3>4. Raised(ends, k, 1)[i - 1] = count /\ Raised(ends, k, 1)[i] = count
      BY <1>0, <2>1, <3>1, <3>2
    <3>5. Numbers(count - 1, count - 1) = Numbers(count, count)
      BY <1>0, NumbersNone
    <3> QED BY <3>3, <3>4, <3>5
  <2> QED BY <1>q, <2>0, <2>2, <2>3, <2>4
<1>16. Ends(Raised(ends, k, 1), queue, "none", next, count, back)
  BY <1>4, <1>13, <1>15 DEF Ends, StartedOf, new, base
<1>17. Holds(queue, "none", next, count, back)
  BY <1>0, <1>16 DEF Holds
<1> QED BY <1>0, <1>17 DEF queue, next, k

(* When the input ends, the files without a frame are dropped. *)
TakenIn(fs) == {i \in DOMAIN fs : fs[i].assigned > 0}
LastTaken(fs) == IF TakenIn(fs) = {} THEN 0 ELSE Max(TakenIn(fs))
CutQueue(fs) == SubSeq(fs, 1, LastTaken(fs))

LEMMA LastTakenFacts ==
    ASSUME NEW fs, NEW index, Shape(fs, "none", index, FALSE)
    PROVE  /\ LastTaken(fs) \in 0..Len(fs) /\ index \in 0..LastTaken(fs)
           /\ \A i \in DOMAIN fs : fs[i].assigned > 0 <=> i <= LastTaken(fs)
           /\ \A i \in DOMAIN fs : i > LastTaken(fs) => fs[i].assigned = 0
<1> DEFINE n == Len(fs)
           full(i) == fs[i].assigned > 0
<1>1. /\ fs \in Seq(SlotType) /\ index \in 0..n /\ n \in Nat /\ DOMAIN fs = 1..n
      /\ \A i \in DOMAIN fs : Placed(fs[i], i, index, FALSE)
      /\ \A i \in 1..n : fs[i] \in SlotType
  <2>1. /\ fs \in Seq(SlotType) /\ index \in 0..Len(fs)
        /\ \A i \in DOMAIN fs : Sound(fs[i]) /\ Placed(fs[i], i, index, FALSE)
    BY DEF Shape
  <2>2. Len(fs) \in Nat /\ DOMAIN fs = 1..Len(fs) /\ \A i \in 1..Len(fs) : fs[i] \in SlotType
    BY <2>1
  <2> QED BY <2>1, <2>2
<1>2. \A i \in 1..n : i \in Nat /\ i >= 1 /\ i <= n
  BY <1>1
<1>3. ASSUME NEW i \in 1..n PROVE i <= index => full(i)
  <2>1. Placed(fs[i], i, index, FALSE) /\ fs[i] \in SlotType
    BY <1>1
  <2> DEFINE a == fs[i].assigned
             c == fs[i].capacity
  <2>2. a \in Nat /\ c \in Nat \ {0}
    BY <2>1, SlotFacts
  <2>3. i <= index => a = c
    BY <2>1 DEF Placed
  <2> HIDE DEF a, c
  <2>4. i <= index => a > 0
    BY <2>2, <2>3
  <2> QED BY <2>4 DEF a
<1>4. ASSUME NEW i \in 1..n PROVE i > index + 1 => ~full(i)
  <2>1. Placed(fs[i], i, index, FALSE)
    BY <1>1
  <2>2. i > index + 1 => fs[i].assigned = 0
    BY <2>1 DEF Placed
  <2>3. ~(0 > 0)
    OBVIOUS
  <2> QED BY <2>2, <2>3
<1>5. ASSUME NEW i \in 1..n PROVE ~full(i) => fs[i].assigned = 0
  <2>1. fs[i] \in SlotType
    BY <1>1
  <2> DEFINE a == fs[i].assigned
  <2>2. a \in Nat
    BY <2>1, SlotFacts
  <2> HIDE DEF a
  <2>3. ~(a > 0) => a = 0
    BY <2>2
  <2> QED BY <2>3 DEF a
<1>6. TakenIn(fs) = {i \in 1..n : full(i)}
  BY <1>1 DEF TakenIn
<1> HIDE DEF full, n
<1> DEFINE last == IF index + 1 \in 1..n /\ full(index + 1) THEN index + 1 ELSE index
<1>7. last \in 0..n /\ index \in 0..last /\ last \in Nat
  BY <1>1
<1>8. \A i \in 1..n : full(i) <=> i <= last
  BY <1>1, <1>2, <1>3, <1>4
<1> HIDE DEF last
<1>9. TakenIn(fs) = 1..last
  <2>1. \A i \in TakenIn(fs) : i \in 1..last
    BY <1>2, <1>6, <1>7, <1>8
  <2>2. \A i \in 1..last : i \in TakenIn(fs)
    BY <1>1, <1>6, <1>7, <1>8
  <2> QED BY <2>1, <2>2
<1>10. LastTaken(fs) = last
  <2>1. CASE last = 0
    <3>1. TakenIn(fs) = {}
      BY <1>9, <2>1
    <3> QED BY <2>1, <3>1 DEF LastTaken
  <2>2. CASE last # 0
    <3>1. last \in 1..last /\ \A y \in 1..last : last >= y
      BY <1>7, <2>2
    <3>2. \A x \in 1..last : (\A y \in 1..last : x >= y) => x = last
      BY <1>7, <3>1
    <3>3. Max(TakenIn(fs)) = last
      BY <1>9, <3>1, <3>2 DEF Max
    <3>4. TakenIn(fs) # {}
      BY <1>9, <3>1
    <3> QED BY <3>3, <3>4 DEF LastTaken
  <2> QED BY <2>1, <2>2
<1>11. \A i \in 1..n : i > last => fs[i].assigned = 0
  BY <1>2, <1>5, <1>7, <1>8
<1> QED BY <1>1, <1>7, <1>8, <1>10, <1>11 DEF n, full

LEMMA CutFacts ==
    ASSUME NEW S, NEW q \in Seq(S), NEW last \in 0..Len(q)
    PROVE  /\ SubSeq(q, 1, last) \in Seq(S) /\ Len(SubSeq(q, 1, last)) = last
           /\ DOMAIN SubSeq(q, 1, last) = 1..last /\ 1..last \subseteq DOMAIN q
           /\ \A i \in 1..last : SubSeq(q, 1, last)[i] = q[i]
OBVIOUS

LEMMA CutShape ==
    ASSUME NEW fs, NEW index, Shape(fs, "none", index, FALSE)
    PROVE  Shape(CutQueue(fs), "none", index, TRUE)
<1> DEFINE last == LastTaken(fs)
           queue == SubSeq(fs, 1, last)
<1>1. /\ fs \in Seq(SlotType)
      /\ \A i \in DOMAIN fs : Sound(fs[i]) /\ Placed(fs[i], i, index, FALSE)
  BY DEF Shape
<1>2. /\ last \in 0..Len(fs) /\ index \in 0..last
      /\ \A i \in DOMAIN fs : fs[i].assigned > 0 <=> i <= last
  BY LastTakenFacts
<1> HIDE DEF last
<1>3. /\ queue \in Seq(SlotType) /\ Len(queue) = last /\ DOMAIN queue = 1..last
      /\ 1..last \subseteq DOMAIN fs /\ \A i \in 1..last : queue[i] = fs[i]
  BY <1>1, <1>2, CutFacts, Zenon
<1> HIDE DEF queue
<1>4. ASSUME NEW i \in 1..last PROVE Placed(fs[i], i, index, TRUE)
  <2>1. i \in DOMAIN fs /\ i <= last
    BY <1>2, <1>3
  <2>2. fs[i].assigned > 0 /\ Placed(fs[i], i, index, FALSE)
    BY <1>1, <1>2, <2>1
  <2> QED BY <2>2 DEF Placed
<1>5. Shape(queue, "none", index, TRUE)
  BY <1>1, <1>2, <1>3, <1>4 DEF Shape
<1> QED BY <1>5 DEF queue, last, CutQueue

LEMMA CutUses ==
    ASSUME NEW fs, NEW index, Shape(fs, "none", index, FALSE),
           NEW total, Uses(fs, "none", index, total)
    PROVE  Uses(CutQueue(fs), "none", index, total)
<1> DEFINE last == LastTaken(fs)
           queue == SubSeq(fs, 1, last)
           old == ReservedOf(fs, "none", index)
           new == ReservedOf(queue, "none", index)
<1>1. /\ fs \in Seq(SlotType) /\ \A i \in DOMAIN fs : Sound(fs[i])
  BY DEF Shape
<1>2. /\ last \in 0..Len(fs) /\ index \in 0..last
      /\ \A i \in DOMAIN fs : i > last => fs[i].assigned = 0
  BY LastTakenFacts
<1> HIDE DEF last
<1>3. /\ queue \in Seq(SlotType) /\ Len(queue) = last /\ DOMAIN queue = 1..last
      /\ 1..last \subseteq DOMAIN fs /\ \A i \in 1..last : queue[i] = fs[i]
  BY <1>1, <1>2, CutFacts, Zenon
<1>4. /\ old \in Seq(Nat) /\ Len(old) = Len(fs) /\ DOMAIN old = DOMAIN fs
      /\ \A i \in DOMAIN fs : old[i] = Reserves(fs[i], "none" # "none" /\ i = index + 1)
  BY <1>1, ReservedFacts
<1> HIDE DEF queue
<1>5. /\ new \in Seq(Nat) /\ Len(new) = last /\ DOMAIN new = 1..last
      /\ \A i \in 1..last : new[i] = Reserves(queue[i], "none" # "none" /\ i = index + 1)
  BY <1>3, ReservedFacts
<1> HIDE DEF old, new
<1>6. \A i \in 1..last : new[i] = old[i]
  BY <1>3, <1>4, <1>5
<1>7. ASSUME NEW i \in DOMAIN old, i > last PROVE old[i] = 0
  <2>1. i \in DOMAIN fs /\ fs[i].assigned = 0 /\ Sound(fs[i])
    BY <1>1, <1>2, <1>4, <1>7
  <2>2. fs[i].frames = <<>>
    BY <2>1 DEF Sound
  <2>3. ("none" # "none" /\ i = index + 1) = FALSE
    OBVIOUS
  <2>4. old[i] = Reserves(fs[i], FALSE)
    BY <1>4, <2>1, <2>3
  <2>5. Len(<<>>) + 0 = 0 /\ ~(0 > 0)
    OBVIOUS
  <2> QED BY <2>1, <2>2, <2>4, <2>5 DEF Reserves
<1>8. PICK s : Adds(s, old, 0, index, total)
  BY DEF Uses, old
<1>9. index <= last /\ last \in 0..Len(old)
  BY <1>2, <1>4
<1>10. Adds([i \in 0..last |-> s[i]], SubSeq(old, 1, last), 0, index, total)
  BY <1>7, <1>8, <1>9, AddsCut
<1>11. SubSeq(old, 1, last) = new
  <2>0. old \in Seq(Nat) /\ last \in 0..Len(old)
    BY <1>4, <1>9
  <2>1. /\ SubSeq(old, 1, last) \in Seq(Nat) /\ Len(SubSeq(old, 1, last)) = last
        /\ \A i \in 1..last : SubSeq(old, 1, last)[i] = old[i]
    BY ONLY <2>0, CutFacts, Zenon
  <2> DEFINE cut == SubSeq(old, 1, last)
  <2> HIDE DEF cut
  <2>2. cut \in Seq(Nat) /\ Len(cut) = Len(new) /\ \A i \in 1..Len(new) : cut[i] = new[i]
    BY <1>5, <1>6, <2>1 DEF cut
  <2>3. cut = new
    BY <1>5, <2>2
  <2> QED BY <2>3 DEF cut
<1> QED BY <1>10, <1>11 DEF Uses, new, queue, CutQueue, last

LEMMA CutHolds ==
    ASSUME NEW fs, NEW index, Shape(fs, "none", index, FALSE),
           NEW count, NEW back, Holds(fs, "none", index, count, back)
    PROVE  Holds(CutQueue(fs), "none", index, count, back)
<1> DEFINE last == LastTaken(fs)
           queue == SubSeq(fs, 1, last)
           old == FileSizes(fs)
           new == FileSizes(queue)
<1>1. fs \in Seq(SlotType)
  BY DEF Shape
<1>2. /\ last \in 0..Len(fs) /\ index \in 0..last
      /\ \A i \in DOMAIN fs : i > last => fs[i].assigned = 0
  BY LastTakenFacts
<1> HIDE DEF last
<1>3. /\ queue \in Seq(SlotType) /\ Len(queue) = last /\ DOMAIN queue = 1..last
      /\ 1..last \subseteq DOMAIN fs /\ \A i \in 1..last : queue[i] = fs[i]
  BY <1>1, <1>2, CutFacts, Zenon
<1>4. /\ old \in Seq(Nat) /\ Len(old) = Len(fs) /\ DOMAIN old = DOMAIN fs
      /\ \A i \in DOMAIN fs : old[i] = fs[i].assigned
  BY <1>1, SizesFacts
<1> HIDE DEF queue
<1>5. /\ new \in Seq(Nat) /\ Len(new) = last /\ DOMAIN new = 1..last
      /\ \A i \in 1..last : new[i] = queue[i].assigned
  BY <1>3, SizesFacts
<1> HIDE DEF old, new
<1>6. \A i \in 1..last : new[i] = old[i]
  BY <1>3, <1>4, <1>5
<1>7. \A i \in DOMAIN old : i > last => old[i] = 0
  BY <1>2, <1>4
<1>8. PICK ends : Ends(ends, fs, "none", index, count, back)
  BY DEF Holds
<1>e. /\ Adds(ends, old, Len(back), index, StartedOf("none", count))
      /\ \A i \in DOMAIN fs : FramesOf(fs[i]) = Numbers(ends[i - 1], ends[i])
  BY <1>8 DEF Ends, old
<1>9. index <= last /\ last \in 0..Len(old)
  BY <1>2, <1>4
<1> DEFINE cut == SubSeq(old, 1, last)
           t == [i \in 0..last |-> ends[i]]
<1>10. Adds(t, cut, Len(back), index, StartedOf("none", count))
  BY <1>7, <1>e, <1>9, AddsCut
<1>11. cut = new
  <2>0. old \in Seq(Nat) /\ last \in 0..Len(old)
    BY <1>4, <1>9
  <2>1. cut \in Seq(Nat) /\ Len(cut) = last /\ \A i \in 1..last : cut[i] = old[i]
    BY ONLY <2>0, CutFacts, Zenon
  <2> HIDE DEF cut
  <2>2. Len(cut) = Len(new) /\ \A i \in 1..Len(new) : cut[i] = new[i]
    BY <1>5, <1>6, <2>1
  <2> QED BY <1>5, <2>1, <2>2
<1>12. \A i \in 1..last : FramesOf(queue[i]) = Numbers(t[i - 1], t[i])
  <2>1. \A i \in 1..last : i \in 0..last /\ i - 1 \in 0..last
    BY <1>2
  <2>2. \A i \in 0..last : t[i] = ends[i]
    OBVIOUS
  <2> HIDE DEF t
  <2> QED BY <1>3, <1>e, <2>1, <2>2
<1> HIDE DEF t, cut
<1>13. Ends(t, queue, "none", index, count, back)
  BY <1>3, <1>10, <1>11, <1>12 DEF Ends, new
<1> QED BY <1>13 DEF Holds, queue, last, CutQueue

(* A new file goes to the end of the queue. *)
LEMMA NewSlotFacts ==
    ASSUME NEW c \in FileCapacities, c > 0
    PROVE  /\ NewSlot(c) \in SlotType /\ Sound(NewSlot(c))
           /\ NewSlot(c).assigned = 0 /\ NewSlot(c).capacity = c /\ NewSlot(c).state = "Idle"
           /\ FramesOf(NewSlot(c)) = <<>> /\ Reserves(NewSlot(c), FALSE) = 0
<1> DEFINE none == <<>>
           slot == [state |-> "Idle", frames |-> none, capacity |-> c, assigned |-> 0,
                    written |-> 0, retries |-> 0, io |-> "new", content |-> none]
<1>0. NewSlot(c) = slot
  BY DEF NewSlot
<1>1. none \in Seq(1..MaxFrames) /\ none = <<>> /\ Len(none) = 0 /\ none \o none = none
  OBVIOUS
<1> HIDE DEF none
<1>2. c \in FileCapacities \ {0} /\ 0 \in 0..MaxRetries /\ 0 \in Nat /\ c \in Nat /\ 0 <= c
  BY WriterAssumption
<1>3. slot \in SlotType
  BY <1>1, <1>2 DEF SlotType
<1>4. /\ slot.state = "Idle" /\ slot.frames = none /\ slot.capacity = c /\ slot.assigned = 0
      /\ slot.written = 0 /\ slot.content = none
  OBVIOUS
<1> HIDE DEF slot
<1>5. FramesOf(slot) = none
  BY <1>1, <1>4 DEF FramesOf
<1>6. Sound(slot)
  <2>1. /\ slot.assigned <= slot.capacity /\ slot.written <= slot.assigned
        /\ Len(FramesOf(slot)) = slot.assigned
    BY <1>1, <1>2, <1>4, <1>5
  <2> QED BY <1>1, <1>4, <2>1 DEF Sound
<1>7. Reserves(slot, FALSE) = 0
  <2>1. Len(slot.frames) + 0 = 0 /\ ~(0 > 0)
    BY <1>1, <1>4
  <2> QED BY <1>4, <2>1 DEF Reserves
<1> QED BY <1>0, <1>1, <1>3, <1>4, <1>5, <1>6, <1>7

LEMMA AppendFacts ==
    ASSUME NEW S, NEW q \in Seq(S), NEW x \in S
    PROVE  /\ Append(q, x) \in Seq(S) /\ Len(Append(q, x)) = Len(q) + 1
           /\ DOMAIN Append(q, x) = 1..(Len(q) + 1) /\ Append(q, x)[Len(q) + 1] = x
           /\ \A i \in DOMAIN q : Append(q, x)[i] = q[i]
           /\ DOMAIN q = 1..Len(q) /\ Len(q) \in Nat
OBVIOUS

LEMMA AppendShape ==
    ASSUME NEW fs, NEW part, NEW index, Shape(fs, part, index, FALSE),
           NEW c \in FileCapacities, c > 0
    PROVE  Shape(Append(fs, NewSlot(c)), part, index, FALSE)
<1> DEFINE slot == NewSlot(c)
           queue == Append(fs, slot)
           n == Len(fs)
<1>1. /\ fs \in Seq(SlotType) /\ part \in {"none", "empty", "some"} /\ index \in 0..Len(fs)
      /\ \A i \in DOMAIN fs : Sound(fs[i]) /\ Placed(fs[i], i, index, FALSE)
      /\ part # "none" => index < Len(fs)
  BY DEF Shape
<1>2. slot \in SlotType /\ Sound(slot) /\ slot.assigned = 0 /\ slot.capacity = c
      /\ slot.state = "Idle"
  BY NewSlotFacts
<1> HIDE DEF slot
<1>3. /\ queue \in Seq(SlotType) /\ Len(queue) = n + 1 /\ DOMAIN queue = 1..(n + 1)
      /\ queue[n + 1] = slot /\ \A i \in DOMAIN fs : queue[i] = fs[i]
      /\ DOMAIN fs = 1..n /\ n \in Nat
  <2>1. fs \in Seq(SlotType) /\ slot \in SlotType
    BY <1>1, <1>2
  <2> QED BY <2>1, AppendFacts
<1>s. index \in 0..n /\ (part # "none" => index < n)
  BY <1>1
<1> HIDE DEF queue, n
<1>4. Placed(slot, n + 1, index, FALSE)
  <2>1. ~(n + 1 <= index)
    BY <1>3, <1>s
  <2> QED BY <1>2, <2>1 DEF Placed
<1>5. ASSUME NEW i \in DOMAIN queue PROVE Sound(queue[i]) /\ Placed(queue[i], i, index, FALSE)
  <2>1. i \in DOMAIN fs \/ i = n + 1
    BY <1>3
  <2> QED BY <1>1, <1>2, <1>3, <1>4, <2>1
<1>6. index \in 0..Len(queue) /\ (part # "none" => index < Len(queue))
  BY <1>3, <1>s
<1> QED BY <1>1, <1>3, <1>5, <1>6 DEF Shape, queue, slot

LEMMA AppendUses ==
    ASSUME NEW fs, NEW part, NEW index, Shape(fs, part, index, FALSE),
           NEW c \in FileCapacities, c > 0, NEW total, Uses(fs, part, index, total)
    PROVE  Uses(Append(fs, NewSlot(c)), part, index, total)
<1> DEFINE slot == NewSlot(c)
           queue == Append(fs, slot)
           n == Len(fs)
           old == ReservedOf(fs, part, index)
           new == ReservedOf(queue, part, index)
<1>1. /\ fs \in Seq(SlotType) /\ index \in 0..n /\ (part # "none" => index < n)
  BY DEF Shape
<1>2. slot \in SlotType /\ Reserves(slot, FALSE) = 0
  BY NewSlotFacts
<1> HIDE DEF slot
<1>3. /\ queue \in Seq(SlotType) /\ Len(queue) = n + 1 /\ DOMAIN queue = 1..(n + 1)
      /\ queue[n + 1] = slot /\ \A i \in DOMAIN fs : queue[i] = fs[i]
      /\ DOMAIN fs = 1..n /\ n \in Nat
  <2>1. fs \in Seq(SlotType) /\ slot \in SlotType
    BY <1>1, <1>2
  <2> QED BY <2>1, AppendFacts
<1>4. /\ old \in Seq(Nat) /\ Len(old) = n /\ DOMAIN old = 1..n
      /\ \A i \in DOMAIN fs : old[i] = Reserves(fs[i], part # "none" /\ i = index + 1)
  BY <1>1, <1>3, ReservedFacts
<1> HIDE DEF queue
<1>5. /\ new \in Seq(Nat) /\ Len(new) = n + 1 /\ DOMAIN new = 1..(n + 1)
      /\ \A i \in DOMAIN queue : new[i] = Reserves(queue[i], part # "none" /\ i = index + 1)
  BY <1>3, ReservedFacts
<1> HIDE DEF old, new, n
<1>6. \A i \in 1..n : new[i] = old[i]
  <2>1. \A i \in 1..n : i \in DOMAIN queue
    BY <1>3
  <2> QED BY <1>3, <1>4, <1>5, <2>1
<1>7. new[n + 1] = 0
  <2>1. (part # "none" /\ n + 1 = index + 1) = FALSE
    BY <1>1, <1>3
  <2>2. n + 1 \in DOMAIN queue
    BY <1>3
  <2> QED BY <1>2, <1>3, <1>5, <2>1, <2>2
<1>8. new = Append(old, 0)
  <2> DEFINE more == Append(old, 0)
  <2>1. /\ more \in Seq(Nat) /\ Len(more) = n + 1 /\ more[n + 1] = 0
        /\ \A i \in 1..n : more[i] = old[i]
    BY <1>4
  <2> HIDE DEF more
  <2>2. \A i \in 1..(n + 1) : i \in 1..n \/ i = n + 1
    BY <1>3
  <2>3. \A i \in 1..(n + 1) : more[i] = new[i]
    BY <1>6, <1>7, <2>1, <2>2
  <2>4. more = new
    BY <1>5, <2>1, <2>3
  <2> QED BY <2>4 DEF more
<1>9. PICK s : Adds(s, old, 0, index, total)
  BY DEF Uses, old
<1>10. Adds([i \in 0..(Len(old) + 1) |-> IF i <= Len(old) THEN s[i] ELSE total],
            Append(old, 0), 0, index, total)
  BY <1>9, AddsExtended, Zenon
<1> QED BY <1>8, <1>10 DEF Uses, new, queue, slot

LEMMA AppendHolds ==
    ASSUME NEW fs \in Seq(SlotType), NEW part, NEW index, NEW c \in FileCapacities, c > 0,
           NEW count, NEW back, Holds(fs, part, index, count, back)
    PROVE  Holds(Append(fs, NewSlot(c)), part, index, count, back)
<1> DEFINE slot == NewSlot(c)
           queue == Append(fs, slot)
           n == Len(fs)
           old == FileSizes(fs)
           new == FileSizes(queue)
           total == StartedOf(part, count)
<1>2. slot \in SlotType /\ slot.assigned = 0 /\ FramesOf(slot) = <<>>
  BY NewSlotFacts
<1> HIDE DEF slot
<1>3. /\ queue \in Seq(SlotType) /\ Len(queue) = n + 1 /\ DOMAIN queue = 1..(n + 1)
      /\ queue[n + 1] = slot /\ \A i \in DOMAIN fs : queue[i] = fs[i]
      /\ DOMAIN fs = 1..n /\ n \in Nat
  <2>1. fs \in Seq(SlotType) /\ slot \in SlotType
    BY <1>2
  <2> QED BY <2>1, AppendFacts
<1>4. /\ old \in Seq(Nat) /\ Len(old) = n /\ DOMAIN old = 1..n
      /\ \A i \in DOMAIN fs : old[i] = fs[i].assigned
  BY <1>3, SizesFacts
<1> HIDE DEF queue
<1>5. /\ new \in Seq(Nat) /\ Len(new) = n + 1 /\ DOMAIN new = 1..(n + 1)
      /\ \A i \in DOMAIN queue : new[i] = queue[i].assigned
  BY <1>3, SizesFacts
<1> HIDE DEF old, new, n
<1>i. /\ \A i \in 1..n : i \in DOMAIN queue
      /\ n + 1 \in DOMAIN queue
  BY <1>3
<1>6. \A i \in 1..n : new[i] = old[i]
  BY <1>3, <1>4, <1>5, <1>i
<1>7. new[n + 1] = 0
  BY <1>2, <1>3, <1>5, <1>i
<1>8. new = Append(old, 0)
  <2> DEFINE more == Append(old, 0)
  <2>1. /\ more \in Seq(Nat) /\ Len(more) = n + 1 /\ more[n + 1] = 0
        /\ \A i \in 1..n : more[i] = old[i]
    BY <1>4
  <2> HIDE DEF more
  <2>2. \A i \in 1..(n + 1) : i \in 1..n \/ i = n + 1
    BY <1>3
  <2>3. \A i \in 1..(n + 1) : more[i] = new[i]
    BY <1>6, <1>7, <2>1, <2>2
  <2>4. more = new
    BY <1>5, <2>1, <2>3
  <2> QED BY <2>4 DEF more
<1>9. PICK ends : Ends(ends, fs, part, index, count, back)
  BY DEF Holds
<1>e. /\ Adds(ends, old, Len(back), index, total)
      /\ \A i \in DOMAIN fs : FramesOf(fs[i]) = Numbers(ends[i - 1], ends[i])
  BY <1>9 DEF Ends, old
<1> HIDE DEF total
<1> DEFINE t == [i \in 0..(Len(old) + 1) |-> IF i <= Len(old) THEN ends[i] ELSE total]
<1>10. Adds(t, Append(old, 0), Len(back), index, total)
  BY <1>e, AddsExtended, Zenon
<1>11. /\ \A i \in 0..n : t[i] = ends[i]
       /\ t[n + 1] = total
  BY <1>3, <1>4
<1> HIDE DEF t
<1>12. ends[n] = total /\ total \in Nat
  BY <1>4, <1>e, AddsFacts
<1>13. ASSUME NEW i \in DOMAIN queue PROVE FramesOf(queue[i]) = Numbers(t[i - 1], t[i])
  <2>1. CASE i \in 1..n
    <3>1. i \in 0..n /\ i - 1 \in 0..n
      BY <1>3, <2>1
    <3> QED BY <1>3, <1>e, <1>11, <2>1, <3>1
  <2>2. CASE i = n + 1
    <3>1. i - 1 = n /\ n \in 0..n
      BY <1>3, <2>2
    <3>2. t[i - 1] = total /\ t[i] = total
      BY <1>11, <1>12, <2>2, <3>1
    <3>3. Numbers(total, total) = <<>>
      BY <1>12, NumbersNone
    <3> QED BY <1>2, <1>3, <2>2, <3>2, <3>3
  <2>3. i \in 1..n \/ i = n + 1
    BY <1>3
  <2> QED BY <2>1, <2>2, <2>3
<1>14. Ends(t, queue, part, index, count, back)
  BY <1>8, <1>10, <1>13 DEF Ends, new, total
<1> QED BY <1>14 DEF Holds, queue, slot

(* A closed head leaves the queue. *)
LEMMA TailFacts ==
    ASSUME NEW fs, NEW part, NEW index, NEW ended \in BOOLEAN, Shape(fs, part, index, ended),
           fs # <<>>, Done(Head(fs))
    PROVE  /\ fs \in Seq(SlotType) /\ Len(fs) \in Nat /\ 1 \in DOMAIN fs /\ Head(fs) = fs[1]
           /\ fs[1] \in SlotType /\ Sound(fs[1]) /\ fs[1].state = "Closed"
           /\ Tail(fs) \in Seq(SlotType) /\ Len(Tail(fs)) = Len(fs) - 1
           /\ DOMAIN Tail(fs) = 1..(Len(fs) - 1) /\ DOMAIN fs = 1..Len(fs)
           /\ \A i \in DOMAIN Tail(fs) : i \in Nat /\ i + 1 \in DOMAIN fs /\ Tail(fs)[i] = fs[i + 1]
           /\ index \in Nat
           /\ index = 0 => part = "none" /\ ended /\ Len(fs) = 1
<1>1. /\ fs \in Seq(SlotType) /\ index \in 0..Len(fs)
      /\ \A i \in DOMAIN fs : Sound(fs[i]) /\ Placed(fs[i], i, index, ended)
      /\ part # "none" => ~ended
  BY DEF Shape
<1>2. /\ Len(fs) \in Nat /\ Len(fs) >= 1 /\ 1 \in DOMAIN fs /\ Head(fs) = fs[1]
      /\ fs[1] \in SlotType /\ DOMAIN fs = 1..Len(fs)
      /\ Tail(fs) \in Seq(SlotType) /\ Len(Tail(fs)) = Len(fs) - 1
      /\ DOMAIN Tail(fs) = 1..(Len(fs) - 1)
      /\ \A i \in DOMAIN Tail(fs) : Tail(fs)[i] = fs[i + 1]
  BY <1>1
<1>3. Sound(fs[1]) /\ fs[1].state = "Closed" /\ Placed(fs[1], 1, index, ended)
  BY <1>1, <1>2 DEF Done
<1>4. index \in Nat
  BY <1>1, <1>2
<1>5. ASSUME index = 0 PROVE ended
  <2>1. fs[1].assigned < fs[1].capacity /\ (fs[1].assigned = fs[1].capacity \/ ended)
    BY <1>3, <1>5 DEF Placed
  <2> DEFINE a == fs[1].assigned
             c == fs[1].capacity
  <2>2. a \in Nat /\ c \in Nat
    BY <1>2, SlotFacts
  <2>3. a < c /\ (a = c \/ ended)
    BY <2>1
  <2> HIDE DEF a, c
  <2> QED BY <2>2, <2>3
<1>6. ASSUME index = 0 PROVE Len(fs) = 1
  <2>1. SUFFICES ASSUME Len(fs) >= 2 PROVE FALSE
    BY <1>2
  <2>2. 2 \in DOMAIN fs
    BY <1>2, <2>1
  <2>3. Placed(fs[2], 2, index, ended) /\ 2 > index + 1
    BY <1>1, <1>6, <2>2
  <2>4. fs[2].assigned = 0 /\ fs[2].assigned > 0
    BY <1>5, <1>6, <2>3 DEF Placed
  <2>5. ~(0 > 0)
    OBVIOUS
  <2> QED BY <2>4, <2>5
<1>7. ASSUME NEW i \in DOMAIN Tail(fs) PROVE i \in Nat /\ i + 1 \in DOMAIN fs
  <2> DEFINE n == Len(fs)
  <2>1. i \in 1..(n - 1) /\ n \in Nat /\ DOMAIN fs = 1..n
    BY <1>2
  <2> HIDE DEF n
  <2> QED BY <2>1
<1> QED BY <1>1, <1>2, <1>3, <1>4, <1>5, <1>6, <1>7

LEMMA TailShape ==
    ASSUME NEW fs, NEW part, NEW index, NEW ended \in BOOLEAN, Shape(fs, part, index, ended),
           fs # <<>>, Done(Head(fs))
    PROVE  Shape(Tail(fs), part, Less(index, 1), ended)
<1> DEFINE rest == Tail(fs)
           n == Len(fs)
           next == Less(index, 1)
<1>1. /\ part \in {"none", "empty", "some"} /\ index \in 0..n
      /\ \A i \in DOMAIN fs : Sound(fs[i]) /\ Placed(fs[i], i, index, ended)
      /\ part # "none" => index < n /\ ~ended
  BY DEF Shape
<1>2. /\ n \in Nat /\ rest \in Seq(SlotType) /\ Len(rest) = n - 1
      /\ DOMAIN rest = 1..(n - 1) /\ index \in Nat /\ 1 \in DOMAIN fs /\ DOMAIN fs = 1..n
      /\ \A i \in DOMAIN rest : i \in Nat /\ i + 1 \in DOMAIN fs /\ rest[i] = fs[i + 1]
      /\ index = 0 => part = "none" /\ ended /\ n = 1
  BY TailFacts
<1> HIDE DEF rest, n
<1>3. index # 0 => next = index - 1
  BY <1>2 DEF Less
<1>4. index = 0 => next = 0
  BY DEF Less
<1> HIDE DEF next
<1>5. next \in 0..Len(rest) /\ (part # "none" => next < Len(rest))
  BY <1>1, <1>2, <1>3, <1>4
<1>6. ASSUME NEW i \in DOMAIN rest PROVE Sound(rest[i]) /\ Placed(rest[i], i, next, ended)
  <2>1. i \in Nat /\ i + 1 \in DOMAIN fs /\ rest[i] = fs[i + 1] /\ i >= 1 /\ i <= n - 1
    BY <1>2
  <2>2. Sound(fs[i + 1]) /\ Placed(fs[i + 1], i + 1, index, ended)
    BY <1>1, <2>1
  <2>3. /\ i <= next => i + 1 <= index
        /\ i = next + 1 => i + 1 = index + 1
        /\ i > next + 1 => i + 1 > index + 1
    <3>1. CASE index = 0
      BY <1>2, <2>1, <3>1
    <3>2. CASE index # 0
      BY <1>2, <1>3, <2>1, <3>2
    <3> QED BY <3>1, <3>2
  <2> QED BY <2>1, <2>2, <2>3 DEF Placed
<1> QED BY <1>1, <1>2, <1>5, <1>6 DEF Shape, rest, next

LEMMA TailUses ==
    ASSUME NEW fs, NEW part, NEW index, NEW ended \in BOOLEAN, Shape(fs, part, index, ended),
           fs # <<>>, Done(Head(fs)), NEW total, Uses(fs, part, index, total)
    PROVE  Uses(Tail(fs), part, Less(index, 1), total)
<1> DEFINE rest == Tail(fs)
           n == Len(fs)
           next == Less(index, 1)
           old == ReservedOf(fs, part, index)
           new == ReservedOf(rest, part, next)
<1>2. /\ fs \in Seq(SlotType) /\ n \in Nat /\ rest \in Seq(SlotType) /\ Len(rest) = n - 1
      /\ DOMAIN rest = 1..(n - 1) /\ index \in Nat /\ 1 \in DOMAIN fs /\ DOMAIN fs = 1..n
      /\ \A i \in DOMAIN rest : i \in Nat /\ i + 1 \in DOMAIN fs /\ rest[i] = fs[i + 1]
      /\ Sound(fs[1]) /\ fs[1].state = "Closed"
      /\ index = 0 => part = "none" /\ ended /\ n = 1
  BY TailFacts
<1>3. index # 0 => next = index - 1
  BY <1>2 DEF Less
<1>4. /\ old \in Seq(Nat) /\ Len(old) = n /\ DOMAIN old = 1..n
      /\ \A i \in DOMAIN fs : old[i] = Reserves(fs[i], part # "none" /\ i = index + 1)
  <2>1. fs \in Seq(SlotType)
    BY <1>2
  <2>2. /\ old \in Seq(Nat) /\ Len(old) = Len(fs) /\ DOMAIN old = DOMAIN fs
        /\ \A i \in DOMAIN fs : old[i] = Reserves(fs[i], part # "none" /\ i = index + 1)
    BY ONLY <2>1, ReservedFacts
  <2> QED BY <1>2, <2>2
<1> HIDE DEF rest, next
<1>5. /\ new \in Seq(Nat) /\ Len(new) = n - 1 /\ DOMAIN new = 1..(n - 1)
      /\ \A i \in DOMAIN rest : new[i] = Reserves(rest[i], part # "none" /\ i = next + 1)
  BY <1>2, ReservedFacts
<1> HIDE DEF old, new, n
<1>6. ASSUME NEW i \in 1..(n - 1) PROVE new[i] = old[i + 1]
  <2>1. i \in DOMAIN rest /\ i + 1 \in DOMAIN fs /\ rest[i] = fs[i + 1] /\ i \in Nat /\ n # 1
    BY <1>2
  <2>2. next = index - 1
    BY <1>2, <1>3, <2>1
  <2>3. (i = next + 1) <=> (i + 1 = index + 1)
    BY <1>2, <2>1, <2>2
  <2>4. CASE part # "none" /\ i = next + 1
    <3>1. (part # "none" /\ i = next + 1) = TRUE /\ (part # "none" /\ i + 1 = index + 1) = TRUE
      BY <2>3, <2>4
    <3> QED BY <1>4, <1>5, <2>1, <3>1
  <2>5. CASE ~(part # "none" /\ i = next + 1)
    <3>1. (part # "none" /\ i = next + 1) = FALSE /\ (part # "none" /\ i + 1 = index + 1) = FALSE
      BY <2>3, <2>5
    <3> QED BY <1>4, <1>5, <2>1, <3>1
  <2> QED BY <2>4, <2>5
<1>7. old[1] = 0
  <2>1. (part # "none" /\ 1 = index + 1) = FALSE
    BY <1>2
  <2>2. old[1] = Reserves(fs[1], FALSE)
    BY <1>2, <1>4, <2>1
  <2>3. fs[1].frames = <<>> /\ Done(fs[1])
    BY <1>2 DEF Sound, Done
  <2>4. Len(<<>>) + 0 = 0
    OBVIOUS
  <2> QED BY <2>2, <2>3, <2>4 DEF Reserves
<1>8. old # <<>>
  BY <1>2, <1>4
<1>9. Tail(old) = new
  <2> DEFINE cut == Tail(old)
  <2>1. cut \in Seq(Nat) /\ Len(cut) = n - 1 /\ \A i \in 1..(n - 1) : cut[i] = old[i + 1]
    BY <1>4, <1>8
  <2> HIDE DEF cut
  <2>2. \A i \in 1..(n - 1) : cut[i] = new[i]
    BY <1>6, <2>1
  <2>3. cut = new
    BY <1>5, <2>1, <2>2
  <2> QED BY <2>3 DEF cut
<1>10. PICK s : Adds(s, old, 0, index, total)
  BY DEF Uses, old
<1>11. /\ s[1] = 0 + old[1]
       /\ Adds([i \in 0..(Len(old) - 1) |-> s[i + 1]], Tail(old), s[1], Less(index, 1), total)
  BY <1>8, <1>10, AddsTail, Zenon
<1>12. s[1] = 0
  BY <1>7, <1>11
<1>13. Adds([i \in 0..(Len(old) - 1) |-> s[i + 1]], new, 0, next, total)
  BY <1>9, <1>11, <1>12 DEF next
<1> QED BY <1>13 DEF Uses, new, rest, next

LEMMA TailHolds ==
    ASSUME NEW fs, NEW part, NEW index, NEW ended \in BOOLEAN, Shape(fs, part, index, ended),
           fs # <<>>, Done(Head(fs)),
           NEW count, NEW back, Holds(fs, part, index, count, back)
    PROVE  /\ Holds(Tail(fs), part, Less(index, 1), count, back \o Head(fs).content)
           /\ Len(back \o Head(fs).content) = Len(back) + Head(fs).assigned
<1> DEFINE rest == Tail(fs)
           n == Len(fs)
           next == Less(index, 1)
           old == FileSizes(fs)
           new == FileSizes(rest)
           total == StartedOf(part, count)
           content == fs[1].content
           longer == back \o content
           a == fs[1].assigned
           b == Len(back)
<1>2. /\ fs \in Seq(SlotType) /\ n \in Nat /\ rest \in Seq(SlotType) /\ Len(rest) = n - 1
      /\ DOMAIN rest = 1..(n - 1) /\ index \in Nat /\ 1 \in DOMAIN fs /\ DOMAIN fs = 1..n
      /\ \A i \in DOMAIN rest : i \in Nat /\ i + 1 \in DOMAIN fs /\ rest[i] = fs[i + 1]
      /\ Head(fs) = fs[1] /\ fs[1] \in SlotType /\ Sound(fs[1]) /\ fs[1].state = "Closed"
  BY TailFacts
<1>3. a \in Nat /\ content \in Seq(1..MaxFrames)
  BY <1>2, SlotFacts
<1>b. back \in Seq(1..MaxFrames) /\ b \in Nat /\ back = Numbers(0, b)
  BY DEF Holds
<1>4. FramesOf(fs[1]) = content /\ Len(content) = a
  <2>1. fs[1].frames = <<>> /\ Done(fs[1]) /\ Len(fs[1].content) = fs[1].assigned
    BY <1>2 DEF Sound, Done
  <2>2. content \o <<>> = content
    BY <1>3
  <2> QED BY <2>1, <2>2 DEF FramesOf
<1>5. longer \in Seq(1..MaxFrames) /\ Len(longer) = b + a
  BY <1>3, <1>4, <1>b
<1>6. /\ old \in Seq(Nat) /\ Len(old) = n /\ DOMAIN old = 1..n
      /\ \A i \in DOMAIN fs : old[i] = fs[i].assigned
  BY <1>2, SizesFacts
<1>f. longer = back \o content
  OBVIOUS
<1> HIDE DEF rest, content, longer, b, a
<1>7. /\ new \in Seq(Nat) /\ Len(new) = n - 1 /\ DOMAIN new = 1..(n - 1)
      /\ \A i \in DOMAIN rest : new[i] = rest[i].assigned
  BY <1>2, SizesFacts
<1>8. old # <<>> /\ old[1] = a
  <2>1. n \in Nat /\ 1 \in 1..n
    BY <1>2
  <2>2. old[1] = fs[1].assigned
    BY <1>2, <1>6
  <2>3. old # <<>>
    BY <1>6, <2>1
  <2> QED BY <2>2, <2>3 DEF a
<1>o. old = FileSizes(fs)
  OBVIOUS
<1>n. new = FileSizes(rest)
  OBVIOUS
<1> HIDE DEF old, new, n, total, next
<1>9. Tail(old) = new
  <2> DEFINE cut == Tail(old)
  <2>1. cut \in Seq(Nat) /\ Len(cut) = n - 1 /\ \A i \in 1..(n - 1) : cut[i] = old[i + 1]
    BY <1>6, <1>8
  <2> HIDE DEF cut
  <2>2. \A i \in 1..(n - 1) : cut[i] = new[i]
    <3> TAKE i \in 1..(n - 1)
    <3>1. i \in DOMAIN rest /\ i + 1 \in DOMAIN fs /\ rest[i] = fs[i + 1]
      BY <1>2
    <3>2. cut[i] = old[i + 1] /\ old[i + 1] = fs[i + 1].assigned /\ new[i] = rest[i].assigned
      BY <1>6, <1>7, <2>1, <3>1
    <3> QED BY <3>1, <3>2
  <2>3. cut = new
    BY <1>7, <2>1, <2>2
  <2> QED BY <2>3 DEF cut
<1>10. PICK ends : Ends(ends, fs, part, index, count, back)
  BY DEF Holds
<1>e. /\ Adds(ends, old, b, index, total)
      /\ \A i \in DOMAIN fs : FramesOf(fs[i]) = Numbers(ends[i - 1], ends[i])
  BY <1>10 DEF Ends, old, b, total
<1> DEFINE t == [i \in 0..(Len(old) - 1) |-> ends[i + 1]]
<1>11. /\ ends[1] = b + old[1]
       /\ Adds(t, Tail(old), ends[1], Less(index, 1), total)
  BY <1>8, <1>e, AddsTail, Zenon
<1>12. ends[0] = b
  BY <1>e, AddsFacts
<1>13. ends[1] = b + a /\ Adds(t, new, b + a, next, total)
  BY <1>8, <1>9, <1>11 DEF next
<1>14. longer = Numbers(0, b + a)
  <2>1. content = Numbers(b, b + a)
    <3>1. 1 - 1 = 0
      OBVIOUS
    <3> QED BY <1>2, <1>4, <1>e, <1>12, <1>13, <3>1
  <2>2. Numbers(0, b) \o Numbers(b, b + a) = Numbers(0, b + a)
    <3>1. 0 \in Nat /\ b \in Nat /\ b + a \in Nat /\ 0 <= b /\ b <= b + a
      BY <1>3, <1>b
    <3> QED BY <3>1, NumbersJoin, Zenon
  <2> QED BY <1>b, <1>f, <2>1, <2>2
<1>15. ASSUME NEW i \in DOMAIN rest PROVE FramesOf(rest[i]) = Numbers(t[i - 1], t[i])
  <2>1. i \in Nat /\ i + 1 \in DOMAIN fs /\ rest[i] = fs[i + 1] /\ i >= 1 /\ i <= n - 1
    BY <1>2
  <2>2. i \in 0..(Len(old) - 1) /\ i - 1 \in 0..(Len(old) - 1) /\ (i - 1) + 1 = i
        /\ (i + 1) - 1 = i
    BY <1>2, <1>6, <2>1
  <2>3. t[i] = ends[i + 1] /\ t[i - 1] = ends[i]
    BY <2>2
  <2>4. FramesOf(fs[i + 1]) = Numbers(ends[(i + 1) - 1], ends[i + 1])
    BY <1>e, <2>1
  <2> QED BY <2>1, <2>2, <2>3, <2>4
<1> HIDE DEF t
<1>16. Ends(t, rest, part, next, count, longer)
  BY <1>5, <1>13, <1>15 DEF Ends, new, total
<1>17. Holds(rest, part, next, count, longer)
  <2>1. longer = Numbers(0, Len(longer))
    BY <1>5, <1>14
  <2>2. count \in 0..MaxFrames /\ (part = "some" => count > 0)
    BY DEF Holds
  <2> QED BY <1>5, <1>16, <2>1, <2>2 DEF Holds
<1> QED BY <1>2, <1>5, <1>17 DEF rest, next, longer, content, a, b

-----------------------------------------------------------------------------
(* The invariant, seen from a step. *)
InOrder(fs, part, index, ended, total, count, back) ==
    /\ Shape(fs, part, index, ended)
    /\ Uses(fs, part, index, total)
    /\ Holds(fs, part, index, count, back)

Others ==
    /\ pollCursor \in Nat /\ window \in Windows
    /\ phase \in {"Writing", "Closing", "Failed", "Dropped"}
    /\ pc \in {"idle", "drive", "driven", "grow", "fill"}
    /\ waker \in BOOLEAN /\ runnable \in BOOLEAN /\ inputArmed \in BOOLEAN
    /\ begun \in 0..MaxFrames /\ delivered \in Seq(1..MaxFrames)

LEMMA WriterFacts ==
    ASSUME WriterInv
    PROVE  /\ IInv /\ WriterTypeOK /\ Others /\ Control /\ NoSpareAfterInput /\ NothingLeft
           /\ files \in Seq(SlotType) /\ DOMAIN files = 1..Len(files) /\ Len(files) \in Nat
           /\ used \in Nat /\ used <= capacity[Self] /\ capacity[Self] \in 0..Total /\ Total \in Nat
           /\ phase = "Writing" => InOrder(files, partial, fillIndex, FALSE, used, begun, delivered)
           /\ phase = "Closing" => InOrder(files, partial, fillIndex, TRUE, used, begun, delivered)
<1>1. /\ IInv /\ WriterTypeOK /\ QueueInOrder /\ NothingLeft /\ UsedIsGranted /\ Control
      /\ NoSpareAfterInput
  BY DEF WriterInv
<1>2. Total \in Nat /\ capacity[Self] \in 0..Total
  BY <1>1, SelfTypes
<1>3. Others /\ files \in Seq(SlotType) /\ used \in 0..Total
  BY <1>1 DEF WriterTypeOK, Others
<1>4. DOMAIN files = 1..Len(files) /\ Len(files) \in Nat /\ used \in Nat
  BY <1>2, <1>3
<1>5. ASSUME phase = "Writing"
      PROVE  InOrder(files, partial, fillIndex, FALSE, used, begun, delivered)
  <2>1. (phase = "Closing") = FALSE
    BY <1>5
  <2> QED BY <1>1, <1>5, <2>1 DEF QueueInOrder, Streaming, InOrder
<1>6. ASSUME phase = "Closing"
      PROVE  InOrder(files, partial, fillIndex, TRUE, used, begun, delivered)
  <2>1. (phase = "Closing") = TRUE
    BY <1>6
  <2> QED BY <1>1, <1>6, <2>1 DEF QueueInOrder, Streaming, InOrder
<1> QED BY <1>1, <1>2, <1>3, <1>4, <1>5, <1>6 DEF UsedIsGranted

LEMMA UsesFacts ==
    ASSUME NEW fs, NEW part, NEW index, NEW total, Uses(fs, part, index, total)
    PROVE  total \in Nat
<1>1. PICK s : Adds(s, ReservedOf(fs, part, index), 0, index, total)
  BY DEF Uses
<1> QED BY <1>1, AddsFacts

LEMMA WriterLater ==
    ASSUME IInv', Others', Control', NoSpareAfterInput', used' <= capacity'[Self],
           phase' = "Writing" =>
              InOrder(files', partial', fillIndex', FALSE, used', begun', delivered'),
           phase' = "Closing" =>
              InOrder(files', partial', fillIndex', TRUE, used', begun', delivered'),
           phase' \in {"Failed", "Dropped"} => files' = <<>> /\ partial' = "none" /\ used' = 0
    PROVE  WriterInv'
<1>1. phase' \in {"Writing", "Closing", "Failed", "Dropped"}
  BY DEF Others
<1>2. QueueInOrder'
  <2>1. CASE phase' = "Writing"
    <3>1. (phase' = "Closing") = FALSE
      BY <2>1
    <3> QED BY <2>1, <3>1 DEF QueueInOrder, InOrder
  <2>2. CASE phase' = "Closing"
    <3>1. (phase' = "Closing") = TRUE
      BY <2>2
    <3> QED BY <2>2, <3>1 DEF QueueInOrder, InOrder
  <2>3. CASE phase' \in {"Failed", "Dropped"}
    BY <2>3 DEF QueueInOrder, Streaming
  <2> QED BY <1>1, <2>1, <2>2, <2>3
<1>3. NothingLeft'
  BY <1>1 DEF NothingLeft, Streaming
<1>4. /\ files' \in Seq(SlotType) /\ partial' \in {"none", "empty", "some"} /\ used' \in Nat
      /\ fillIndex' \in 0..Len(files') \/ phase' \in {"Failed", "Dropped"}
  <2>1. CASE phase' = "Writing"
    BY <2>1, UsesFacts DEF InOrder, Shape
  <2>2. CASE phase' = "Closing"
    BY <2>2, UsesFacts DEF InOrder, Shape
  <2>3. CASE phase' \in {"Failed", "Dropped"}
    <3>1. <<>> \in Seq(SlotType) /\ 0 \in Nat
      OBVIOUS
    <3> QED BY <2>3, <3>1
  <2> QED BY <1>1, <2>1, <2>2, <2>3
<1>5. TypeOK' /\ capacity'[Self] \in 0..Total /\ Total \in Nat
  BY SelfAssumption, BudgetAssumption DEF IInv, TypeOK
<1>6. used' \in 0..Total
  BY <1>4, <1>5
<1>7. WriterTypeOK'
  BY <1>4, <1>5, <1>6 DEF WriterTypeOK, Others
<1> QED BY <1>2, <1>3, <1>7 DEF WriterInv, UsedIsGranted

(* Steps that leave the queue and what it holds alone. *)
QueueStays ==
    UNCHANGED <<files, partial, fillIndex, used, phase, begun, delivered>>

LEMMA QueueRests ==
    ASSUME WriterInv, QueueStays, IInv', used <= capacity'[Self], Others', Control',
           phase # "Writing" => capacity'[Self] = used /\ SelfReleased
    PROVE  WriterInv'
<1>1. /\ Others /\ NothingLeft
      /\ phase = "Writing" => InOrder(files, partial, fillIndex, FALSE, used, begun, delivered)
      /\ phase = "Closing" => InOrder(files, partial, fillIndex, TRUE, used, begun, delivered)
  BY WriterFacts
<1>2. /\ phase' = "Writing" =>
            InOrder(files', partial', fillIndex', FALSE, used', begun', delivered')
      /\ phase' = "Closing" =>
            InOrder(files', partial', fillIndex', TRUE, used', begun', delivered')
  BY <1>1 DEF QueueStays
<1>3. phase' \in {"Failed", "Dropped"} => files' = <<>> /\ partial' = "none" /\ used' = 0
  BY <1>1 DEF NothingLeft, Streaming, QueueStays
<1>4. used' <= capacity'[Self] /\ NoSpareAfterInput'
  BY DEF QueueStays, NoSpareAfterInput, SelfReleased
<1> QED BY <1>2, <1>3, <1>4, WriterLater

(* Steps that also leave the budget alone. *)
LEMMA QuietStep ==
    ASSUME WriterInv, QueueStays, UNCHANGED budgetVars, Others', Control'
    PROVE  WriterInv'
<1>1. IInv /\ NoSpareAfterInput /\ used <= capacity[Self]
  BY WriterFacts
<1>2. IInv' /\ capacity'[Self] = capacity[Self] /\ request'[Self] = request[Self]
  BY <1>1, BudgetStays
<1>3. phase # "Writing" => capacity'[Self] = used /\ SelfReleased
  BY <1>1, <1>2 DEF NoSpareAfterInput, SelfReleased
<1> QED BY <1>1, <1>2, <1>3, QueueRests

(* The reservation that is being waited for stays possible. *)
LEMMA MayReserveStays ==
    ASSUME QueueStays, UNCHANGED window
    PROVE  MayReserve' = MayReserve
BY DEF QueueStays, MayReserve, HasFillSlot, Needed, FillSlot, Limit

(* A call begins: only from Idle, and only a poll leaves it. *)
LEMMA PollWriteKeeps == ASSUME WriterInv, PollWrite PROVE WriterInv'
<1>1. IInv /\ Others /\ Control /\ files \in Seq(SlotType)
  BY WriterFacts
<1>2. QueueStays /\ UNCHANGED budgetVars /\ UNCHANGED <<pollCursor, window, inputArmed>>
      /\ phase = "Writing" /\ alive[Self] /\ waker' = FALSE /\ runnable' = FALSE
  BY DEF PollWrite, QueueStays, Idle, Callable
<1>3. UNCHANGED alive
  BY <1>2 DEF budgetVars
<1>4. pc' \in {"driven", "drive"} /\ (pc' = "drive" => files # <<>>)
  BY <1>1 DEF PollWrite, StartDrive
<1>5. Others'
  BY <1>1, <1>2, <1>4 DEF Others, QueueStays
<1>6. Control'
  BY <1>1, <1>2, <1>3, <1>4 DEF Control, Streaming, QueueStays
<1> QED BY <1>2, <1>5, <1>6, QuietStep

LEMMA PollCloseKeeps == ASSUME WriterInv, PollClose PROVE WriterInv'
<1>1. IInv /\ Others /\ Control /\ files \in Seq(SlotType)
  BY WriterFacts
<1>2. QueueStays /\ UNCHANGED budgetVars /\ UNCHANGED <<pollCursor, window, inputArmed>>
      /\ phase = "Closing" /\ alive[Self] /\ waker' = FALSE /\ runnable' = FALSE
  BY DEF PollClose, QueueStays, Idle, Callable
<1>3. UNCHANGED alive
  BY <1>2 DEF budgetVars
<1>4. pc' \in {"driven", "drive"} /\ (pc' = "drive" => files # <<>>)
  BY <1>1 DEF PollClose, StartDrive
<1>5. Others'
  BY <1>1, <1>2, <1>4 DEF Others, QueueStays
<1>6. Control'
  BY <1>1, <1>2, <1>3, <1>4 DEF Control, Streaming, QueueStays
<1> QED BY <1>2, <1>5, <1>6, QuietStep

LEMMA ReturnKeeps == ASSUME WriterInv, PollRejected \/ FinishClose \/ FillPends PROVE WriterInv'
<1>1. Others /\ Control
  BY WriterFacts
<1>2. QueueStays /\ UNCHANGED budgetVars /\ UNCHANGED <<pollCursor, window>>
      /\ inputArmed' \in BOOLEAN
  BY <1>1 DEF PollRejected, FinishClose, FillPends, QueueStays, Others
<1>3. UNCHANGED alive
  BY <1>2 DEF budgetVars
<1>4. pc' = "idle" /\ waker' \in BOOLEAN /\ runnable' \in BOOLEAN
  BY <1>1 DEF PollRejected, FinishClose, FillPends, ReturnReady, ReturnPending, Idle, pollVars,
              Others
<1>5. Others'
  BY <1>1, <1>2, <1>4 DEF Others, QueueStays
<1>6. Control'
  BY <1>1, <1>2, <1>3, <1>4 DEF Control, Streaming, QueueStays
<1> QED BY <1>2, <1>5, <1>6, QuietStep

(* A failure drops all work, and the permit keeps nothing. *)
LEMMA FailKeeps ==
    ASSUME WriterInv, Fail, pc # "idle", pollCursor' \in Nat
    PROVE  WriterInv' /\ BudgetNext
<1>1. IInv /\ Others /\ Control /\ alive[Self] /\ capacity[Self] \in 0..Total /\ Total \in Nat
  BY WriterFacts DEF Control
<1>2. /\ Shrink(0) /\ phase' = "Failed" /\ files' = <<>> /\ partial' = "none" /\ used' = 0
      /\ pc' = "idle" /\ runnable' = TRUE
      /\ UNCHANGED <<fillIndex, window, waker, inputArmed, begun, delivered>>
  BY DEF Fail, ReturnGrant
<1>3. /\ IInv' /\ BudgetNext /\ UNCHANGED alive /\ capacity'[Self] = Least(0, capacity[Self])
      /\ SelfReleased
  BY <1>1, <1>2, ShrinkStep
<1>4. capacity'[Self] = 0
  BY <1>1, <1>3 DEF Least
<1>5. Others'
  BY <1>1, <1>2 DEF Others
<1>6. Control'
  BY <1>1, <1>2, <1>3 DEF Control
<1>7. NoSpareAfterInput' /\ used' <= capacity'[Self]
  BY <1>2, <1>3, <1>4 DEF NoSpareAfterInput, SelfReleased
<1> QED BY <1>2, <1>3, <1>5, <1>6, <1>7, WriterLater

(* What the next frame needs, when there is a file for it. *)
LEMMA NeededFacts ==
    ASSUME WriterInv, phase = "Writing", MayReserve
    PROVE  /\ partial = "none" /\ fillIndex < Len(files) /\ Needed = NeededBy(files[fillIndex + 1])
           /\ Needed \in Nat /\ used + Needed \in Nat
           /\ Shape(files, "none", fillIndex, FALSE)
           /\ Uses(files, "none", fillIndex, used)
           /\ Holds(files, "none", fillIndex, begun, delivered)
<1>1. /\ InOrder(files, partial, fillIndex, FALSE, used, begun, delivered) /\ used \in Nat
  BY WriterFacts
<1>2. partial = "none" /\ fillIndex < Len(files)
  BY DEF MayReserve, HasFillSlot
<1>3. /\ Shape(files, "none", fillIndex, FALSE) /\ Uses(files, "none", fillIndex, used)
      /\ Holds(files, "none", fillIndex, begun, delivered)
  BY <1>1, <1>2 DEF InOrder
<1>4. Needed = NeededBy(files[fillIndex + 1])
  BY DEF Needed, NeededBy, FillSlot
<1>5. NeededBy(files[fillIndex + 1]) \in Nat
  BY <1>2, <1>3, FillSlotReserves
<1> DEFINE n == NeededBy(files[fillIndex + 1])
<1>6. n \in Nat /\ used \in Nat /\ Needed = n
  BY <1>1, <1>4, <1>5
<1> HIDE DEF n
<1>7. Needed \in Nat /\ used + Needed \in Nat
  BY <1>6
<1> QED BY <1>2, <1>3, <1>4, <1>7

LEMMA AllocateKeeps ==
    ASSUME WriterInv, phase = "Writing", alive[Self], MayReserve,
           capacity[Self] >= used + Needed, UNCHANGED budgetVars, Allocate
    PROVE  WriterInv'
<1>1. IInv /\ Others /\ Control
  BY WriterFacts
<1>2. /\ Needed = NeededBy(files[fillIndex + 1]) /\ fillIndex < Len(files)
      /\ Shape(files, "none", fillIndex, FALSE) /\ Uses(files, "none", fillIndex, used)
      /\ Holds(files, "none", fillIndex, begun, delivered)
  BY NeededFacts
<1>3. /\ used' = used + Needed /\ partial' = "empty" /\ pc' = "fill"
      /\ UNCHANGED <<files, fillIndex, pollCursor, phase, window, waker, runnable, inputArmed,
                     begun, delivered>>
  BY DEF Allocate, outsideVars
<1>4. IInv' /\ UNCHANGED alive /\ capacity'[Self] = capacity[Self]
  BY <1>1, BudgetStays
<1>5. /\ Shape(files, "empty", fillIndex, FALSE)
      /\ Uses(files, "empty", fillIndex, used + Needed)
  BY <1>2, Allocated
<1>6. Holds(files, "empty", fillIndex, begun, delivered)
  BY <1>2 DEF Holds, Ends, StartedOf
<1>7. InOrder(files', partial', fillIndex', FALSE, used', begun', delivered')
  BY <1>3, <1>5, <1>6 DEF InOrder
<1>8. Others'
  BY <1>1, <1>3 DEF Others
<1>9. Control'
  BY <1>1, <1>3, <1>4 DEF Control, Streaming
<1>10. NoSpareAfterInput' /\ used' <= capacity'[Self] /\ phase' = "Writing"
  <2>1. used' <= capacity'[Self]
    <3> DEFINE u == used + Needed
               c == capacity[Self]
    <3>1. used' = u /\ capacity'[Self] = c /\ c >= u /\ u \in Nat /\ c \in Nat
      BY <1>3, <1>4, NeededFacts, WriterFacts
    <3> HIDE DEF u, c
    <3> QED BY <3>1
  <2> QED BY <1>3, <2>1 DEF NoSpareAfterInput
<1> QED BY <1>4, <1>7, <1>8, <1>9, <1>10, WriterLater

LEMMA ReserveKeeps ==
    ASSUME WriterInv, Reserve
    PROVE  WriterInv' /\ (BudgetNext \/ UNCHANGED budgetVars)
<1>1. /\ IInv /\ Others /\ Control /\ used \in Nat /\ used <= capacity[Self]
      /\ capacity[Self] \in 0..Total /\ Total \in Nat
  BY WriterFacts
<1>2. pc = "driven" /\ phase = "Writing" /\ alive[Self]
  BY DEF Reserve, Callable
<1>3. CASE MayReserve /\ capacity[Self] >= used + Needed
  <2>1. (UNCHANGED budgetVars /\ Allocate) \/ BadAllocation
    BY <1>3 DEF Reserve
  <2>2. CASE UNCHANGED budgetVars /\ Allocate
    BY <1>2, <1>3, <2>2, AllocateKeeps
  <2>3. CASE BadAllocation
    BY <1>1, <1>2, <2>3, FailKeeps DEF BadAllocation, Others
  <2> QED BY <2>1, <2>2, <2>3
<1>4. CASE ~(MayReserve /\ capacity[Self] >= used + Needed)
  <2>1. /\ QueueStays /\ UNCHANGED <<pollCursor, window, waker, runnable, inputArmed>>
        /\ pc' \in {"grow", "fill"} /\ (pc' = "grow" => MayReserve)
        /\ UNCHANGED budgetVars \/ Shrink(used)
    BY <1>4 DEF Reserve, QueueStays, schedulerVars, outsideVars
  <2>2. IInv' /\ UNCHANGED alive /\ used <= capacity'[Self]
        /\ (BudgetNext \/ UNCHANGED budgetVars)
    <3>1. CASE UNCHANGED budgetVars
      BY <1>1, <3>1, BudgetStays
    <3>2. CASE Shrink(used)
      BY <1>1, <3>2, ShrinkStep DEF Least
    <3> QED BY <2>1, <3>1, <3>2
  <2>3. Others'
    BY <1>1, <2>1 DEF Others, QueueStays
  <2>4. MayReserve' = MayReserve
    BY <2>1, MayReserveStays
  <2>5. Control'
    BY <1>1, <1>2, <2>1, <2>2, <2>4 DEF Control, Streaming, QueueStays
  <2> QED BY <1>2, <2>1, <2>2, <2>3, <2>5, QueueRests
<1> QED BY <1>3, <1>4

LEMMA GrowKeeps ==
    ASSUME WriterInv, Grow
    PROVE  WriterInv' /\ BudgetNext
<1>1. /\ IInv /\ Others /\ Control /\ used \in Nat /\ used <= capacity[Self]
      /\ capacity[Self] \in 0..Total /\ Total \in Nat
  BY WriterFacts
<1>2. pc = "grow" /\ phase = "Writing" /\ MayReserve /\ alive[Self]
  BY <1>1 DEF Grow, Control
<1> DEFINE minimum == used + Needed
           desired == Least(Total, Most(window.target, minimum))
<1>3. /\ PollGrow(Self, Writer, minimum, desired) /\ pc' \in {"driven", "fill"}
      /\ QueueStays /\ UNCHANGED <<pollCursor, window, waker, runnable, inputArmed>>
  BY DEF Grow, QueueStays, schedulerVars, outsideVars
<1>4. minimum \in Nat
  BY <1>2, NeededFacts
<1>5. window.target \in Nat
  BY <1>1, WriterAssumption DEF Others
<1>6. desired \in Nat
  BY <1>1, <1>4, <1>5 DEF Least, Most
<1>7. Writer \in Tasks
  BY WriterAssumption
<1> HIDE DEF minimum, desired
<1>8. IInv' /\ BudgetNext /\ UNCHANGED alive /\ capacity'[Self] \in capacity[Self]..Total
  BY <1>1, <1>3, <1>4, <1>6, <1>7, GrowStep
<1>9. used <= capacity'[Self]
  BY <1>1, <1>8
<1>10. Others'
  BY <1>1, <1>3 DEF Others, QueueStays
<1>11. Control'
  BY <1>1, <1>2, <1>3, <1>8 DEF Control, Streaming, QueueStays
<1> QED BY <1>2, <1>3, <1>8, <1>9, <1>10, <1>11, QueueRests

LEMMA SetWindowKeeps ==
    ASSUME WriterInv, NEW w \in Windows, SetWindow(w)
    PROVE  WriterInv' /\ BudgetNext
<1>1. /\ IInv /\ Others /\ Control /\ NoSpareAfterInput /\ used \in Nat /\ used <= capacity[Self]
      /\ capacity[Self] \in 0..Total /\ Total \in Nat
  BY WriterFacts
<1>2. /\ pc = "idle" /\ alive[Self] /\ window' = w /\ Shrink(Trimmed(w.target, used))
      /\ QueueStays /\ UNCHANGED <<pollCursor, pc, inputArmed>>
      /\ runnable' = (runnable \/ waker) /\ waker' = FALSE
  BY DEF SetWindow, Idle, Callable, QueueStays, pollVars, WakeStored
<1>3. w.target \in Nat
  BY WriterAssumption
<1>4. /\ Trimmed(w.target, used) \in Nat /\ used <= Trimmed(w.target, used)
      /\ Trimmed(w.target, used) <= capacity[Self]
      /\ capacity[Self] = used => Trimmed(w.target, used) = used
  BY <1>1, <1>3 DEF Trimmed, Least, Most
<1>5. /\ IInv' /\ BudgetNext /\ UNCHANGED alive /\ SelfReleased
      /\ capacity'[Self] = Least(Trimmed(w.target, used), capacity[Self])
  BY <1>1, <1>2, <1>4, ShrinkStep
<1>6. capacity'[Self] = Trimmed(w.target, used)
  BY <1>1, <1>4, <1>5 DEF Least
<1>7. phase # "Writing" => capacity'[Self] = used /\ SelfReleased
  BY <1>1, <1>4, <1>5, <1>6 DEF NoSpareAfterInput
<1>8. Others'
  BY <1>1, <1>2 DEF Others, QueueStays
<1>9. Control'
  BY <1>1, <1>2, <1>5 DEF Control, QueueStays
<1> QED BY <1>2, <1>4, <1>5, <1>6, <1>7, <1>8, <1>9, QueueRests

(* A step of others leaves the scheduler's grant alone; it may wake its task *)
(* and serve its request.                                                    *)
LEMMA BystanderKeeps ==
    ASSUME WriterInv, IInv', UNCHANGED alive, capacity'[Self] = capacity[Self],
           ~request[Self].waiting => request'[Self] = request[Self],
           QueueStays, UNCHANGED <<pollCursor, window, waker, pc>>,
           runnable' \in BOOLEAN, inputArmed' \in BOOLEAN
    PROVE  WriterInv'
<1>1. /\ Others /\ Control /\ NoSpareAfterInput /\ used <= capacity[Self]
  BY WriterFacts
<1>2. phase # "Writing" => capacity'[Self] = used /\ SelfReleased
  BY <1>1 DEF NoSpareAfterInput, SelfReleased
<1>3. Others'
  BY <1>1 DEF Others, QueueStays
<1>4. MayReserve' = MayReserve
  BY MayReserveStays
<1>5. Control'
  BY <1>1, <1>4 DEF Control, Streaming, QueueStays
<1> QED BY <1>1, <1>2, <1>3, <1>5, QueueRests

(* Events of the input, the threads of the budget and its other users. *)
LEMMA OutsideKeeps ==
    ASSUME WriterInv,
           \/ InputEvent
           \/ \E p \in Permits : BudgetThread(p) \/ BudgetWake(p)
           \/ \E p \in Rivals : RivalStep(p)
    PROVE  WriterInv' /\ (BudgetNext \/ UNCHANGED budgetVars)
<1>1. IInv /\ Others
  BY WriterFacts
<1>2. /\ QueueStays /\ UNCHANGED <<pollCursor, window, waker, pc>>
      /\ runnable' \in BOOLEAN /\ inputArmed' \in BOOLEAN
  <2>1. CASE InputEvent
    BY <1>1, <2>1 DEF InputEvent, QueueStays, schedulerVars, pollVars, Others
  <2>2. ASSUME BudgetOnly
        PROVE  /\ QueueStays /\ UNCHANGED <<pollCursor, window, waker, pc>>
               /\ runnable' \in BOOLEAN /\ inputArmed' \in BOOLEAN
    BY <1>1, <2>2 DEF BudgetOnly, QueueStays, schedulerVars, pollVars, outsideVars, Others
  <2>3. ASSUME NEW p \in Permits, BudgetThread(p) PROVE BudgetOnly
    BY <2>3 DEF BudgetThread
  <2>4. ASSUME NEW p \in Rivals, RivalStep(p) PROVE BudgetOnly
    BY <2>4 DEF RivalStep
  <2>5. ASSUME NEW p \in Permits, BudgetWake(p)
        PROVE  /\ QueueStays /\ UNCHANGED <<pollCursor, window, waker, pc>>
               /\ runnable' \in BOOLEAN /\ inputArmed' \in BOOLEAN
    BY <1>1, <2>5 DEF BudgetWake, Woken, QueueStays, schedulerVars, pollVars, Others
  <2> QED BY <2>1, <2>2, <2>3, <2>4, <2>5
<1>3. /\ IInv' /\ UNCHANGED alive /\ capacity'[Self] = capacity[Self]
      /\ ~request[Self].waiting => request'[Self] = request[Self]
      /\ BudgetNext \/ UNCHANGED budgetVars
  <2>1. CASE InputEvent
    BY <1>1, <2>1, BudgetStays DEF InputEvent
  <2>2. CASE ~InputEvent
    <3>1. PICK p \in Permits :
             \/ Dispatch(p) \/ Unlock(p) \/ Wake(p)
             \/ p \in Rivals /\ (RivalAsks(p) \/ RivalReturns(p))
      BY <2>2 DEF BudgetThread, BudgetWake, RivalStep, Rivals
    <3> QED BY <1>1, <3>1, OthersStep
  <2> QED BY <2>1, <2>2
<1> QED BY <1>2, <1>3, BystanderKeeps

(* The scheduler is dropped. *)
LEMMA DropKeeps ==
    ASSUME WriterInv, DropScheduler
    PROVE  WriterInv' /\ BudgetNext
<1>1. IInv /\ Others /\ Control
  BY WriterFacts
<1>2. /\ pc = "idle" /\ Drop(Self) /\ phase' = "Dropped" /\ files' = <<>> /\ partial' = "none"
      /\ used' = 0 /\ waker' = FALSE
      /\ UNCHANGED <<pollCursor, window, pc, runnable, inputArmed, begun, delivered>>
  BY DEF DropScheduler, Idle, pollVars, outsideVars
<1>3. IInv' /\ BudgetNext /\ ~alive'[Self] /\ capacity'[Self] = 0 /\ SelfReleased
  BY <1>1, <1>2, DropStep
<1>4. Others'
  BY <1>1, <1>2 DEF Others
<1>5. Control'
  BY <1>2, <1>3 DEF Control
<1>6. NoSpareAfterInput' /\ used' <= capacity'[Self]
  BY <1>2, <1>3 DEF NoSpareAfterInput, SelfReleased
<1> QED BY <1>2, <1>3, <1>4, <1>5, <1>6, WriterLater

(* One slot of the queue goes on. *)
LEMMA PutInOrder ==
    ASSUME WriterInv, NEW k \in DOMAIN files, NEW later, Continues(later, files[k]),
           NEW released, Releases(released, later, files[k])
    PROVE  /\ released \in Nat /\ released <= used /\ phase \in {"Writing", "Closing"}
           /\ Put(files, k, later) \in Seq(SlotType) /\ Len(Put(files, k, later)) = Len(files)
           /\ phase = "Writing" =>
                InOrder(Put(files, k, later), partial, fillIndex, FALSE, used - released,
                        begun, delivered)
           /\ phase = "Closing" =>
                InOrder(Put(files, k, later), partial, fillIndex, TRUE, used - released,
                        begun, delivered)
<1>1. /\ QueueInOrder /\ files \in Seq(SlotType) /\ DOMAIN files = 1..Len(files)
      /\ Len(files) \in Nat /\ NothingLeft
  BY WriterFacts DEF WriterInv
<1>2. Streaming
  <2>1. files # <<>>
    BY <1>1
  <2> QED BY <1>1, <2>1 DEF NothingLeft
<1>3. /\ Shape(files, partial, fillIndex, phase = "Closing")
      /\ Uses(files, partial, fillIndex, used)
      /\ Holds(files, partial, fillIndex, begun, delivered)
  BY <1>1, <1>2 DEF QueueInOrder
<1>4. Shape(Put(files, k, later), partial, fillIndex, phase = "Closing")
  BY <1>3, PutShape
<1>5. /\ released \in Nat /\ released <= used
      /\ Uses(Put(files, k, later), partial, fillIndex, used - released)
  BY <1>3, PutUses
<1>6. Holds(Put(files, k, later), partial, fillIndex, begun, delivered)
  BY <1>1, <1>3, PutHolds
<1>7. Put(files, k, later) \in Seq(SlotType) /\ Len(Put(files, k, later)) = Len(files)
  BY <1>1, PutFacts DEF Continues
<1>8. CASE phase = "Writing"
  <2>1. (phase = "Closing") = FALSE
    BY <1>8
  <2>2. Shape(Put(files, k, later), partial, fillIndex, FALSE)
    BY <1>4, <2>1
  <2> QED BY <1>5, <1>6, <1>7, <1>8, <2>2 DEF InOrder
<1>9. CASE phase = "Closing"
  <2>1. (phase = "Closing") = TRUE
    BY <1>9
  <2>2. Shape(Put(files, k, later), partial, fillIndex, TRUE)
    BY <1>4, <2>1
  <2> QED BY <1>5, <1>6, <1>7, <1>9, <2>2 DEF InOrder
<1> QED BY <1>2, <1>8, <1>9 DEF Streaming

LEMMA BackendEventKeeps ==
    ASSUME WriterInv, NEW i \in DOMAIN files, BackendEvent(i)
    PROVE  WriterInv' /\ UNCHANGED budgetVars
<1> DEFINE later == [files[i] EXCEPT !.io = "ready"]
<1>1. /\ IInv /\ Others /\ Control /\ NoSpareAfterInput /\ files \in Seq(SlotType)
      /\ used \in Nat /\ used <= capacity[Self] /\ QueueInOrder /\ Len(files) \in Nat
      /\ DOMAIN files = 1..Len(files)
  BY WriterFacts DEF WriterInv
<1>2. /\ files' = [files EXCEPT ![i].io = "ready"] /\ runnable' = TRUE
      /\ UNCHANGED <<budgetVars, partial, used, fillIndex, pollCursor, phase, window, waker,
                     pc, inputArmed, begun, delivered>>
  BY DEF BackendEvent, pollVars
<1>3. files' = Put(files, i, later)
  BY <1>2 DEF Put
<1>4. files[i] \in SlotType /\ Sound(files[i])
  <2>1. Streaming
    <3>1. files # <<>>
      BY <1>1
    <3> QED BY <3>1, WriterFacts DEF NothingLeft
  <2> QED BY <1>1, <2>1 DEF QueueInOrder, Shape
<1>5. Continues(later, files[i]) /\ Releases(0, later, files[i])
  BY <1>4, OnlyIo
<1>l. later.assigned = files[i].assigned /\ later.capacity = files[i].capacity
  BY <1>5 DEF Continues
<1> HIDE DEF later
<1>6. /\ phase \in {"Writing", "Closing"} /\ Len(files') = Len(files)
      /\ phase = "Writing" =>
            InOrder(files', partial, fillIndex, FALSE, used - 0, begun, delivered)
      /\ phase = "Closing" =>
            InOrder(files', partial, fillIndex, TRUE, used - 0, begun, delivered)
  BY <1>3, <1>5, PutInOrder
<1>7. used - 0 = used
  BY <1>1
<1>8. IInv' /\ UNCHANGED alive /\ capacity'[Self] = capacity[Self] /\ request'[Self] = request[Self]
  BY <1>1, <1>2, BudgetStays
<1>9. Others'
  BY <1>1, <1>2 DEF Others
<1>10. MayReserve => MayReserve'
  <2> SUFFICES ASSUME MayReserve PROVE MayReserve'
    OBVIOUS
  <2>0. fillIndex \in Nat /\ fillIndex < Len(files)
    <3>1. fillIndex \in 0..Len(files)
      BY <1>1, <1>6 DEF QueueInOrder, Streaming, Shape
    <3> QED BY <1>1, <3>1 DEF MayReserve, HasFillSlot
  <2>1. fillIndex + 1 \in DOMAIN files
    BY <1>1, <2>0
  <2>2. /\ files'[fillIndex + 1].assigned = files[fillIndex + 1].assigned
        /\ files'[fillIndex + 1].capacity = files[fillIndex + 1].capacity
    <3>1. CASE fillIndex + 1 = i
      BY <1>1, <1>3, <1>l, <3>1 DEF Put
    <3>2. CASE fillIndex + 1 # i
      BY <1>1, <1>3, <2>1, <3>2 DEF Put
    <3> QED BY <3>1, <3>2
  <2>3. FillSlot'.assigned = FillSlot.assigned /\ FillSlot'.capacity = FillSlot.capacity
    BY <1>2, <2>2 DEF FillSlot
  <2>4. Needed' = Needed
    BY <2>3 DEF Needed
  <2>5. Limit' = Limit
    BY <1>2 DEF Limit
  <2>6. HasFillSlot' = HasFillSlot
    BY <1>2, <1>6 DEF HasFillSlot
  <2> QED BY <1>2, <2>4, <2>5, <2>6 DEF MayReserve
<1>11. files # <<>> => files' # <<>>
  <2>1. files' \in Seq(SlotType)
    BY <1>6 DEF InOrder, Shape
  <2> QED BY <1>1, <1>6, <2>1
<1>12. Control'
  BY <1>1, <1>2, <1>8, <1>10, <1>11 DEF Control, Streaming
<1>13. NoSpareAfterInput' /\ used' <= capacity'[Self]
  BY <1>1, <1>2, <1>8 DEF NoSpareAfterInput
<1>14. /\ phase' = "Writing" =>
              InOrder(files', partial', fillIndex', FALSE, used', begun', delivered')
       /\ phase' = "Closing" =>
              InOrder(files', partial', fillIndex', TRUE, used', begun', delivered')
  BY <1>2, <1>6, <1>7
<1> QED BY <1>2, <1>6, <1>8, <1>9, <1>12, <1>13, <1>14, WriterLater

(* What a step of drive keeps of the grant covers what is used afterwards. *)
LEMMA DriveGrant ==
    ASSUME WriterInv, NEW released \in Nat, released <= used, used' = used - released,
           UNCHANGED <<phase, window>>,
           \/ Shrink(used')
           \/ released > 0 /\ Shrink(Kept(used'))
           \/ released = 0 /\ UNCHANGED budgetVars
    PROVE  /\ IInv' /\ UNCHANGED alive /\ used' <= capacity'[Self] /\ used' \in Nat
           /\ BudgetNext \/ UNCHANGED budgetVars
           /\ phase # "Writing" => capacity'[Self] = used' /\ SelfReleased
<1>1. /\ IInv /\ Others /\ NoSpareAfterInput /\ used \in Nat /\ used <= capacity[Self]
      /\ capacity[Self] \in 0..Total /\ Total \in Nat /\ phase \in {"Writing", "Closing"}
                                                      \cup {"Failed", "Dropped"}
  BY WriterFacts DEF Others
<1>2. used' \in Nat /\ used' <= used /\ used' <= capacity[Self]
  BY <1>1
<1>3. CASE Shrink(used')
  <2>1. /\ IInv' /\ BudgetNext /\ UNCHANGED alive /\ SelfReleased
        /\ capacity'[Self] = Least(used', capacity[Self])
    BY <1>1, <1>2, <1>3, ShrinkStep
  <2>2. capacity'[Self] = used'
    BY <1>1, <1>2, <2>1 DEF Least
  <2> QED BY <1>2, <2>1, <2>2
<1>4. CASE released > 0 /\ Shrink(Kept(used'))
  <2>1. window.target \in Nat
    BY <1>1, WriterAssumption DEF Others
  <2>2. /\ Kept(used') \in Nat /\ used' <= Kept(used') /\ Kept(used') <= capacity[Self]
        /\ phase = "Closing" => Kept(used') = used'
    BY <1>1, <1>2, <2>1 DEF Kept, Trimmed, Least, Most
  <2>3. /\ IInv' /\ BudgetNext /\ UNCHANGED alive /\ SelfReleased
        /\ capacity'[Self] = Least(Kept(used'), capacity[Self])
    BY <1>1, <1>4, <2>2, ShrinkStep
  <2>4. capacity'[Self] = Kept(used')
    BY <1>1, <2>2, <2>3 DEF Least
  <2>5. ASSUME phase \in {"Failed", "Dropped"} PROVE FALSE
    <3>1. used = 0
      BY <2>5, WriterFacts DEF NothingLeft, Streaming
    <3> QED BY <1>4, <3>1
  <2> QED BY <1>1, <1>2, <2>2, <2>3, <2>4, <2>5
<1>5. CASE released = 0 /\ UNCHANGED budgetVars
  <2>1. IInv' /\ UNCHANGED alive /\ capacity'[Self] = capacity[Self]
        /\ request'[Self] = request[Self]
    BY <1>1, <1>5, BudgetStays
  <2>2. used' = used
    BY <1>1, <1>5
  <2> QED BY <1>1, <1>2, <1>5, <2>1, <2>2 DEF NoSpareAfterInput, SelfReleased
<1> QED BY <1>3, <1>4, <1>5

LEMMA DriveSteppedKeeps ==
    ASSUME WriterInv, NEW i \in DOMAIN files, NEW result \in Polled(files[i]), ~result.failed,
           DriveStepped(i, result), pc = "drive", pollCursor' \in Nat
    PROVE  WriterInv' /\ (BudgetNext \/ UNCHANGED budgetVars)
<1>1. /\ IInv /\ Others /\ Control /\ NoSpareAfterInput /\ files \in Seq(SlotType)
      /\ used \in Nat /\ QueueInOrder /\ Len(files) \in Nat
      /\ DOMAIN files = 1..Len(files)
  BY WriterFacts DEF WriterInv
<1>2. Streaming /\ alive[Self]
  BY <1>1 DEF Control
<1>3. files[i] \in SlotType /\ Sound(files[i])
  BY <1>1, <1>2 DEF QueueInOrder, Shape
<1> DEFINE later == result.slot
           released == result.released
<1>4. Continues(later, files[i]) /\ Releases(released, later, files[i])
  BY <1>3, PolledFacts
<1>5. /\ files' = Put(files, i, later) /\ used' = Less(used, released)
      /\ UNCHANGED <<partial, fillIndex, phase, window, waker, inputArmed, begun, delivered>>
      /\ runnable' \in BOOLEAN /\ pc' \in {"drive", "driven"}
  BY <1>1 DEF DriveStepped, Put, SelfWoken, Others
<1>6. \/ Shrink(used')
      \/ released > 0 /\ Shrink(Kept(used'))
      \/ ~(released > 0) /\ UNCHANGED budgetVars
  BY DEF DriveStepped
<1> HIDE DEF later, released
<1>7. /\ released \in Nat /\ released <= used /\ phase \in {"Writing", "Closing"}
      /\ files' \in Seq(SlotType) /\ Len(files') = Len(files)
      /\ phase = "Writing" =>
            InOrder(files', partial, fillIndex, FALSE, used - released, begun, delivered)
      /\ phase = "Closing" =>
            InOrder(files', partial, fillIndex, TRUE, used - released, begun, delivered)
  BY <1>4, <1>5, PutInOrder
<1>8. used' = used - released
  BY <1>1, <1>5, <1>7 DEF Less
<1>9. \/ Shrink(used')
      \/ released > 0 /\ Shrink(Kept(used'))
      \/ released = 0 /\ UNCHANGED budgetVars
  BY <1>6, <1>7
<1>10. /\ IInv' /\ UNCHANGED alive /\ used' <= capacity'[Self] /\ used' \in Nat
       /\ BudgetNext \/ UNCHANGED budgetVars
       /\ phase # "Writing" => capacity'[Self] = used' /\ SelfReleased
  BY <1>5, <1>7, <1>8, <1>9, DriveGrant
<1>11. Others'
  BY <1>1, <1>5 DEF Others
<1>12. files' # <<>>
  BY <1>1, <1>7
<1>13. Control'
  BY <1>1, <1>2, <1>5, <1>10, <1>12 DEF Control, Streaming
<1>14. NoSpareAfterInput'
  BY <1>5, <1>10 DEF NoSpareAfterInput, SelfReleased
<1>15. /\ phase' = "Writing" =>
              InOrder(files', partial', fillIndex', FALSE, used', begun', delivered')
       /\ phase' = "Closing" =>
              InOrder(files', partial', fillIndex', TRUE, used', begun', delivered')
  BY <1>5, <1>7, <1>8
<1> QED BY <1>5, <1>7, <1>10, <1>11, <1>13, <1>14, <1>15, WriterLater

LEMMA DriveStepKeeps ==
    ASSUME WriterInv, DriveStep
    PROVE  WriterInv' /\ (BudgetNext \/ UNCHANGED budgetVars)
<1> DEFINE count == Len(files)
           index == pollCursor % count
<1>1. /\ pc = "drive" /\ pollCursor' = (index + 1) % count
      /\ \E result \in Polled(files[index + 1]) :
            \/ result.failed /\ Fail
            \/ ~result.failed /\ DriveStepped(index + 1, result)
  BY DEF DriveStep
<1>2. /\ files \in Seq(SlotType) /\ Control /\ Others /\ DOMAIN files = 1..count /\ count \in Nat
  BY WriterFacts
<1>3. count > 0
  BY <1>1, <1>2 DEF Control
<1> HIDE DEF count
<1>4. index \in Nat /\ index < count
  BY <1>2, <1>3 DEF Others
<1>5. pollCursor' \in Nat /\ index + 1 \in DOMAIN files
  <2> HIDE DEF index
  <2>1. (index + 1) % count \in Nat
    BY <1>2, <1>3, <1>4
  <2> QED BY <1>1, <1>2, <1>4, <2>1
<1> HIDE DEF index
<1>6. PICK result \in Polled(files[index + 1]) :
         \/ result.failed /\ Fail
         \/ ~result.failed /\ DriveStepped(index + 1, result)
  BY <1>1
<1>7. CASE result.failed /\ Fail
  BY <1>1, <1>5, <1>7, FailKeeps
<1>8. CASE ~result.failed /\ DriveStepped(index + 1, result)
  BY <1>1, <1>5, <1>8, DriveSteppedKeeps
<1> QED BY <1>6, <1>7, <1>8

(* The partial frame moves into its file. *)
LEMMA FlushInOrder ==
    ASSUME NEW count, NEW total, NEW back,
           InOrder(files, "some", fillIndex, FALSE, total, count, back)
    PROVE  InOrder(FlushedFiles(count), "none", FlushedIndex, FALSE, total, count, back)
<1>1. /\ Shape(files, "some", fillIndex, FALSE) /\ Uses(files, "some", fillIndex, total)
      /\ Holds(files, "some", fillIndex, count, back)
  BY DEF InOrder
<1>2. FlushedFiles(count) = FlushedQueue(files, fillIndex, count)
  BY DEF FlushedFiles, FlushedQueue, Put, FlushedSlot, FillSlot
<1>3. FlushedIndex = NextIndex(files[fillIndex + 1], fillIndex)
  BY DEF FlushedIndex, NextIndex, FillSlot
<1>4. count \in 1..MaxFrames
      /\ Holds(FlushedQueue(files, fillIndex, count), "none",
               NextIndex(files[fillIndex + 1], fillIndex), count, back)
  BY <1>1, FlushedHolds
<1>5. Shape(FlushedQueue(files, fillIndex, count), "none",
            NextIndex(files[fillIndex + 1], fillIndex), FALSE)
  BY <1>1, <1>4, FlushedShape
<1>6. Uses(FlushedQueue(files, fillIndex, count), "none",
           NextIndex(files[fillIndex + 1], fillIndex), total)
  BY <1>1, <1>4, FlushedUses
<1> QED BY <1>2, <1>3, <1>4, <1>5, <1>6 DEF InOrder

(* Input arrives in the partial frame, its first or more of it. *)
LEMMA ConsumeInOrder ==
    ASSUME WriterInv, phase = "Writing", partial # "none", Consume
    PROVE  /\ InOrder(files, "some", fillIndex, FALSE, used, begun', delivered)
           /\ begun' \in 0..MaxFrames
<1>1. /\ InOrder(files, partial, fillIndex, FALSE, used, begun, delivered)
      /\ partial \in {"none", "empty", "some"} /\ begun \in 0..MaxFrames /\ MaxFrames \in Nat
  BY WriterFacts, WriterAssumption DEF Others, WriterTypeOK
<1>2. CASE partial = "some"
  BY <1>1, <1>2 DEF Consume
<1>3. CASE partial = "empty"
  <2>1. begun' = begun + 1 /\ begun + 1 <= MaxFrames
    BY <1>3 DEF Consume
  <2>2. /\ Shape(files, "empty", fillIndex, FALSE) /\ Uses(files, "empty", fillIndex, used)
        /\ Holds(files, "empty", fillIndex, begun, delivered)
    BY <1>1, <1>3 DEF InOrder
  <2>3. /\ Shape(files, "some", fillIndex, FALSE) /\ Uses(files, "some", fillIndex, used)
        /\ Holds(files, "some", fillIndex, begun + 1, delivered)
    BY <2>1, <2>2, FrameStarts
  <2>4. begun + 1 \in 0..MaxFrames
    BY <1>1, <2>1
  <2>5. InOrder(files, "some", fillIndex, FALSE, used, begun + 1, delivered)
    BY <2>3 DEF InOrder
  <2> QED BY <2>1, <2>4, <2>5
<1> QED BY <1>1, <1>2, <1>3

LEMMA FillReadyKeeps ==
    ASSUME WriterInv, FillReady
    PROVE  WriterInv' /\ UNCHANGED budgetVars
<1>1. /\ IInv /\ Others /\ Control /\ NoSpareAfterInput /\ used <= capacity[Self]
      /\ InOrder(files, partial, fillIndex, FALSE, used, begun, delivered)
      /\ phase = "Writing" /\ alive[Self] /\ partial # "none"
  BY WriterFacts DEF Control, FillReady, InFill, Callable
<1>2. /\ FillConsumes /\ pc' = "idle" /\ runnable' = TRUE
      /\ UNCHANGED <<budgetVars, used, pollCursor, phase, window, waker>>
  BY DEF FillReady, ReturnReady
<1>3. /\ InOrder(files', partial', fillIndex', FALSE, used', begun', delivered')
      /\ begun' \in 0..MaxFrames /\ UNCHANGED <<inputArmed, delivered>>
  <2>1. CASE UNCHANGED <<partial, files, fillIndex, inputArmed, begun, delivered>>
    BY <1>1, <1>2, <2>1 DEF Others
  <2>2. CASE Consume /\ partial' = "some" /\ UNCHANGED <<files, fillIndex>>
    BY <1>1, <1>2, <2>2, ConsumeInOrder DEF Consume
  <2>3. CASE Consume /\ partial' = "none" /\ files' = FlushedFiles(begun')
                /\ fillIndex' = FlushedIndex
    <3>1. InOrder(files, "some", fillIndex, FALSE, used, begun', delivered)
          /\ begun' \in 0..MaxFrames
      BY <1>1, <2>3, ConsumeInOrder
    <3>2. InOrder(FlushedFiles(begun'), "none", FlushedIndex, FALSE, used, begun', delivered)
      BY <3>1, FlushInOrder
    <3> QED BY <1>2, <2>3, <3>1, <3>2 DEF Consume
  <2> QED BY <1>2, <2>1, <2>2, <2>3 DEF FillConsumes
<1>4. IInv' /\ UNCHANGED alive /\ capacity'[Self] = capacity[Self]
  BY <1>1, <1>2, BudgetStays
<1>5. Others'
  BY <1>1, <1>2, <1>3 DEF Others
<1>6. Control'
  BY <1>1, <1>2, <1>4 DEF Control
<1>7. NoSpareAfterInput' /\ used' <= capacity'[Self] /\ phase' = "Writing"
  BY <1>1, <1>2, <1>4 DEF NoSpareAfterInput
<1> QED BY <1>2, <1>3, <1>4, <1>5, <1>6, <1>7, WriterLater

(* The input ends. *)
LEMMA CutInOrder ==
    ASSUME NEW fs, NEW index, NEW total, NEW count, NEW back,
           InOrder(fs, "none", index, FALSE, total, count, back)
    PROVE  InOrder(CutQueue(fs), "none", index, TRUE, total, count, back)
<1>1. /\ Shape(fs, "none", index, FALSE) /\ Uses(fs, "none", index, total)
      /\ Holds(fs, "none", index, count, back)
  BY DEF InOrder
<1> QED BY <1>1, CutShape, CutUses, CutHolds DEF InOrder

LEMMA StopInputKeeps ==
    ASSUME WriterInv, StopInput
    PROVE  WriterInv' /\ BudgetNext
<1> DEFINE flushed == IF partial = "some" THEN FlushedFiles(begun) ELSE files
           index == IF partial = "some" THEN FlushedIndex ELSE fillIndex
           unused == IF partial = "empty" THEN Needed ELSE 0
<1>1. /\ IInv /\ Others /\ Control /\ used \in Nat /\ used <= capacity[Self]
      /\ InOrder(files, partial, fillIndex, FALSE, used, begun, delivered)
      /\ capacity[Self] \in 0..Total /\ Total \in Nat
      /\ phase = "Writing" /\ alive[Self] /\ partial \in {"none", "empty", "some"}
  BY WriterFacts DEF StopInput, Idle, Callable, InOrder, Shape
<1>2. /\ files' = CutQueue(flushed) /\ fillIndex' = index /\ used' = Less(used, unused)
      /\ StartDrive(Len(files')) /\ phase' = "Closing" /\ partial' = "none" /\ Shrink(used')
      /\ waker' = FALSE /\ runnable' = FALSE
      /\ UNCHANGED <<pollCursor, window, inputArmed, begun, delivered>>
  BY DEF StopInput, CutQueue, LastTaken, TakenIn
<1>3. /\ unused \in Nat /\ unused <= used
      /\ InOrder(flushed, "none", index, FALSE, used - unused, begun, delivered)
  <2>1. CASE partial = "none"
    <3>1. unused = 0 /\ used - 0 = used /\ flushed = files /\ index = fillIndex
      BY <1>1, <2>1
    <3>2. InOrder(files, "none", fillIndex, FALSE, used, begun, delivered)
      BY <1>1, <2>1, Zenon
    <3>3. 0 <= used
      BY <1>1
    <3> HIDE DEF flushed, index, unused
    <3> QED BY <3>1, <3>2, <3>3
  <2>2. CASE partial = "some"
    <3>1. unused = 0 /\ used - 0 = used /\ flushed = FlushedFiles(begun) /\ index = FlushedIndex
      BY <1>1, <2>2
    <3>2. InOrder(FlushedFiles(begun), "none", FlushedIndex, FALSE, used, begun, delivered)
      BY <1>1, <2>2, FlushInOrder
    <3>3. 0 <= used
      BY <1>1
    <3> HIDE DEF flushed, index, unused
    <3> QED BY <3>1, <3>2, <3>3
  <2>3. CASE partial = "empty"
    <3>1. unused = Needed /\ flushed = files /\ index = fillIndex
      BY <2>3
    <3>2. Needed = NeededBy(files[fillIndex + 1])
      BY DEF Needed, NeededBy, FillSlot
    <3>3. /\ Shape(files, "empty", fillIndex, FALSE) /\ Uses(files, "empty", fillIndex, used)
          /\ Holds(files, "empty", fillIndex, begun, delivered)
      BY <1>1, <2>3 DEF InOrder
    <3>4. /\ NeededBy(files[fillIndex + 1]) \in Nat /\ NeededBy(files[fillIndex + 1]) <= used
          /\ Shape(files, "none", fillIndex, FALSE)
          /\ Uses(files, "none", fillIndex, used - NeededBy(files[fillIndex + 1]))
      BY <3>3, Unallocated
    <3>5. Holds(files, "none", fillIndex, begun, delivered)
      BY <3>3 DEF Holds, Ends, StartedOf
    <3> QED BY <3>1, <3>2, <3>4, <3>5 DEF InOrder
  <2> QED BY <1>1, <2>1, <2>2, <2>3
<1> HIDE DEF flushed, index, unused
<1>4. used' = used - unused /\ used' \in Nat /\ used' <= capacity[Self]
  BY <1>1, <1>2, <1>3 DEF Less
<1>5. InOrder(CutQueue(flushed), "none", index, TRUE, used - unused, begun, delivered)
  BY <1>3, CutInOrder
<1>6. InOrder(files', partial', fillIndex', TRUE, used', begun', delivered')
  BY <1>2, <1>4, <1>5
<1>7. /\ IInv' /\ BudgetNext /\ UNCHANGED alive /\ SelfReleased
      /\ capacity'[Self] = Least(used', capacity[Self])
  BY <1>1, <1>2, <1>4, ShrinkStep
<1>8. capacity'[Self] = used'
  BY <1>1, <1>4, <1>7 DEF Least
<1>9. pc' \in {"drive", "driven"} /\ (pc' = "drive" => files' # <<>>)
  <2>1. files' \in Seq(SlotType)
    BY <1>6 DEF InOrder, Shape
  <2> QED BY <1>2, <2>1 DEF StartDrive
<1>10. Others'
  BY <1>1, <1>2, <1>9 DEF Others
<1>11. Control'
  BY <1>1, <1>2, <1>7, <1>9 DEF Control, Streaming
<1>12. NoSpareAfterInput' /\ used' <= capacity'[Self]
  BY <1>4, <1>7, <1>8 DEF NoSpareAfterInput, SelfReleased
<1> QED BY <1>2, <1>6, <1>7, <1>10, <1>11, <1>12, WriterLater

(* The caller supplies a file, or takes one that is done. *)
LEMMA AppendInOrder ==
    ASSUME NEW fs, NEW part, NEW index, NEW total, NEW count, NEW back,
           InOrder(fs, part, index, FALSE, total, count, back),
           NEW c \in FileCapacities, c > 0
    PROVE  InOrder(Append(fs, NewSlot(c)), part, index, FALSE, total, count, back)
<1>1. /\ Shape(fs, part, index, FALSE) /\ Uses(fs, part, index, total)
      /\ Holds(fs, part, index, count, back)
  BY DEF InOrder
<1>2. fs \in Seq(SlotType)
  BY <1>1 DEF Shape
<1>3. Shape(Append(fs, NewSlot(c)), part, index, FALSE)
  BY <1>1, AppendShape
<1>4. Uses(Append(fs, NewSlot(c)), part, index, total)
  BY <1>1, AppendUses
<1>5. Holds(Append(fs, NewSlot(c)), part, index, count, back)
  BY <1>1, <1>2, AppendHolds
<1> QED BY <1>3, <1>4, <1>5 DEF InOrder

LEMMA TailInOrder ==
    ASSUME NEW fs, NEW part, NEW index, NEW ended \in BOOLEAN, NEW total, NEW count, NEW back,
           InOrder(fs, part, index, ended, total, count, back), fs # <<>>, Done(Head(fs))
    PROVE  /\ InOrder(Tail(fs), part, Less(index, 1), ended, total, count,
                      back \o Head(fs).content)
           /\ Head(fs).frames = <<>>
           /\ Len(back \o Head(fs).content) = Len(back) + Head(fs).assigned
<1>1. /\ Shape(fs, part, index, ended) /\ Uses(fs, part, index, total)
      /\ Holds(fs, part, index, count, back)
  BY DEF InOrder
<1>2. Shape(Tail(fs), part, Less(index, 1), ended)
  BY <1>1, TailShape
<1>3. Uses(Tail(fs), part, Less(index, 1), total)
  BY <1>1, TailUses
<1>4. /\ Holds(Tail(fs), part, Less(index, 1), count, back \o Head(fs).content)
      /\ Len(back \o Head(fs).content) = Len(back) + Head(fs).assigned
  BY <1>1, TailHolds
<1>5. Head(fs).frames = <<>>
  <2>1. Head(fs) = fs[1] /\ Sound(fs[1]) /\ fs[1].state = "Closed"
    BY <1>1, TailFacts
  <2> QED BY <2>1 DEF Sound
<1> QED BY <1>2, <1>3, <1>4, <1>5 DEF InOrder

(* What the calls that move files have in common. *)
LEMMA MovedKeeps ==
    ASSUME WriterInv, pc = "idle", alive[Self], phase \in {"Writing", "Closing"},
           UNCHANGED <<budgetVars, partial, used, phase, window, pc, inputArmed, begun>>,
           WakeStored, pollCursor' \in Nat,
           phase = "Writing" =>
              InOrder(files', partial, fillIndex', FALSE, used, begun, delivered'),
           phase = "Closing" =>
              InOrder(files', partial, fillIndex', TRUE, used, begun, delivered')
    PROVE  WriterInv' /\ UNCHANGED budgetVars
<1>1. /\ IInv /\ Others /\ Control /\ NoSpareAfterInput /\ used <= capacity[Self]
  BY WriterFacts
<1>2. IInv' /\ UNCHANGED alive /\ capacity'[Self] = capacity[Self] /\ request'[Self] = request[Self]
  BY <1>1, BudgetStays
<1>3. delivered' \in Seq(1..MaxFrames)
  BY DEF InOrder, Holds
<1>4. Others'
  BY <1>1, <1>3 DEF Others, WakeStored
<1>5. Control'
  BY <1>1, <1>2 DEF Control
<1>6. NoSpareAfterInput' /\ used' <= capacity'[Self]
  BY <1>1, <1>2 DEF NoSpareAfterInput
<1>7. /\ phase' = "Writing" =>
            InOrder(files', partial', fillIndex', FALSE, used', begun', delivered')
      /\ phase' = "Closing" =>
            InOrder(files', partial', fillIndex', TRUE, used', begun', delivered')
  OBVIOUS
<1> QED BY <1>2, <1>4, <1>5, <1>6, <1>7, WriterLater

LEMMA PushFileKeeps ==
    ASSUME WriterInv, NEW c \in FileCapacities, PushFile(c)
    PROVE  WriterInv' /\ UNCHANGED budgetVars
<1>1. /\ pc = "idle" /\ alive[Self] /\ phase = "Writing" /\ c > 0
      /\ files' = Append(files, NewSlot(c)) /\ WakeStored
      /\ UNCHANGED <<budgetVars, partial, used, fillIndex, pollCursor, phase, window,
                     pc, inputArmed, begun, delivered>>
  BY DEF PushFile, Idle, Callable, ValidFile, pollVars
<1>2. pollCursor \in Nat /\ InOrder(files, partial, fillIndex, FALSE, used, begun, delivered)
  BY <1>1, WriterFacts DEF Others
<1>3. InOrder(Append(files, NewSlot(c)), partial, fillIndex, FALSE, used, begun, delivered)
  BY <1>1, <1>2, AppendInOrder
<1>4. InOrder(files', partial, fillIndex', FALSE, used, begun, delivered')
  BY <1>1, <1>3
<1> QED BY <1>1, <1>2, <1>4, MovedKeeps

LEMMA TakeHeadFacts ==
    ASSUME WriterInv, TakeHead
    PROVE  /\ files # <<>> /\ Done(Head(files)) /\ fillIndex' = Less(fillIndex, 1)
           /\ delivered' = delivered \o Head(files).content /\ pollCursor' \in Nat
<1>1. pollCursor \in Nat
  BY WriterFacts DEF Others
<1>2. Less(pollCursor, 1) \in Nat
  BY <1>1 DEF Less
<1> QED BY <1>2 DEF TakeHead, FillIndexAfterHead

LEMMA PopSwapKeeps ==
    ASSUME WriterInv, NEW c \in FileCapacities, PopSwap(c)
    PROVE  WriterInv' /\ UNCHANGED budgetVars
<1>1. /\ pc = "idle" /\ alive[Self] /\ phase = "Writing" /\ c > 0 /\ TakeHead
      /\ files' = Append(Tail(files), [NewSlot(c) EXCEPT !.frames = Head(files).frames])
      /\ WakeStored
      /\ UNCHANGED <<budgetVars, partial, used, phase, window, pc, inputArmed, begun>>
  BY DEF PopSwap, Idle, Callable, ValidFile, pollVars
<1>2. /\ files # <<>> /\ Done(Head(files)) /\ fillIndex' = Less(fillIndex, 1)
      /\ delivered' = delivered \o Head(files).content /\ pollCursor' \in Nat
  BY <1>1, TakeHeadFacts
<1>3. InOrder(files, partial, fillIndex, FALSE, used, begun, delivered)
  BY <1>1, WriterFacts
<1>4. /\ InOrder(Tail(files), partial, Less(fillIndex, 1), FALSE, used, begun,
                 delivered \o Head(files).content)
      /\ Head(files).frames = <<>>
  BY <1>2, <1>3, TailInOrder
<1>5. InOrder(Append(Tail(files), NewSlot(c)), partial, Less(fillIndex, 1), FALSE, used, begun,
              delivered \o Head(files).content)
  BY <1>1, <1>4, AppendInOrder
<1>6. [NewSlot(c) EXCEPT !.frames = Head(files).frames] = NewSlot(c)
  BY <1>4 DEF NewSlot
<1>7. InOrder(files', partial, fillIndex', FALSE, used, begun, delivered')
  BY <1>1, <1>2, <1>5, <1>6
<1> QED BY <1>1, <1>2, <1>7, MovedKeeps

LEMMA PopFileKeeps ==
    ASSUME WriterInv, PopFile
    PROVE  WriterInv' /\ UNCHANGED budgetVars
<1>1. /\ pc = "idle" /\ alive[Self] /\ phase = "Closing" /\ TakeHead /\ files' = Tail(files)
      /\ WakeStored
      /\ UNCHANGED <<budgetVars, partial, used, phase, window, pc, inputArmed, begun>>
  BY DEF PopFile, Idle, Callable, pollVars
<1>2. /\ files # <<>> /\ Done(Head(files)) /\ fillIndex' = Less(fillIndex, 1)
      /\ delivered' = delivered \o Head(files).content /\ pollCursor' \in Nat
  BY <1>1, TakeHeadFacts
<1>3. InOrder(files, partial, fillIndex, TRUE, used, begun, delivered)
  BY <1>1, WriterFacts
<1>4. InOrder(Tail(files), partial, Less(fillIndex, 1), TRUE, used, begun,
              delivered \o Head(files).content)
  BY <1>2, <1>3, TailInOrder
<1>5. InOrder(files', partial, fillIndex', TRUE, used, begun, delivered')
  BY <1>1, <1>2, <1>4
<1> QED BY <1>1, <1>2, <1>5, MovedKeeps

LEMMA FillKeeps ==
    ASSUME WriterInv, Fill
    PROVE  WriterInv' /\ (BudgetNext \/ UNCHANGED budgetVars)
<1>1. CASE FillReady
  BY <1>1, FillReadyKeeps
<1>2. CASE FillFails
  <2>1. pollCursor \in Nat
    BY WriterFacts DEF Others
  <2>2. Fail /\ pc # "idle" /\ pollCursor' \in Nat
    BY <1>2, <2>1 DEF FillFails, InFill
  <2> QED BY <2>2, FailKeeps
<1>3. CASE FillPends
  <2>1. UNCHANGED budgetVars
    BY <1>3 DEF FillPends
  <2> QED BY <1>3, <2>1, ReturnKeeps
<1> QED BY <1>1, <1>2, <1>3 DEF Fill

(* Every step keeps the invariant, and is one of the budget or leaves it.   *)
LEMMA WriterStep ==
    ASSUME WriterInv, [Next]_vars
    PROVE  WriterInv' /\ [BudgetNext]_budgetVars
<1>1. CASE InPoll
  <2>1. CASE FinishClose
    <3>1. UNCHANGED budgetVars
      BY <2>1 DEF FinishClose
    <3> QED BY <2>1, <3>1, ReturnKeeps
  <2>2. CASE DriveStep \/ Reserve \/ Grow \/ Fill
    BY <2>2, DriveStepKeeps, ReserveKeeps, GrowKeeps, FillKeeps
  <2> QED BY <1>1, <2>1, <2>2 DEF InPoll
<1>2. CASE Calls
  <2>1. CASE PollWrite
    <3>1. UNCHANGED budgetVars
      BY <2>1 DEF PollWrite
    <3> QED BY <2>1, <3>1, PollWriteKeeps
  <2>2. CASE PollClose
    <3>1. UNCHANGED budgetVars
      BY <2>2 DEF PollClose
    <3> QED BY <2>2, <3>1, PollCloseKeeps
  <2>3. CASE PollRejected
    <3>1. UNCHANGED budgetVars
      BY <2>3 DEF PollRejected
    <3> QED BY <2>3, <3>1, ReturnKeeps
  <2>4. CASE \/ StopInput \/ \E c \in FileCapacities : PushFile(c) \/ PopSwap(c)
             \/ PopFile \/ (\E w \in Windows : SetWindow(w)) \/ DropScheduler
    BY <2>4, StopInputKeeps, PushFileKeeps, PopSwapKeeps, PopFileKeeps, SetWindowKeeps, DropKeeps
  <2> QED BY <1>2, <2>1, <2>2, <2>3, <2>4 DEF Calls
<1>3. CASE Outside
  BY <1>3, BackendEventKeeps, OutsideKeeps DEF Outside
<1>4. CASE UNCHANGED vars
  <2>1. Others /\ Control
    BY WriterFacts
  <2>2. /\ QueueStays /\ UNCHANGED <<budgetVars, window, pollCursor, pc, waker, runnable,
                                    inputArmed>>
    BY <1>4 DEF vars, schedulerVars, pollVars, outsideVars, QueueStays
  <2>3. MayReserve' = MayReserve
    BY <2>2, MayReserveStays
  <2>4. Others' /\ Control'
    BY <2>1, <2>2, <2>3 DEF Others, Control, Streaming, QueueStays, budgetVars
  <2> QED BY <2>2, <2>4, QuietStep
<1> QED BY <1>1, <1>2, <1>3, <1>4 DEF Next

(* What the scheduler, its task and its input and backends do while it      *)
(* exists: it uses its permit as its owner may.                             *)
OwnMove ==
    \/ InPoll
    \/ PollWrite \/ StopInput \/ PollClose \/ PollRejected
    \/ (\E c \in FileCapacities : PushFile(c) \/ PopSwap(c))
    \/ PopFile
    \/ (\E w \in Windows : SetWindow(w))
    \/ (\E i \in DOMAIN files : BackendEvent(i))
    \/ InputEvent

LEMMA OwnMoveUses ==
    ASSUME WriterInv, OwnMove
    PROVE  OwnUse(Writer)
<1>1. /\ Others /\ Control /\ used \in Nat /\ capacity[Self] \in 0..Total /\ Total \in Nat
  BY WriterFacts
<1>2. WriterInv'
  BY WriterStep DEF OwnMove, Next, Calls, Outside
<1>3. used' \in Nat
  BY <1>1, <1>2 DEF WriterInv, WriterTypeOK
<1>4. CASE \E limit \in Nat : Shrink(limit)
  BY <1>4 DEF OwnUse
<1>5. CASE UNCHANGED budgetVars
  BY <1>5 DEF OwnUse
<1>6. window.target \in Nat /\ \A w \in Windows : w.target \in Nat
  BY <1>1, WriterAssumption DEF Others
<1>7. CASE Fail
  BY <1>4, <1>7 DEF Fail, ReturnGrant
<1>8. CASE DriveStep
  <2>1. Kept(used') \in Nat
    BY <1>1, <1>3, <1>6 DEF Kept, Trimmed, Least, Most
  <2>2. ASSUME NEW i, NEW result, DriveStepped(i, result) PROVE OwnUse(Writer)
    BY <1>3, <1>4, <1>5, <2>1, <2>2 DEF DriveStepped
  <2> QED BY <1>7, <1>8, <2>2 DEF DriveStep
<1>9. CASE Reserve
  BY <1>1, <1>4, <1>5, <1>7, <1>9 DEF Reserve, BadAllocation
<1>10. CASE Grow
  <2> DEFINE minimum == used + Needed
             desired == Least(Total, Most(window.target, minimum))
  <2>1. PollGrow(Self, Writer, minimum, desired) /\ phase = "Writing" /\ MayReserve
    BY <1>1, <1>10 DEF Grow, Control
  <2>2. minimum \in Nat
    BY <2>1, NeededFacts
  <2> HIDE DEF minimum
  <2>3. desired \in Nat
    BY <1>1, <1>6, <2>2 DEF Least, Most
  <2> HIDE DEF desired
  <2> QED BY <2>1, <2>2, <2>3 DEF OwnUse
<1>11. CASE Fill \/ FinishClose
  BY <1>5, <1>7, <1>11 DEF Fill, FillReady, FillFails, FillPends, FinishClose
<1>12. CASE StopInput
  <2>1. Shrink(used')
    BY <1>12 DEF StopInput
  <2> QED BY <1>3, <1>4, <2>1
<1>13. CASE \E w \in Windows : SetWindow(w)
  <2>1. PICK w \in Windows : Shrink(Trimmed(w.target, used))
    BY <1>13 DEF SetWindow
  <2>2. Trimmed(w.target, used) \in Nat
    BY <1>1, <1>6 DEF Trimmed, Least, Most
  <2> QED BY <1>4, <2>1, <2>2
<1>14. CASE \/ PollWrite \/ PollClose \/ PollRejected \/ PopFile \/ InputEvent
            \/ \E c \in FileCapacities : PushFile(c) \/ PopSwap(c)
            \/ \E i \in DOMAIN files : BackendEvent(i)
  BY <1>5, <1>14 DEF PollWrite, PollClose, PollRejected, PopFile, InputEvent, PushFile, PopSwap,
                     BackendEvent
<1> QED BY <1>8, <1>9, <1>10, <1>11, <1>12, <1>13, <1>14 DEF OwnMove, InPoll

LEMMA WriterStart ==
    ASSUME Init
    PROVE  WriterInv
<1>1. /\ files = <<>> /\ partial = "none" /\ used = 0 /\ fillIndex = 0 /\ pollCursor = 0
      /\ phase = "Writing" /\ window \in Windows /\ waker = FALSE /\ pc = "idle" /\ alive[Self]
      /\ runnable = TRUE /\ inputArmed = FALSE /\ begun = 0 /\ delivered = <<>>
      /\ BudgetStart(Permits)
  BY DEF Init, Idle, Callable
<1>2. IInv
  <2>1. BudgetInit
    BY <1>1 DEF BudgetInit
  <2> QED BY <2>1, InitIInv
<1>3. capacity[Self] \in 0..Total /\ Total \in Nat /\ MaxFrames \in Nat
  BY <1>2, SelfTypes, WriterAssumption
<1>4. 0 \in Nat /\ 0 \in 0..MaxFrames /\ <<>> \in Seq(1..MaxFrames) /\ <<>> \in Seq(SlotType)
      /\ <<>> \in Seq(Nat) /\ Len(<<>>) = 0 /\ DOMAIN <<>> = {}
  BY <1>3
<1>5. Others
  BY <1>1, <1>4 DEF Others
<1>6. Control
  BY <1>1 DEF Control
<1>7. NoSpareAfterInput /\ NothingLeft /\ UsedIsGranted
  BY <1>1, <1>3 DEF NoSpareAfterInput, NothingLeft, UsedIsGranted, Streaming
<1>8. InOrder(<<>>, "none", 0, FALSE, 0, 0, <<>>)
  <2> DEFINE s == [i \in 0..0 |-> 0]
  <2>1. Adds(s, <<>>, 0, 0, 0)
    <3>1. s = [i \in 0..Len(<<>>) |-> s[i]] /\ s[0] = 0 /\ s[Len(<<>>)] = 0
      BY <1>4
    <3>2. \A i \in 0..Len(<<>>) : s[i] = 0
      BY <1>4
    <3> HIDE DEF s
    <3>3. \A i \in 0..Len(<<>>) : s[i] \in Nat
      BY <3>2
    <3>4. \A i \in 1..Len(<<>>) : s[i] = s[i - 1] + <<>>[i]
      BY <1>4
    <3>5. \A i, j \in 0..Len(<<>>) : i <= j => s[i] <= s[j]
      BY <3>2
    <3>6. \A i \in 1..Len(<<>>) : i > 0 => s[i] = 0
      BY <1>4
    <3> QED BY <1>4, <3>1, <3>3, <3>4, <3>5, <3>6, AddsFrom
  <2>2. ReservedOf(<<>>, "none", 0) = <<>> /\ FileSizes(<<>>) = <<>>
    BY <1>4 DEF ReservedOf, FileSizes
  <2>3. Uses(<<>>, "none", 0, 0)
    BY <2>1, <2>2 DEF Uses
  <2>4. Shape(<<>>, "none", 0, FALSE)
    BY <1>4 DEF Shape
  <2>5. <<>> = Numbers(0, Len(<<>>))
    BY <1>4, NumbersNone
  <2>6. Ends(s, <<>>, "none", 0, 0, <<>>)
    BY <1>4, <2>1, <2>2 DEF Ends, StartedOf
  <2>7. Holds(<<>>, "none", 0, 0, <<>>)
    BY <1>4, <2>5, <2>6 DEF Holds
  <2> QED BY <2>3, <2>4, <2>7 DEF InOrder
<1>9. QueueInOrder
  <2>1. (phase = "Closing") = FALSE
    BY <1>1
  <2> QED BY <1>1, <1>8, <2>1 DEF QueueInOrder, InOrder
<1>10. WriterTypeOK
  <2>1. TypeOK
    BY <1>2 DEF IInv
  <2>2. /\ files \in Seq(SlotType) /\ partial \in {"none", "empty", "some"} /\ used \in 0..Total
        /\ fillIndex \in 0..Len(files)
    BY <1>1, <1>3, <1>4
  <2> QED BY <1>5, <2>1, <2>2 DEF WriterTypeOK, Others
<1> QED BY <1>2, <1>5, <1>6, <1>7, <1>9, <1>10 DEF WriterInv

LEMMA WriterInvariance == Spec => []WriterInv
<1>1. Init => WriterInv
  BY WriterStart
<1>2. WriterInv /\ [Next]_vars => WriterInv'
  BY WriterStep
<1> QED BY <1>1, <1>2, PTL DEF Spec

-----------------------------------------------------------------------------
(* The scheduler's variables keep their types. *)
THEOREM WriterTypeCorrect == Spec => []WriterTypeOK
<1>1. WriterInv => WriterTypeOK
  BY DEF WriterInv
<1> QED BY <1>1, WriterInvariance, PTL

(* While the stream lasts, whatever its phase, its parts are in order. *)
LEMMA StreamInOrder ==
    ASSUME WriterInv, Streaming
    PROVE  /\ Uses(files, partial, fillIndex, used)
           /\ Holds(files, partial, fillIndex, begun, delivered)
           /\ \E ended \in BOOLEAN : Shape(files, partial, fillIndex, ended)
<1>1. CASE phase = "Writing"
  BY <1>1, WriterFacts DEF InOrder
<1>2. CASE phase = "Closing"
  BY <1>2, WriterFacts DEF InOrder
<1> QED BY <1>1, <1>2 DEF Streaming

(* `used` is what the files and the partial frame reserve, to the frame,    *)
(* after every flush, short file, retry and failure, and the grant covers   *)
(* it.                                                                      *)
THEOREM UsedStaysExact == Spec => []UsedIsExact
<1>1. ASSUME WriterInv PROVE UsedIsExact
  <2>1. /\ files \in Seq(SlotType) /\ Len(files) \in Nat /\ used \in Nat /\ used <= capacity[Self]
        /\ NothingLeft /\ DOMAIN files = 1..Len(files)
    BY <1>1, WriterFacts
  <2>2. CASE Streaming
    <3>1. PICK s : Adds(s, ReservedOf(files, partial, fillIndex), 0, fillIndex, used)
      BY <1>1, <2>2, StreamInOrder DEF Uses
    <3>2. Reserved = ReservedOf(files, partial, fillIndex)
      BY Zenon DEF Reserved, ReservedOf, Filling
    <3>3. Len(Reserved) = Len(files) /\ DOMAIN Reserved = 1..Len(files)
      <4>1. DOMAIN Reserved = 1..Len(files)
        BY <2>1 DEF Reserved
      <4>2. DOMAIN Reserved = 1..Len(Reserved) /\ Len(Reserved) \in Nat
        BY <3>1, <3>2, AddsFacts
      <4> QED BY <2>1, <4>1, <4>2
    <3>4. /\ s \in [0..Len(files) -> 0..used] /\ s[0] = 0 /\ s[Len(files)] = used
          /\ \A i \in DOMAIN Reserved : s[i] = s[i - 1] + Reserved[i]
      BY <3>1, <3>2, <3>3 DEF Adds
    <3>5. RunsTo(s, Reserved, 0)
      BY <3>4 DEF RunsTo
    <3> QED BY <2>1, <3>4, <3>5 DEF UsedIsExact
  <2>3. CASE ~Streaming
    <3> DEFINE s == [i \in 0..0 |-> 0]
    <3>1. files = <<>> /\ used = 0 /\ Len(files) = 0
      BY <2>1, <2>3 DEF NothingLeft
    <3>2. s \in [0..Len(files) -> 0..used] /\ s[0] = 0 /\ s[Len(files)] = used
      BY <3>1
    <3>3. \A i \in DOMAIN Reserved : s[i] = s[i - 1] + Reserved[i]
      <4>1. DOMAIN Reserved = {}
        BY <2>1, <3>1 DEF Reserved
      <4> QED BY <4>1
    <3>4. RunsTo(s, Reserved, 0)
      BY <3>2, <3>3 DEF RunsTo
    <3> QED BY <2>1, <3>2, <3>4 DEF UsedIsExact
  <2> QED BY <2>2, <2>3
<1> QED BY <1>1, WriterInvariance, PTL

(* The frames of the files handed back, of the active ones and of the       *)
(* partial frame are all the frames started, once and in order.             *)
THEOREM NoFrameIsLost == Spec => []NoFrameLostOrReordered
<1>1. ASSUME WriterInv PROVE NoFrameLostOrReordered
  <2> SUFFICES ASSUME phase \in {"Writing", "Closing"}
               PROVE  /\ delivered = Numbers(0, Len(delivered))
                      /\ \E ends \in [0..Len(files) -> 0..Started] :
                            /\ ends[0] = Len(delivered) /\ ends[Len(files)] = Started
                            /\ \A i \in DOMAIN files :
                                  /\ ends[i - 1] <= ends[i]
                                  /\ FramesOf(files[i]) = Numbers(ends[i - 1], ends[i])
    BY DEF NoFrameLostOrReordered
  <2>1. files \in Seq(SlotType) /\ Len(files) \in Nat /\ DOMAIN files = 1..Len(files)
    BY <1>1, WriterFacts
  <2>2. Holds(files, partial, fillIndex, begun, delivered)
    BY <1>1, StreamInOrder DEF Streaming
  <2>3. PICK ends : Ends(ends, files, partial, fillIndex, begun, delivered)
    BY <2>2 DEF Holds
  <2>4. Started = StartedOf(partial, begun)
    BY DEF Started, StartedOf
  <2>5. /\ Adds(ends, FileSizes(files), Len(delivered), fillIndex, Started)
        /\ \A i \in DOMAIN files : FramesOf(files[i]) = Numbers(ends[i - 1], ends[i])
    BY <2>3, <2>4 DEF Ends
  <2>6. Len(FileSizes(files)) = Len(files)
    <3>1. DOMAIN FileSizes(files) = 1..Len(files)
      BY <2>1 DEF FileSizes
    <3>2. DOMAIN FileSizes(files) = 1..Len(FileSizes(files)) /\ Len(FileSizes(files)) \in Nat
      BY <2>5, AddsFacts
    <3> QED BY <2>1, <3>1, <3>2
  <2> DEFINE n == Len(files)
             a == Len(delivered)
             b == Started
  <2>7. /\ ends = [i \in 0..n |-> ends[i]] /\ ends[0] = a /\ ends[n] = b /\ a \in Nat /\ b \in Nat
        /\ \A i \in 0..n : ends[i] \in Nat /\ a <= ends[i] /\ ends[i] <= b
        /\ \A i, j \in 0..n : i <= j => ends[i] <= ends[j]
    BY <2>5, <2>6, AddsFacts
  <2>8. n \in Nat /\ DOMAIN files = 1..n
    BY <2>1
  <2> HIDE DEF n, a, b
  <2>9. ends \in [0..n -> 0..b]
    <3>1. \A i \in 0..n : ends[i] \in 0..b
      BY <2>7
    <3> QED BY <2>7, <3>1
  <2>10. ASSUME NEW i \in DOMAIN files PROVE ends[i - 1] <= ends[i]
    <3>1. i - 1 \in 0..n /\ i \in 0..n /\ i - 1 <= i
      BY <2>8
    <3> QED BY <2>7, <3>1
  <2>11. delivered = Numbers(0, Len(delivered))
    BY <2>2 DEF Holds
  <2> QED BY <2>5, <2>7, <2>9, <2>10, <2>11 DEF n, a, b
<1> QED BY <1>1, WriterInvariance, PTL

(* What the backend accepted in an attempt is what its slot counts; a       *)
(* closed file got all of its frames.                                       *)
THEOREM AttemptStaysExact == Spec => []AttemptIsExact
<1>1. ASSUME WriterInv PROVE AttemptIsExact
  <2>1. NothingLeft /\ files \in Seq(SlotType)
    BY <1>1, WriterFacts
  <2>2. ASSUME NEW i \in DOMAIN files PROVE Sound(files[i])
    <3>1. Streaming
      BY <2>1 DEF NothingLeft
    <3> QED BY <1>1, <3>1, StreamInOrder DEF Shape
  <2> QED BY <2>2 DEF Sound, AttemptIsExact
<1> QED BY <1>1, WriterInvariance, PTL

(* Files are filled in their order, one at a time. *)
THEOREM FilesFillInOrder == Spec => []FilledInOrder
<1>1. ASSUME WriterInv PROVE FilledInOrder
  <2> SUFFICES ASSUME phase \in {"Writing", "Closing"}
               PROVE  /\ \A i \in DOMAIN files :
                            /\ i <= fillIndex => files[i].assigned = files[i].capacity
                            /\ i = fillIndex + 1 => files[i].assigned < files[i].capacity
                            /\ i > fillIndex + 1 => files[i].assigned = 0
                            /\ files[i].assigned = 0 <=> files[i].state = "Idle"
                            /\ files[i].state = "Idle" => files[i].frames = <<>>
                      /\ partial # "none" => HasFillSlot
    BY DEF FilledInOrder
  <2>1. PICK ended \in BOOLEAN : Shape(files, partial, fillIndex, ended)
    BY <1>1, StreamInOrder DEF Streaming
  <2>2. partial # "none" => HasFillSlot
    BY <2>1 DEF Shape, HasFillSlot
  <2>3. ASSUME NEW i \in DOMAIN files
        PROVE  /\ i <= fillIndex => files[i].assigned = files[i].capacity
               /\ i = fillIndex + 1 => files[i].assigned < files[i].capacity
               /\ i > fillIndex + 1 => files[i].assigned = 0
               /\ files[i].assigned = 0 <=> files[i].state = "Idle"
               /\ files[i].state = "Idle" => files[i].frames = <<>>
    <3>1. Sound(files[i]) /\ Placed(files[i], i, fillIndex, ended)
      BY <2>1 DEF Shape
    <3>2. /\ files[i].assigned = 0 <=> files[i].state = "Idle"
          /\ files[i].state = "Idle" => files[i].frames = <<>>
      BY <3>1 DEF Sound
    <3> QED BY <3>1, <3>2 DEF Placed
  <2> QED BY <2>2, <2>3
<1> QED BY <1>1, WriterInvariance, PTL

(* Once the input has ended, the permit holds exactly what is in use. *)
THEOREM NoSpareIsKept == Spec => []NoSpareAfterInput
<1>1. WriterInv => NoSpareAfterInput
  BY DEF WriterInv
<1> QED BY <1>1, WriterInvariance, PTL

(* Whatever the writer, its rivals and the backends do, the budget they     *)
(* share behaves as FrameBudget says: what is proved of it holds here, too. *)
THEOREM WriterKeepsBudget == Spec => BudgetSpec
<1>1. Init => BudgetInit
  BY DEF Init, BudgetInit
<1>2. WriterInv /\ [Next]_vars => [BudgetNext]_budgetVars
  BY WriterStep
<1> QED BY <1>1, <1>2, WriterInvariance, PTL DEF Spec, BudgetSpec

-----------------------------------------------------------------------------
(* The ordered stream of files, step by step. *)
Status ==
    CASE phase = "Writing" -> "open"
      [] phase = "Closing" -> IF files = <<>> THEN "over" ELSE "closing"
      [] phase = "Failed" -> "failed"
      [] phase = "Dropped" -> "gone"

StreamView == <<begun, delivered, Status>>

(* The frames of the head, once it is done, are the next ones to go back;   *)
(* only at the end of the input may they be fewer than the file holds.      *)
LEMMA HeadFrames ==
    ASSUME NEW fs, NEW part, NEW index, NEW ended \in BOOLEAN, Shape(fs, part, index, ended),
           fs # <<>>, Done(Head(fs)),
           NEW count, NEW back, Holds(fs, part, index, count, back)
    PROVE  /\ Head(fs).assigned \in Nat \ {0} /\ Head(fs).capacity \in FileCapacities
           /\ Head(fs).content = Numbers(Len(back), Len(back) + Head(fs).assigned)
           /\ Len(back) + Head(fs).assigned <= count
           /\ Head(fs).assigned # Head(fs).capacity =>
                 ended /\ Len(back) + Head(fs).assigned = count
<1> DEFINE n == Len(fs)
           a == fs[1].assigned
           c == fs[1].capacity
           b == Len(back)
           old == FileSizes(fs)
           total == StartedOf(part, count)
<1>1. /\ fs \in Seq(SlotType) /\ n \in Nat /\ 1 \in DOMAIN fs /\ DOMAIN fs = 1..n
      /\ Head(fs) = fs[1] /\ fs[1] \in SlotType /\ Sound(fs[1]) /\ fs[1].state = "Closed"
      /\ index \in Nat /\ (index = 0 => part = "none" /\ ended /\ n = 1)
  BY TailFacts
<1>2. a \in Nat /\ c \in Nat /\ c \in FileCapacities /\ fs[1].content \in Seq(1..MaxFrames)
  BY <1>1, SlotFacts
<1>3. fs[1].assigned # 0
  BY <1>1 DEF Sound
<1>4. Placed(fs[1], 1, index, ended)
  BY <1>1 DEF Shape
<1>5. FramesOf(fs[1]) = fs[1].content
  <2>1. fs[1].frames = <<>> /\ Done(fs[1])
    BY <1>1 DEF Sound, Done
  <2>2. fs[1].content \o <<>> = fs[1].content
    BY <1>2
  <2> QED BY <2>1, <2>2 DEF FramesOf
<1>6. /\ count \in 0..MaxFrames /\ b \in Nat /\ MaxFrames \in Nat /\ (part = "some" => count > 0)
  BY WriterAssumption DEF Holds
<1>7. total \in Nat /\ total <= count /\ (part = "none" => total = count)
  BY <1>6 DEF StartedOf
<1>8. PICK ends : Ends(ends, fs, part, index, count, back)
  BY DEF Holds
<1>9. /\ Adds(ends, old, b, index, total)
      /\ fs[1].content = Numbers(ends[1 - 1], ends[1])
  BY <1>1, <1>5, <1>8 DEF Ends
<1>10. Len(old) = n /\ old[1] = a
  BY <1>1, SizesFacts
<1>11. index = 0 \/ 1 <= index
  BY <1>1
<1>12. index >= 1 => fs[1].assigned = fs[1].capacity
  BY <1>1, <1>4 DEF Placed
<1>a. a # 0 /\ (index >= 1 => a = c)
  BY <1>3, <1>12
<1> HIDE DEF n, a, c, b, old, total
<1>13. /\ ends[0] = b /\ ends[1] \in Nat /\ ends[1] <= total /\ ends[1] = ends[1 - 1] + a
       /\ 1 > index => ends[1] = total
  <2>1. /\ Len(old) \in Nat /\ ends[0] = b
        /\ \A i \in 0..Len(old) : ends[i] \in Nat /\ b <= ends[i] /\ ends[i] <= total
        /\ \A i \in 1..Len(old) : old[i] \in Nat /\ ends[i] = ends[i - 1] + old[i]
        /\ \A i \in 1..Len(old) : i > index => ends[i] = total
    BY <1>9, AddsFacts
  <2>2. 1 \in 1..Len(old) /\ 1 \in 0..Len(old)
    BY <1>1, <1>10
  <2> QED BY <1>10, <2>1, <2>2
<1>14. 1 - 1 = 0 /\ ends[1] = b + a /\ ends[1] - b = a
  BY <1>2, <1>6, <1>13
<1>15. fs[1].content = Numbers(b, b + a)
  BY <1>9, <1>13, <1>14
<1>16. b + a <= count
  BY <1>2, <1>6, <1>7, <1>13, <1>14
<1>17. a # c => ended /\ b + a = count
  <2>1. a # c => index = 0
    BY <1>11, <1>a
  <2>2. index = 0 => ended /\ total = count /\ ends[1] = total
    BY <1>1, <1>7, <1>13
  <2> QED BY <1>14, <2>1, <2>2
<1>18. /\ a \in Nat \ {0} /\ c \in FileCapacities
  BY <1>2, <1>a
<1> QED BY <1>1, <1>15, <1>16, <1>17, <1>18 DEF a, b, c

(* A closed stream has frames to hand back exactly while it has files. *)
LEMMA ClosingRemains ==
    ASSUME NEW fs, NEW part, NEW index, NEW total, NEW count, NEW back,
           InOrder(fs, part, index, TRUE, total, count, back)
    PROVE  /\ fs = <<>> => count = Len(back)
           /\ fs # <<>> => count # Len(back)
<1> DEFINE n == Len(fs)
           b == Len(back)
           old == FileSizes(fs)
<1>1. /\ Shape(fs, part, index, TRUE) /\ Holds(fs, part, index, count, back)
  BY DEF InOrder
<1>2. fs \in Seq(SlotType) /\ part = "none" /\ n \in Nat /\ DOMAIN fs = 1..n
  BY <1>1 DEF Shape
<1>3. count \in Nat /\ b \in Nat
  BY <1>1, WriterAssumption DEF Holds
<1>4. PICK ends : Ends(ends, fs, part, index, count, back)
  BY <1>1 DEF Holds
<1>5. Adds(ends, old, b, index, count)
  BY <1>2, <1>4 DEF Ends, StartedOf
<1>6. Len(old) = n /\ \A i \in DOMAIN fs : old[i] = fs[i].assigned
  BY <1>2, SizesFacts
<1>7. fs = <<>> <=> n = 0
  BY <1>2
<1>8. \A i \in DOMAIN fs : fs[i].assigned > 0
  BY <1>1 DEF Shape, Placed
<1> HIDE DEF n, b, old
<1>9. /\ b <= count /\ ends[0] = b /\ ends[n] = count
      /\ \A i \in 0..n : ends[i] \in Nat /\ ends[i] <= count
      /\ \A i \in 1..n : old[i] \in Nat /\ ends[i] = ends[i - 1] + old[i]
  BY <1>5, <1>6, AddsFacts
<1>10. CASE n = 0
  <2>1. b = count
    BY <1>3, <1>9, <1>10
  <2> QED BY <1>3, <1>7, <1>10, <2>1 DEF b
<1>11. CASE n # 0
  <2>1. 1 \in 1..n /\ 1 \in 0..n /\ 1 - 1 = 0
    BY <1>2, <1>11
  <2>2. old[1] > 0
    BY <1>2, <1>6, <1>8, <2>1
  <2>3. ends[1] = b + old[1] /\ ends[1] <= count /\ old[1] \in Nat
    BY <1>9, <2>1
  <2>4. count # b
    BY <1>3, <2>2, <2>3
  <2> QED BY <1>3, <1>7, <1>11, <2>4 DEF b
<1> QED BY <1>10, <1>11

(* A step that the stream does not see. *)
Unseen ==
    /\ UNCHANGED <<begun, delivered, phase>>
    /\ phase = "Closing" => (files' = <<>> <=> files = <<>>)

LEMMA UnseenStep == ASSUME Unseen PROVE UNCHANGED StreamView
<1>1. CASE phase = "Closing"
  BY <1>1 DEF Unseen, StreamView, Status
<1>2. CASE phase # "Closing"
  BY <1>2 DEF Unseen, StreamView, Status
<1> QED BY <1>1, <1>2

LEMMA FailSeen ==
    ASSUME WriterInv, Fail, pc # "idle", pc = "drive" \/ phase = "Writing"
    PROVE  Ordered!Fail
<1>1. phase \in {"Writing", "Closing"} /\ (pc = "drive" => files # <<>>)
  BY WriterFacts DEF Control, Streaming
<1>2. Status \in {"open", "closing"}
  BY <1>1 DEF Status
<1>3. phase' = "Failed" /\ UNCHANGED <<begun, delivered>>
  BY DEF Fail
<1>4. Status' = "failed"
  BY <1>3 DEF Status
<1> QED BY <1>2, <1>3, <1>4 DEF Ordered!Fail, Status

LEMMA DriveSeen ==
    ASSUME WriterInv, DriveStep
    PROVE  [Ordered!StreamNext]_StreamView
<1>1. PICK i, result : /\ pc = "drive"
                       /\ (result.failed /\ Fail) \/ (~result.failed /\ DriveStepped(i, result))
  BY DEF DriveStep
<1>2. CASE Fail
  <2>1. pc # "idle"
    BY <1>1
  <2>2. Ordered!Fail
    BY <1>1, <1>2, <2>1, FailSeen
  <2> QED BY <2>2 DEF Ordered!StreamNext
<1>3. CASE DriveStepped(i, result)
  <2>1. files \in Seq(SlotType)
    BY WriterFacts
  <2>2. files' = <<>> <=> files = <<>>
    BY <1>3, <2>1 DEF DriveStepped
  <2>3. Unseen
    BY <1>3, <2>2 DEF DriveStepped, Unseen
  <2> QED BY <2>3, UnseenStep
<1> QED BY <1>1, <1>2, <1>3

LEMMA FillSeen ==
    ASSUME WriterInv, Fill \/ Reserve
    PROVE  [Ordered!StreamNext]_StreamView
<1>1. phase = "Writing" /\ pc # "idle"
  BY WriterFacts DEF Fill, FillReady, FillFails, FillPends, InFill, Reserve, Control
<1>2. CASE FillReady
  <2>1. /\ UNCHANGED <<delivered, phase>> /\ partial # "none"
        /\ begun' = begun \/ (begun' = begun + 1)
    BY <1>2 DEF FillReady, FillConsumes, Consume
  <2>2. CASE begun' = begun
    BY <1>1, <2>1, <2>2, UnseenStep DEF Unseen
  <2>3. CASE begun' = begun + 1
    <3>1. Status = "open" /\ Status' = "open"
      BY <1>1, <2>1 DEF Status
    <3>2. Ordered!Take
      BY <2>1, <2>3, <3>1 DEF Ordered!Take, Status
    <3> QED BY <3>2 DEF Ordered!StreamNext
  <2> QED BY <2>1, <2>2, <2>3
<1>3. CASE Fail
  <2>1. Ordered!Fail
    BY <1>1, <1>3, FailSeen
  <2> QED BY <2>1 DEF Ordered!StreamNext
<1>4. CASE UNCHANGED <<begun, delivered, phase>>
  BY <1>1, <1>4, UnseenStep DEF Unseen
<1> QED BY <1>2, <1>3, <1>4 DEF Fill, FillFails, FillPends, Reserve, Allocate, BadAllocation,
                               schedulerVars, outsideVars

LEMMA ClosingLater ==
    ASSUME WriterInv', phase' = "Closing"
    PROVE  /\ InOrder(files', partial', fillIndex', TRUE, used', begun', delivered')
           /\ files' = <<>> <=> begun' - Len(delivered') = 0
<1>1. (phase' = "Closing") = TRUE
  OBVIOUS
<1>2. InOrder(files', partial', fillIndex', TRUE, used', begun', delivered')
  BY <1>1 DEF WriterInv, QueueInOrder, Streaming, InOrder
<1>3. /\ files' = <<>> => begun' = Len(delivered')
      /\ files' # <<>> => begun' # Len(delivered')
  BY <1>2, ClosingRemains
<1>4. begun' \in Nat /\ Len(delivered') \in Nat
  BY <1>2, WriterAssumption DEF InOrder, Holds
<1>5. files' = <<>> <=> begun' - Len(delivered') = 0
  <2> DEFINE b == begun'
             d == Len(delivered')
  <2>1. b \in Nat /\ d \in Nat /\ (files' = <<>> => b = d) /\ (files' # <<>> => b # d)
    BY <1>3, <1>4
  <2> HIDE DEF b, d
  <2>2. files' = <<>> <=> b - d = 0
    BY <2>1
  <2> QED BY <2>2 DEF b, d
<1> QED BY <1>2, <1>5

LEMMA StopSeen ==
    ASSUME WriterInv, StopInput
    PROVE  Ordered!CloseInput
<1>1. /\ phase = "Writing" /\ phase' = "Closing" /\ UNCHANGED <<begun, delivered>>
  BY DEF StopInput
<1>2. WriterInv'
  BY StopInputKeeps
<1>4. files' = <<>> <=> begun' - Len(delivered') = 0
  BY <1>1, <1>2, ClosingLater
<1>5. Status = "open" /\ Status' = Ordered!ClosedStatus(begun - Len(delivered))
  BY <1>1, <1>4 DEF Status, Ordered!ClosedStatus
<1> QED BY <1>1, <1>5 DEF Ordered!CloseInput, Ordered!Remaining, Status

LEMMA PopSwapSeen ==
    ASSUME WriterInv, NEW c \in FileCapacities, PopSwap(c)
    PROVE  Ordered!StreamNext
<1> DEFINE size == Head(files).assigned
<1>1. /\ phase = "Writing" /\ TakeHead /\ UNCHANGED <<phase, begun>>
  BY DEF PopSwap
<1>2. /\ files # <<>> /\ Done(Head(files)) /\ delivered' = delivered \o Head(files).content
  BY <1>1, TakeHeadFacts
<1>3. Shape(files, partial, fillIndex, FALSE) /\ Holds(files, partial, fillIndex, begun, delivered)
  BY <1>1, WriterFacts DEF InOrder
<1>4. /\ size \in Nat \ {0} /\ Head(files).capacity \in FileCapacities
      /\ Head(files).content = Numbers(Len(delivered), Len(delivered) + size)
      /\ Len(delivered) + size <= begun
      /\ size # Head(files).capacity => FALSE
  <2>1. FALSE \in BOOLEAN
    OBVIOUS
  <2> QED BY <1>2, <1>3, <2>1, HeadFrames, Zenon
<1>5. begun \in Nat /\ Len(delivered) \in Nat
  BY WriterFacts, WriterAssumption DEF Others
<1>6. size \in FileCapacities
  BY <1>4
<1>n. Head(files).content = Numbers(Len(delivered), Len(delivered) + size)
  BY <1>4
<1> HIDE DEF size
<1>7. delivered' = delivered \o [k \in 1..size |-> Len(delivered) + k]
  <2>1. Numbers(Len(delivered), Len(delivered) + size) = [k \in 1..size |-> Len(delivered) + k]
    BY <1>4, <1>5, NumbersFrom
  <2> QED BY <1>2, <1>n, <2>1
<1>8. size \in 1..(begun - Len(delivered))
  BY <1>4, <1>5
<1>9. Status = "open" /\ Status' = "open"
  BY <1>1 DEF Status
<1>10. Ordered!HandBack(size)
  BY <1>1, <1>6, <1>7, <1>8, <1>9 DEF Ordered!HandBack, Ordered!Remaining, Status
<1> QED BY <1>8, <1>10 DEF Ordered!StreamNext, Ordered!Remaining

LEMMA PopFileSeen ==
    ASSUME WriterInv, PopFile
    PROVE  Ordered!StreamNext
<1> DEFINE size == Head(files).assigned
<1>1. /\ phase = "Closing" /\ TakeHead /\ UNCHANGED <<phase, begun>>
  BY DEF PopFile
<1>2. /\ files # <<>> /\ Done(Head(files)) /\ delivered' = delivered \o Head(files).content
  BY <1>1, TakeHeadFacts
<1>3. /\ InOrder(files, partial, fillIndex, TRUE, used, begun, delivered)
      /\ Shape(files, partial, fillIndex, TRUE)
      /\ Holds(files, partial, fillIndex, begun, delivered)
  BY <1>1, WriterFacts DEF InOrder
<1>4. /\ size \in Nat \ {0} /\ Head(files).capacity \in FileCapacities
      /\ Head(files).content = Numbers(Len(delivered), Len(delivered) + size)
      /\ Len(delivered) + size <= begun
      /\ size # Head(files).capacity => Len(delivered) + size = begun
  <2>1. TRUE \in BOOLEAN
    OBVIOUS
  <2> QED BY <1>2, <1>3, <2>1, HeadFrames, Zenon
<1>5. begun \in Nat /\ Len(delivered) \in Nat
  BY WriterFacts, WriterAssumption DEF Others
<1>6. size \in FileCapacities \/ Len(delivered) + size = begun
  BY <1>4
<1>n. Head(files).content = Numbers(Len(delivered), Len(delivered) + size)
  BY <1>4
<1>8. Len(delivered') = Len(delivered) + size
  BY <1>2, <1>3, TailInOrder
<1>9. WriterInv'
  BY PopFileKeeps
<1>10. files' = <<>> <=> begun' - Len(delivered') = 0
  BY <1>1, <1>9, ClosingLater
<1> HIDE DEF size
<1>7. delivered' = delivered \o [k \in 1..size |-> Len(delivered) + k]
  <2>1. Numbers(Len(delivered), Len(delivered) + size) = [k \in 1..size |-> Len(delivered) + k]
    BY <1>4, <1>5, NumbersFrom
  <2> QED BY <1>2, <1>n, <2>1
<1>11. size \in 1..(begun - Len(delivered)) /\ size \in Nat
  BY <1>4, <1>5
<1>12. size \in FileCapacities \/ size = begun - Len(delivered)
  BY <1>5, <1>6, <1>11
<1>13. begun' - Len(delivered') = begun - Len(delivered) - size
  BY <1>1, <1>5, <1>8, <1>11
<1>14. /\ Status = "closing"
       /\ Status' = Ordered!ClosedStatus(begun - Len(delivered) - size)
  BY <1>1, <1>2, <1>10, <1>13 DEF Status, Ordered!ClosedStatus
<1>15. Ordered!HandBack(size)
  BY <1>1, <1>7, <1>11, <1>12, <1>14 DEF Ordered!HandBack, Ordered!Remaining, Status
<1> QED BY <1>11, <1>15 DEF Ordered!StreamNext, Ordered!Remaining

LEMMA StreamSeen ==
    ASSUME WriterInv, [Next]_vars
    PROVE  [Ordered!StreamNext]_StreamView
<1>1. CASE InPoll
  <2>1. CASE Grow \/ FinishClose
    BY <2>1, UnseenStep DEF Grow, FinishClose, Unseen, schedulerVars, outsideVars
  <2> QED BY <1>1, <2>1, DriveSeen, FillSeen DEF InPoll
<1>2. CASE Calls
  <2>1. CASE PollWrite \/ PollClose \/ PollRejected \/ \E w \in Windows : SetWindow(w)
    BY <2>1, UnseenStep DEF PollWrite, PollClose, PollRejected, SetWindow, Unseen
  <2>2. CASE StopInput
    BY <2>2, StopSeen DEF Ordered!StreamNext
  <2>3. CASE \E c \in FileCapacities : PushFile(c) \/ PopSwap(c)
    <3>1. PICK c \in FileCapacities : PushFile(c) \/ PopSwap(c)
      BY <2>3
    <3>2. CASE PushFile(c)
      BY <3>2, UnseenStep DEF PushFile, Unseen
    <3> QED BY <3>1, <3>2, PopSwapSeen
  <2>4. CASE PopFile
    BY <2>4, PopFileSeen
  <2>5. CASE DropScheduler
    <3>1. phase # "Dropped" /\ phase \in {"Writing", "Closing", "Failed", "Dropped"}
      BY <2>5, WriterFacts DEF DropScheduler, Idle, Callable, Control, Others
    <3>2. phase' = "Dropped" /\ UNCHANGED <<begun, delivered>>
      BY <2>5 DEF DropScheduler, outsideVars
    <3>3. Status # "gone" /\ Status' = "gone"
      BY <3>1, <3>2 DEF Status
    <3>4. Ordered!Abandon
      BY <3>2, <3>3 DEF Ordered!Abandon, Status
    <3> QED BY <3>4 DEF Ordered!StreamNext
  <2> QED BY <1>2, <2>1, <2>2, <2>3, <2>4, <2>5 DEF Calls
<1>3. CASE Outside
  <2>1. CASE \E i \in DOMAIN files : BackendEvent(i)
    <3>1. files \in Seq(SlotType)
      BY WriterFacts
    <3>2. files' = <<>> <=> files = <<>>
      BY <2>1, <3>1 DEF BackendEvent
    <3> QED BY <2>1, <3>2, UnseenStep DEF BackendEvent, Unseen
  <2>2. CASE \/ InputEvent
             \/ \E p \in Permits : BudgetThread(p) \/ BudgetWake(p)
             \/ \E p \in Rivals : RivalStep(p)
    BY <2>2, UnseenStep DEF InputEvent, BudgetThread, BudgetWake, RivalStep, BudgetOnly, Unseen,
                            schedulerVars, outsideVars
  <2> QED BY <1>3, <2>1, <2>2 DEF Outside
<1>4. CASE UNCHANGED vars
  BY <1>4, UnseenStep DEF vars, schedulerVars, outsideVars, Unseen
<1> QED BY <1>1, <1>2, <1>3, <1>4 DEF Next

(* What the caller has got back: the first frames of the input, in order. *)
CallerHas == (\A k \in DOMAIN delivered : delivered[k] = k) /\ Len(delivered) <= begun

LEMMA JoinFacts ==
    ASSUME NEW S, NEW a \in Seq(S), NEW b \in Seq(S)
    PROVE  /\ Len(a \o b) = Len(a) + Len(b) /\ DOMAIN (a \o b) = 1..(Len(a) + Len(b))
           /\ \A k \in 1..Len(a) : (a \o b)[k] = a[k]
           /\ \A k \in 1..Len(b) : (a \o b)[Len(a) + k] = b[k]
OBVIOUS

LEMMA CallerHasMore ==
    ASSUME WriterInv, CallerHas, [Next]_vars
    PROVE  CallerHas'
<1>1. /\ delivered \in Seq(1..MaxFrames) /\ begun \in 0..MaxFrames /\ Len(delivered) \in Nat
      /\ MaxFrames \in Nat
  BY WriterFacts, WriterAssumption DEF Others
<1>2. [Ordered!StreamNext]_StreamView
  BY StreamSeen
<1>3. CASE UNCHANGED <<begun, delivered>>
  BY <1>3 DEF CallerHas
<1>4. CASE begun' = begun + 1 /\ UNCHANGED delivered
  BY <1>1, <1>4 DEF CallerHas
<1>5. ASSUME NEW size, Ordered!HandBack(size) PROVE CallerHas'
  <2> DEFINE more == [k \in 1..size |-> Len(delivered) + k]
  <2>1. size \in 1..(begun - Len(delivered)) /\ delivered' = delivered \o more
        /\ begun' = begun
    BY <1>5 DEF Ordered!HandBack, Ordered!Remaining
  <2>2. size \in Nat /\ Len(delivered) + size <= begun
    BY <1>1, <2>1
  <2>3. /\ more \in Seq(1..MaxFrames) /\ Len(more) = size
        /\ \A k \in 1..size : more[k] = Len(delivered) + k
    <3>1. \A k \in 1..size : Len(delivered) + k \in 1..MaxFrames
      BY <1>1, <2>2
    <3> QED BY <1>1, <2>2, <3>1
  <2> HIDE DEF more
  <2>4. Len(delivered') = Len(delivered) + size
    <3>1. Len(delivered \o more) = Len(delivered) + Len(more)
      BY <1>1, <2>3, JoinFacts
    <3> QED BY <2>1, <2>3, <3>1
  <2>5. ASSUME NEW k \in DOMAIN delivered' PROVE delivered'[k] = k
    <3>1. CASE k \in 1..Len(delivered)
      BY <1>1, <2>1, <2>3, <3>1 DEF CallerHas
    <3>2. CASE k \in (Len(delivered) + 1)..(Len(delivered) + size)
      BY <1>1, <2>1, <2>2, <2>3, <3>2
    <3>3. k \in 1..(Len(delivered) + size)
      BY <1>1, <2>1, <2>2, <2>3, <2>4
    <3> QED BY <1>1, <2>2, <3>1, <3>2, <3>3
  <2> QED BY <2>1, <2>2, <2>4, <2>5 DEF CallerHas
<1> QED BY <1>2, <1>3, <1>4, <1>5
        DEF Ordered!StreamNext, Ordered!Take, Ordered!CloseInput, Ordered!Fail, Ordered!Abandon,
            StreamView

(* When a closed stream has no file left, everything is back. *)
LEMMA AllBack ==
    ASSUME WriterInv, phase = "Closing", files = <<>>
    PROVE  Len(delivered) = begun
BY WriterFacts, ClosingRemains

(* The scheduler is the ordered stream of whole files: every step of it is  *)
(* a step of that stream, or none.                                          *)
THEOREM WriterImplementsStream == Spec => ImplementsOrderedWrite
<1>1. Init => Ordered!StreamInit
  BY DEF Init, Ordered!StreamInit
<1>2. WriterInv /\ [Next]_vars => [Ordered!StreamNext]_StreamView
  BY StreamSeen
<1>3. [Ordered!StreamNext]_StreamView => [Ordered!StreamNext]_Ordered!streamVars
  BY DEF StreamView, Status, Ordered!streamVars
<1> QED BY <1>1, <1>2, <1>3, WriterInvariance, PTL
        DEF Spec, ImplementsOrderedWrite, Ordered!StreamSpec

-----------------------------------------------------------------------------
(***************************************************************************)
(* No wake-up of a writer is lost: what a poll leaves behind when it puts  *)
(* its task to sleep.                                                      *)
(***************************************************************************)

(* A round of drive: the m-th file that it will still look at. *)
Ahead(m) == ((pollCursor + m) % Len(files)) + 1

(* Polling the slot once more would change nothing before its event. *)
Rested(slot) ==
    IF HasOperation(slot) THEN slot.io = "waiting"
    ELSE slot.state = "Writing" => ~AllAssigned(slot)

(* A round without a change leaves the files behind it at rest. *)
DriveIsThorough ==
    pc = "drive" =>
        /\ round.left \in 1..Len(files) /\ round.steps \in Nat \ {0}
        /\ ~runnable /\ ~round.progressed => \A i \in DOMAIN files :
              (\A m \in 0..(round.left - 1) : i # Ahead(m)) => Rested(files[i])

Sleeping == pc = "idle" /\ waker

(* A poll that nothing has disturbed since leaves every file at rest, and   *)
(* has asked for the frames and the input that it needs.                    *)
PollIsThorough ==
    ~runnable =>
        /\ pc \in {"driven", "grow", "fill"} \/ Sleeping
              => \A i \in DOMAIN files : Rested(files[i])
        /\ (pc = "fill" \/ Sleeping) /\ phase = "Writing" /\ MayReserve
              => parked[Self] = Writer
        /\ Sleeping /\ partial # "none" => inputArmed

SleepInv == WriterInv /\ DriveIsThorough /\ PollIsThorough

-----------------------------------------------------------------------------
LEMMA SleepFacts ==
    ASSUME SleepInv
    PROVE  /\ WriterInv /\ IInv /\ Others /\ Control /\ DriveIsThorough /\ PollIsThorough
           /\ files \in Seq(SlotType) /\ Len(files) \in Nat /\ DOMAIN files = 1..Len(files)
           /\ pollCursor \in Nat /\ phase \in {"Writing", "Closing", "Failed", "Dropped"}
<1>1. WriterInv /\ DriveIsThorough /\ PollIsThorough
  BY DEF SleepInv
<1> QED BY <1>1, WriterFacts DEF Others

(* A round looks at every file, one after the other. *)
LEMMA RoundFacts ==
    ASSUME files \in Seq(SlotType), files # <<>>, pollCursor \in Nat
    PROVE  /\ Ahead(0) = (pollCursor % Len(files)) + 1
           /\ \A i \in DOMAIN files : \E m \in 0..(Len(files) - 1) : i = Ahead(m)
           /\ \A m \in Nat : (((((pollCursor % Len(files)) + 1) % Len(files)) + m) % Len(files)) + 1
                                = Ahead(m + 1)
<1> DEFINE n == Len(files)
<1>1. n \in Nat \ {0} /\ DOMAIN files = 1..n
  OBVIOUS
<1> HIDE DEF n
<1>2. \A m : Ahead(m) = ((pollCursor + m) % n) + 1
  BY DEF Ahead, n
<1>3. pollCursor + 0 = pollCursor
  OBVIOUS
<1>4. /\ \A i \in 1..n : \E m \in 0..(n - 1) : i = ((pollCursor + m) % n) + 1
      /\ \A m \in Nat : (((((pollCursor % n) + 1) % n) + m) % n) + 1
                           = ((pollCursor + (m + 1)) % n) + 1
  BY <1>1, TurnFacts, Zenon
<1> QED BY <1>1, <1>2, <1>3, <1>4 DEF n

(* A poll that changes nothing leaves its slot at rest. *)
LEMMA PolledRests ==
    ASSUME NEW slot \in SlotType, NEW result \in Polled(slot), ~result.failed
    PROVE  result.changed \in BOOLEAN /\ (~result.changed => Rested(result.slot))
<1>1. slot.io \in {"new", "waiting", "ready"}
  BY SlotFacts
<1>2. CASE HasOperation(slot)
  <2>1. PICK answer \in Answers(slot) :
           result = CASE answer = "pending" -> Stepped([slot EXCEPT !.io = "waiting"], FALSE, 0)
                      [] answer = "ok" -> Accepted(slot)
                      [] answer = "error" -> Retried(slot)
    BY <1>2 DEF Polled
  <2>2. answer \in {"pending", "ok", "error"}
    BY <1>1, <2>1 DEF Answers
  <2>3. CASE answer = "pending"
    <3> DEFINE later == [slot EXCEPT !.io = "waiting"]
    <3>1. result.slot = later /\ result.changed = FALSE
      BY <2>1, <2>3 DEF Stepped
    <3>2. later.io = "waiting" /\ later.state = slot.state /\ later.frames = slot.frames
          /\ later.written = slot.written
      BY DEF SlotType
    <3> HIDE DEF later
    <3>3. HasOperation(later)
      BY <1>2, <3>2 DEF HasOperation, Unwritten
    <3> QED BY <3>1, <3>2, <3>3 DEF Rested
  <2>4. CASE answer = "ok"
    <3>1. slot.state \in {"Opening", "Writing", "Closing"}
      BY <1>2 DEF HasOperation
    <3>2. result = Accepted(slot)
      BY <2>1, <2>4
    <3>3. result.changed = TRUE
      BY <3>1, <3>2 DEF Accepted, Stepped
    <3> QED BY <3>3
  <2>5. CASE answer = "error"
    <3>1. result = Retried(slot)
      BY <2>1, <2>5
    <3>2. slot.retries # MaxRetries
      BY <3>1 DEF Retried, Stepped
    <3>3. result.changed = TRUE
      BY <3>1, <3>2 DEF Retried, Stepped
    <3> QED BY <3>3
  <2> QED BY <2>2, <2>3, <2>4, <2>5
<1>3. CASE ~HasOperation(slot) /\ slot.state = "Writing" /\ AllAssigned(slot)
  <2>1. result = Stepped([slot EXCEPT !.state = "Closing"], TRUE, 0)
    BY <1>3 DEF Polled
  <2>2. result.changed = TRUE
    BY <2>1 DEF Stepped
  <2> QED BY <2>2
<1>4. CASE ~HasOperation(slot) /\ ~(slot.state = "Writing" /\ AllAssigned(slot))
  <2>1. result = Stepped(slot, FALSE, 0)
    BY <1>4 DEF Polled
  <2>2. result.slot = slot /\ result.changed = FALSE
    BY <2>1 DEF Stepped
  <2> QED BY <1>4, <2>2 DEF Rested
<1> QED BY <1>2, <1>3, <1>4

(* Whether a slot rests depends on the slot and the phase. *)
LEMMA RestsOn ==
    ASSUME UNCHANGED phase, NEW i, files'[i] = files[i], Rested(files[i])
    PROVE  Rested(files[i])'
BY DEF Rested, HasOperation, Unwritten, AllAssigned

-----------------------------------------------------------------------------
(* drive goes on: only a slot that rests is left behind without a change. *)
LEMMA SteppedSleeps ==
    ASSUME SleepInv, pc = "drive", NEW i \in DOMAIN files, i = Ahead(0),
           NEW result \in Polled(files[i]), ~result.failed, DriveStepped(i, result),
           pollCursor' = ((pollCursor % Len(files)) + 1) % Len(files)
    PROVE  DriveIsThorough' /\ PollIsThorough'
<1> DEFINE n == Len(files)
           changed == result.changed
           later == result.slot
           left == round.left
           steps == round.steps - (IF changed THEN 1 ELSE 0)
           ended == left = 1
<1>1. /\ files \in Seq(SlotType) /\ n \in Nat /\ n # 0 /\ DOMAIN files = 1..n
      /\ pollCursor \in Nat /\ DriveIsThorough
  BY SleepFacts DEF Control
<1>2. files[i] \in SlotType
  BY <1>1
<1>3. changed \in BOOLEAN /\ (~changed => Rested(later))
  BY <1>2, PolledRests
<1>4. left \in 1..n /\ round.steps \in Nat \ {0}
  BY <1>1 DEF DriveIsThorough
<1>5. steps \in Nat
  BY <1>3, <1>4
<1>6. /\ files' = [files EXCEPT ![i] = later] /\ UNCHANGED phase
      /\ runnable' = (runnable \/ steps = 0)
      /\ IF steps = 0 \/ (ended /\ ~(round.progressed \/ changed))
         THEN pc' = "driven" /\ round' = NoRound
         ELSE /\ round' = [left |-> IF ended THEN n ELSE left - 1,
                           progressed |-> (round.progressed \/ changed) /\ ~ended,
                           steps |-> steps]
              /\ UNCHANGED pc
  BY DEF DriveStepped, SelfWoken, RoundsEnd
<1>7. Len(files') = n /\ DOMAIN files' = 1..n /\ files'[i] = later
      /\ \A j \in DOMAIN files : j # i => files'[j] = files[j]
  BY <1>1, <1>6
<1>8. ASSUME Rested(later) PROVE Rested(files[i])'
  BY <1>6, <1>7, <1>8 DEF Rested, HasOperation, Unwritten, AllAssigned
<1>9. \A m \in Nat : Ahead(m)' = Ahead(m + 1)
  <2>1. \A m \in Nat : Ahead(m)' = ((pollCursor' + m) % n) + 1
    BY <1>7 DEF Ahead
  <2>2. \A m \in Nat : (((((pollCursor % n) + 1) % n) + m) % n) + 1 = Ahead(m + 1)
    BY <1>1, RoundFacts
  <2> QED BY <2>1, <2>2
<1>10. \A j \in DOMAIN files' : \E m \in 0..(n - 1) : j = Ahead(m)'
  <2>2. pollCursor' \in Nat
    <3>1. (pollCursor % n) + 1 \in Nat
      BY <1>1, WrapType
    <3> QED BY <1>1, <3>1, WrapType
  <2>3. ASSUME NEW j \in 1..n PROVE \E m \in 0..(n - 1) : j = ((pollCursor' + m) % n) + 1
    BY <1>1, <2>2, TurnFacts, Zenon
  <2>4. \A m : Ahead(m)' = ((pollCursor' + m) % n) + 1
    BY <1>7 DEF Ahead
  <2> QED BY <1>7, <2>3, <2>4
(* Every file that the round has passed is at rest. *)
<1>11. ASSUME ~runnable', ~round.progressed, ~changed,
              NEW j \in DOMAIN files, \A m \in 1..(left - 1) : j # Ahead(m)
       PROVE  Rested(files[j])'
  <2>1. CASE j = i
    BY <1>3, <1>8, <1>11, <2>1
  <2>2. CASE j # i
    <3>1. \A m \in 0..(left - 1) : j # Ahead(m)
      <4> TAKE m \in 0..(left - 1)
      <4>1. m = 0 \/ m \in 1..(left - 1)
        BY <1>4
      <4> QED BY <1>11, <2>2, <4>1
    <3>2. ~runnable
      BY <1>6, <1>11
    <3>3. Rested(files[j])
      BY <1>1, <1>11, <3>1, <3>2 DEF DriveIsThorough
    <3> QED BY <1>6, <1>7, <2>2, <3>3, RestsOn
  <2> QED BY <2>1, <2>2
<1> HIDE DEF n, changed, later, left, steps
<1>12. CASE steps = 0 \/ (ended /\ ~(round.progressed \/ changed))
  <2>1. pc' = "driven"
    BY <1>6, <1>12
  <2>2. ASSUME ~runnable', NEW j \in DOMAIN files' PROVE Rested(files[j])'
    <3>1. ended /\ ~round.progressed /\ ~changed
      BY <1>6, <1>12, <2>2
    <3>2. \A m \in 1..(left - 1) : j # Ahead(m)
      BY <3>1
    <3> QED BY <1>1, <1>7, <1>11, <2>2, <3>1, <3>2
  <2> QED BY <2>1, <2>2 DEF DriveIsThorough, PollIsThorough, Sleeping
<1>13. CASE ~(steps = 0 \/ (ended /\ ~(round.progressed \/ changed)))
  <2>1. /\ round' = [left |-> IF ended THEN n ELSE left - 1,
                     progressed |-> (round.progressed \/ changed) /\ ~ended, steps |-> steps]
        /\ pc' = "drive" /\ steps # 0
    BY <1>6, <1>13
  <2>2. /\ round'.left = (IF ended THEN n ELSE left - 1) /\ round'.steps = steps
        /\ round'.progressed = ((round.progressed \/ changed) /\ ~ended)
    BY <2>1
  <2>3. round'.left \in 1..n /\ round'.steps \in Nat \ {0}
    BY <1>1, <1>4, <1>5, <2>1, <2>2
  <2>4. ASSUME ~runnable', ~round'.progressed, NEW j \in DOMAIN files',
               \A m \in 0..(round'.left - 1) : j # Ahead(m)'
        PROVE  Rested(files[j])'
    <3>1. CASE ended
      <4>1. round'.left = n
        BY <2>2, <3>1
      <4> QED BY <1>10, <2>4, <4>1
    <3>2. CASE ~ended
      <4>1. ~round.progressed /\ ~changed /\ round'.left = left - 1
        BY <2>2, <2>4, <3>2
      <4>2. ASSUME NEW m \in 1..(left - 1) PROVE j # Ahead(m)
        <5> DEFINE k == m - 1
        <5>1. k \in 0..(round'.left - 1) /\ k \in Nat /\ k + 1 = m
          BY <1>4, <4>1
        <5> HIDE DEF k
        <5>2. j # Ahead(k)' /\ Ahead(k)' = Ahead(k + 1)
          BY <1>9, <2>4, <5>1
        <5> QED BY <5>1, <5>2
      <4> QED BY <1>1, <1>7, <1>11, <2>4, <4>1, <4>2
    <3> QED BY <3>1, <3>2
  <2>5. DriveIsThorough'
    BY <1>7, <2>3, <2>4 DEF DriveIsThorough
  <2> QED BY <2>1, <2>5 DEF PollIsThorough, Sleeping
<1> QED BY <1>12, <1>13

LEMMA DriveSleeps ==
    ASSUME SleepInv, DriveStep
    PROVE  DriveIsThorough' /\ PollIsThorough'
<1> DEFINE n == Len(files)
           index == pollCursor % n
<1>1. /\ pc = "drive" /\ files \in Seq(SlotType) /\ n \in Nat /\ n # 0 /\ DOMAIN files = 1..n
      /\ pollCursor \in Nat
  BY SleepFacts DEF DriveStep, Control
<1>2. /\ pollCursor' = (index + 1) % n
      /\ \E result \in Polled(files[index + 1]) :
            \/ result.failed /\ Fail
            \/ ~result.failed /\ DriveStepped(index + 1, result)
  BY DEF DriveStep
<1>3. index + 1 = Ahead(0) /\ index \in 0..(n - 1)
  <2>1. Ahead(0) = index + 1
    BY <1>1, RoundFacts
  <2>2. index \in 0..(n - 1)
    <3>1. n \in Nat \ {0} /\ pollCursor \in Int
      BY <1>1
    <3> HIDE DEF n
    <3>2. pollCursor % n \in 0..(n - 1)
      BY <3>1, WrapType, Zenon
    <3> QED BY <3>2
  <2> QED BY <2>1, <2>2
<1>i. pollCursor' = ((pollCursor % n) + 1) % n
  BY <1>2
<1> HIDE DEF index
<1>4. index + 1 \in DOMAIN files
  BY <1>1, <1>3
<1>5. PICK result \in Polled(files[index + 1]) :
         \/ result.failed /\ Fail
         \/ ~result.failed /\ DriveStepped(index + 1, result)
  BY <1>2
<1>6. CASE Fail
  BY <1>6 DEF Fail, DriveIsThorough, PollIsThorough
<1>7. CASE ~result.failed /\ DriveStepped(index + 1, result)
  BY <1>1, <1>3, <1>4, <1>7, <1>i, SteppedSleeps
<1> QED BY <1>5, <1>6, <1>7

-----------------------------------------------------------------------------
(* The rest of a poll asks for what it could not get. *)
LEMMA PollSleeps ==
    ASSUME SleepInv, Reserve \/ Grow \/ Fill \/ FinishClose
    PROVE  DriveIsThorough' /\ PollIsThorough'
<1>1. /\ IInv /\ Control /\ PollIsThorough /\ files \in Seq(SlotType) /\ WriterInv
  BY SleepFacts
<1>2. CASE Fail
  BY <1>2 DEF Fail, DriveIsThorough, PollIsThorough
<1>s. ASSUME UNCHANGED <<files, phase, runnable>>, pc \in {"driven", "grow", "fill"}, ~runnable,
             NEW i \in DOMAIN files
      PROVE  Rested(files[i])'
  <2>1. Rested(files[i])
    BY <1>1, <1>s DEF PollIsThorough
  <2> QED BY <1>s, <2>1, RestsOn
<1>3. CASE Reserve /\ ~Fail
  <2>1. /\ pc = "driven" /\ UNCHANGED <<files, phase, runnable, round>>
        /\ pc' \in {"grow", "fill"} /\ (pc' = "fill" => ~MayReserve')
    <3>1. CASE MayReserve /\ capacity[Self] >= used + Needed
      <4>1. Allocate /\ pc = "driven"
        BY <1>3, <3>1 DEF Reserve, BadAllocation
      <4> QED BY <4>1 DEF Allocate, outsideVars, MayReserve
    <3>2. CASE ~(MayReserve /\ capacity[Self] >= used + Needed)
      <4>1. /\ pc = "driven" /\ UNCHANGED <<schedulerVars, round, outsideVars>>
            /\ pc' = IF MayReserve THEN "grow" ELSE "fill"
        BY <1>3, <3>2 DEF Reserve
      <4>2. MayReserve' = MayReserve
        BY <4>1, MayReserveStays DEF schedulerVars, outsideVars, QueueStays
      <4> QED BY <4>1, <4>2 DEF schedulerVars, outsideVars
    <3> QED BY <3>1, <3>2
  <2> QED BY <1>s, <2>1 DEF DriveIsThorough, PollIsThorough, Sleeping
<1>4. CASE Grow
  <2> DEFINE minimum == used + Needed
             desired == Least(Total, Most(window.target, minimum))
  <2>1. /\ pc = "grow" /\ UNCHANGED <<schedulerVars, round, outsideVars>>
        /\ pc' = IF capacity'[Self] >= minimum THEN "driven" ELSE "fill"
        /\ PollGrow(Self, Writer, minimum, desired)
    BY <1>4 DEF Grow
  <2>2. MayReserve' = MayReserve
    BY <2>1, MayReserveStays DEF schedulerVars, outsideVars, QueueStays
  <2>3. phase = "Writing" /\ MayReserve
    BY <1>1, <2>1 DEF Control
  <2>4. minimum \in Nat
    BY <1>1, <2>3, NeededFacts
  <2>5. desired \in Nat /\ capacity'[Self] \in Nat
    <3>1. desired \in Nat
      <4>1. window.target \in Nat /\ Total \in Nat
        BY <1>1, WriterFacts, WriterAssumption DEF Others
      <4> HIDE DEF minimum
      <4> QED BY <2>4, <4>1 DEF Least, Most
    <3>2. capacity[Self] \in 0..Total /\ Total \in Nat /\ Writer \in Tasks
      BY <1>1, SelfTypes, WriterAssumption
    <3> HIDE DEF minimum, desired
    <3>3. capacity'[Self] \in capacity[Self]..Total
      BY <1>1, <2>1, <2>4, <3>1, <3>2, GrowStep
    <3> QED BY <3>1, <3>2, <3>3
  <2> HIDE DEF minimum, desired
  <2>6. pc' = "fill" => parked'[Self] = Writer
    <3>1. Writer \in Tasks
      BY WriterAssumption
    <3>2. ASSUME capacity'[Self] < minimum PROVE parked'[Self] = Writer
      BY <1>1, <2>1, <2>4, <2>5, <3>1, <3>2, GrowAsks
    <3> QED BY <2>1, <2>4, <2>5, <3>2
  <2>7. UNCHANGED <<files, phase, runnable>> /\ pc' \in {"driven", "fill"}
    BY <2>1 DEF schedulerVars, outsideVars
  <2> QED BY <1>s, <2>1, <2>6, <2>7 DEF DriveIsThorough, PollIsThorough, Sleeping
<1>5. CASE FillReady
  BY <1>5 DEF FillReady, ReturnReady, DriveIsThorough, PollIsThorough
<1>6. CASE FillPends
  <2>1. /\ pc = "fill" /\ pc' = "idle" /\ inputArmed' = (inputArmed \/ partial # "none")
        /\ UNCHANGED <<budgetVars, files, partial, used, fillIndex, phase, window, begun, delivered>>
        /\ runnable' = TRUE \/ runnable' = runnable
    BY <1>6 DEF FillPends, InFill, ReturnReady, ReturnPending
  <2>2. MayReserve' = MayReserve
    BY <2>1, MayReserveStays DEF QueueStays
  <2>3. parked'[Self] = parked[Self]
    BY <2>1 DEF budgetVars
  <2>4. ASSUME ~runnable' PROVE ~runnable /\ UNCHANGED runnable
    BY <2>1, <2>4
  <2>5. ASSUME ~runnable', phase = "Writing", MayReserve PROVE parked[Self] = Writer
    BY <1>1, <2>1, <2>4, <2>5 DEF PollIsThorough
  <2>6. partial' # "none" => inputArmed'
    BY <2>1
  <2> QED BY <1>s, <2>1, <2>2, <2>3, <2>4, <2>5, <2>6 DEF DriveIsThorough, PollIsThorough, Sleeping
<1>7. CASE FinishClose
  <2>1. /\ pc = "driven" /\ phase = "Closing" /\ pc' = "idle"
        /\ UNCHANGED <<files, partial, phase>>
        /\ runnable' = TRUE \/ runnable' = runnable
    BY <1>7 DEF FinishClose, ReturnReady, ReturnPending
  <2>2. ASSUME ~runnable' PROVE ~runnable /\ UNCHANGED runnable
    BY <2>1, <2>2
  <2>3. partial = "none"
    BY <1>1, <2>1, WriterFacts DEF InOrder, Shape
  <2> QED BY <1>s, <2>1, <2>2, <2>3 DEF DriveIsThorough, PollIsThorough, Sleeping
<1>8. Fail \/ (Reserve /\ ~Fail) \/ Grow \/ FillReady \/ FillPends \/ FinishClose
  BY DEF Fill, FillFails
<1> QED BY <1>2, <1>3, <1>4, <1>5, <1>6, <1>7, <1>8

(* A call begins: every file is looked at again; a call that is no poll     *)
(* wakes the task.                                                          *)
LEMMA StartSleeps ==
    ASSUME StartDrive(Len(files')), files' \in Seq(SlotType), pollCursor' \in Nat, waker' = FALSE
    PROVE  DriveIsThorough' /\ PollIsThorough'
<1> DEFINE n == Len(files')
<1>1. n \in Nat /\ DOMAIN files' = 1..n /\ MaxPollOps \in Nat \ {0}
  BY WriterAssumption
<1>2. CASE n = 0
  BY <1>1, <1>2 DEF StartDrive, DriveIsThorough, PollIsThorough, Sleeping
<1>3. CASE n # 0
  <2>1. /\ pc' = "drive"
        /\ round' = [left |-> n, progressed |-> FALSE, steps |-> MaxPollOps]
    BY <1>3 DEF StartDrive
  <2>2. round'.left = n /\ round'.steps = MaxPollOps
    BY <2>1
  <2> HIDE DEF n
  <2>3. \A i \in 1..n : \E m \in 0..(n - 1) : i = ((pollCursor' + m) % n) + 1
    BY <1>1, <1>3, TurnFacts, Zenon
  <2>4. \A i \in DOMAIN files' : \E m \in 0..(round'.left - 1) : i = Ahead(m)'
    BY <1>1, <2>2, <2>3 DEF Ahead, n
  <2>5. round'.left \in 1..Len(files')
    BY <1>1, <1>3, <2>2 DEF n
  <2> QED BY <1>1, <2>1, <2>2, <2>4, <2>5 DEF DriveIsThorough, PollIsThorough, Sleeping
<1> QED BY <1>2, <1>3

LEMMA CallsSleep ==
    ASSUME SleepInv, Calls
    PROVE  DriveIsThorough' /\ PollIsThorough'
<1>1. CASE PollWrite \/ PollClose
  BY <1>1, SleepFacts, StartSleeps DEF PollWrite, PollClose
<1>2. CASE StopInput
  <2>1. StartDrive(Len(files')) /\ UNCHANGED pollCursor /\ waker' = FALSE
    BY <1>2 DEF StopInput
  <2>2. files' \in Seq(SlotType)
    BY <1>2, SleepFacts, StopInputKeeps DEF WriterInv, WriterTypeOK
  <2> QED BY <2>1, <2>2, SleepFacts, StartSleeps
<1>3. CASE \/ PollRejected \/ \E c \in FileCapacities : PushFile(c) \/ PopSwap(c)
           \/ PopFile \/ (\E w \in Windows : SetWindow(w)) \/ DropScheduler
  <2>1. pc' = "idle" /\ waker' = FALSE
    BY <1>3 DEF PollRejected, PushFile, PopSwap, PopFile, SetWindow, DropScheduler, Idle,
                pollVars, WakeStored
  <2> QED BY <2>1 DEF DriveIsThorough, PollIsThorough, Sleeping
<1> QED BY <1>1, <1>2, <1>3 DEF Calls

(* What happens outside wakes the task, if it was waiting for that. *)
LEMMA OutsideSleeps ==
    ASSUME SleepInv, Outside \/ UNCHANGED vars
    PROVE  DriveIsThorough' /\ PollIsThorough'
<1>1. /\ IInv /\ Control /\ DriveIsThorough /\ PollIsThorough /\ files \in Seq(SlotType)
  BY SleepFacts
<1>2. CASE \E i \in DOMAIN files : BackendEvent(i)
  <2>1. runnable' = TRUE /\ UNCHANGED <<pc, round>> /\ Len(files') = Len(files)
    BY <1>1, <1>2 DEF BackendEvent, pollVars
  <2> QED BY <1>1, <2>1 DEF DriveIsThorough, PollIsThorough
<1>3. CASE InputEvent
  <2>1. runnable' = TRUE /\ UNCHANGED <<pc, round, files>>
    BY <1>3 DEF InputEvent, pollVars, schedulerVars
  <2> QED BY <1>1, <2>1 DEF DriveIsThorough, PollIsThorough
<1>4. CASE \/ \E p \in Permits : BudgetThread(p) \/ BudgetWake(p)
           \/ \E p \in Rivals : RivalStep(p)
           \/ UNCHANGED vars
  <2>1. UNCHANGED <<schedulerVars, pollVars, inputArmed, begun, delivered>>
    BY <1>4 DEF BudgetThread, BudgetWake, RivalStep, BudgetOnly, vars, outsideVars
  <2>2. UNCHANGED <<files, partial, pollCursor, phase, waker, pc, round, inputArmed>>
    BY <2>1 DEF schedulerVars, pollVars
  <2>3. MayReserve' = MayReserve
    BY <2>1, MayReserveStays DEF schedulerVars, QueueStays
  <2>4. /\ ~runnable' => ~runnable
        /\ ~runnable' /\ parked[Self] = Writer => parked'[Self] = Writer
    <3>1. CASE \E p \in Permits : BudgetThread(p)
      BY <1>1, <3>1, OthersPark DEF BudgetThread, BudgetOnly, outsideVars
    <3>2. CASE \E p \in Rivals : RivalStep(p)
      BY <1>1, <3>2, OthersPark DEF RivalStep, Rivals, BudgetOnly, outsideVars
    <3>3. CASE UNCHANGED vars
      BY <3>3 DEF vars, outsideVars, budgetVars
    <3>4. CASE \E p \in Permits : BudgetWake(p)
      <4>1. PICK p \in Permits : BudgetWake(p)
        BY <3>4
      <4> DEFINE task == Head(wakes[p])
      <4>2. parked' = Awoken(task) /\ runnable' = Woken(task)
        BY <4>1 DEF BudgetWake, Wake
      <4> HIDE DEF task
      <4>3. ~runnable' => ~runnable /\ task # Writer
        BY <4>2, Zenon DEF Woken
      <4>4. parked'[Self] = parked[Self] \/ parked[Self] = task
        BY <4>2, SelfAssumption DEF Awoken
      <4> QED BY <4>3, <4>4
    <3> QED BY <1>4, <3>1, <3>2, <3>3, <3>4
  <2>5. ASSUME NEW i \in DOMAIN files, Rested(files[i]) PROVE Rested(files[i])'
    BY <2>2, <2>5, RestsOn
  <2>6. \A m : Ahead(m)' = Ahead(m)
    BY <2>2 DEF Ahead
  <2>7. DriveIsThorough'
    BY <1>1, <2>2, <2>4, <2>5, <2>6 DEF DriveIsThorough
  <2>8. PollIsThorough'
    BY <1>1, <2>2, <2>3, <2>4, <2>5 DEF PollIsThorough, Sleeping
  <2> QED BY <2>7, <2>8
<1> QED BY <1>2, <1>3, <1>4 DEF Outside

LEMMA SleepInvariance == Spec => []SleepInv
<1>1. Init => SleepInv
  BY WriterStart DEF Init, SleepInv, DriveIsThorough, PollIsThorough, Idle
<1>2. ASSUME SleepInv, [Next]_vars PROVE SleepInv'
  <2>1. WriterInv'
    BY <1>2, SleepFacts, WriterStep
  <2>2. DriveIsThorough' /\ PollIsThorough'
    BY <1>2, DriveSleeps, PollSleeps, CallsSleep, OutsideSleeps DEF Next, InPoll
  <2> QED BY <2>1, <2>2 DEF SleepInv
<1> QED BY <1>1, <1>2, PTL DEF Spec

(* A task that was put to sleep, and that nobody has woken, has left        *)
(* nothing undone: every operation of its files waits for its event, no     *)
(* file that may be closed stands still, and the input or the budget, if    *)
(* it could do with more of them, holds its waker.                          *)
THEOREM WriterSleepsWhenStuck == Spec => []SleepsOnlyWhenStuck
<1>1. ASSUME SleepInv PROVE SleepsOnlyWhenStuck
  <2> SUFFICES ASSUME pc = "idle", waker, ~runnable
               PROVE  /\ \A i \in DOMAIN files :
                            IF HasOperation(files[i]) THEN files[i].io = "waiting"
                            ELSE files[i].state = "Writing" =>
                                    files[i].assigned < files[i].capacity /\ phase = "Writing"
                      /\ partial # "none" => inputArmed
                      /\ phase = "Writing" /\ MayReserve => parked[Self] = Writer
    BY DEF SleepsOnlyWhenStuck
  <2>1. /\ WriterInv /\ PollIsThorough /\ files \in Seq(SlotType)
        /\ phase \in {"Writing", "Closing", "Failed", "Dropped"}
    BY <1>1, SleepFacts
  <2>2. /\ \A i \in DOMAIN files : Rested(files[i])
        /\ phase = "Writing" /\ MayReserve => parked[Self] = Writer
        /\ partial # "none" => inputArmed
    BY <2>1 DEF PollIsThorough, Sleeping
  <2>3. ASSUME NEW i \in DOMAIN files, ~HasOperation(files[i]), files[i].state = "Writing"
        PROVE  files[i].assigned < files[i].capacity /\ phase = "Writing"
    <3>1. Streaming
      BY <2>1, WriterFacts DEF NothingLeft
    <3>2. ~AllAssigned(files[i])
      BY <2>2, <2>3 DEF Rested
    <3>3. phase = "Writing"
      BY <3>1, <3>2 DEF AllAssigned, Streaming
    <3>4. Sound(files[i]) /\ files[i] \in SlotType
      BY <2>1, <3>1, StreamInOrder DEF Shape
    <3> DEFINE a == files[i].assigned
               c == files[i].capacity
    <3>5. a \in Nat /\ c \in Nat /\ a <= c /\ a # c
      BY <3>2, <3>4, SlotFacts DEF Sound, AllAssigned
    <3> HIDE DEF a, c
    <3>6. a < c
      BY <3>5
    <3> QED BY <3>3, <3>6 DEF a, c
  <2> QED BY <2>2, <2>3 DEF Rested
<1> QED BY <1>1, SleepInvariance, PTL

-----------------------------------------------------------------------------
(* What the permit takes of the budget: its window, or what the files and   *)
(* the next frame need; and it waits for no more than the next frame lacks. *)
NextNeeds == IF phase = "Writing" /\ MayReserve THEN Needed ELSE 0

TakesItsShare == Reach <= Most(window.target, used + NextNeeds)

AsksForNext ==
    request[Self].waiting =>
        /\ phase = "Writing" /\ MayReserve
        /\ capacity[Self] + request[Self].minimum = used + Needed

Modest == TakesItsShare /\ AsksForNext

LEMMA NextNeedsType ==
    ASSUME WriterInv
    PROVE  NextNeeds \in Nat /\ used \in Nat /\ window.target \in Nat
<1>1. used \in Nat /\ window.target \in Nat
  BY WriterFacts, WriterAssumption DEF Others
<1> QED BY <1>1, NeededFacts DEF NextNeeds

NeedsTyped ==
    /\ NextNeeds \in Nat /\ used \in Nat /\ window.target \in Nat
    /\ Reach \in Nat /\ files \in Seq(SlotType)

LEMMA NextNeedsLater == WriterInv' => NeedsTyped'
<1>1. WriterInv => NeedsTyped
  BY NextNeedsType, WriterFacts, ReachType DEF WriterInv, NeedsTyped
<1> QED BY <1>1, PTL

(* Whoever gives frames back, or drops everything, waits for nothing. *)
LEMMA ShrinkIsModest ==
    ASSUME WriterInv, WriterInv', NEW limit \in Nat, Shrink(limit),
           limit <= Most(window'.target, used')
    PROVE  Modest'
<1>1. Reach' = Least(limit, capacity[Self]) /\ ~request'[Self].waiting
  BY ShrinkReach DEF WriterInv
<1>2. NextNeeds' \in Nat /\ used' \in Nat /\ window'.target \in Nat
  BY NextNeedsLater DEF NeedsTyped
<1>3. capacity[Self] \in Nat
  BY WriterFacts
<1> QED BY <1>1, <1>2, <1>3 DEF Modest, TakesItsShare, AsksForNext, Least, Most

(* Steps that leave the grant and the next frame's needs as they are. *)
LEMMA QuietIsModest ==
    ASSUME WriterInv, WriterInv', Modest, UNCHANGED <<used, window>>,
           Reach' <= Reach, capacity'[Self] = capacity[Self],
           request'[Self].waiting => request'[Self] = request[Self],
           phase = "Writing" /\ MayReserve =>
               phase' = "Writing" /\ MayReserve' /\ Needed' = Needed
    PROVE  Modest'
<1>1. /\ NextNeeds \in Nat /\ used \in Nat /\ window.target \in Nat /\ Reach \in Nat
      /\ NextNeeds' \in Nat /\ Reach' \in Nat
  BY NextNeedsType, NextNeedsLater, ReachType DEF WriterInv, NeedsTyped
<1>2. NextNeeds <= NextNeeds'
  BY <1>1 DEF NextNeeds
<1>4. TakesItsShare'
  <2>1. Reach' <= Most(window.target, used + NextNeeds)
    BY <1>1 DEF Modest, TakesItsShare, Most
  <2>2. Reach' <= Most(window.target, used + NextNeeds')
    <3> DEFINE t == window.target
               m == NextNeeds
               n == NextNeeds'
               a == used + m
               b == used + n
    <3>2. t \in Nat /\ m \in Nat /\ used \in Nat
      BY <1>1
    <3>3. n \in Nat
      BY <1>1
    <3>4. m <= n
      BY <1>2
    <3> HIDE DEF t, m, n
    <3>1. a \in Nat /\ b \in Nat /\ a <= b
      BY <3>2, <3>3, <3>4
    <3>0. Reach' <= Most(t, a)
      BY <2>1 DEF t, m
    <3> HIDE DEF a, b
    <3>5. Reach' <= Most(t, b)
      BY <1>1, <3>0, <3>1, <3>2 DEF Most
    <3> QED BY <3>5 DEF t, b, n
  <2> QED BY <2>2 DEF TakesItsShare
<1>5. AsksForNext'
  BY DEF Modest, AsksForNext
<1> QED BY <1>4, <1>5 DEF Modest

LEMMA RestIsModest ==
    ASSUME WriterInv, WriterInv', Modest, UNCHANGED <<budgetVars, used, window>>,
           phase = "Writing" /\ MayReserve =>
               phase' = "Writing" /\ MayReserve' /\ Needed' = Needed
    PROVE  Modest'
<1>1. capacity'[Self] = capacity[Self] /\ request'[Self] = request[Self]
  BY BudgetStays DEF WriterInv
<1>2. Reach' = Reach /\ Reach \in Nat
  BY <1>1, ReachType DEF Reach, Held, WriterInv
<1> QED BY <1>1, <1>2, QuietIsModest

(* The file to be filled next stays the same file. *)
LEMMA NextStays ==
    ASSUME WriterInv, phase = "Writing", MayReserve, UNCHANGED <<phase, partial, used, window>>,
           HasFillSlot', FillSlot'.assigned = FillSlot.assigned,
           FillSlot'.capacity = FillSlot.capacity
    PROVE  phase' = "Writing" /\ MayReserve' /\ Needed' = Needed
<1>1. Needed' = Needed
  BY DEF Needed
<1>2. Limit' = Limit
  BY DEF Limit
<1> QED BY <1>1, <1>2 DEF MayReserve

LEMMA BehindIsModest ==
    ASSUME WriterInv, WriterInv', Modest, QueueStays, UNCHANGED window,
           Reach' <= Reach, capacity'[Self] = capacity[Self],
           request'[Self].waiting => request'[Self] = request[Self]
    PROVE  Modest'
<1>1. MayReserve' = MayReserve /\ Needed' = Needed
  BY MayReserveStays DEF QueueStays, Needed, FillSlot
<1> QED BY <1>1, QuietIsModest DEF QueueStays

-----------------------------------------------------------------------------
LEMMA PolledIsModest ==
    ASSUME WriterInv, WriterInv', Modest, NEW i \in DOMAIN files,
           NEW result \in Polled(files[i]), ~result.failed, DriveStepped(i, result)
    PROVE  Modest'
<1>1. /\ files \in Seq(SlotType) /\ used \in Nat /\ used' \in Nat /\ files' \in Seq(SlotType)
      /\ QueueInOrder /\ DOMAIN files = 1..Len(files) /\ Len(files) \in Nat
      /\ window.target \in Nat /\ capacity[Self] \in Nat
  BY WriterFacts, NextNeedsType, NextNeedsLater DEF WriterInv, NeedsTyped
<1>2. /\ files' = [files EXCEPT ![i] = result.slot] /\ used' = Less(used, result.released)
      /\ UNCHANGED <<partial, fillIndex, phase, window>>
  BY DEF DriveStepped
<1>3. CASE Shrink(used')
  BY <1>1, <1>2, <1>3, ShrinkIsModest DEF Most
<1>4. CASE Shrink(Kept(used'))
  <2>1. Kept(used') \in Nat /\ Kept(used') <= Most(window.target, used')
    BY <1>1 DEF Kept, Trimmed, Least, Most
  <2> QED BY <1>2, <1>4, <2>1, ShrinkIsModest
<1>5. CASE UNCHANGED budgetVars /\ ~(result.released > 0)
  <2>1. Streaming
    <3>1. files # <<>>
      BY <1>1
    <3> QED BY <3>1, WriterFacts DEF NothingLeft
  <2>2. Sound(files[i]) /\ files[i] \in SlotType /\ fillIndex \in 0..Len(files)
    BY <1>1, <2>1 DEF QueueInOrder, Shape
  <2>3. Continues(result.slot, files[i]) /\ Releases(result.released, result.slot, files[i])
    BY <2>2, PolledFacts
  <2>4. used' = used
    BY <1>1, <1>2, <1>5, <2>3 DEF Less, Releases
  <2>5. ASSUME phase = "Writing", MayReserve
        PROVE  phase' = "Writing" /\ MayReserve' /\ Needed' = Needed
    <3>1. fillIndex < Len(files) /\ fillIndex + 1 \in DOMAIN files /\ Len(files') = Len(files)
      BY <1>1, <1>2, <2>2, <2>5 DEF MayReserve, HasFillSlot
    <3>2. /\ files'[fillIndex + 1].assigned = files[fillIndex + 1].assigned
          /\ files'[fillIndex + 1].capacity = files[fillIndex + 1].capacity
      BY <1>1, <1>2, <2>3, <3>1 DEF Continues
    <3>3. FillSlot'.assigned = FillSlot.assigned /\ FillSlot'.capacity = FillSlot.capacity
      BY <1>2, <3>2 DEF FillSlot
    <3>4. HasFillSlot'
      BY <1>2, <3>1 DEF HasFillSlot
    <3> QED BY <1>2, <2>4, <2>5, <3>3, <3>4, NextStays
  <2> QED BY <1>2, <1>5, <2>4, <2>5, RestIsModest
<1> QED BY <1>3, <1>4, <1>5 DEF DriveStepped

LEMMA ReserveIsModest ==
    ASSUME WriterInv, WriterInv', Modest, Reserve
    PROVE  Modest'
<1>1. /\ used \in Nat /\ used' \in Nat /\ window.target \in Nat /\ window'.target \in Nat
      /\ capacity[Self] \in Nat
  BY WriterFacts, NextNeedsType, NextNeedsLater DEF NeedsTyped
<1>2. CASE Fail
  BY <1>1, <1>2, ShrinkIsModest DEF Fail, ReturnGrant, Most
<1>3. CASE MayReserve /\ capacity[Self] >= used + Needed /\ ~Fail
  <2>1. phase = "Writing" /\ Allocate /\ UNCHANGED budgetVars
    BY <1>3 DEF Reserve, BadAllocation
  <2>2. /\ used' = used + Needed /\ partial' = "empty" /\ UNCHANGED <<window, phase>>
    BY <2>1 DEF Allocate
  <2>3. Needed \in Nat
    BY <1>3, <2>1, NeededFacts
  <2>4. capacity'[Self] = capacity[Self] /\ request'[Self] = request[Self]
    BY <2>1, BudgetStays DEF WriterInv
  <2>5. Reach' = Reach /\ Reach \in Nat
    BY <2>4, ReachType DEF Reach, Held, WriterInv
  <2>6. ~request[Self].waiting
    <3>1. request[Self].waiting => request[Self].minimum \in Nat \ {0}
      BY ReachType DEF WriterInv
    <3> QED BY <1>1, <1>3, <2>1, <2>3, <3>1 DEF Modest, AsksForNext
  <2>7. NextNeeds' = 0 /\ NextNeeds = Needed
    BY <1>3, <2>1, <2>2 DEF NextNeeds, MayReserve
  <2>8. TakesItsShare'
    BY <1>1, <2>2, <2>3, <2>5, <2>7 DEF Modest, TakesItsShare, Most
  <2> QED BY <2>4, <2>6, <2>8 DEF Modest, AsksForNext
<1>4. CASE UNCHANGED schedulerVars /\ Shrink(used)
  BY <1>1, <1>4, ShrinkIsModest DEF schedulerVars, Most
<1>5. CASE UNCHANGED <<schedulerVars, outsideVars, budgetVars>>
  <2>1. QueueStays /\ UNCHANGED window
    BY <1>5 DEF schedulerVars, outsideVars, QueueStays
  <2>2. MayReserve' = MayReserve /\ Needed' = Needed
    BY <2>1, MayReserveStays DEF QueueStays, Needed, FillSlot
  <2> QED BY <1>5, <2>1, <2>2, RestIsModest DEF QueueStays
<1> QED BY <1>2, <1>3, <1>4, <1>5 DEF Reserve, BadAllocation

LEMMA GrowIsModest ==
    ASSUME WriterInv, WriterInv', Modest, Grow
    PROVE  Modest'
<1> DEFINE minimum == used + Needed
           desired == Least(Total, Most(window.target, minimum))
<1>1. /\ used \in Nat /\ window.target \in Nat /\ Total \in Nat /\ Writer \in Tasks /\ IInv /\ IInv'
      /\ phase = "Writing" /\ MayReserve
  BY WriterFacts, NextNeedsType, WriterAssumption DEF WriterInv, Grow, Control
<1>2. /\ PollGrow(Self, Writer, minimum, desired) /\ QueueStays /\ UNCHANGED window
  BY DEF Grow, schedulerVars, outsideVars, QueueStays
<1>3. minimum \in Nat /\ Needed \in Nat
  BY <1>1, NeededFacts
<1>4. desired \in Nat /\ desired <= Most(window.target, minimum)
  <2> HIDE DEF minimum
  <2> QED BY <1>1, <1>3 DEF Least, Most
<1>m. minimum = used + Needed
  OBVIOUS
<1> HIDE DEF minimum, desired
<1>5. /\ Reach' <= Reach \/ Reach' <= desired
      /\ request'[Self].waiting =>
             \/ /\ request[Self].waiting /\ capacity'[Self] = capacity[Self]
                /\ request'[Self].minimum = request[Self].minimum
             \/ capacity'[Self] + request'[Self].minimum = minimum
  BY <1>1, <1>2, <1>3, <1>4, GrowReach
<1>6. MayReserve' = MayReserve /\ Needed' = Needed /\ UNCHANGED <<used, window, phase>>
  BY <1>2, MayReserveStays DEF QueueStays, Needed, FillSlot
<1>7. Reach \in Nat /\ Reach' \in Nat
  BY ReachType, NextNeedsLater DEF WriterInv, NeedsTyped
<1>8. NextNeeds = Needed /\ NextNeeds' = Needed
  BY <1>1, <1>6 DEF NextNeeds
<1>9. Reach <= Most(window.target, minimum)
  BY <1>m, <1>8 DEF Modest, TakesItsShare
<1>10. TakesItsShare'
  <2>1. Most(window.target, minimum) \in Nat
    BY <1>1, <1>3 DEF Most
  <2>2. Reach' <= Most(window.target, minimum)
    BY <1>4, <1>5, <1>7, <1>9, <2>1
  <2> QED BY <1>6, <1>8, <1>m, <2>2 DEF TakesItsShare
<1>11. AsksForNext'
  BY <1>1, <1>5, <1>6, <1>m DEF Modest, AsksForNext
<1> QED BY <1>10, <1>11 DEF Modest

-----------------------------------------------------------------------------
LEMMA CallsAreModest ==
    ASSUME WriterInv, WriterInv', Modest,
           \/ PollWrite \/ StopInput \/ PollClose \/ PollRejected
           \/ (\E c \in FileCapacities : PushFile(c) \/ PopSwap(c))
           \/ PopFile \/ (\E w \in Windows : SetWindow(w))
    PROVE  Modest'
<1>1. /\ used \in Nat /\ used' \in Nat /\ window.target \in Nat /\ window'.target \in Nat
      /\ capacity[Self] \in Nat /\ files \in Seq(SlotType) /\ files' \in Seq(SlotType)
  BY WriterFacts, NextNeedsType, NextNeedsLater DEF NeedsTyped
<1>2. CASE PollWrite \/ PollClose \/ PollRejected
  <2>1. UNCHANGED <<budgetVars, files, partial, fillIndex, used, phase, window>>
    BY <1>2 DEF PollWrite, PollClose, PollRejected
  <2>2. UNCHANGED <<MayReserve, Needed>>
    BY <2>1 DEF MayReserve, HasFillSlot, Needed, FillSlot, Limit
  <2> QED BY <2>1, <2>2, RestIsModest
<1>3. CASE StopInput
  BY <1>1, <1>3, ShrinkIsModest DEF StopInput, Most
<1>4. CASE \E w \in Windows : SetWindow(w)
  <2>1. PICK w \in Windows : SetWindow(w)
    BY <1>4
  <2>2. Shrink(Trimmed(w.target, used)) /\ window' = w /\ used' = used
    BY <2>1 DEF SetWindow
  <2>3. Trimmed(w.target, used) \in Nat /\ Trimmed(w.target, used) <= Most(w.target, used)
    BY <1>1, <2>2 DEF Trimmed, Least, Most
  <2> QED BY <2>2, <2>3, ShrinkIsModest
<1>5. CASE \E c \in FileCapacities : PushFile(c)
  <2>1. PICK c \in FileCapacities : PushFile(c)
    BY <1>5
  <2>2. /\ files' = Append(files, NewSlot(c)) /\ phase = "Writing"
        /\ UNCHANGED <<budgetVars, partial, used, fillIndex, phase, window>>
    BY <2>1 DEF PushFile
  <2>3. ASSUME MayReserve PROVE phase' = "Writing" /\ MayReserve' /\ Needed' = Needed
    <3>1. fillIndex \in Nat /\ fillIndex < Len(files)
      BY <2>2, <2>3, WriterFacts DEF InOrder, Shape, MayReserve, HasFillSlot
    <3>2. Len(files') = Len(files) + 1 /\ files'[fillIndex + 1] = files[fillIndex + 1]
      BY <1>1, <2>2, <3>1
    <3>3. HasFillSlot' /\ FillSlot' = FillSlot
      BY <1>1, <2>2, <3>1, <3>2 DEF HasFillSlot, FillSlot
    <3> QED BY <2>2, <2>3, <3>3, NextStays
  <2> QED BY <2>2, <2>3, RestIsModest
<1>6. CASE \E c \in FileCapacities : PopSwap(c)
  <2>1. PICK c \in FileCapacities : PopSwap(c)
    BY <1>6
  <2> DEFINE last == [NewSlot(c) EXCEPT !.frames = Head(files).frames]
  <2>2. /\ files' = Append(Tail(files), last) /\ phase = "Writing" /\ TakeHead
        /\ UNCHANGED <<budgetVars, partial, used, phase, window>>
    BY <2>1 DEF PopSwap
  <2> HIDE DEF last
  <2>3. ASSUME MayReserve PROVE phase' = "Writing" /\ MayReserve' /\ Needed' = Needed
    <3>1. files # <<>> /\ Done(Head(files)) /\ fillIndex' = Less(fillIndex, 1)
      BY <2>2, TakeHeadFacts
    <3>2. Shape(files, partial, fillIndex, FALSE)
      BY <2>2, WriterFacts DEF InOrder
    <3>3. /\ fillIndex \in Nat /\ fillIndex # 0
          /\ Len(Tail(files)) = Len(files) - 1 /\ Len(files) \in Nat
          /\ \A i \in DOMAIN Tail(files) : Tail(files)[i] = files[i + 1]
          /\ DOMAIN Tail(files) = 1..(Len(files) - 1) /\ Tail(files) \in Seq(SlotType)
      BY <3>1, <3>2, TailFacts
    <3>4. fillIndex < Len(files) /\ fillIndex' = fillIndex - 1
      BY <2>3, <3>1, <3>3 DEF MayReserve, HasFillSlot, Less
    <3>5. Len(files') = Len(files) /\ files'[fillIndex] = Tail(files)[fillIndex]
          /\ fillIndex \in DOMAIN Tail(files)
      <4> DEFINE q == Tail(files)
                 S == SlotType \cup {last}
      <4>1. q \in Seq(S) /\ last \in S /\ files' = Append(q, last)
        BY <2>2, <3>3
      <4>2. fillIndex \in DOMAIN q /\ Len(q) + 1 = Len(files)
        BY <3>3, <3>4
      <4> HIDE DEF q, S
      <4>3. Len(files') = Len(q) + 1 /\ files'[fillIndex] = q[fillIndex]
        BY <4>1, <4>2, AppendFacts
      <4> QED BY <4>2, <4>3 DEF q
    <3>6. HasFillSlot' /\ FillSlot' = FillSlot
      <4>1. fillIndex' + 1 = fillIndex
        BY <3>3, <3>4
      <4> QED BY <3>3, <3>4, <3>5, <4>1 DEF HasFillSlot, FillSlot
    <3> QED BY <2>2, <2>3, <3>6, NextStays
  <2> QED BY <2>2, <2>3, RestIsModest
<1>7. CASE PopFile
  <2>1. phase = "Closing" /\ UNCHANGED <<budgetVars, used, window>>
    BY <1>7 DEF PopFile
  <2> QED BY <2>1, RestIsModest
<1> QED BY <1>2, <1>3, <1>4, <1>5, <1>6, <1>7

LEMMA EventIsModest ==
    ASSUME WriterInv, WriterInv', Modest, NEW i \in DOMAIN files, BackendEvent(i)
    PROVE  Modest'
<1>1. /\ files' = [files EXCEPT ![i].io = "ready"] /\ files \in Seq(SlotType)
      /\ UNCHANGED <<budgetVars, partial, used, fillIndex, phase, window>>
  BY WriterFacts DEF BackendEvent
<1>2. ASSUME phase = "Writing", MayReserve
      PROVE  phase' = "Writing" /\ MayReserve' /\ Needed' = Needed
  <2>1. fillIndex \in Nat /\ fillIndex < Len(files)
    BY <1>2, WriterFacts DEF InOrder, Shape, MayReserve, HasFillSlot
  <2>2. fillIndex + 1 \in DOMAIN files /\ files[fillIndex + 1] \in SlotType
    BY <1>1, <2>1
  <2>3. FillSlot'.assigned = FillSlot.assigned /\ FillSlot'.capacity = FillSlot.capacity
    BY <1>1, <2>2 DEF FillSlot, SlotType
  <2>4. HasFillSlot'
    BY <1>1, <2>1 DEF HasFillSlot
  <2> QED BY <1>1, <1>2, <2>3, <2>4, NextStays
<1> QED BY <1>1, <1>2, RestIsModest

(* A scheduler by itself never takes more than its share. *)
LEMMA OwnMoveIsModest ==
    ASSUME WriterInv, WriterInv', Modest, OwnMove
    PROVE  Modest'
<1>1. used \in Nat /\ window.target \in Nat /\ used' \in Nat
  BY NextNeedsType, NextNeedsLater DEF NeedsTyped
<1>2. CASE Fail
  BY <1>1, <1>2, ShrinkIsModest DEF Fail, ReturnGrant, Most
<1>3. CASE DriveStep
  <2> DEFINE index == pollCursor % Len(files)
  <2>1. PICK result \in Polled(files[index + 1]) :
           \/ result.failed /\ Fail
           \/ ~result.failed /\ DriveStepped(index + 1, result)
    BY <1>3 DEF DriveStep
  <2>2. index + 1 \in DOMAIN files
    <3>1. /\ Len(files) \in Nat \ {0} /\ pollCursor \in Nat /\ DOMAIN files = 1..Len(files)
      BY <1>3, WriterFacts DEF DriveStep, Control, Others
    <3> DEFINE n == Len(files)
    <3>n. n \in Nat \ {0} /\ pollCursor \in Int
      BY <3>1
    <3> HIDE DEF n
    <3>2. pollCursor % n \in 0..(n - 1)
      BY <3>n, WrapType, Zenon
    <3> QED BY <3>1, <3>n, <3>2 DEF n
  <2> HIDE DEF index
  <2> QED BY <1>2, <2>1, <2>2, PolledIsModest
<1>4. CASE FinishClose \/ FillPends
  <2>1. UNCHANGED <<budgetVars, files, partial, fillIndex, used, phase, window>>
    BY <1>4 DEF FinishClose, FillPends
  <2>2. UNCHANGED <<MayReserve, Needed>>
    BY <2>1 DEF MayReserve, HasFillSlot, Needed, FillSlot, Limit
  <2> QED BY <2>1, <2>2, RestIsModest
<1>5. CASE FillReady
  <2>1. ~MayReserve /\ UNCHANGED <<budgetVars, used, window>>
    BY <1>5 DEF FillReady, MayReserve
  <2> QED BY <2>1, RestIsModest
<1>6. CASE InputEvent
  <2>1. UNCHANGED <<budgetVars, files, partial, fillIndex, used, phase, window>>
    BY <1>6 DEF InputEvent, schedulerVars
  <2>2. UNCHANGED <<MayReserve, Needed>>
    BY <2>1 DEF MayReserve, HasFillSlot, Needed, FillSlot, Limit
  <2> QED BY <2>1, <2>2, RestIsModest
<1> QED BY <1>2, <1>3, <1>4, <1>5, <1>6, ReserveIsModest, GrowIsModest, CallsAreModest, EventIsModest
        DEF OwnMove, InPoll, Fill, FillFails

LEMMA StartsModest == ASSUME Init PROVE Modest
<1>1. WriterInv
  BY WriterStart
<1>2. request[Self].granted = 0 /\ ~request[Self].waiting /\ capacity[Self] = 0
  BY SelfAssumption DEF Init, BudgetStart, DefaultRequest
<1>3. Reach = 0
  BY <1>2 DEF Reach, Held
<1> QED BY <1>1, <1>2, <1>3, NextNeedsType DEF Modest, TakesItsShare, AsksForNext, Most

-----------------------------------------------------------------------------
(* The same for the scheduler's own steps, and for those that do not wake   *)
(* its task.                                                                *)
LEMMA OwnMoveSleeps ==
    ASSUME SleepInv, OwnMove
    PROVE  DriveIsThorough' /\ PollIsThorough'
<1>1. CASE InPoll
  BY <1>1, DriveSleeps, PollSleeps DEF InPoll
<1>2. CASE (\E i \in DOMAIN files : BackendEvent(i)) \/ InputEvent
  BY <1>2, OutsideSleeps DEF Outside
<1>3. CASE ~(InPoll \/ (\E i \in DOMAIN files : BackendEvent(i)) \/ InputEvent)
  BY <1>3, CallsSleep DEF OwnMove, Calls
<1> QED BY <1>1, <1>2, <1>3

LEMMA SleepStays ==
    ASSUME SleepInv, QueueStays,
           UNCHANGED <<pollCursor, window, waker, pc, round, inputArmed>>,
           ~runnable' => ~runnable /\ (parked[Self] = Writer => parked'[Self] = Writer)
    PROVE  DriveIsThorough' /\ PollIsThorough'
<1>1. DriveIsThorough /\ PollIsThorough
  BY SleepFacts
<1>2. UNCHANGED <<files, partial, phase, MayReserve>>
  BY MayReserveStays DEF QueueStays
<1>3. ASSUME NEW i \in DOMAIN files, Rested(files[i]) PROVE Rested(files[i])'
  BY <1>2, <1>3, RestsOn
<1>4. \A m : Ahead(m)' = Ahead(m)
  BY <1>2 DEF Ahead
<1>5. DriveIsThorough'
  BY <1>1, <1>2, <1>3, <1>4 DEF DriveIsThorough
<1>6. PollIsThorough'
  BY <1>1, <1>2, <1>3 DEF PollIsThorough, Sleeping
<1> QED BY <1>5, <1>6

-----------------------------------------------------------------------------
(* A file at rest that is not done is one that can do nothing before it gets *)
(* its next frame; it can be only the first that is not full.                *)
LEMMA HeadFillsNext ==
    ASSUME WriterInv, phase = "Writing", files # <<>>, Rested(files[1]),
           ~Done(files[1]), files[1].io # "waiting"
    PROVE  /\ fillIndex = 0 /\ files[1] \in SlotType /\ Sound(files[1])
           /\ files[1].assigned < files[1].capacity
           /\ ~Replay => files[1].frames = <<>>
           /\ used = Reserves(files[1], partial # "none")
<1> DEFINE slot == files[1]
           a == slot.assigned
           c == slot.capacity
<1>1. /\ Shape(files, partial, fillIndex, FALSE) /\ Uses(files, partial, fillIndex, used)
      /\ 1 \in DOMAIN files /\ files \in Seq(SlotType) /\ fillIndex \in Nat
  <2>1. Shape(files, partial, fillIndex, FALSE) /\ Uses(files, partial, fillIndex, used)
    BY WriterFacts DEF InOrder
  <2>2. fillIndex \in 0..Len(files)
    BY <2>1 DEF Shape
  <2>3. 1 \in DOMAIN files /\ files \in Seq(SlotType) /\ Len(files) \in Nat
    BY WriterFacts
  <2>4. fillIndex \in Nat
    BY <2>2, <2>3
  <2> QED BY <2>1, <2>3, <2>4
<1>2. slot \in SlotType /\ Sound(slot) /\ Placed(slot, 1, fillIndex, FALSE)
  <2>1. \A i \in DOMAIN files : Sound(files[i]) /\ Placed(files[i], i, fillIndex, FALSE)
    BY <1>1 DEF Shape
  <2>2. slot \in SlotType
    BY <1>1
  <2> QED BY <1>1, <2>1, <2>2
<1>3. a \in Nat /\ c \in Nat /\ c > 0
  BY <1>2, SlotFacts, WriterAssumption DEF SlotType
<1>4. ~HasOperation(slot)
  BY DEF Rested
<1>5. slot.state \in {"Idle", "Writing"}
  BY <1>2, <1>4 DEF SlotType, HasOperation, Done
<1>6. a < c
  <2>1. a <= c
    BY <1>2 DEF Sound
  <2>2. CASE slot.state = "Idle"
    <3>1. a = 0
      BY <1>2, <2>2 DEF Sound
    <3> QED BY <1>3, <3>1
  <2>3. CASE slot.state = "Writing"
    <3>1. a # c
      BY <1>4, <2>3 DEF Rested, AllAssigned
    <3> HIDE DEF a, c
    <3> QED BY <1>3, <2>1, <3>1
  <2> QED BY <1>5, <2>2, <2>3
<1>7. fillIndex = 0
  <2>1. 1 <= fillIndex => a = c
    BY <1>2 DEF Placed
  <2> HIDE DEF a, c
  <2> QED BY <1>1, <1>3, <1>6, <2>1
<1>8. ~Replay => slot.frames = <<>>
  BY <1>2, <1>4, <1>5 DEF HasOperation, Unwritten, Sound
<1>9. used = Reserves(slot, partial # "none")
  <2> DEFINE sizes == ReservedOf(files, partial, fillIndex)
  <2>1. /\ sizes \in Seq(Nat) /\ Len(sizes) = Len(files)
        /\ sizes[1] = Reserves(slot, partial # "none" /\ 1 = fillIndex + 1)
    BY <1>1, ReservedFacts
  <2>2. PICK s : Adds(s, sizes, 0, fillIndex, used)
    BY <1>1 DEF Uses
  <2>3. Len(files) \in Nat /\ 1 <= Len(files)
    BY <1>1
  <2> HIDE DEF sizes
  <2>4. 1 \in DOMAIN sizes /\ 1 \in 1..Len(sizes)
    BY <2>1, <2>3
  <2>5. s[1] = used /\ s[0] = 0 /\ s[1] = s[1 - 1] + sizes[1] /\ sizes[1] \in Nat
    BY <1>7, <2>2, <2>4, AddsFacts
  <2>6. used = sizes[1]
    BY <2>5
  <2>7. (partial # "none" /\ 1 = fillIndex + 1) = (partial # "none")
    BY <1>7
  <2> QED BY <2>1, <2>6, <2>7
<1> QED BY <1>2, <1>6, <1>7, <1>8, <1>9

(* So it has reserved, or may reserve, just what that frame needs: a frame, *)
(* or the whole file to replay it from.                                      *)
LEMMA HeadAtRest ==
    ASSUME WriterInv, phase = "Writing", files # <<>>, Rested(files[1]),
           ~Done(files[1]), files[1].io # "waiting", Replay => files[1].capacity <= Total
    PROVE  /\ partial = "none" => MayReserve
           /\ used + NextNeeds = IF Replay THEN files[1].capacity ELSE 1
<1> DEFINE slot == files[1]
           a == slot.assigned
           c == slot.capacity
           quantum == IF Replay THEN c ELSE 1
<1>1. /\ fillIndex = 0 /\ slot \in SlotType /\ a < c
      /\ ~Replay => slot.frames = <<>>
      /\ used = Reserves(slot, partial # "none")
  BY HeadFillsNext
<1>2. /\ a \in Nat /\ c \in Nat /\ Total \in Nat /\ Total > 0 /\ window.target \in Nat \ {0}
      /\ Len(files) \in Nat /\ Len(files) > 0 /\ FillSlot = slot
  <2>1. a \in Nat /\ c \in Nat
    BY <1>1, SlotFacts
  <2>2. Total \in Nat /\ Total > 0 /\ window \in Windows /\ files \in Seq(SlotType)
    BY WriterFacts, RivalAssumption DEF Others
  <2>3. window.target \in Nat \ {0}
    BY <2>2, WriterAssumption
  <2>4. FillSlot = slot
    BY <1>1 DEF FillSlot
  <2> QED BY <2>1, <2>2, <2>3, <2>4
<1>3. CASE partial # "none"
  <2>1. used = quantum
    BY <1>1, <1>3 DEF Reserves, Done
  <2>2. ~MayReserve
    BY <1>3 DEF MayReserve
  <2>3. quantum \in Nat
    BY <1>2
  <2> HIDE DEF quantum
  <2>4. used + NextNeeds = quantum
    BY <2>1, <2>2, <2>3 DEF NextNeeds
  <2> QED BY <1>3, <2>4 DEF quantum
<1>4. CASE partial = "none"
  <2>1. /\ used = IF Replay /\ a > 0 THEN c ELSE 0
        /\ Needed = IF ~Replay THEN 1 ELSE IF a = 0 THEN c ELSE 0
    <3>1. Needed = IF ~Replay THEN 1 ELSE IF a = 0 THEN c ELSE 0
      BY <1>2 DEF Needed
    <3>2. used = IF Replay /\ a > 0 THEN c ELSE 0
      BY <1>1, <1>4 DEF Reserves, Done
    <3> QED BY <3>1, <3>2
  <2> DEFINE n == Needed
             l == Limit
  <2>2. l = IF Replay THEN Total ELSE Least(Total, window.target)
    BY DEF Limit
  <2>3. Replay => c <= Total
    OBVIOUS
  <2> HIDE DEF a, c, n, l
  <2>4. used + n = (IF Replay THEN c ELSE 1) /\ n \in Nat /\ used \in Nat
    BY <1>2, <2>1 DEF n
  <2>5. n <= Less(l, used)
    BY <1>2, <2>1, <2>2, <2>3, <2>4 DEF Less, Least, n
  <2>6. MayReserve
    BY <1>1, <1>2, <1>4, <2>5 DEF MayReserve, HasFillSlot, n, l
  <2> QED BY <2>4, <2>6 DEF NextNeeds, n, c
<1> QED BY <1>3, <1>4

(* Once the input has ended, such a file waits for its backend.              *)
LEMMA HeadCloses ==
    ASSUME WriterInv, phase = "Closing", files # <<>>, Rested(files[1]), ~Done(files[1])
    PROVE  files[1].io = "waiting"
<1>1. Shape(files, partial, fillIndex, TRUE) /\ 1 \in DOMAIN files /\ files \in Seq(SlotType)
  <2>1. Shape(files, partial, fillIndex, TRUE)
    BY WriterFacts DEF InOrder
  <2>2. 1 \in DOMAIN files /\ files \in Seq(SlotType)
    BY WriterFacts
  <2> QED BY <2>1, <2>2
<1>2. files[1] \in SlotType /\ Sound(files[1]) /\ Placed(files[1], 1, fillIndex, TRUE)
  <2>1. \A i \in DOMAIN files : Sound(files[i]) /\ Placed(files[i], i, fillIndex, TRUE)
    BY <1>1 DEF Shape
  <2>2. files[1] \in SlotType
    BY <1>1
  <2> QED BY <1>1, <2>1, <2>2
<1>3. files[1].state # "Idle"
  <2>1. files[1].assigned > 0
    BY <1>2 DEF Placed
  <2> QED BY <1>2, <2>1 DEF Sound
<1>4. HasOperation(files[1])
  BY <1>2, <1>3 DEF SlotType, HasOperation, Done, Rested, AllAssigned
<1> QED BY <1>4 DEF Rested

=============================================================================
