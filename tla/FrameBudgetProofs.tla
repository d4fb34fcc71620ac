-------------------------- MODULE FrameBudgetProofs --------------------------
(***************************************************************************)
(* Proofs about FrameBudget for every number of permits, every total and   *)
(* every set of tasks.                                                     *)
(***************************************************************************)
EXTENDS FrameBudget, TLAPS

(* A request that waits has a size and nothing granted; a permit that does  *)
(* not exist owns nothing and waits for nothing.                            *)
RequestShape ==
    \A p \in Permits :
        /\ request[p].waiting => /\ request[p].granted = 0
                                 /\ 1 <= request[p].minimum
                                 /\ request[p].minimum <= request[p].desired
        /\ ~alive[p] => /\ ~request[p].waiting
                        /\ Held(p) = 0

(* s is a running total of the holdings h; that it grows with its argument *)
(* follows from the recurrence only by induction, so it is carried along.  *)
IsLedger(s, h) ==
    /\ s \in [0..PermitCount -> 0..Total]
    /\ s[0] = 0
    /\ \A p \in Permits : s[p] = s[p - 1] + h[p]
    /\ \A i, j \in 0..PermitCount : i <= j => s[i] <= s[j]

Holdings == [p \in Permits |-> Held(p)]

Ledger == \E s : IsLedger(s, Holdings) /\ available + s[PermitCount] = Total

IInv == /\ TypeOK /\ RequestShape /\ Ledger
        /\ QueueIsWaiting /\ HeadIsBlocked /\ NoLostWakeup

(* When one permit's holdings change, its entry of the running total and    *)
(* those after it move by the difference.                                   *)
LEMMA LedgerShift ==
    ASSUME NEW s, NEW h \in [Permits -> Nat], NEW g \in [Permits -> Nat],
           NEW p \in Permits, IsLedger(s, h),
           \A q \in Permits \ {p} : g[q] = h[q],
           s[PermitCount] - h[p] + g[p] <= Total
    PROVE  \E r : /\ IsLedger(r, g)
                  /\ r[PermitCount] = s[PermitCount] - h[p] + g[p]
<1> DEFINE r == [i \in 0..PermitCount |-> IF i < p THEN s[i] ELSE s[i] - h[p] + g[p]]
<1>0. /\ PermitCount \in Nat \ {0}
      /\ Total \in Nat
      /\ p \in 1..PermitCount
      /\ s \in [0..PermitCount -> 0..Total]
      /\ \A i, j \in 0..PermitCount : i <= j => s[i] <= s[j]
  BY BudgetAssumption DEF IsLedger, Permits
<1>1. s[p] = s[p - 1] + h[p] /\ p - 1 \in 0..PermitCount
  BY <1>0 DEF IsLedger, Permits
<1>2. \A i \in 0..PermitCount : i < p \/ (s[p] <= s[i] /\ s[i] <= s[PermitCount])
  BY <1>0
<1>3. r \in [0..PermitCount -> 0..Total]
  <2> SUFFICES ASSUME NEW i \in 0..PermitCount PROVE r[i] \in 0..Total
    OBVIOUS
  <2>1. s[i] \in 0..Total /\ s[p] \in 0..Total /\ s[p - 1] \in 0..Total
        /\ s[PermitCount] \in 0..Total /\ h[p] \in Nat /\ g[p] \in Nat
    BY <1>0, <1>1
  <2>2. CASE i < p
    BY <2>1, <2>2
  <2>3. CASE ~(i < p)
    BY <2>1, <2>3, <1>0, <1>1, <1>2
  <2> QED BY <2>2, <2>3
<1>4. r[0] = 0
  BY <1>0 DEF IsLedger
<1>5. ASSUME NEW q \in Permits PROVE r[q] = r[q - 1] + g[q]
  <2>a. q \in 1..PermitCount /\ q \in 0..PermitCount /\ q - 1 \in 0..PermitCount
    BY <1>0 DEF Permits
  <2>b. s[q] = s[q - 1] + h[q]
    BY DEF IsLedger
  <2>c. h[q] \in Nat /\ g[q] \in Nat /\ h[p] \in Nat /\ g[p] \in Nat
    OBVIOUS
  <2>d. s[q] \in Nat /\ s[q - 1] \in Nat
    BY <1>0, <2>a
  <2>1. /\ q \in 0..PermitCount /\ q - 1 \in 0..PermitCount
        /\ s[q] = s[q - 1] + h[q]
        /\ s[q] \in Nat /\ s[q - 1] \in Nat /\ h[q] \in Nat /\ g[q] \in Nat
        /\ h[p] \in Nat /\ g[p] \in Nat
    BY <2>a, <2>b, <2>c, <2>d
  <2>2. CASE q = p
    BY <2>1, <2>2, <1>0
  <2>3. CASE q < p
    BY <2>1, <2>3, <1>0
  <2>4. CASE q > p
    BY <2>1, <2>4, <1>0
  <2> QED BY <2>1, <2>2, <2>3, <2>4, <1>0 DEF Permits
<1>6. ASSUME NEW i \in 0..PermitCount, NEW j \in 0..PermitCount, i <= j
      PROVE  r[i] <= r[j]
  <2>1. s[i] \in Nat /\ s[j] \in Nat /\ s[i] <= s[j]
        /\ s[p] \in Nat /\ s[p - 1] \in Nat /\ h[p] \in Nat /\ g[p] \in Nat
    BY <1>0, <1>1, <1>6
  <2>2. i < p => s[i] <= s[p - 1]
    BY <1>0, <1>1
  <2>3. ~(j < p) => s[p] <= s[j]
    BY <1>0
  <2>4. r[i] = IF i < p THEN s[i] ELSE s[i] - h[p] + g[p]
    OBVIOUS
  <2>5. r[j] = IF j < p THEN s[j] ELSE s[j] - h[p] + g[p]
    OBVIOUS
  <2>6. i \in Nat /\ j \in Nat /\ p \in Nat /\ s[p] = s[p - 1] + h[p]
    BY <1>0, <1>1
  <2> HIDE DEF r
  <2> QED BY <2>1, <2>2, <2>3, <2>4, <2>5, <2>6, <1>6
<1>7. r[PermitCount] = s[PermitCount] - h[p] + g[p]
  BY <1>0
<1> HIDE DEF r
<1> QED BY <1>3, <1>4, <1>5, <1>6, <1>7 DEF IsLedger

(* Holdings that agree everywhere have the same running total. *)
LEMMA LedgerSame ==
    ASSUME NEW s, NEW h, NEW g, IsLedger(s, h), \A q \in Permits : g[q] = h[q]
    PROVE  IsLedger(s, g)
BY DEF IsLedger

(* What Without returns for a queue that holds p at most once. *)
LEMMA WithoutProperties ==
    ASSUME NEW q \in Seq(Permits), NEW p \in Permits,
           \A i, j \in DOMAIN q : q[i] = q[j] => i = j
    PROVE  /\ Without(q, p) \in Seq(Permits)
           /\ \A i, j \in DOMAIN Without(q, p) :
                 Without(q, p)[i] = Without(q, p)[j] => i = j
           /\ \A x \in Permits :
                 (\E i \in DOMAIN Without(q, p) : Without(q, p)[i] = x)
                 <=> x # p /\ \E i \in DOMAIN q : q[i] = x
<1>1. CASE ~ \E i \in DOMAIN q : q[i] = p
  BY <1>1 DEF Without
<1>2. CASE \E i \in DOMAIN q : q[i] = p
  <2> DEFINE k == CHOOSE i \in DOMAIN q : q[i] = p
             w == [j \in 1..(Len(q) - 1) |-> IF j < k THEN q[j] ELSE q[j + 1]]
  <2>1. k \in 1..Len(q) /\ q[k] = p /\ Len(q) \in Nat
    BY <1>2
  <2>2. Without(q, p) = w
    BY <1>2 DEF Without
  <2> HIDE DEF k
  <2>3. w \in Seq(Permits) /\ DOMAIN w = 1..(Len(q) - 1)
    BY <2>1
  <2>4. ASSUME NEW i \in DOMAIN w, NEW j \in DOMAIN w, w[i] = w[j] PROVE i = j
    BY <2>1, <2>3, <2>4
  <2>5. ASSUME NEW x \in Permits
        PROVE (\E i \in DOMAIN w : w[i] = x) <=> x # p /\ \E i \in DOMAIN q : q[i] = x
    <3>1. ASSUME NEW i \in DOMAIN w, w[i] = x
          PROVE x # p /\ \E j \in DOMAIN q : q[j] = x
      BY <2>1, <2>3, <3>1
    <3>2. ASSUME NEW i \in DOMAIN q, q[i] = x, x # p PROVE \E j \in DOMAIN w : w[j] = x
      <4>1. i \in 1..Len(q) /\ i # k
        BY <2>1, <3>2
      <4>2. CASE i < k
        BY <2>1, <2>3, <3>2, <4>1, <4>2
      <4>3. CASE i > k
        <5>1. i - 1 \in DOMAIN w /\ w[i - 1] = q[i]
          BY <2>1, <2>3, <4>1, <4>3
        <5> QED BY <5>1, <3>2
      <4> QED BY <4>1, <4>2, <4>3, <2>1
    <3> QED BY <3>1, <3>2
  <2> HIDE DEF w
  <2> QED BY <2>2, <2>3, <2>4, <2>5
<1> QED BY <1>1, <1>2

-----------------------------------------------------------------------------
(* The starting state satisfies every part of the invariant. *)
LEMMA InitIInv == BudgetInit => IInv
<1> SUFFICES ASSUME NEW issued \in SUBSET Permits, BudgetStart(issued) PROVE IInv
  BY DEF BudgetInit
<1> USE BudgetAssumption DEF BudgetStart, Permits, DefaultRequest
<1>1. TypeOK
  BY DEF TypeOK, Request
<1>2. RequestShape
  BY DEF RequestShape, Held
<1>3. Ledger
  <2> DEFINE s == [i \in 0..PermitCount |-> 0]
  <2>1. IsLedger(s, Holdings) /\ available + s[PermitCount] = Total
    BY DEF IsLedger, Holdings, Held
  <2> QED BY <2>1 DEF Ledger
<1>4. QueueIsWaiting /\ HeadIsBlocked /\ NoLostWakeup
  BY DEF QueueIsWaiting, HeadIsBlocked, NoLostWakeup
<1> QED BY <1>1, <1>2, <1>3, <1>4 DEF IInv

(* No permit owns more than the frames that are not free. *)
LEMMA HeldIsCovered ==
    ASSUME TypeOK, Ledger, NEW p \in Permits
    PROVE  Held(p) \in Nat /\ available + Held(p) <= Total
<1>1. PICK s : IsLedger(s, Holdings) /\ available + s[PermitCount] = Total
  BY DEF Ledger
<1>2. /\ s[p] = s[p - 1] + Held(p) /\ s[p] <= s[PermitCount]
      /\ s[p] \in Nat /\ s[p - 1] \in Nat /\ s[PermitCount] \in Nat
  BY <1>1, BudgetAssumption DEF IsLedger, Holdings, Permits
<1>3. Held(p) \in Nat /\ available \in Nat
  BY DEF TypeOK, Held, Request
<1> QED BY <1>1, <1>2, <1>3, BudgetAssumption

(* A step that changes what one permit owns and the free frames by opposite *)
(* amounts keeps the ledger.                                                *)
LEMMA LedgerStep ==
    ASSUME TypeOK, Ledger, NEW p \in Permits,
           \A q \in Permits : Held(q)' \in Nat,
           \A q \in Permits \ {p} : Held(q)' = Held(q),
           available' \in Nat,
           available' + Held(p)' = available + Held(p)
    PROVE  Ledger'
<1>1. PICK s : IsLedger(s, Holdings) /\ available + s[PermitCount] = Total
  BY DEF Ledger
<1>2. Holdings \in [Permits -> Nat] /\ Holdings' \in [Permits -> Nat]
  BY HeldIsCovered DEF Holdings
<1>3. \A q \in Permits \ {p} : Holdings'[q] = Holdings[q]
  BY DEF Holdings
<1>4. Holdings[p] = Held(p) /\ Holdings'[p] = Held(p)'
  BY DEF Holdings
<1>5. s[PermitCount] \in Nat /\ available \in Nat /\ Total \in Nat /\ Held(p) \in Nat
  BY <1>1, BudgetAssumption, HeldIsCovered DEF IsLedger, TypeOK
<1>6. s[PermitCount] - Holdings[p] + Holdings'[p] <= Total
  BY <1>1, <1>4, <1>5
<1>7. PICK r : IsLedger(r, Holdings') /\ r[PermitCount] = s[PermitCount] - Holdings[p] + Holdings'[p]
  BY <1>1, <1>2, <1>3, <1>6, LedgerShift
<1>8. available' + r[PermitCount] = Total
  BY <1>1, <1>4, <1>5, <1>7
<1>9. IsLedger(r, Holdings)'
  BY <1>7 DEF IsLedger, Permits
<1> QED BY <1>8, <1>9 DEF Ledger

-----------------------------------------------------------------------------
(* How the three ways of updating one permit's request keep its type. *)
LEMMA RequestUpdates ==
    ASSUME NEW f \in [Permits -> Request], NEW p \in Permits, Total \in Nat
    PROVE  /\ \A grant \in 0..Total : [f EXCEPT ![p].granted = grant] \in [Permits -> Request]
           /\ [f EXCEPT ![p].granted = 0] \in [Permits -> Request]
           /\ \A t \in Tasks : [f EXCEPT ![p].granted = 0, ![p].waker = t] \in [Permits -> Request]
           /\ [f EXCEPT ![p].granted = 0, ![p].waiting = FALSE, ![p].waker = NoTask]
                \in [Permits -> Request]
           /\ \A grant \in 0..Total :
                [f EXCEPT ![p].granted = grant, ![p].waiting = FALSE, ![p].waker = NoTask]
                \in [Permits -> Request]
<1>1. f[p] \in Request /\ 0 \in 0..Total
  OBVIOUS
<1>2. \A r \in Request : [f EXCEPT ![p] = r] \in [Permits -> Request]
  OBVIOUS
<1>3. ASSUME NEW grant \in 0..Total
      PROVE  [f EXCEPT ![p].granted = grant] \in [Permits -> Request]
  <2>1. [f[p] EXCEPT !.granted = grant] \in Request
    BY <1>1 DEF Request
  <2>2. [f EXCEPT ![p].granted = grant] = [f EXCEPT ![p] = [f[p] EXCEPT !.granted = grant]]
    OBVIOUS
  <2> QED BY <1>2, <2>1, <2>2
<1>4. ASSUME NEW t \in Tasks
      PROVE  [f EXCEPT ![p].granted = 0, ![p].waker = t] \in [Permits -> Request]
  <2>1. [f[p] EXCEPT !.granted = 0, !.waker = t] \in Request
    BY <1>1 DEF Request
  <2>2. [f EXCEPT ![p].granted = 0, ![p].waker = t]
        = [f EXCEPT ![p] = [f[p] EXCEPT !.granted = 0, !.waker = t]]
    OBVIOUS
  <2> QED BY <1>2, <2>1, <2>2
<1>5. ASSUME NEW grant \in 0..Total
      PROVE  [f EXCEPT ![p].granted = grant, ![p].waiting = FALSE, ![p].waker = NoTask]
             \in [Permits -> Request]
  <2>1. [f[p] EXCEPT !.granted = grant, !.waiting = FALSE, !.waker = NoTask] \in Request
    BY <1>1 DEF Request
  <2>2. [f EXCEPT ![p].granted = grant, ![p].waiting = FALSE, ![p].waker = NoTask]
        = [f EXCEPT ![p] = [f[p] EXCEPT !.granted = grant, !.waiting = FALSE, !.waker = NoTask]]
    OBVIOUS
  <2> QED BY <1>2, <2>1, <2>2
<1> QED BY <1>1, <1>3, <1>4, <1>5

(* The actions of BudgetNext, one disjunct each. *)
PollStep(p, t, minimum, desired) ==
    \/ GrowSatisfied(p, minimum)
    \/ GrowClaimed(p, minimum)
    \/ GrowRepeated(p, t, minimum)
    \/ GrowImmediate(p, minimum, desired)
    \/ GrowQueued(p, t, minimum, desired)

(* The request a poll may queue has a size within the budget. *)
LEMMA GrowSizes ==
    ASSUME IInv, NEW p \in Permits, NEW minimum \in Sizes, NEW desired \in Sizes,
           minimum <= desired, Held(p) < minimum
    PROVE  /\ minimum - Held(p) \in 1..Total
           /\ desired - Held(p) \in 1..Total
           /\ minimum - Held(p) <= desired - Held(p)
<1>1. Held(p) \in Nat
  BY HeldIsCovered DEF IInv
<1>2. minimum \in Nat /\ desired \in Nat /\ desired <= Total /\ Total \in Nat
  BY BudgetAssumption DEF Sizes
<1> QED BY <1>1, <1>2

(* What GiveBack returns to the pool is what the permit owned beyond keep. *)
LEMMA RefundIsCovered ==
    ASSUME IInv, NEW p \in Permits, NEW keep \in 0..capacity[p]
    PROVE  /\ Refund(p, keep) \in 0..Total
           /\ available + Refund(p, keep) \in 0..Total
           /\ keep + Refund(p, keep) = Held(p)
<1>1. capacity[p] \in Nat /\ request[p].granted \in Nat /\ available \in Nat /\ keep \in Nat
  BY DEF IInv, TypeOK, Request
<1>2. Held(p) = capacity[p] + request[p].granted
  BY DEF Held
<1>3. Held(p) \in Nat /\ available + Held(p) <= Total /\ Total \in Nat
  BY HeldIsCovered, BudgetAssumption DEF IInv
<1> QED BY <1>1, <1>2, <1>3 DEF Refund

(* What Share grants lies between the need and the preference, and is free. *)
LEMMA ShareIsFree ==
    ASSUME available \in 0..Total, NEW minimum \in 0..Total, NEW desired \in 0..Total,
           minimum <= desired, minimum <= available
    PROVE  /\ Share(minimum, desired) \in minimum..desired
           /\ Share(minimum, desired) <= available
BY BudgetAssumption DEF Share

(* dispatch serves the head, which is never stale: the queue holds only     *)
(* permits whose request waits.                                             *)
Serves(p, h, grant) ==
    /\ lock = p /\ waiters # <<>> /\ h = Head(waiters)
    /\ alive[h] /\ request[h].waiting /\ request[h].granted = 0
    /\ grant \in 0..Total /\ grant <= available
    /\ grant = Share(request[h].minimum, request[h].desired)
    /\ request[h].minimum <= available
    /\ available' = available - grant
    /\ waiters' = Tail(waiters)
    /\ request' = [request EXCEPT ![h].granted = grant, ![h].waiting = FALSE, ![h].waker = NoTask]
    /\ wakes' = IF request[h].waker = NoTask THEN wakes
                ELSE [wakes EXCEPT ![p] = Append(@, request[h].waker)]
    /\ UNCHANGED <<lock, alive, capacity, parked>>

LEMMA DispatchServes ==
    ASSUME IInv, NEW p \in Permits, Dispatch(p)
    PROVE  \E h \in Permits, grant \in 0..Total : Serves(p, h, grant)
<1>1. PICK h \in Permits : h = Head(waiters) /\ waiters # <<>> /\ h = waiters[1] /\ 1 \in DOMAIN waiters
  BY DEF IInv, TypeOK, Dispatch, HeadServable, Fits
<1>2. alive[h] /\ request[h].waiting /\ ~Stale(h)
  BY <1>1 DEF IInv, QueueIsWaiting, Stale
<1>3. /\ request[h].granted = 0 /\ request[h].minimum <= request[h].desired
      /\ request[h].minimum \in 0..Total /\ request[h].desired \in 0..Total
  BY <1>2 DEF IInv, RequestShape, TypeOK, Request
<1>4. available >= request[h].minimum /\ available \in 0..Total /\ Total \in Nat
  BY <1>1, <1>2, BudgetAssumption DEF IInv, TypeOK, Dispatch, HeadServable, Fits
<1>5. PICK grant : grant = Share(request[h].minimum, request[h].desired)
  OBVIOUS
<1>6. grant \in 0..Total /\ grant <= available
  BY <1>3, <1>4, <1>5, ShareIsFree
<1>7. /\ lock = p
      /\ waiters' = Tail(waiters)
      /\ UNCHANGED <<lock, alive, capacity, parked>>
      /\ available' = available - grant
      /\ request' = [request EXCEPT ![h].granted = grant, ![h].waiting = FALSE, ![h].waker = NoTask]
      /\ wakes' = IF request[h].waker = NoTask THEN wakes
                  ELSE [wakes EXCEPT ![p] = Append(@, request[h].waker)]
  BY <1>1, <1>2, <1>5, Zenon DEF Dispatch
<1> QED BY <1>1, <1>2, <1>3, <1>4, <1>5, <1>6, <1>7 DEF Serves

(* shrink_to and drop: some number of frames is kept, none by a drop. *)
Release(p, keep) ==
    /\ keep \in 0..capacity[p]
    /\ GiveBack(p, keep)
    /\ \/ UNCHANGED alive
       \/ keep = 0 /\ alive' = [alive EXCEPT ![p] = FALSE]

LEMMA ReleaseCases ==
    ASSUME IInv, NEW p \in Permits, NEW limit \in Sizes, ShrinkTo(p, limit) \/ Drop(p)
    PROVE  \E keep \in 0..Total : Release(p, keep)
<1>1. capacity[p] \in 0..Total /\ limit \in Nat /\ Total \in Nat
  BY BudgetAssumption DEF IInv, TypeOK, Sizes
<1>2. CASE ShrinkTo(p, limit)
  <2> DEFINE keep == IF limit < capacity[p] THEN limit ELSE capacity[p]
  <2>1. keep \in 0..capacity[p] /\ keep \in 0..Total
    BY <1>1
  <2>2. GiveBack(p, keep) /\ UNCHANGED alive
    BY <1>2 DEF ShrinkTo
  <2> HIDE DEF keep
  <2> QED BY <2>1, <2>2 DEF Release
<1>3. CASE Drop(p)
  <2>1. 0 \in 0..capacity[p] /\ 0 \in 0..Total
    BY <1>1
  <2> QED BY <1>3, <2>1 DEF Drop, Release
<1> QED BY <1>2, <1>3

(* Every step is one of these. *)
StepOf(p) ==
    \/ Permit(p)
    \/ \E t \in Tasks, minimum, desired \in Sizes :
          minimum <= desired /\ PollStep(p, t, minimum, desired)
    \/ \E keep \in 0..Total : Release(p, keep)
    \/ Dispatch(p)
    \/ Unlock(p)
    \/ Wake(p)

LEMMA StepCases == ASSUME IInv, BudgetNext PROVE \E p \in Permits : StepOf(p)
<1>1. PICK p \in Permits :
        \/ Permit(p)
        \/ \E t \in Tasks, minimum, desired \in Sizes : PollGrow(p, t, minimum, desired)
        \/ \E limit \in Sizes : ShrinkTo(p, limit)
        \/ Drop(p)
        \/ Internal(p)
  BY DEF BudgetNext
<1>2. Sizes # {}
  BY BudgetAssumption DEF Sizes
<1>3. CASE \E t \in Tasks, minimum, desired \in Sizes : PollGrow(p, t, minimum, desired)
  BY <1>3 DEF PollGrow, PollStep, StepOf
<1>4. CASE (\E limit \in Sizes : ShrinkTo(p, limit)) \/ Drop(p)
  BY <1>2, <1>4, ReleaseCases DEF StepOf
<1>5. CASE Permit(p) \/ Internal(p)
  BY <1>5 DEF Internal, StepOf
<1> QED BY <1>1, <1>3, <1>4, <1>5

-----------------------------------------------------------------------------
(* Type correctness is preserved: the ledger bounds what is given back, the *)
(* shape of a waiting request bounds what dispatch grants.                  *)
LEMMA TypeStep == ASSUME IInv, NEW p \in Permits, StepOf(p) PROVE TypeOK'
<1> USE DEF TypeOK
<1>0. TypeOK /\ Total \in Nat /\ NoTask \notin Tasks
  BY BudgetAssumption DEF IInv
<1>1. CASE Permit(p)
  BY <1>0, <1>1 DEF Permit, DefaultRequest, Request
<1>2. ASSUME NEW t \in Tasks, NEW minimum \in Sizes, NEW desired \in Sizes,
             minimum <= desired, PollStep(p, t, minimum, desired)
      PROVE  TypeOK'
  <2>1. CASE GrowSatisfied(p, minimum)
    BY <1>0, <2>1 DEF GrowSatisfied
  <2>2. Held(p) \in 0..Total /\ available + Held(p) <= Total /\ capacity[p] \in 0..Total
    BY <1>0, HeldIsCovered DEF IInv
  <2>3. CASE GrowClaimed(p, minimum)
    <3>1. request' \in [Permits -> Request]
      BY <1>0, <2>3, RequestUpdates DEF GrowClaimed
    <3> QED BY <1>0, <2>2, <2>3, <3>1 DEF GrowClaimed
  <2>4. CASE GrowRepeated(p, t, minimum)
    <3>1. NewestWaker(p, t) \in Tasks
      BY DEF NewestWaker
    <3>2. request' \in [Permits -> Request]
      BY <1>0, <2>4, <3>1, RequestUpdates DEF GrowRepeated
    <3> QED BY <1>0, <2>2, <2>4, <3>2 DEF GrowRepeated
  <2>5. CASE GrowImmediate(p, minimum, desired)
    <3> DEFINE need == minimum - Held(p)
               want == desired - Held(p)
    <3>1. need \in 1..Total /\ want \in 1..Total /\ need <= want
      BY <1>2, <2>5, GrowSizes DEF GrowImmediate
    <3>2. Share(need, want) \in need..want /\ Share(need, want) <= available
      <4>1. available >= need /\ need \in 0..Total /\ want \in 0..Total
        BY <2>5, <3>1 DEF GrowImmediate, ServedAtOnce
      <4> QED BY <1>0, <3>1, <4>1, ShareIsFree
    <3>3. Held(p) + Share(need, want) \in 0..Total /\ available - Share(need, want) \in 0..Total
      BY <1>0, <2>2, <3>1, <3>2
    <3>4. request' \in [Permits -> Request]
      BY <1>0, <2>5, RequestUpdates DEF GrowImmediate
    <3> QED BY <1>0, <2>5, <3>3, <3>4 DEF GrowImmediate
  <2>6. CASE GrowQueued(p, t, minimum, desired)
    <3>1. minimum - Held(p) \in 0..Total /\ desired - Held(p) \in 0..Total
      BY <1>2, <2>6, GrowSizes DEF GrowQueued
    <3>2. [minimum |-> minimum - Held(p), desired |-> desired - Held(p),
           granted |-> 0, waiting |-> TRUE, waker |-> t] \in Request
      BY <1>0, <3>1 DEF Request
    <3>3. request' \in [Permits -> Request]
      BY <1>0, <2>6, <3>2 DEF GrowQueued
    <3>4. Append(waiters, p) \in Seq(Permits)
      BY <1>0
    <3> QED BY <1>0, <2>2, <2>6, <3>3, <3>4 DEF GrowQueued
  <2> QED BY <1>2, <2>1, <2>3, <2>4, <2>5, <2>6 DEF PollStep
<1>3. ASSUME NEW keep \in 0..Total, Release(p, keep)
      PROVE  TypeOK'
  <2>1. available + Refund(p, keep) \in 0..Total
    BY <1>3, RefundIsCovered DEF Release
  <2>2. Without(waiters, p) \in Seq(Permits)
    BY <1>0, WithoutProperties DEF IInv, QueueIsWaiting
  <2>3. request' \in [Permits -> Request]
    BY <1>0, <1>3, RequestUpdates DEF Release, GiveBack
  <2> QED BY <1>0, <1>3, <2>1, <2>2, <2>3 DEF Release, GiveBack
<1>4. CASE Dispatch(p)
  <2>1. PICK h \in Permits, grant \in 0..Total : Serves(p, h, grant)
    BY <1>4, DispatchServes
  <2>2. available' \in 0..Total /\ waiters' \in Seq(Permits)
    BY <1>0, <2>1 DEF Serves
  <2>3. request' \in [Permits -> Request]
    <3>1. request' = [request EXCEPT ![h].granted = grant, ![h].waiting = FALSE,
                                     ![h].waker = NoTask]
      BY <2>1 DEF Serves
    <3>2. request \in [Permits -> Request] /\ Total \in Nat
      BY <1>0
    <3>3. [request EXCEPT ![h].granted = grant, ![h].waiting = FALSE, ![h].waker = NoTask]
          \in [Permits -> Request]
      BY <3>2, RequestUpdates
    <3> QED BY <3>1, <3>3
  <2>4. wakes' \in [Permits -> Seq(Tasks)]
    <3>1. request[h].waker \in Tasks \cup {NoTask}
      BY <1>0 DEF Request
    <3>2. request[h].waker # NoTask => Append(wakes[p], request[h].waker) \in Seq(Tasks)
      BY <1>0, <3>1
    <3> QED BY <1>0, <2>1, <3>2 DEF Serves
  <2> QED BY <1>0, <2>1, <2>2, <2>3, <2>4 DEF Serves
<1>5. CASE Unlock(p)
  BY <1>0, <1>5 DEF Unlock
<1>6. CASE Wake(p)
  BY <1>0, <1>6 DEF Wake, Awoken
<1> QED BY <1>1, <1>2, <1>3, <1>4, <1>5, <1>6 DEF StepOf

(* The shape of requests is preserved: only dispatch grants, to a request   *)
(* that then no longer waits, and only a live permit is polled.             *)
LEMMA ShapeStep == ASSUME IInv, NEW p \in Permits, StepOf(p) PROVE RequestShape'
<1> USE DEF RequestShape, Held
<1>0. TypeOK /\ RequestShape
  BY DEF IInv
<1>1. CASE Permit(p)
  BY <1>0, <1>1 DEF Permit, DefaultRequest, TypeOK
<1>2. ASSUME NEW t \in Tasks, NEW minimum \in Sizes, NEW desired \in Sizes,
             minimum <= desired, PollStep(p, t, minimum, desired)
      PROVE  RequestShape'
  <2>1. CASE GrowSatisfied(p, minimum)
    BY <1>0, <2>1 DEF GrowSatisfied
  <2>2. CASE GrowClaimed(p, minimum)
    BY <1>0, <2>2 DEF GrowClaimed, GrowLocked, Callable, TypeOK, Request
  <2>3. CASE GrowRepeated(p, t, minimum)
    BY <1>0, <2>3 DEF GrowRepeated, GrowLocked, Callable, TypeOK, Request
  <2>4. CASE GrowImmediate(p, minimum, desired)
    BY <1>0, <2>4 DEF GrowImmediate, GrowLocked, Callable, TypeOK, Request
  <2>5. CASE GrowQueued(p, t, minimum, desired)
    <3>1. 1 <= minimum - Held(p) /\ minimum - Held(p) <= desired - Held(p)
      BY <1>2, <2>5, GrowSizes DEF GrowQueued
    <3> QED BY <1>0, <2>5, <3>1 DEF GrowQueued, GrowLocked, Callable, TypeOK, Request
  <2> QED BY <1>2, <2>1, <2>2, <2>3, <2>4, <2>5 DEF PollStep
<1>3. ASSUME NEW keep \in 0..Total, Release(p, keep)
      PROVE  RequestShape'
  BY <1>0, <1>3 DEF Release, GiveBack, Callable, TypeOK, Request
<1>4. CASE Dispatch(p)
  <2>1. PICK h \in Permits, grant \in 0..Total : Serves(p, h, grant)
    BY <1>4, DispatchServes
  <2>2. request'[h].waiting = FALSE /\ \A q \in Permits : q # h => request'[q] = request[q]
    BY <1>0, <2>1 DEF Serves, TypeOK, Request
  <2> QED BY <1>0, <2>1, <2>2 DEF Serves
<1>5. CASE Unlock(p)
  BY <1>0, <1>5 DEF Unlock
<1>6. CASE Wake(p)
  BY <1>0, <1>6 DEF Wake, Awoken
<1> QED BY <1>1, <1>2, <1>3, <1>4, <1>5, <1>6 DEF StepOf

-----------------------------------------------------------------------------
(* The ledger is preserved: a step moves frames between the pool and one    *)
(* permit, or moves a grant to the capacity of its permit.                  *)
LEMMA LedgerKept ==
    ASSUME IInv, NEW p \in Permits, StepOf(p), TypeOK' PROVE Ledger'
<1>0. TypeOK /\ Ledger /\ available \in Nat /\ available' \in Nat
      /\ \A q \in Permits : Held(q) \in Nat /\ Held(q)' \in Nat
  <2>1. TypeOK /\ Ledger /\ available \in Nat /\ available' \in Nat
    BY BudgetAssumption DEF IInv, TypeOK
  <2>2. ASSUME NEW q \in Permits PROVE Held(q) \in Nat
    BY <2>1, HeldIsCovered
  <2>3. ASSUME NEW q \in Permits PROVE Held(q)' \in Nat
    <3>1. capacity'[q] \in Nat /\ request'[q] \in Request
      BY BudgetAssumption DEF TypeOK
    <3>2. request'[q].granted \in Nat
      BY <3>1, BudgetAssumption DEF Request
    <3> QED BY <3>1, <3>2 DEF Held
  <2> QED BY <2>1, <2>2, <2>3
<1>1. ASSUME NEW q \in Permits,
             \A x \in Permits \ {q} : Held(x)' = Held(x),
             available' + Held(q)' = available + Held(q)
      PROVE  Ledger'
  BY <1>0, <1>1, LedgerStep
<1>2. CASE Permit(p)
  <2>1. Held(p) = 0
    BY <1>2 DEF IInv, RequestShape, Permit
  <2>2. Held(p)' = 0 /\ UNCHANGED available /\ \A x \in Permits \ {p} : Held(x)' = Held(x)
    BY <1>0, <1>2 DEF Permit, Held, DefaultRequest, TypeOK
  <2> QED BY <1>0, <1>1, <2>1, <2>2
<1>3. ASSUME NEW t \in Tasks, NEW minimum \in Sizes, NEW desired \in Sizes,
             minimum <= desired, PollStep(p, t, minimum, desired)
      PROVE  Ledger'
  <2>0. Held(p) = capacity[p] + request[p].granted
    BY DEF Held
  <2>1. CASE GrowSatisfied(p, minimum)
    <3>1. UNCHANGED <<available, capacity, request>>
      BY <2>1 DEF GrowSatisfied
    <3> QED BY <1>0, <1>1, <3>1 DEF Held
  <2>2. CASE GrowClaimed(p, minimum)
    <3>1. /\ UNCHANGED available
          /\ capacity'[p] = Held(p) /\ request'[p].granted = 0
          /\ \A x \in Permits \ {p} : capacity'[x] = capacity[x] /\ request'[x] = request[x]
      BY <1>0, <2>2 DEF GrowClaimed, TypeOK, Request
    <3> QED BY <1>0, <1>1, <3>1 DEF Held
  <2>3. CASE GrowRepeated(p, t, minimum)
    <3>1. /\ UNCHANGED available
          /\ capacity'[p] = Held(p) /\ request'[p].granted = 0
          /\ \A x \in Permits \ {p} : capacity'[x] = capacity[x] /\ request'[x] = request[x]
      BY <1>0, <2>3 DEF GrowRepeated, TypeOK, Request
    <3> QED BY <1>0, <1>1, <3>1 DEF Held
  <2>4. CASE GrowImmediate(p, minimum, desired)
    <3> DEFINE grant == Share(minimum - Held(p), desired - Held(p))
    <3>1. grant \in Nat /\ grant <= available
      <4>1. /\ minimum - Held(p) \in 0..Total /\ desired - Held(p) \in 0..Total
            /\ minimum - Held(p) <= desired - Held(p)
        BY <1>3, <2>4, GrowSizes, BudgetAssumption DEF GrowImmediate
      <4>2. minimum - Held(p) <= available /\ available \in 0..Total
        BY <1>0, <2>4, <4>1 DEF GrowImmediate, ServedAtOnce, TypeOK
      <4>3. /\ grant \in (minimum - Held(p))..(desired - Held(p))
            /\ grant <= available
        BY <4>1, <4>2, ShareIsFree
      <4> HIDE DEF grant
      <4> QED BY <4>1, <4>3
    <3>2. /\ available' = available - grant
          /\ capacity'[p] = Held(p) + grant /\ request'[p].granted = 0
          /\ \A x \in Permits \ {p} : capacity'[x] = capacity[x] /\ request'[x] = request[x]
      BY <1>0, <2>4 DEF GrowImmediate, TypeOK, Request
    <3> HIDE DEF grant
    <3>3. Held(p)' = Held(p) + grant /\ \A x \in Permits \ {p} : Held(x)' = Held(x)
      BY <1>0, <3>1, <3>2 DEF Held
    <3> QED BY <1>0, <1>1, <3>1, <3>2, <3>3
  <2>5. CASE GrowQueued(p, t, minimum, desired)
    <3>1. /\ UNCHANGED available
          /\ capacity'[p] = Held(p) /\ request'[p].granted = 0
          /\ \A x \in Permits \ {p} : capacity'[x] = capacity[x] /\ request'[x] = request[x]
      BY <1>0, <2>5 DEF GrowQueued, TypeOK, Request
    <3> QED BY <1>0, <1>1, <3>1 DEF Held
  <2> QED BY <1>3, <2>1, <2>2, <2>3, <2>4, <2>5 DEF PollStep
<1>4. ASSUME NEW keep \in 0..Total, Release(p, keep)
      PROVE  Ledger'
  <2>1. keep + Refund(p, keep) = Held(p) /\ Refund(p, keep) \in Nat /\ keep \in Nat
    BY <1>4, RefundIsCovered, BudgetAssumption DEF Release
  <2>2. /\ available' = available + Refund(p, keep)
        /\ capacity'[p] = keep /\ request'[p].granted = 0
        /\ \A x \in Permits \ {p} : capacity'[x] = capacity[x] /\ request'[x] = request[x]
    BY <1>0, <1>4 DEF Release, GiveBack, TypeOK, Request
  <2>3. Held(p)' = keep /\ \A x \in Permits \ {p} : Held(x)' = Held(x)
    BY <1>0, <2>1, <2>2 DEF Held
  <2> QED BY <1>0, <1>1, <2>1, <2>2, <2>3
<1>5. CASE Dispatch(p)
  <2>1. PICK h \in Permits, grant \in 0..Total : Serves(p, h, grant)
    BY <1>5, DispatchServes
  <2>2. /\ available' = available - grant /\ grant <= available /\ grant \in Nat
        /\ UNCHANGED capacity /\ request[h].granted = 0
        /\ request'[h].granted = grant
        /\ \A x \in Permits \ {h} : request'[x] = request[x]
    <3>1. /\ request' = [request EXCEPT ![h].granted = grant, ![h].waiting = FALSE,
                                        ![h].waker = NoTask]
          /\ available' = available - grant /\ grant <= available /\ grant \in Nat
          /\ UNCHANGED capacity /\ request[h].granted = 0
      BY <2>1, BudgetAssumption DEF Serves
    <3>2. request \in [Permits -> Request]
      BY <1>0 DEF TypeOK
    <3> QED BY <3>1, <3>2 DEF Request
  <2>3. Held(h) = capacity[h] /\ Held(h)' = capacity[h] + grant /\ capacity[h] \in Nat
        /\ \A x \in Permits \ {h} : Held(x)' = Held(x)
    <3>1. capacity[h] \in Nat
      BY <1>0, BudgetAssumption DEF TypeOK
    <3> QED BY <2>2, <3>1 DEF Held
  <2> QED BY <1>0, <1>1, <2>2, <2>3
<1>6. CASE Unlock(p) \/ Wake(p)
  <2>1. UNCHANGED <<available, capacity, request>>
    BY <1>6 DEF Unlock, Wake, Awoken
  <2> QED BY <1>0, <1>1, <2>1 DEF Held
<1> QED BY <1>2, <1>3, <1>4, <1>5, <1>6 DEF StepOf

(* The queue stays the list of the live waiting permits: a permit joins it  *)
(* when it starts to wait and leaves it when it stops.                      *)
LEMMA QueueKept == ASSUME IInv, NEW p \in Permits, StepOf(p) PROVE QueueIsWaiting'
<1>0. TypeOK /\ QueueIsWaiting /\ waiters \in Seq(Permits)
  BY DEF IInv, TypeOK
<1>1. CASE Permit(p)
  <2>1. /\ UNCHANGED waiters /\ ~alive[p] /\ request'[p].waiting = FALSE
        /\ \A q \in Permits \ {p} : alive'[q] = alive[q] /\ request'[q] = request[q]
    BY <1>0, <1>1 DEF Permit, DefaultRequest, TypeOK
  <2> QED BY <1>0, <2>1 DEF QueueIsWaiting
<1>2. ASSUME NEW t \in Tasks, NEW minimum \in Sizes, NEW desired \in Sizes,
             minimum <= desired, PollStep(p, t, minimum, desired)
      PROVE  QueueIsWaiting'
  <2>1. CASE \/ GrowSatisfied(p, minimum)
             \/ GrowClaimed(p, minimum)
             \/ GrowRepeated(p, t, minimum)
             \/ GrowImmediate(p, minimum, desired)
    <3>1. /\ UNCHANGED <<waiters, alive>>
          /\ \A q \in Permits : request'[q].waiting = request[q].waiting
      <4>1. request \in [Permits -> Request]
        BY <1>0 DEF TypeOK
      <4>2. CASE GrowSatisfied(p, minimum)
        BY <4>2 DEF GrowSatisfied
      <4>3. CASE GrowRepeated(p, t, minimum)
        BY <4>1, <4>3 DEF GrowRepeated, Request
      <4>4. CASE GrowClaimed(p, minimum) \/ GrowImmediate(p, minimum, desired)
        BY <4>1, <4>4 DEF GrowClaimed, GrowImmediate, Request
      <4> QED BY <2>1, <4>2, <4>3, <4>4
    <3> QED BY <1>0, <3>1 DEF QueueIsWaiting
  <2>2. CASE GrowQueued(p, t, minimum, desired)
    <3>1. /\ waiters' = Append(waiters, p) /\ UNCHANGED alive /\ alive[p]
          /\ request'[p].waiting = TRUE /\ ~request[p].waiting
          /\ \A q \in Permits \ {p} : request'[q] = request[q]
      BY <1>0, <2>2 DEF GrowQueued, GrowLocked, Callable, TypeOK, Request
    <3>2. ~ \E i \in DOMAIN waiters : waiters[i] = p
      BY <1>0, <3>1 DEF QueueIsWaiting
    <3>3. /\ Len(waiters) \in Nat /\ DOMAIN waiters = 1..Len(waiters)
          /\ DOMAIN waiters' = 1..(Len(waiters) + 1)
          /\ waiters'[Len(waiters) + 1] = p
          /\ \A i \in 1..Len(waiters) : waiters'[i] = waiters[i]
      BY <1>0, <3>1
    <3>4. \A i, j \in DOMAIN waiters' : waiters'[i] = waiters'[j] => i = j
      BY <1>0, <3>2, <3>3 DEF QueueIsWaiting
    <3>5. ASSUME NEW q \in Permits
          PROVE (\E i \in DOMAIN waiters' : waiters'[i] = q) <=> (alive'[q] /\ request'[q].waiting)
      <4>1. CASE q = p
        <5>1. Len(waiters) + 1 \in DOMAIN waiters'
          BY <3>3
        <5> QED BY <3>1, <3>3, <4>1, <5>1
      <4>2. CASE q # p
        <5>1. (\E i \in DOMAIN waiters' : waiters'[i] = q) <=> \E i \in DOMAIN waiters : waiters[i] = q
          BY <3>3, <4>2
        <5> QED BY <1>0, <3>1, <4>2, <5>1 DEF QueueIsWaiting
      <4> QED BY <4>1, <4>2
    <3> QED BY <3>4, <3>5 DEF QueueIsWaiting
  <2> QED BY <1>2, <2>1, <2>2 DEF PollStep
<1>3. ASSUME NEW keep \in 0..Total, Release(p, keep)
      PROVE  QueueIsWaiting'
  <2>1. /\ waiters' = Without(waiters, p)
        /\ request'[p].waiting = FALSE
        /\ \A q \in Permits \ {p} : alive'[q] = alive[q] /\ request'[q] = request[q]
    BY <1>0, <1>3 DEF Release, GiveBack, TypeOK, Request
  <2>2. /\ \A i, j \in DOMAIN waiters' : waiters'[i] = waiters'[j] => i = j
        /\ \A x \in Permits : (\E i \in DOMAIN waiters' : waiters'[i] = x)
                              <=> x # p /\ \E i \in DOMAIN waiters : waiters[i] = x
    <3>1. \A i, j \in DOMAIN waiters : waiters[i] = waiters[j] => i = j
      BY <1>0 DEF QueueIsWaiting
    <3>2. waiters \in Seq(Permits)
      BY <1>0
    <3>3. /\ \A i, j \in DOMAIN Without(waiters, p) :
                Without(waiters, p)[i] = Without(waiters, p)[j] => i = j
          /\ \A x \in Permits :
                (\E i \in DOMAIN Without(waiters, p) : Without(waiters, p)[i] = x)
                <=> x # p /\ \E i \in DOMAIN waiters : waiters[i] = x
      BY <3>1, <3>2, WithoutProperties
    <3> QED BY <2>1, <3>3
  <2> QED BY <1>0, <2>1, <2>2 DEF QueueIsWaiting
<1>4. CASE Dispatch(p)
  <2>1. PICK h \in Permits, grant \in 0..Total : Serves(p, h, grant)
    BY <1>4, DispatchServes
  <2>2. /\ waiters # <<>> /\ h = Head(waiters) /\ waiters' = Tail(waiters) /\ UNCHANGED alive
        /\ request'[h].waiting = FALSE
        /\ \A q \in Permits \ {h} : request'[q] = request[q]
    BY <1>0, <2>1 DEF Serves, TypeOK, Request
  <2>3. /\ Len(waiters) \in Nat /\ DOMAIN waiters = 1..Len(waiters) /\ h = waiters[1]
        /\ DOMAIN waiters' = 1..(Len(waiters) - 1) /\ Len(waiters) >= 1
        /\ \A i \in 1..(Len(waiters) - 1) : waiters'[i] = waiters[i + 1]
    BY <1>0, <2>2
  <2>4. \A i, j \in DOMAIN waiters' : waiters'[i] = waiters'[j] => i = j
    <3> SUFFICES ASSUME NEW i \in DOMAIN waiters', NEW j \in DOMAIN waiters',
                        waiters'[i] = waiters'[j]
                 PROVE  i = j
      OBVIOUS
    <3>1. i + 1 \in DOMAIN waiters /\ j + 1 \in DOMAIN waiters
          /\ waiters[i + 1] = waiters[j + 1] /\ i \in Nat /\ j \in Nat
      BY <2>3
    <3>2. i + 1 = j + 1
      BY <1>0, <3>1 DEF QueueIsWaiting
    <3> QED BY <3>1, <3>2
  <2>5. ASSUME NEW q \in Permits
        PROVE (\E i \in DOMAIN waiters' : waiters'[i] = q)
              <=> q # h /\ \E i \in DOMAIN waiters : waiters[i] = q
    <3>1. ASSUME NEW i \in DOMAIN waiters', waiters'[i] = q
          PROVE q # h /\ \E j \in DOMAIN waiters : waiters[j] = q
      <4>1. i + 1 \in DOMAIN waiters /\ 1 \in DOMAIN waiters /\ i + 1 # 1 /\ waiters[i + 1] = q
        BY <2>3, <3>1
      <4> QED BY <1>0, <2>3, <4>1 DEF QueueIsWaiting
    <3>2. ASSUME NEW i \in DOMAIN waiters, waiters[i] = q, q # h
          PROVE \E j \in DOMAIN waiters' : waiters'[j] = q
      <4>1. i # 1 /\ i \in 1..Len(waiters)
        BY <2>3, <3>2
      <4>2. i - 1 \in DOMAIN waiters' /\ waiters'[i - 1] = q
        BY <2>3, <3>2, <4>1
      <4> QED BY <4>2
    <3> QED BY <3>1, <3>2
  <2> QED BY <1>0, <2>2, <2>4, <2>5 DEF QueueIsWaiting
<1>5. CASE Unlock(p) \/ Wake(p)
  <2>1. UNCHANGED <<waiters, alive, request>>
    BY <1>5 DEF Unlock, Wake, Awoken
  <2> QED BY <1>0, <2>1 DEF QueueIsWaiting
<1> QED BY <1>1, <1>2, <1>3, <1>4, <1>5 DEF StepOf

(* The head stays blocked while the lock is free: only shrink_to adds frames *)
(* to the pool, and it unlocks only when dispatch has nobody left to serve.  *)
LEMMA HeadKept == ASSUME IInv, NEW p \in Permits, StepOf(p) PROVE HeadIsBlocked'
<1>0. TypeOK /\ QueueIsWaiting /\ HeadIsBlocked /\ waiters \in Seq(Permits)
      /\ request \in [Permits -> Request]
  BY DEF IInv, TypeOK
<1>h. waiters # <<>> => /\ Head(waiters) \in Permits
                        /\ alive[Head(waiters)] /\ request[Head(waiters)].waiting
  <2> SUFFICES ASSUME waiters # <<>>
               PROVE  /\ Head(waiters) \in Permits
                      /\ alive[Head(waiters)] /\ request[Head(waiters)].waiting
    OBVIOUS
  <2>1. Head(waiters) \in Permits /\ 1 \in DOMAIN waiters /\ waiters[1] = Head(waiters)
    BY <1>0
  <2> QED BY <1>0, <2>1 DEF QueueIsWaiting
<1>1. CASE Permit(p)
  <2>1. /\ UNCHANGED <<waiters, lock, available>> /\ ~alive[p]
        /\ \A q \in Permits \ {p} : request'[q] = request[q]
    BY <1>0, <1>1 DEF Permit
  <2> QED BY <1>0, <1>h, <2>1 DEF HeadIsBlocked
<1>2. ASSUME NEW t \in Tasks, NEW minimum \in Sizes, NEW desired \in Sizes,
             minimum <= desired, PollStep(p, t, minimum, desired)
      PROVE  HeadIsBlocked'
  <2>1. CASE GrowSatisfied(p, minimum)
    BY <1>0, <2>1 DEF GrowSatisfied, HeadIsBlocked
  <2>2. CASE GrowClaimed(p, minimum)
    <3>1. UNCHANGED <<waiters, lock, available>>
          /\ \A q \in Permits : request'[q].minimum = request[q].minimum
      BY <1>0, <2>2 DEF GrowClaimed, Request
    <3> QED BY <1>0, <1>h, <3>1 DEF HeadIsBlocked
  <2>3. CASE GrowRepeated(p, t, minimum)
    <3>1. UNCHANGED <<waiters, lock, available>>
          /\ \A q \in Permits : request'[q].minimum = request[q].minimum
      BY <1>0, <2>3 DEF GrowRepeated, Request
    <3> QED BY <1>0, <1>h, <3>1 DEF HeadIsBlocked
  <2>4. CASE GrowImmediate(p, minimum, desired)
    BY <2>4 DEF GrowImmediate, ServedAtOnce, HeadIsBlocked
  <2>5. CASE GrowQueued(p, t, minimum, desired)
    <3>1. /\ waiters' = Append(waiters, p) /\ UNCHANGED <<available, lock>>
          /\ lock = Free /\ ~request[p].waiting
          /\ waiters # <<>> \/ ~(available >= minimum - Held(p))
          /\ request'[p].minimum = minimum - Held(p)
          /\ \A q \in Permits \ {p} : request'[q] = request[q]
      BY <1>0, <2>5 DEF GrowQueued, GrowLocked, ServedAtOnce, Request
    <3>2. CASE waiters = <<>>
      <4>1. Head(waiters') = p
        BY <3>1, <3>2
      <4>2. available \in Nat /\ minimum - Held(p) \in Nat
        BY <1>2, <2>5, GrowSizes, BudgetAssumption DEF GrowQueued, IInv, TypeOK
      <4> QED BY <3>1, <3>2, <4>1, <4>2 DEF HeadIsBlocked
    <3>3. CASE waiters # <<>>
      <4>1. Head(waiters') = Head(waiters)
        BY <1>0, <3>1, <3>3
      <4> QED BY <1>0, <1>h, <3>1, <3>3, <4>1 DEF HeadIsBlocked
    <3> QED BY <3>2, <3>3
  <2> QED BY <1>2, <2>1, <2>2, <2>3, <2>4, <2>5 DEF PollStep
<1>3. ASSUME NEW keep \in 0..Total, Release(p, keep)
      PROVE  HeadIsBlocked'
  BY <1>3 DEF Release, GiveBack, HeadIsBlocked, Permits, Free
<1>4. CASE Dispatch(p)
  BY <1>4 DEF Dispatch, HeadIsBlocked, Permits, Free
<1>5. CASE Unlock(p)
  <2>1. waiters # <<>> => available \in Nat /\ request[Head(waiters)].minimum \in Nat
    BY <1>0, <1>h, BudgetAssumption DEF TypeOK, Request
  <2> QED BY <1>5, <1>h, <2>1 DEF Unlock, HeadServable, Fits, Stale, HeadIsBlocked
<1>6. CASE Wake(p)
  BY <1>0, <1>6 DEF Wake, Awoken, HeadIsBlocked
<1> QED BY <1>1, <1>2, <1>3, <1>4, <1>5, <1>6 DEF StepOf

(* No step strands a sleeping task: its waker stays in its waiting request  *)
(* until dispatch takes it along, and stays there until it is woken.        *)
LEMMA WakeupKept == ASSUME IInv, NEW p \in Permits, StepOf(p) PROVE NoLostWakeup'
<1> DEFINE Registered(q) == alive[q] /\ request[q].waiting /\ request[q].waker = parked[q]
           InFlight(q) == \E x \in Permits : \E i \in DOMAIN wakes[x] : wakes[x][i] = parked[q]
<1>0. /\ request \in [Permits -> Request] /\ parked \in [Permits -> Tasks \cup {NoTask}]
      /\ wakes \in [Permits -> Seq(Tasks)] /\ alive \in [Permits -> BOOLEAN]
      /\ NoTask \notin Tasks
  BY BudgetAssumption DEF IInv, TypeOK
<1>a. \A q \in Permits : parked[q] # NoTask => Registered(q) \/ InFlight(q)
  BY DEF IInv, NoLostWakeup
<1>b. ASSUME UNCHANGED wakes, parked'[p] = NoTask,
             \A q \in Permits \ {p} : /\ alive'[q] = alive[q] /\ request'[q] = request[q]
                                      /\ parked'[q] = parked[q]
      PROVE  NoLostWakeup'
  BY <1>a, <1>b DEF NoLostWakeup
<1>1. CASE Permit(p)
  <2>1. /\ UNCHANGED <<wakes, parked>> /\ ~alive[p]
        /\ \A q \in Permits \ {p} : alive'[q] = alive[q] /\ request'[q] = request[q]
    BY <1>0, <1>1 DEF Permit
  <2> QED BY <1>a, <2>1 DEF NoLostWakeup
<1>2. ASSUME NEW t \in Tasks, NEW minimum \in Sizes, NEW desired \in Sizes,
             minimum <= desired, PollStep(p, t, minimum, desired)
      PROVE  NoLostWakeup'
  <2>1. CASE GrowSatisfied(p, minimum)
    BY <1>0, <1>b, <2>1 DEF GrowSatisfied
  <2>2. CASE GrowClaimed(p, minimum)
    BY <1>0, <1>b, <2>2 DEF GrowClaimed
  <2>3. CASE GrowImmediate(p, minimum, desired)
    BY <1>0, <1>b, <2>3 DEF GrowImmediate
  <2>4. ASSUME UNCHANGED <<wakes, alive>>, alive[p], request'[p].waiting = TRUE,
               request'[p].waker = t, parked'[p] = t,
               \A q \in Permits \ {p} : request'[q] = request[q] /\ parked'[q] = parked[q]
        PROVE  NoLostWakeup'
    BY <1>a, <2>4 DEF NoLostWakeup
  <2>5. CASE GrowRepeated(p, t, minimum)
    <3>1. request'[p].waiting = TRUE /\ request'[p].waker = t
      BY <1>0, <2>5 DEF GrowRepeated, NewestWaker, Request
    <3> QED BY <1>0, <2>4, <2>5, <3>1 DEF GrowRepeated, GrowLocked, Callable
  <2>6. CASE GrowQueued(p, t, minimum, desired)
    <3>1. request'[p].waiting = TRUE /\ request'[p].waker = t
      BY <1>0, <2>6 DEF GrowQueued, Request
    <3> QED BY <1>0, <2>4, <2>6, <3>1 DEF GrowQueued, GrowLocked, Callable
  <2> QED BY <1>2, <2>1, <2>2, <2>3, <2>5, <2>6 DEF PollStep
<1>3. ASSUME NEW keep \in 0..Total, Release(p, keep)
      PROVE  NoLostWakeup'
  BY <1>0, <1>b, <1>3 DEF Release, GiveBack
<1>4. CASE Dispatch(p)
  <2>1. PICK h \in Permits, grant \in 0..Total : Serves(p, h, grant)
    BY <1>4, DispatchServes
  <2>2. /\ UNCHANGED <<alive, parked>>
        /\ \A q \in Permits \ {h} : request'[q] = request[q]
        /\ wakes' = IF request[h].waker = NoTask THEN wakes
                    ELSE [wakes EXCEPT ![p] = Append(@, request[h].waker)]
    BY <1>0, <2>1 DEF Serves
  <2>3. ASSUME NEW x \in Permits, NEW i \in DOMAIN wakes[x]
        PROVE  i \in DOMAIN wakes'[x] /\ wakes'[x][i] = wakes[x][i]
    BY <1>0, <2>2
  <2>4. ASSUME NEW q \in Permits, parked[q] # NoTask, InFlight(q)
        PROVE  \E x \in Permits : \E i \in DOMAIN wakes'[x] : wakes'[x][i] = parked[q]
    BY <2>3, <2>4
  <2>5. ASSUME request[h].waker # NoTask
        PROVE  \E i \in DOMAIN wakes'[p] : wakes'[p][i] = request[h].waker
    <3>1. wakes'[p] = Append(wakes[p], request[h].waker)
      BY <1>0, <2>2, <2>5
    <3>2. Len(wakes[p]) + 1 \in DOMAIN wakes'[p]
          /\ wakes'[p][Len(wakes[p]) + 1] = request[h].waker
      BY <1>0, <3>1
    <3> QED BY <3>2
  <2>6. ASSUME NEW q \in Permits, parked'[q] # NoTask
        PROVE  \/ alive'[q] /\ request'[q].waiting /\ request'[q].waker = parked'[q]
               \/ \E x \in Permits : \E i \in DOMAIN wakes'[x] : wakes'[x][i] = parked'[q]
    <3>1. CASE InFlight(q)
      BY <2>2, <2>4, <2>6, <3>1
    <3>2. CASE Registered(q) /\ q # h
      BY <2>2, <3>2
    <3>3. CASE Registered(q) /\ q = h
      BY <2>2, <2>5, <2>6, <3>3
    <3> QED BY <1>a, <2>2, <2>6, <3>1, <3>2, <3>3
  <2> QED BY <2>6 DEF NoLostWakeup
<1>5. CASE Unlock(p)
  BY <1>a, <1>5 DEF Unlock, NoLostWakeup
<1>6. CASE Wake(p)
  <2>1. /\ UNCHANGED <<alive, request>> /\ wakes[p] # <<>>
        /\ wakes'[p] = Tail(wakes[p])
        /\ \A x \in Permits \ {p} : wakes'[x] = wakes[x]
        /\ \A q \in Permits :
              parked'[q] = IF parked[q] = Head(wakes[p]) THEN NoTask ELSE parked[q]
    BY <1>0, <1>6 DEF Wake, Awoken
  <2>2. ASSUME NEW q \in Permits, parked'[q] # NoTask
        PROVE  \/ alive'[q] /\ request'[q].waiting /\ request'[q].waker = parked'[q]
               \/ \E x \in Permits : \E i \in DOMAIN wakes'[x] : wakes'[x][i] = parked'[q]
    <3>1. parked'[q] = parked[q] /\ parked[q] # Head(wakes[p])
      BY <2>1, <2>2
    <3>2. CASE Registered(q)
      BY <2>1, <3>1, <3>2
    <3>3. ASSUME NEW x \in Permits, NEW i \in DOMAIN wakes[x], wakes[x][i] = parked[q]
          PROVE  \E j \in DOMAIN wakes'[x] : wakes'[x][j] = parked'[q]
      <4>1. CASE x # p
        BY <2>1, <3>1, <3>3, <4>1
      <4>2. CASE x = p
        <5>1. wakes[p] \in Seq(Tasks) /\ i \in 1..Len(wakes[p]) /\ i # 1
          BY <1>0, <2>1, <3>1, <3>3, <4>2
        <5>2. i - 1 \in DOMAIN wakes'[p] /\ wakes'[p][i - 1] = wakes[p][i]
          BY <2>1, <5>1
        <5> QED BY <3>1, <3>3, <4>2, <5>2
      <4> QED BY <4>1, <4>2
    <3> QED BY <1>a, <2>2, <3>1, <3>2, <3>3
  <2> QED BY <2>2 DEF NoLostWakeup
<1> QED BY <1>1, <1>2, <1>3, <1>4, <1>5, <1>6 DEF StepOf

-----------------------------------------------------------------------------
(* Every step of the budget keeps the invariant. *)
LEMMA Inductive == IInv /\ [BudgetNext]_budgetVars => IInv'
<1>1. ASSUME IInv, BudgetNext PROVE IInv'
  <2>1. PICK p \in Permits : StepOf(p)
    BY <1>1, StepCases
  <2> QED BY <1>1, <2>1, TypeStep, ShapeStep, LedgerKept, QueueKept, HeadKept, WakeupKept
         DEF IInv
<1>2. ASSUME IInv, UNCHANGED budgetVars PROVE IInv'
  <2> USE <1>2 DEF budgetVars
  <2>1. TypeOK' /\ RequestShape'
    BY DEF IInv, TypeOK, RequestShape, Held
  <2>2. Ledger'
    BY DEF IInv, Ledger, IsLedger, Holdings, Held
  <2>3. QueueIsWaiting' /\ HeadIsBlocked' /\ NoLostWakeup'
    BY DEF IInv, QueueIsWaiting, HeadIsBlocked, NoLostWakeup
  <2> QED BY <2>1, <2>2, <2>3 DEF IInv
<1> QED BY <1>1, <1>2

(* The invariant holds in every state of the budget. *)
LEMMA Invariance == BudgetSpec => []IInv
BY InitIInv, Inductive, PTL DEF BudgetSpec

(* The variables of the budget keep their types. *)
THEOREM TypeCorrect == BudgetSpec => []TypeOK
<1>1. IInv => TypeOK
  BY DEF IInv
<1> QED BY <1>1, Invariance, PTL

(* The free frames and those owned by permits always add up to the total,   *)
(* through grants that are not yet collected, cancellations and drops.      *)
THEOREM FramesAreConserved == BudgetSpec => []Conservation
<1>1. IInv => Conservation
  <2> SUFFICES ASSUME IInv PROVE Conservation
    OBVIOUS
  <2>1. PICK s : IsLedger(s, Holdings) /\ available + s[PermitCount] = Total
    BY DEF IInv, Ledger
  <2> QED BY <2>1 DEF Conservation, IsLedger, RunningTotal, Holdings
<1> QED BY <1>1, Invariance, PTL

(* The queue lists exactly the live waiting permits, each once. *)
THEOREM QueueIsExact == BudgetSpec => []QueueIsWaiting
<1>1. IInv => QueueIsWaiting
  BY DEF IInv
<1> QED BY <1>1, Invariance, PTL

(* While the lock is free, the free frames do not suffice for the head. *)
THEOREM NobodyServableWaits == BudgetSpec => []HeadIsBlocked
<1>1. IInv => HeadIsBlocked
  BY DEF IInv
<1> QED BY <1>1, Invariance, PTL

(* A task asleep on the budget always has a waker that will be woken. *)
THEOREM WakeupsAreKept == BudgetSpec => []NoLostWakeup
<1>1. IInv => NoLostWakeup
  BY DEF IInv
<1> QED BY <1>1, Invariance, PTL

-----------------------------------------------------------------------------
(* Every step of the budget is a step of the pool or leaves it unchanged. *)
LEMMA PoolStep ==
    ASSUME IInv, NEW p \in Permits, StepOf(p), TypeOK'
    PROVE  Pool!PoolNext \/ UNCHANGED Pool!poolVars
<1> DEFINE owned == [q \in Permits |-> Held(q)]
           claim == [q \in Permits |-> Claim(q)]
<1>0. /\ TypeOK /\ request \in [Permits -> Request] /\ capacity \in [Permits -> 0..Total]
      /\ Total \in Nat
  BY BudgetAssumption DEF IInv, TypeOK
<1>a. ASSUME UNCHANGED <<available, waiters>>,
             \A q \in Permits : Held(q)' = Held(q) /\ Claim(q)' = Claim(q)
      PROVE  UNCHANGED Pool!poolVars
  BY <1>a DEF Pool!poolVars
<1>1. CASE Permit(p)
  <2>1. /\ UNCHANGED <<available, waiters>> /\ Held(p) = 0 /\ request[p].waiting = FALSE
        /\ capacity'[p] = 0 /\ request'[p].granted = 0 /\ request'[p].waiting = FALSE
        /\ \A q \in Permits \ {p} : capacity'[q] = capacity[q] /\ request'[q] = request[q]
    BY <1>0, <1>1 DEF Permit, DefaultRequest, IInv, RequestShape, Request
  <2> QED BY <1>a, <2>1 DEF Held, Claim
<1>2. ASSUME NEW t \in Tasks, NEW minimum \in Sizes, NEW desired \in Sizes,
             minimum <= desired, PollStep(p, t, minimum, desired)
      PROVE  Pool!PoolNext \/ UNCHANGED Pool!poolVars
  <2> DEFINE need == minimum - Held(p)
             want == desired - Held(p)
  <2>0. Held(p) = capacity[p] + request[p].granted /\ Held(p) \in Nat
    BY <1>0, HeldIsCovered DEF Held, IInv
  <2>1. CASE GrowSatisfied(p, minimum)
    <3>1. UNCHANGED <<available, waiters, capacity, request>>
      BY <2>1 DEF GrowSatisfied
    <3> QED BY <1>a, <3>1 DEF Held, Claim
  <2>2. ASSUME UNCHANGED <<available, waiters>>,
               capacity'[p] = Held(p), request'[p].granted = 0, Claim(p)' = Claim(p),
               \A q \in Permits \ {p} : capacity'[q] = capacity[q] /\ request'[q] = request[q]
        PROVE  UNCHANGED Pool!poolVars
    <3>1. \A q \in Permits : Held(q)' = Held(q)
      BY <2>0, <2>2 DEF Held
    <3>2. \A q \in Permits : Claim(q)' = Claim(q)
      BY <2>2 DEF Claim
    <3> QED BY <1>a, <2>2, <3>1, <3>2
  <2>3. CASE GrowClaimed(p, minimum)
    <3>1. Claim(p)' = Claim(p)
      BY <1>0, <2>3 DEF GrowClaimed, Claim, Request
    <3>2. capacity'[p] = Held(p) /\ request'[p].granted = 0
      BY <1>0, <2>3 DEF GrowClaimed, Request
    <3> QED BY <1>0, <2>2, <2>3, <3>1, <3>2 DEF GrowClaimed
  <2>4. CASE GrowRepeated(p, t, minimum)
    <3>1. Claim(p)' = Claim(p)
      BY <1>0, <2>4 DEF GrowRepeated, Claim, Request
    <3>2. capacity'[p] = Held(p) /\ request'[p].granted = 0
      BY <1>0, <2>4 DEF GrowRepeated, Request
    <3> QED BY <1>0, <2>2, <2>4, <3>1, <3>2 DEF GrowRepeated
  <2>5. CASE GrowImmediate(p, minimum, desired)
    <3>1. need \in 1..Total /\ want \in 1..Total /\ need <= want
      BY <1>2, <2>5, GrowSizes DEF GrowImmediate
    <3>2. /\ waiters = <<>> /\ available >= need /\ UNCHANGED waiters
          /\ available' = available - Share(need, want)
          /\ ~request[p].waiting
          /\ capacity'[p] = Held(p) + Share(need, want)
          /\ request'[p].granted = 0 /\ request'[p].waiting = request[p].waiting
          /\ \A q \in Permits \ {p} : capacity'[q] = capacity[q] /\ request'[q] = request[q]
      BY <1>0, <2>5 DEF GrowImmediate, ServedAtOnce, Request
    <3>3. Share(need, want) = Pool!Share(need, want)
      BY DEF Share, Pool!Share
    <3>4. Share(need, want) \in Nat
      BY <3>1, <1>0 DEF Share
    <3> HIDE DEF need, want
    <3>5. owned' = [owned EXCEPT ![p] = @ + Pool!Share(need, want)]
      <4>1. \A q \in Permits :
               Held(q)' = IF q = p THEN Held(q) + Pool!Share(need, want) ELSE Held(q)
        BY <2>0, <3>2, <3>3, <3>4 DEF Held
      <4> QED BY <4>1
    <3>6. claim' = claim
      BY <3>2 DEF Claim
    <3>7. Pool!Take(p, need, want)
      BY <3>2, <3>3, <3>5, <3>6 DEF Pool!Take
    <3>8. need \in 1..Total /\ want \in need..Total
      BY <1>0, <3>1
    <3> QED BY <3>7, <3>8 DEF Pool!PoolNext
  <2>6. CASE GrowQueued(p, t, minimum, desired)
    <3>1. need \in 1..Total /\ want \in 1..Total /\ need <= want
      BY <1>2, <2>6, GrowSizes DEF GrowQueued
    <3>2. /\ waiters # <<>> \/ available < need
          /\ UNCHANGED available
          /\ waiters' = Append(waiters, p)
          /\ ~request[p].waiting
          /\ capacity'[p] = Held(p)
          /\ request'[p] = [minimum |-> need, desired |-> want, granted |-> 0,
                            waiting |-> TRUE, waker |-> t]
          /\ \A q \in Permits \ {p} : capacity'[q] = capacity[q] /\ request'[q] = request[q]
      <4>1. ~ServedAtOnce(need) /\ available \in Nat
        BY <1>0, <2>6 DEF GrowQueued, TypeOK
      <4>2. waiters # <<>> \/ available < need
        BY <3>1, <4>1 DEF ServedAtOnce
      <4> QED BY <1>0, <2>6, <4>2 DEF GrowQueued
    <3>3. ~Pool!Waits(p)
      BY <3>2 DEF IInv, QueueIsWaiting, Pool!Waits
    <3> HIDE DEF need, want
    <3>4. \A q \in Permits : Held(q)' = Held(q)
      BY <2>0, <3>2 DEF Held
    <3>5. claim' = [claim EXCEPT ![p] = [minimum |-> need, desired |-> want]]
      <4>1. \A q \in Permits :
               Claim(q)' = IF q = p THEN [minimum |-> need, desired |-> want] ELSE Claim(q)
        BY <3>2 DEF Claim
      <4> QED BY <4>1
    <3>6. Pool!Join(p, need, want)
      BY <3>2, <3>3, <3>4, <3>5 DEF Pool!Join
    <3>7. need \in 1..Total /\ want \in need..Total
      BY <1>0, <3>1
    <3> QED BY <3>6, <3>7 DEF Pool!PoolNext
  <2> QED BY <1>2, <2>1, <2>3, <2>4, <2>5, <2>6 DEF PollStep
<1>3. ASSUME NEW keep \in 0..Total, Release(p, keep)
      PROVE  Pool!PoolNext \/ UNCHANGED Pool!poolVars
  <2>1. keep + Refund(p, keep) = Held(p) /\ Refund(p, keep) \in Nat /\ keep \in Nat
    BY <1>0, <1>3, RefundIsCovered DEF Release
  <2>2. /\ available' = available + Refund(p, keep) /\ available \in Nat
        /\ capacity'[p] = keep /\ request'[p].granted = 0 /\ request'[p].waiting = FALSE
        /\ waiters' = Without(waiters, p)
        /\ \A q \in Permits \ {p} : capacity'[q] = capacity[q] /\ request'[q] = request[q]
    BY <1>0, <1>3 DEF Release, GiveBack, Request, TypeOK
  <2>3. owned' = [owned EXCEPT ![p] = keep]
    <3>1. \A q \in Permits : Held(q)' = IF q = p THEN keep ELSE Held(q)
      BY <2>1, <2>2 DEF Held
    <3> QED BY <3>1
  <2>4. claim' = [claim EXCEPT ![p] = [minimum |-> 0, desired |-> 0]]
    <3>1. \A q \in Permits :
             Claim(q)' = IF q = p THEN [minimum |-> 0, desired |-> 0] ELSE Claim(q)
      BY <2>2 DEF Claim
    <3> QED BY <3>1
  <2>5. keep <= owned[p] /\ available' = available + owned[p] - keep
    BY <2>1, <2>2
  <2>6. IF Pool!Waits(p)
        THEN \E k \in DOMAIN waiters :
               /\ waiters[k] = p
               /\ waiters' = [j \in 1..(Len(waiters) - 1) |->
                                IF j < k THEN waiters[j] ELSE waiters[j + 1]]
        ELSE UNCHANGED waiters
    BY <2>2 DEF Pool!Waits, Without
  <2>7. Pool!Leave(p, keep)
    BY <2>3, <2>4, <2>5, <2>6 DEF Pool!Leave, Pool!NoClaim
  <2> QED BY <2>7 DEF Pool!PoolNext
<1>4. CASE Dispatch(p)
  <2>1. PICK h \in Permits, grant \in 0..Total : Serves(p, h, grant)
    BY <1>4, DispatchServes
  <2>2. /\ waiters # <<>> /\ h = Head(waiters) /\ waiters' = Tail(waiters)
        /\ available' = available - grant
        /\ request[h].waiting /\ request[h].minimum <= available
        /\ grant = Share(request[h].minimum, request[h].desired)
        /\ request[h].granted = 0 /\ request' \in [Permits -> Request]
        /\ UNCHANGED capacity
    BY <2>1 DEF Serves, TypeOK
  <2>3. /\ request'[h].granted = grant /\ request'[h].waiting = FALSE
        /\ \A q \in Permits \ {h} : request'[q] = request[q]
    <3>1. request' = [request EXCEPT ![h].granted = grant, ![h].waiting = FALSE,
                                     ![h].waker = NoTask]
      BY <2>1 DEF Serves
    <3> QED BY <1>0, <3>1 DEF Request
  <2>4. claim[h] = [minimum |-> request[h].minimum, desired |-> request[h].desired]
    BY <2>2 DEF Claim
  <2>5. grant = Pool!Share(claim[h].minimum, claim[h].desired) /\ claim[h].minimum <= available
    BY <2>2, <2>4 DEF Share, Pool!Share
  <2>6. capacity[h] \in Nat /\ grant \in Nat
    BY <1>0
  <2>7. owned' = [owned EXCEPT ![h] = @ + grant]
    <3>1. \A q \in Permits : Held(q)' = IF q = h THEN Held(q) + grant ELSE Held(q)
      BY <2>2, <2>3, <2>6 DEF Held
    <3> QED BY <3>1
  <2>8. claim' = [claim EXCEPT ![h] = [minimum |-> 0, desired |-> 0]]
    <3>1. \A q \in Permits :
             Claim(q)' = IF q = h THEN [minimum |-> 0, desired |-> 0] ELSE Claim(q)
      BY <2>3 DEF Claim
    <3> QED BY <3>1
  <2>9. available \in Nat /\ request[h].minimum \in Nat
    BY <1>0 DEF TypeOK, Request
  <2> HIDE DEF owned, claim
  <2>10. Pool!Serve
    BY <2>2, <2>5, <2>7, <2>8, <2>9 DEF Pool!Serve, Pool!NoClaim, owned, claim
  <2> QED BY <2>10 DEF Pool!PoolNext
<1>5. CASE Unlock(p) \/ Wake(p)
  <2>1. UNCHANGED <<available, waiters, capacity, request>>
    BY <1>5 DEF Unlock, Wake, Awoken
  <2> QED BY <1>a, <2>1 DEF Held, Claim
<1> QED BY <1>1, <1>2, <1>3, <1>4, <1>5 DEF StepOf

(* The lock-and-queue implementation is a first-come-first-served pool:     *)
(* nobody overtakes the head of the queue, and no frame changes hands       *)
(* except from the pool to a permit and back.                               *)
THEOREM BudgetImplementsPool == BudgetSpec => ImplementsPool
<1>1. BudgetInit => Pool!PoolInit
  <2> SUFFICES ASSUME BudgetInit PROVE Pool!PoolInit
    OBVIOUS
  <2>1. /\ available = Total /\ waiters = <<>>
        /\ \A p \in Permits : Held(p) = 0 /\ Claim(p) = [minimum |-> 0, desired |-> 0]
    BY DEF BudgetInit, BudgetStart, Held, Claim, DefaultRequest
  <2> QED BY <2>1 DEF Pool!PoolInit, Pool!NoClaim
<1>2. IInv /\ IInv' /\ [BudgetNext]_budgetVars => [Pool!PoolNext]_Pool!poolVars
  <2>1. ASSUME IInv, IInv', BudgetNext PROVE Pool!PoolNext \/ UNCHANGED Pool!poolVars
    <3>1. PICK p \in Permits : StepOf(p)
      BY <2>1, StepCases
    <3>2. TypeOK'
      BY <2>1 DEF IInv
    <3> QED BY <2>1, <3>1, <3>2, PoolStep
  <2>2. ASSUME UNCHANGED budgetVars PROVE UNCHANGED Pool!poolVars
    BY <2>2 DEF budgetVars, Pool!poolVars, Held, Claim
  <2> QED BY <2>1, <2>2
<1> QED BY <1>1, <1>2, Invariance, PTL DEF BudgetSpec, ImplementsPool, Pool!PoolSpec

=============================================================================
