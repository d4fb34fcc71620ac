------------------------ MODULE SchedulerPermitProofs ------------------------
(***************************************************************************)
(* What a step of a scheduler's permit, or of the others on the budget,    *)
(* means for the scheduler: the budget's invariant holds on, and its own   *)
(* capacity changes only by its own calls.                                 *)
(***************************************************************************)
EXTENDS SchedulerPermit, FrameBudgetProofs

(* Positions that wrap, and cursors that go round a queue. *)
LEMMA WrapType ==
    ASSUME NEW m \in Nat \ {0}, NEW a \in Int
    PROVE  a % m \in 0..(m - 1) /\ a % m \in Nat
OBVIOUS

LEMMA WrapUnique ==
    ASSUME NEW m \in Nat \ {0}, NEW q1 \in Int, NEW q2 \in Int,
           NEW r1 \in 0..(m - 1), NEW r2 \in 0..(m - 1), q1 * m + r1 = q2 * m + r2
    PROVE  r1 = r2
<1>1. CASE q1 < q2
  <2>1. q2 - q1 >= 1 /\ (q2 - q1) * m = q2 * m - q1 * m
    BY <1>1
  <2>2. (q2 - q1) * m >= m
    BY <2>1
  <2> QED BY <2>1, <2>2
<1>2. CASE q2 < q1
  <2>1. q1 - q2 >= 1 /\ (q1 - q2) * m = q1 * m - q2 * m
    BY <1>2
  <2>2. (q1 - q2) * m >= m
    BY <2>1
  <2> QED BY <2>1, <2>2
<1> QED BY <1>1, <1>2

LEMMA WrapOf ==
    ASSUME NEW m \in Nat \ {0}, NEW a \in Int, NEW q \in Int, NEW r \in 0..(m - 1),
           a = q * m + r
    PROVE  a % m = r
<1>1. a = (a \div m) * m + (a % m) /\ (a \div m) \in Int /\ a % m \in 0..(m - 1)
  OBVIOUS
<1> QED BY <1>1, WrapUnique

LEMMA WrappedSum ==
    ASSUME NEW m \in Nat \ {0}, NEW a \in Nat, NEW c \in Nat
    PROVE  ((a % m) + c) % m = (a + c) % m
<1> DEFINE x == (a % m) + c
           q == a \div m
           p == x \div m
<1>1. a = q * m + (a % m) /\ q \in Int /\ a % m \in 0..(m - 1)
  OBVIOUS
<1>2. x = p * m + (x % m) /\ p \in Int /\ x % m \in 0..(m - 1) /\ x \in Nat
  BY <1>1
<1>3. (q + p) * m = q * m + p * m /\ q + p \in Int /\ q * m \in Int /\ p * m \in Int
  BY <1>1, <1>2
<1>4. a + c = q * m + x /\ a + c \in Int
  BY <1>1
<1> HIDE DEF x, q, p
<1>5. a + c = (q + p) * m + (x % m)
  BY <1>2, <1>3, <1>4
<1>6. (a + c) % m = x % m
  BY <1>2, <1>3, <1>4, <1>5, WrapOf
<1> QED BY <1>6 DEF x

(* More multiples are at least one more. *)
LEMMA MultiplesGrow ==
    ASSUME NEW a \in Nat, NEW n \in Nat, NEW m \in Nat, m < n
    PROVE  m * a + a <= n * a /\ (m + 1) * a = m * a + a
<1> DEFINE d == n - (m + 1)
<1>1. d \in Nat /\ n = (m + 1) + d
  OBVIOUS
<1> HIDE DEF d
<1>2. d * a \in Nat /\ n * a = (m + 1) * a + d * a /\ (m + 1) * a = m * a + a /\ m * a \in Nat
  BY <1>1
<1> QED BY <1>2

LEMMA FewerMultiples ==
    ASSUME NEW a \in Nat, NEW n \in Nat, NEW m \in Nat, m * a < n * a
    PROVE  m < n
<1>1. m * a \in Nat /\ n * a \in Nat
  OBVIOUS
<1>2. CASE n < m
  <2>1. n * a + a <= m * a
    BY <1>2, MultiplesGrow
  <2> QED BY <1>1, <2>1
<1>3. n # m
  BY <1>1
<1> QED BY <1>2, <1>3

(* From c on, n places are passed in a round, each of them once. *)
LEMMA TurnFacts ==
    ASSUME NEW n \in Nat \ {0}, NEW c \in Nat
    PROVE  /\ \A i \in 1..n : \E m \in 0..(n - 1) : i = ((c + m) % n) + 1
           /\ \A m \in Nat : (((((c % n) + 1) % n) + m) % n) + 1 = ((c + (m + 1)) % n) + 1
           /\ (c + n) % n = c % n
<1>1. ASSUME NEW i \in 1..n PROVE \E m \in 0..(n - 1) : i = ((c + m) % n) + 1
  <2> DEFINE x == i - 1 - c
             p == x \div n
             m == x % n
  <2>0. x \in Int
    OBVIOUS
  <2> HIDE DEF x
  <2>1. x = p * n + m /\ p \in Int /\ m \in 0..(n - 1)
    BY <2>0
  <2>2. (0 - p) * n = 0 - (p * n) /\ 0 - p \in Int /\ p * n \in Int
    <3>1. p \in Int /\ n \in Int
      BY <2>1
    <3> HIDE DEF p, m
    <3> QED BY <3>1
  <2> HIDE DEF p, m
  <2>3. c + m = ((0 - p) * n) + (i - 1) /\ c + m \in Int /\ i - 1 \in 0..(n - 1)
    BY <2>1, <2>2 DEF x
  <2>4. (c + m) % n = i - 1
    BY <2>2, <2>3, WrapOf
  <2>5. i = ((c + m) % n) + 1
    BY <2>4
  <2> QED BY <2>1, <2>5
<1>2. ASSUME NEW m \in Nat PROVE (((((c % n) + 1) % n) + m) % n) + 1 = ((c + (m + 1)) % n) + 1
  <2>1. c % n \in Nat
    BY WrapType
  <2> DEFINE d == (c % n) + 1
  <2>2. d \in Nat
    BY <2>1
  <2> HIDE DEF d
  <2>3. ((d % n) + m) % n = (d + m) % n
    BY <2>2, WrappedSum, Zenon
  <2>4. m + 1 \in Nat
    OBVIOUS
  <2>5. ((c % n) + (m + 1)) % n = (c + (m + 1)) % n
    BY <2>4, WrappedSum, Zenon
  <2>6. d + m = (c % n) + (m + 1)
    BY <2>1 DEF d
  <2> QED BY <2>3, <2>5, <2>6 DEF d
<1>3. (c + n) % n = c % n
  <2> DEFINE q == c \div n
             r == c % n
  <2>1. c = q * n + r /\ q \in Int /\ r \in 0..(n - 1)
    OBVIOUS
  <2> HIDE DEF q, r
  <2>2. (q + 1) * n = q * n + n /\ q + 1 \in Int /\ q * n \in Int
    BY <2>1
  <2>3. c + n = (q + 1) * n + r /\ c + n \in Int
    BY <2>1, <2>2
  <2>4. (c + n) % n = r
    BY <2>1, <2>2, <2>3, WrapOf
  <2> QED BY <2>4 DEF r
<1> QED BY <1>1, <1>2, <1>3

-----------------------------------------------------------------------------
(* What a scheduler sees of the budget: its permit, its grant, its request. *)
SelfReleased == request'[Self].granted = 0 /\ ~request'[Self].waiting

LEMMA SelfTypes ==
    ASSUME IInv
    PROVE  /\ Self \in Permits /\ Total \in Nat
           /\ capacity[Self] \in 0..Total /\ request[Self] \in Request /\ alive[Self] \in BOOLEAN
BY SelfAssumption, BudgetAssumption DEF IInv, TypeOK

(* shrink_to keeps what it is asked to, at most, and withdraws the request. *)
LEMMA ShrinkStep ==
    ASSUME IInv, NEW limit \in Nat, Shrink(limit)
    PROVE  /\ IInv' /\ BudgetNext /\ UNCHANGED alive
           /\ capacity'[Self] = Least(limit, capacity[Self])
           /\ SelfReleased
<1> DEFINE keep == IF limit < capacity[Self] THEN limit ELSE capacity[Self]
<1>1. /\ Self \in Permits /\ Total \in Nat /\ capacity[Self] \in 0..Total
      /\ capacity \in [Permits -> 0..Total] /\ request \in [Permits -> Request]
  BY SelfTypes DEF IInv, TypeOK
<1>2. keep \in Sizes /\ keep = Least(limit, capacity[Self])
      /\ keep = IF keep < capacity[Self] THEN keep ELSE capacity[Self]
  BY <1>1 DEF Sizes, Least
<1>3. GiveBack(Self, keep) /\ UNCHANGED alive
  BY DEF Shrink, ShrinkTo
<1> HIDE DEF keep
<1>4. ShrinkTo(Self, keep)
  BY <1>2, <1>3 DEF ShrinkTo
<1>5. BudgetNext
  BY <1>1, <1>2, <1>4 DEF BudgetNext
<1>6. capacity'[Self] = keep /\ SelfReleased
  BY <1>1, <1>3 DEF GiveBack, Request, SelfReleased
<1> QED BY <1>2, <1>3, <1>5, <1>6, Inductive

(* A dropped permit holds nothing and waits for nothing. *)
LEMMA DropStep ==
    ASSUME IInv, Drop(Self)
    PROVE  IInv' /\ BudgetNext /\ ~alive'[Self] /\ capacity'[Self] = 0 /\ SelfReleased
<1>1. /\ Self \in Permits /\ alive \in [Permits -> BOOLEAN]
      /\ capacity \in [Permits -> 0..Total] /\ request \in [Permits -> Request]
  BY SelfTypes DEF IInv, TypeOK
<1>2. BudgetNext
  BY <1>1 DEF BudgetNext
<1>3. ~alive'[Self] /\ capacity'[Self] = 0 /\ SelfReleased
  BY <1>1 DEF Drop, GiveBack, Request, SelfReleased
<1> QED BY <1>2, <1>3, Inductive

(* poll_grow takes nothing away, and nothing beyond the budget. *)
LEMMA GrowStep ==
    ASSUME IInv, NEW t \in Tasks, NEW minimum \in Nat, NEW desired \in Nat,
           PollGrow(Self, t, minimum, desired)
    PROVE  /\ IInv' /\ BudgetNext /\ UNCHANGED alive
           /\ capacity'[Self] \in capacity[Self]..Total
<1>1. /\ Self \in Permits /\ Total \in Nat /\ capacity[Self] \in 0..Total
      /\ capacity \in [Permits -> 0..Total] /\ request \in [Permits -> Request]
  BY SelfTypes DEF IInv, TypeOK
<1>r. request[Self].granted \in Nat
  BY <1>1, SelfTypes DEF Request
<1>2. minimum \in Sizes /\ desired \in Sizes
  BY <1>1 DEF PollGrow, Sizes
<1>3. BudgetNext
  BY <1>1, <1>2 DEF BudgetNext
<1>4. IInv'
  BY <1>3, Inductive
<1>5. capacity'[Self] \in 0..Total
  BY <1>4, <1>1 DEF IInv, TypeOK
<1>6. UNCHANGED alive
  BY DEF PollGrow, GrowSatisfied, GrowClaimed, GrowRepeated, GrowImmediate, GrowQueued
<1>7. capacity'[Self] >= capacity[Self]
  <2>1. CASE GrowSatisfied(Self, minimum)
    BY <1>1, <2>1 DEF GrowSatisfied
  <2>2. CASE GrowClaimed(Self, minimum) \/ GrowRepeated(Self, t, minimum)
             \/ GrowQueued(Self, t, minimum, desired)
    <3>1. capacity'[Self] = Held(Self)
      BY <1>1, <2>2 DEF GrowClaimed, GrowRepeated, GrowQueued
    <3> QED BY <1>1, <1>r, <3>1 DEF Held
  <2>3. CASE GrowImmediate(Self, minimum, desired)
    <3> DEFINE grant == Share(minimum - Held(Self), desired - Held(Self))
    <3>1. capacity'[Self] = Held(Self) + grant
      BY <1>1, <2>3 DEF GrowImmediate
    <3>2. grant \in Nat
      BY <1>1, <1>r, <1>2, <2>3 DEF GrowImmediate, PollGrow, Share, Held
    <3> HIDE DEF grant
    <3> QED BY <1>1, <1>r, <3>1, <3>2 DEF Held
  <2> QED BY <2>1, <2>2, <2>3 DEF PollGrow
<1> QED BY <1>1, <1>3, <1>4, <1>5, <1>6, <1>7

(* The others, and the threads in shrink_to, leave the scheduler's capacity *)
(* alone; they grant it frames only while it waits.                         *)
LEMMA OthersStep ==
    ASSUME IInv, NEW p \in Permits,
           \/ Dispatch(p) \/ Unlock(p) \/ Wake(p)
           \/ p \in Rivals /\ (RivalAsks(p) \/ RivalReturns(p))
    PROVE  /\ IInv' /\ BudgetNext /\ UNCHANGED alive
           /\ capacity'[Self] = capacity[Self]
           /\ ~request[Self].waiting => request'[Self] = request[Self]
<1>1. /\ Self \in Permits /\ Total \in Nat
      /\ capacity \in [Permits -> 0..Total] /\ request \in [Permits -> Request]
  BY SelfTypes DEF IInv, TypeOK
<1>2. CASE Dispatch(p)
  <2>1. BudgetNext
    BY <1>2 DEF BudgetNext, Internal
  <2>2. PICK h \in Permits, grant \in 0..Total : Serves(p, h, grant)
    BY <1>2, DispatchServes
  <2>3. request[h].waiting /\ UNCHANGED <<alive, capacity>>
        /\ request' = [request EXCEPT ![h].granted = grant, ![h].waiting = FALSE,
                                      ![h].waker = NoTask]
    BY <2>2 DEF Serves
  <2> QED BY <1>1, <2>1, <2>3, Inductive
<1>3. CASE Unlock(p) \/ Wake(p)
  <2>1. BudgetNext
    BY <1>3 DEF BudgetNext, Internal
  <2> QED BY <1>3, <2>1, Inductive DEF Unlock, Wake
<1>4. CASE p \in Rivals /\ RivalAsks(p)
  <2>1. PICK size \in RivalSizes : PollGrow(p, Rival, size, size)
    BY <1>4 DEF RivalAsks
  <2>2. size \in Sizes /\ Rival \in Tasks /\ p # Self
    BY <1>1, <1>4, RivalAssumption DEF Sizes, Rivals
  <2>3. BudgetNext
    BY <2>1, <2>2 DEF BudgetNext
  <2>4. UNCHANGED alive /\ capacity'[Self] = capacity[Self] /\ request'[Self] = request[Self]
    BY <1>1, <2>1, <2>2 DEF PollGrow, GrowSatisfied, GrowClaimed, GrowRepeated, GrowImmediate,
                            GrowQueued
  <2> QED BY <2>3, <2>4, Inductive
<1>5. CASE p \in Rivals /\ RivalReturns(p)
  <2>1. 0 \in Sizes /\ ShrinkTo(p, 0) /\ p # Self
    BY <1>1, <1>5 DEF RivalReturns, Sizes, Rivals
  <2>2. BudgetNext
    BY <2>1 DEF BudgetNext
  <2>3. UNCHANGED alive /\ capacity'[Self] = capacity[Self] /\ request'[Self] = request[Self]
    BY <1>1, <2>1 DEF ShrinkTo, GiveBack
  <2> QED BY <2>2, <2>3, Inductive
<1> QED BY <1>2, <1>3, <1>4, <1>5

(* A step that does not touch the budget. *)
LEMMA BudgetStays ==
    ASSUME IInv, UNCHANGED budgetVars
    PROVE  IInv' /\ UNCHANGED alive /\ capacity'[Self] = capacity[Self]
           /\ request'[Self] = request[Self]
BY Inductive DEF budgetVars

(* poll_grow that gets too little leaves its task in the queue. *)
LEMMA GrowAsks ==
    ASSUME IInv, NEW t \in Tasks, NEW minimum \in Nat, NEW desired \in Nat,
           PollGrow(Self, t, minimum, desired), capacity'[Self] < minimum
    PROVE  parked'[Self] = t
<1>1. /\ Self \in Permits /\ Total \in Nat /\ capacity[Self] \in 0..Total
      /\ capacity \in [Permits -> 0..Total] /\ request \in [Permits -> Request]
      /\ parked \in [Permits -> Tasks \cup {NoTask}]
  BY SelfTypes DEF IInv, TypeOK
<1>2. Held(Self) \in Nat
  BY <1>1, SelfTypes DEF Held, Request
<1>3. CASE GrowSatisfied(Self, minimum)
  BY <1>1, <1>3 DEF GrowSatisfied
<1>4. CASE GrowClaimed(Self, minimum)
  BY <1>1, <1>2, <1>4 DEF GrowClaimed
<1>5. CASE GrowImmediate(Self, minimum, desired)
  <2> DEFINE grant == Share(minimum - Held(Self), desired - Held(Self))
  <2>1. capacity'[Self] = Held(Self) + grant
    BY <1>1, <1>5 DEF GrowImmediate
  <2>2. grant \in Int /\ grant >= minimum - Held(Self)
    BY <1>2 DEF Share, PollGrow
  <2> HIDE DEF grant
  <2> QED BY <1>2, <2>1, <2>2
<1>6. CASE GrowRepeated(Self, t, minimum) \/ GrowQueued(Self, t, minimum, desired)
  BY <1>1, <1>6 DEF GrowRepeated, GrowQueued
<1> QED BY <1>3, <1>4, <1>5, <1>6 DEF PollGrow

(* Only a wake-up ends the sleep of the scheduler's task. *)
LEMMA OthersPark ==
    ASSUME IInv, NEW p \in Permits,
           \/ Dispatch(p) \/ Unlock(p)
           \/ p \in Rivals /\ (RivalAsks(p) \/ RivalReturns(p))
    PROVE  parked'[Self] = parked[Self]
<1>1. Self \in Permits /\ parked \in [Permits -> Tasks \cup {NoTask}]
  BY SelfTypes DEF IInv, TypeOK
<1>2. CASE Dispatch(p) \/ Unlock(p)
  BY <1>2 DEF Dispatch, Unlock
<1>3. CASE p \in Rivals /\ RivalAsks(p)
  <2>1. PICK size \in RivalSizes : PollGrow(p, Rival, size, size)
    BY <1>3 DEF RivalAsks
  <2>2. p # Self
    BY <1>3 DEF Rivals
  <2> QED BY <1>1, <2>1, <2>2 DEF PollGrow, GrowSatisfied, GrowClaimed, GrowRepeated,
                                  GrowImmediate, GrowQueued
<1>4. CASE p \in Rivals /\ RivalReturns(p)
  BY <1>1, <1>4 DEF RivalReturns, ShrinkTo, GiveBack, Rivals
<1> QED BY <1>2, <1>3, <1>4

(* A scheduler's own step changes the budget through its own permit alone:  *)
(* whoever shares the budget keeps the grant and the request it had.        *)
OwnUse(task) ==
    \/ UNCHANGED budgetVars
    \/ \E limit \in Nat : Shrink(limit)
    \/ \E minimum, desired \in Nat : PollGrow(Self, task, minimum, desired)

LEMMA OwnStep ==
    ASSUME IInv, NEW t \in Tasks, OwnUse(t)
    PROVE  /\ IInv' /\ [BudgetNext]_budgetVars /\ UNCHANGED alive
           /\ \A p \in Permits \ {Self} : capacity'[p] = capacity[p] /\ request'[p] = request[p]
<1>1. /\ Self \in Permits /\ capacity \in [Permits -> 0..Total]
      /\ request \in [Permits -> Request]
  BY SelfTypes DEF IInv, TypeOK
<1>2. CASE UNCHANGED budgetVars
  BY <1>2, BudgetStays DEF budgetVars
<1>3. CASE \E limit \in Nat : Shrink(limit)
  <2>1. PICK limit \in Nat : Shrink(limit)
    BY <1>3
  <2>2. IInv' /\ BudgetNext /\ UNCHANGED alive
    BY <2>1, ShrinkStep
  <2>3. \A p \in Permits \ {Self} : capacity'[p] = capacity[p] /\ request'[p] = request[p]
    BY <1>1, <2>1 DEF Shrink, ShrinkTo, GiveBack
  <2> QED BY <2>2, <2>3
<1>4. CASE \E minimum, desired \in Nat : PollGrow(Self, t, minimum, desired)
  <2>1. PICK minimum, desired \in Nat : PollGrow(Self, t, minimum, desired)
    BY <1>4
  <2>2. IInv' /\ BudgetNext /\ UNCHANGED alive
    BY <2>1, GrowStep
  <2>3. \A p \in Permits \ {Self} : capacity'[p] = capacity[p] /\ request'[p] = request[p]
    BY <1>1, <2>1 DEF PollGrow, GrowSatisfied, GrowClaimed, GrowRepeated, GrowImmediate,
                      GrowQueued
  <2> QED BY <2>2, <2>3
<1> QED BY <1>2, <1>3, <1>4 DEF OwnUse

-----------------------------------------------------------------------------
(* What the permit can come to hold by the request it has made. *)
Reach == Held(Self) + (IF request[Self].waiting THEN request[Self].desired ELSE 0)

LEMMA ReachType ==
    ASSUME IInv
    PROVE  /\ Reach \in Nat /\ capacity[Self] \in Nat /\ Held(Self) \in Nat
           /\ capacity[Self] <= Held(Self) /\ Held(Self) <= Reach
           /\ request[Self].waiting => /\ Held(Self) = capacity[Self]
                                       /\ request[Self].minimum \in Nat \ {0}
                                       /\ Held(Self) + request[Self].minimum <= Reach
<1>1. /\ capacity[Self] \in 0..Total /\ request[Self] \in Request /\ Total \in Nat
      /\ Self \in Permits /\ RequestShape
  BY SelfTypes DEF IInv
<1>2. /\ request[Self].granted \in Nat /\ request[Self].desired \in Nat
      /\ request[Self].minimum \in Nat /\ request[Self].waiting \in BOOLEAN
  BY <1>1 DEF Request
<1>3. request[Self].waiting => /\ request[Self].granted = 0 /\ 1 <= request[Self].minimum
                               /\ request[Self].minimum <= request[Self].desired
  BY <1>1 DEF RequestShape
<1> QED BY <1>1, <1>2, <1>3 DEF Reach, Held

LEMMA ReachLater == IInv' => (Reach \in Nat)'
<1>1. IInv => Reach \in Nat
  BY ReachType
<1> QED BY <1>1, PTL

LEMMA AskedLater ==
    IInv' => (capacity[Self] \in Nat /\ (request[Self].waiting => request[Self].minimum \in Nat))'
<1>1. IInv => capacity[Self] \in Nat /\ (request[Self].waiting => request[Self].minimum \in Nat)
  BY ReachType
<1> QED BY <1>1, PTL

LEMMA ShrinkReach ==
    ASSUME IInv, NEW limit \in Nat, Shrink(limit)
    PROVE  /\ Reach' = Least(limit, capacity[Self])
           /\ ~request'[Self].waiting
<1>1. IInv' /\ capacity'[Self] = Least(limit, capacity[Self]) /\ SelfReleased
  BY ShrinkStep
<1>2. capacity'[Self] \in Nat
  BY <1>1, SelfTypes DEF Least
<1> QED BY <1>1, <1>2 DEF Reach, Held, SelfReleased

(* poll_grow asks for no more than it prefers; a request that waits after   *)
(* it is the one that waited before, or asks for just what is missing.      *)
LEMMA GrowReach ==
    ASSUME IInv, NEW t \in Tasks, NEW minimum \in Nat, NEW desired \in Nat,
           PollGrow(Self, t, minimum, desired)
    PROVE  /\ Reach' <= Reach \/ Reach' <= desired
           /\ request'[Self].waiting =>
                 \/ /\ request[Self].waiting /\ capacity'[Self] = capacity[Self]
                    /\ request'[Self].minimum = request[Self].minimum
                 \/ /\ ~request[Self].waiting /\ capacity[Self] <= capacity'[Self]
                    /\ capacity'[Self] + request'[Self].minimum = minimum
<1>1. /\ Self \in Permits /\ capacity \in [Permits -> 0..Total] /\ Total \in Nat
      /\ request \in [Permits -> Request] /\ RequestShape
      /\ Reach \in Nat /\ Held(Self) \in Nat /\ minimum <= desired
      /\ capacity[Self] <= Held(Self) /\ Held(Self) <= Reach
  BY SelfTypes, ReachType DEF IInv, TypeOK, PollGrow
<1>2. /\ request[Self].granted \in Nat /\ request[Self].desired \in Nat
      /\ request[Self].minimum \in Nat /\ request[Self].waiting \in BOOLEAN
      /\ request[Self].waiting => request[Self].granted = 0
  BY <1>1 DEF Request, RequestShape
<1>3. CASE GrowSatisfied(Self, minimum)
  BY <1>1, <1>3 DEF GrowSatisfied, Reach, Held
<1>4. CASE GrowClaimed(Self, minimum)
  <2>1. /\ capacity'[Self] = Held(Self) /\ request' = [request EXCEPT ![Self].granted = 0]
        /\ Held(Self) >= minimum /\ capacity[Self] < minimum
    BY <1>1, <1>4 DEF GrowClaimed, GrowLocked
  <2>2. ~request[Self].waiting
    BY <1>1, <1>2, <2>1 DEF Held
  <2>3. request'[Self].granted = 0 /\ ~request'[Self].waiting
    BY <1>1, <2>1, <2>2 DEF Request
  <2>4. Held(Self)' = Held(Self)
    BY <1>1, <2>1, <2>3 DEF Held
  <2> QED BY <1>1, <2>2, <2>3, <2>4 DEF Reach
<1>5. CASE GrowRepeated(Self, t, minimum)
  <2>1. /\ capacity'[Self] = Held(Self) /\ request[Self].waiting
        /\ request' = [request EXCEPT ![Self].granted = 0, ![Self].waker = NewestWaker(Self, t)]
    BY <1>1, <1>5 DEF GrowRepeated
  <2>2. Held(Self) = capacity[Self]
    BY <1>1, <1>2, <2>1 DEF Held
  <2>3. /\ request'[Self].granted = 0 /\ request'[Self].waiting
        /\ request'[Self].desired = request[Self].desired
        /\ request'[Self].minimum = request[Self].minimum
    BY <1>1, <2>1 DEF Request
  <2>4. Held(Self)' = Held(Self)
    BY <1>1, <2>1, <2>3 DEF Held
  <2> QED BY <1>1, <2>1, <2>2, <2>3, <2>4 DEF Reach
<1>6. CASE GrowImmediate(Self, minimum, desired)
  <2> DEFINE grant == Share(minimum - Held(Self), desired - Held(Self))
  <2>1. /\ capacity'[Self] = Held(Self) + grant /\ ~request[Self].waiting
        /\ request' = [request EXCEPT ![Self].granted = 0] /\ Held(Self) < minimum
    BY <1>1, <1>6 DEF GrowImmediate
  <2>2. grant \in Int /\ Held(Self) + grant <= desired
    BY <1>1 DEF Share
  <2> HIDE DEF grant
  <2>3. request'[Self].granted = 0 /\ ~request'[Self].waiting
    BY <1>1, <2>1 DEF Request
  <2>4. Held(Self)' = Held(Self) + grant
    BY <1>1, <2>1, <2>2, <2>3 DEF Held
  <2>5. Held(Self)' \in Int
    BY <1>1, <2>2, <2>4
  <2> QED BY <1>1, <2>2, <2>3, <2>4, <2>5 DEF Reach
<1>7. CASE GrowQueued(Self, t, minimum, desired)
  <2>1. /\ capacity'[Self] = Held(Self) /\ ~request[Self].waiting
        /\ request'[Self] = [minimum |-> minimum - Held(Self), desired |-> desired - Held(Self),
                             granted |-> 0, waiting |-> TRUE, waker |-> t]
    BY <1>1, <1>7 DEF GrowQueued
  <2>2. Held(Self)' = Held(Self)
    BY <1>1, <2>1 DEF Held
  <2>3. Reach' = desired
    BY <1>1, <2>1, <2>2 DEF Reach
  <2> QED BY <1>1, <2>1, <2>3
<1> QED BY <1>3, <1>4, <1>5, <1>6, <1>7 DEF PollGrow

(* Dispatch grants no more than was asked for. *)
LEMMA ThreadReach ==
    ASSUME IInv, NEW p \in Permits, Dispatch(p) \/ Unlock(p) \/ Wake(p)
    PROVE  /\ Reach' <= Reach /\ capacity'[Self] = capacity[Self]
           /\ request'[Self].waiting => request'[Self] = request[Self]
<1>1. /\ Self \in Permits /\ capacity \in [Permits -> 0..Total] /\ Total \in Nat
      /\ request \in [Permits -> Request] /\ waiters \in Seq(Permits)
      /\ Reach \in Nat /\ Held(Self) \in Nat /\ RequestShape
  BY SelfTypes, ReachType DEF IInv, TypeOK
<1>2. capacity'[Self] = capacity[Self]
  BY <1>1 DEF Dispatch, Unlock, Wake
<1>3. CASE request'[Self] = request[Self]
  BY <1>1, <1>2, <1>3 DEF Reach, Held
<1>4. CASE request'[Self] # request[Self]
  <2> DEFINE h == Head(waiters)
             grant == Share(request[h].minimum, request[h].desired)
  <2>1. /\ ~Stale(h)
        /\ request' = [request EXCEPT ![h].granted = grant, ![h].waiting = FALSE,
                                      ![h].waker = NoTask]
    BY <1>4 DEF Dispatch, Unlock, Wake
  <2> HIDE DEF h
  <2>2. h = Self
    BY <1>1, <1>4, <2>1
  <2>3. /\ request[Self].waiting /\ request[Self].minimum \in Nat /\ request[Self].desired \in Nat
        /\ request[Self].minimum <= request[Self].desired /\ request[Self].granted = 0
    BY <1>1, <2>1, <2>2 DEF Stale, Request, RequestShape
  <2>4. grant \in Nat /\ grant <= request[Self].desired
    BY <2>2, <2>3 DEF Share
  <2> HIDE DEF grant
  <2>5. request'[Self].granted = grant /\ ~request'[Self].waiting
    BY <1>1, <2>1, <2>2 DEF Request
  <2>6. Reach' = capacity[Self] + grant /\ Reach = capacity[Self] + request[Self].desired
    BY <1>1, <1>2, <2>3, <2>4, <2>5 DEF Reach, Held
  <2> QED BY <1>1, <1>2, <2>3, <2>4, <2>5, <2>6
<1> QED BY <1>2, <1>3, <1>4

(* A scheduler puts nobody else to sleep, and wakes nobody. *)
LEMMA OwnPark ==
    ASSUME IInv, NEW t \in Tasks, OwnUse(t)
    PROVE  \A p \in Permits \ {Self} : parked'[p] = parked[p]
<1>1. Self \in Permits /\ parked \in [Permits -> Tasks \cup {NoTask}]
  BY SelfTypes DEF IInv, TypeOK
<1>2. CASE UNCHANGED budgetVars
  BY <1>2 DEF budgetVars
<1>3. CASE \E limit \in Nat : Shrink(limit)
  BY <1>1, <1>3 DEF Shrink, ShrinkTo, GiveBack
<1>4. CASE \E minimum, desired \in Nat : PollGrow(Self, t, minimum, desired)
  BY <1>1, <1>4 DEF PollGrow, GrowSatisfied, GrowClaimed, GrowRepeated, GrowImmediate, GrowQueued
<1> QED BY <1>2, <1>3, <1>4 DEF OwnUse

=============================================================================
