---------------------------- MODULE FrameBudget ----------------------------
(***************************************************************************)
(* The shared frame budget (src/src/budget.rs): one mutex-protected pool   *)
(* of frames, the permits that hold parts of it, and the FIFO queue of the *)
(* permits that wait for more.                                             *)
(*                                                                         *)
(* A permit is used by one thread at a time (its methods take &mut self),  *)
(* different permits by different threads.  A critical section is one      *)
(* step, except that of shrink_to: there every iteration of dispatch is a  *)
(* step under the lock, and the collected wakers are woken one by one      *)
(* after the lock is released, while other threads already run.            *)
(***************************************************************************)
EXTENDS Naturals, Sequences

CONSTANTS PermitCount,  \* how many permits may exist at the same time
          Total,        \* FrameBudget::total
          Tasks,        \* the tasks whose wakers are registered
          NoTask        \* no waker

ASSUME BudgetAssumption ==
    /\ PermitCount \in Nat \ {0}
    /\ Total \in Nat
    /\ NoTask \notin Tasks

Permits == 1..PermitCount
Free == 0               \* nobody holds the mutex

VARIABLES available,    \* State::available
          waiters,      \* State::waiters
          lock,         \* the permit whose thread is inside dispatch, or Free
          alive,        \* the FramePermits that exist
          capacity,     \* FramePermit::capacity
          request,      \* FramePermit::request, shared with the queue
          wakes,        \* per permit: wakers dispatch returned, not yet woken
          parked        \* per permit: the task its last Pending left asleep

budgetVars == <<available, waiters, lock, alive, capacity, request, wakes, parked>>

Request == [minimum: 0..Total, desired: 0..Total, granted: 0..Total,
            waiting: BOOLEAN, waker: Tasks \cup {NoTask}]

DefaultRequest == [minimum |-> 0, desired |-> 0, granted |-> 0,
                   waiting |-> FALSE, waker |-> NoTask]

(* All frames are free; the permits in `issued` exist. *)
BudgetStart(issued) ==
    /\ available = Total
    /\ waiters = <<>>
    /\ lock = Free
    /\ alive = [p \in Permits |-> p \in issued]
    /\ capacity = [p \in Permits |-> 0]
    /\ request = [p \in Permits |-> DefaultRequest]
    /\ wakes = [p \in Permits |-> <<>>]
    /\ parked = [p \in Permits |-> NoTask]

BudgetInit == \E issued \in SUBSET Permits : BudgetStart(issued)

-----------------------------------------------------------------------------
(* What a permit owns: the grant it knows of and the one it has yet to collect. *)
Held(p) == capacity[p] + request[p].granted

(* The share of a request: what it prefers if that is free, else what it needs. *)
GreedyShare(minimum, desired) == desired        \* mutant: free or not
Share(minimum, desired) == IF available >= desired THEN desired ELSE minimum

(* A request may bypass the queue only while nobody waits. *)
BargeIn(need) == available >= need              \* mutant: served past the queue
ServedAtOnce(need) == waiters = <<>> /\ available >= need

(* The waker that is kept when task t polls again. *)
\* mutant: the first waker stays
OldestWaker(p, t) == IF request[p].waker = NoTask THEN t ELSE request[p].waker
NewestWaker(p, t) == IF request[p].waker = t THEN request[p].waker ELSE t

(* What a permit that keeps `keep` frames returns: an uncollected grant too. *)
RefundCollected(p, keep) == capacity[p] - keep  \* mutant: the uncollected grant is lost
Refund(p, keep) == request[p].granted + (capacity[p] - keep)

(* The entries of q in their order, without p.  retain removes every entry  *)
(* of p; QueueIsWaiting says that there is never more than one.             *)
LeftInQueue(q, p) == q                          \* mutant: a withdrawn request stays
Without(q, p) ==
    IF \E i \in DOMAIN q : q[i] = p
    THEN LET k == CHOOSE i \in DOMAIN q : q[i] = p
         IN  [j \in 1..(Len(q) - 1) |-> IF j < k THEN q[j] ELSE q[j + 1]]
    ELSE q

(* The owner of p is not inside another call on p. *)
Callable(p) == alive[p] /\ lock # p /\ wakes[p] = <<>>

(* FrameBudget::permit. *)
Permit(p) ==
    /\ ~alive[p] /\ lock # p /\ wakes[p] = <<>>
    /\ alive' = [alive EXCEPT ![p] = TRUE]
    /\ capacity' = [capacity EXCEPT ![p] = 0]
    /\ request' = [request EXCEPT ![p] = DefaultRequest]
    /\ UNCHANGED <<available, waiters, lock, wakes, parked>>

(***************************************************************************)
(* poll_grow(minimum, desired) by task t; an invalid request has no effect *)
(* and is left out.  GrowSatisfied returns before taking the lock.         *)
(***************************************************************************)
GrowSatisfied(p, minimum) ==
    /\ Callable(p) /\ capacity[p] >= minimum
    /\ parked' = [parked EXCEPT ![p] = NoTask]
    /\ UNCHANGED <<available, waiters, lock, alive, capacity, request, wakes>>

GrowLocked(p, minimum) == Callable(p) /\ lock = Free /\ capacity[p] < minimum

(* The grant that dispatch reserved earlier is enough. *)
GrowClaimed(p, minimum) ==
    /\ GrowLocked(p, minimum) /\ Held(p) >= minimum
    /\ capacity' = [capacity EXCEPT ![p] = Held(p)]
    /\ request' = [request EXCEPT ![p].granted = 0]
    /\ parked' = [parked EXCEPT ![p] = NoTask]
    /\ UNCHANGED <<available, waiters, lock, alive, wakes>>

(* Still queued: keep the place, register the waker of the polling task. *)
GrowRepeated(p, t, minimum) ==
    /\ GrowLocked(p, minimum) /\ Held(p) < minimum
    /\ request[p].waiting
    /\ capacity' = [capacity EXCEPT ![p] = Held(p)]
    /\ request' = [request EXCEPT ![p].granted = 0, ![p].waker = NewestWaker(p, t)]
    /\ parked' = [parked EXCEPT ![p] = t]
    /\ UNCHANGED <<available, waiters, lock, alive, wakes>>

GrowImmediate(p, minimum, desired) ==
    /\ GrowLocked(p, minimum) /\ Held(p) < minimum
    /\ ~request[p].waiting
    /\ ServedAtOnce(minimum - Held(p))
    /\ LET grant == Share(minimum - Held(p), desired - Held(p))
       IN  /\ capacity' = [capacity EXCEPT ![p] = Held(p) + grant]
           /\ available' = available - grant
    /\ request' = [request EXCEPT ![p].granted = 0]
    /\ parked' = [parked EXCEPT ![p] = NoTask]
    /\ UNCHANGED <<waiters, lock, alive, wakes>>

GrowQueued(p, t, minimum, desired) ==
    /\ GrowLocked(p, minimum) /\ Held(p) < minimum
    /\ ~request[p].waiting
    /\ ~ServedAtOnce(minimum - Held(p))
    /\ capacity' = [capacity EXCEPT ![p] = Held(p)]
    /\ request' = [request EXCEPT
                     ![p] = [minimum |-> minimum - Held(p),
                             desired |-> desired - Held(p),
                             granted |-> 0, waiting |-> TRUE, waker |-> t]]
    /\ waiters' = Append(waiters, p)
    /\ parked' = [parked EXCEPT ![p] = t]
    /\ UNCHANGED <<available, lock, alive, wakes>>

PollGrow(p, t, minimum, desired) ==
    /\ minimum <= desired /\ desired <= Total
    /\ \/ GrowSatisfied(p, minimum)
       \/ GrowClaimed(p, minimum)
       \/ GrowRepeated(p, t, minimum)
       \/ GrowImmediate(p, minimum, desired)
       \/ GrowQueued(p, t, minimum, desired)

-----------------------------------------------------------------------------
(* shrink_to up to dispatch: give back, cancel, leave the queue. *)
GiveBack(p, keep) ==
    /\ Callable(p) /\ lock = Free
    /\ available' = available + Refund(p, keep)
    /\ capacity' = [capacity EXCEPT ![p] = keep]
    /\ request' = [request EXCEPT ![p].granted = 0, ![p].waiting = FALSE,
                                  ![p].waker = NoTask]
    /\ waiters' = Without(waiters, p)
    /\ lock' = p
    /\ parked' = [parked EXCEPT ![p] = NoTask]
    /\ UNCHANGED wakes

ShrinkTo(p, limit) ==
    /\ GiveBack(p, IF limit < capacity[p] THEN limit ELSE capacity[p])
    /\ UNCHANGED alive

Drop(p) ==
    /\ GiveBack(p, 0)
    /\ alive' = [alive EXCEPT ![p] = FALSE]

(* A head whose permit is gone or no longer waits. *)
Stale(h) == ~alive[h] \/ ~request[h].waiting

(* The loop of dispatch goes on: the head is stale, or its request fits. *)
TightFit(h) == available > request[h].minimum   \* mutant: an exact fit waits
Fits(h) == available >= request[h].minimum
HeadServable == waiters # <<>> /\ (Stale(Head(waiters)) \/ Fits(Head(waiters)))

(* One iteration of the loop in State::dispatch, run by the thread of p. *)
Dispatch(p) ==
    /\ lock = p /\ HeadServable
    /\ waiters' = Tail(waiters)
    /\ LET h == Head(waiters)
           r == request[h]
           grant == Share(r.minimum, r.desired)
       IN  IF Stale(h)
           THEN UNCHANGED <<available, request, wakes>>
           ELSE /\ available' = available - grant
                /\ request' = [request EXCEPT ![h].granted = grant,
                                              ![h].waiting = FALSE,
                                              ![h].waker = NoTask]
                /\ wakes' = IF r.waker = NoTask THEN wakes
                            ELSE [wakes EXCEPT ![p] = Append(@, r.waker)]
    /\ UNCHANGED <<lock, alive, capacity, parked>>

(* dispatch breaks out of its loop and shrink_to unlocks. *)
Unlock(p) ==
    /\ lock = p /\ ~HeadServable
    /\ lock' = Free
    /\ UNCHANGED <<available, waiters, alive, capacity, request, wakes, parked>>

Asleep(task) == parked                          \* mutant: the waker is dropped
Awoken(task) == [q \in Permits |-> IF parked[q] = task THEN NoTask ELSE parked[q]]

(* Waker::wake for the next collected waker: its task is runnable again. *)
Wake(p) ==
    /\ lock # p /\ wakes[p] # <<>>
    /\ wakes' = [wakes EXCEPT ![p] = Tail(@)]
    /\ parked' = Awoken(Head(wakes[p]))
    /\ UNCHANGED <<available, waiters, lock, alive, capacity, request>>

(* What the thread of p does on its own once a shrink_to or drop has begun. *)
Internal(p) == Dispatch(p) \/ Unlock(p) \/ Wake(p)

Sizes == 0..Total

BudgetNext ==
    \E p \in Permits :
        \/ Permit(p)
        \/ \E t \in Tasks, minimum, desired \in Sizes : PollGrow(p, t, minimum, desired)
        \/ \E limit \in Sizes : ShrinkTo(p, limit)
        \/ Drop(p)
        \/ Internal(p)

BudgetSpec == BudgetInit /\ [][BudgetNext]_budgetVars

-----------------------------------------------------------------------------
(* Every variable ranges over what its Rust type and the budget's size allow. *)
TypeOK ==
    /\ available \in 0..Total
    /\ waiters \in Seq(Permits)
    /\ lock \in Permits \cup {Free}
    /\ alive \in [Permits -> BOOLEAN]
    /\ capacity \in [Permits -> 0..Total]
    /\ request \in [Permits -> Request]
    /\ wakes \in [Permits -> Seq(Tasks)]
    /\ parked \in [Permits -> Tasks \cup {NoTask}]

(* s is the running total of what the permits 1, 2, ... own. *)
RunningTotal(s) ==
    /\ s[0] = 0
    /\ \A p \in Permits : s[p] = s[p - 1] + Held(p)

(* No frame is created or lost by grants, claims, cancellations and drops:  *)
(* the free frames and those the permits own always add up to the total.    *)
Conservation ==
    \E s \in [0..PermitCount -> 0..Total] :
        RunningTotal(s) /\ available + s[PermitCount] = Total

(* The queue holds exactly the live permits whose request waits, each once: *)
(* no cancelled, dropped, served or re-queued permit leaves an entry behind. *)
QueueIsWaiting ==
    /\ \A i, j \in DOMAIN waiters : waiters[i] = waiters[j] => i = j
    /\ \A p \in Permits :
          (\E i \in DOMAIN waiters : waiters[i] = p) <=> (alive[p] /\ request[p].waiting)

(* Whenever the lock is free, the waiter at the head is one the free frames *)
(* cannot serve: no step gives frames back without serving whom it can.     *)
HeadIsBlocked ==
    lock = Free /\ waiters # <<>> => available < request[Head(waiters)].minimum

(* A task left asleep by poll_grow has its waker in the request that waits, *)
(* or among the wakers a shrink_to has collected and will still wake: a     *)
(* grant, a cancellation of others or a changed waker never strands it.     *)
NoLostWakeup ==
    \A p \in Permits : parked[p] # NoTask =>
        \/ alive[p] /\ request[p].waiting /\ request[p].waker = parked[p]
        \/ \E q \in Permits : \E i \in DOMAIN wakes[q] : wakes[q][i] = parked[p]

-----------------------------------------------------------------------------
(* The claim of a permit in the abstract pool: the request while it waits. *)
Claim(p) == IF request[p].waiting
            THEN [minimum |-> request[p].minimum, desired |-> request[p].desired]
            ELSE [minimum |-> 0, desired |-> 0]

Pool == INSTANCE CapacityPool WITH
            free <- available,
            owned <- [p \in Permits |-> Held(p)],
            queue <- waiters,
            claim <- [p \in Permits |-> Claim(p)]

(* The budget behaves as the first-come-first-served pool: capacity moves   *)
(* only from the pool to the head of the queue, to a newcomer while nobody  *)
(* waits, or back from its owner; no poll takes a reserved grant.           *)
ImplementsPool == Pool!PoolSpec

=============================================================================
