---------------------------- MODULE MCFrameBudget ----------------------------
(* FrameBudget checked on three permits of two tasks, and its refinement.   *)
EXTENDS FrameBudget, TLC

(* The tasks are interchangeable. *)
TaskSymmetry == Permutations(Tasks)

(* The sizes of a request that no longer waits are never read again: two    *)
(* states that differ in them only have the same future.                    *)
LiveState ==
    <<available, waiters, lock, alive, capacity,
      [p \in Permits |->
          IF request[p].waiting THEN request[p]
          ELSE [request[p] EXCEPT !.minimum = 0, !.desired = 0]],
      wakes, parked>>

-----------------------------------------------------------------------------
(***************************************************************************)
(* Clients for the liveness run: a permit asks for more only when it owns  *)
(* nothing (or polls its pending request again), and eventually, when its  *)
(* task is awake, returns what it owns. A permit that waited while holding *)
(* frames could block the permit that holds the rest; the schedulers give  *)
(* back what they do not use before they wait. Every permit is polled by a *)
(* task of its own, which bears its number.                                *)
(***************************************************************************)
ClientNext ==
    \E p \in Permits :
        \/ Permit(p)
        \/ \E minimum, desired \in Sizes :
              /\ capacity[p] = 0 /\ Held(p) \in {0} \cup minimum..Total
              /\ PollGrow(p, p, minimum, desired)
        \/ \E limit \in Sizes : ShrinkTo(p, limit)
        \/ Drop(p)
        \/ Internal(p)

Return(p) == Held(p) > 0 /\ parked[p] = NoTask /\ ShrinkTo(p, 0)

(* A thread inside shrink_to runs on; a thread that wants the mutex again   *)
(* and again finally gets it.                                               *)
FairClientSpec ==
    /\ BudgetInit /\ [][ClientNext]_budgetVars
    /\ \A p \in Permits : WF_budgetVars(Internal(p)) /\ SF_budgetVars(Return(p))

(* A task that poll_grow put to sleep is woken (or its request withdrawn):  *)
(* however the other permits come, go and cancel, the queue moves on.       *)
EveryWaiterIsWoken ==
    \A p \in Permits : parked[p] # NoTask ~> parked[p] = NoTask

=============================================================================
