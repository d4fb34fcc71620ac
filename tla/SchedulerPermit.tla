--------------------------- MODULE SchedulerPermit ---------------------------
(* A scheduler's permit on the shared budget, and the other permits' users. *)
EXTENDS FrameBudget, FiniteSets, SequencesExt

CONSTANTS Self,            \* the scheduler's own permit
          Rival,           \* the task of the other permits
          RivalSizes       \* what the other permits ask for (bound)

Rivals == Permits \ {Self}

ASSUME SelfAssumption == Self \in Permits
ASSUME RivalAssumption == Rival \in Tasks /\ RivalSizes \subseteq 1..Total /\ Total > 0

Less(a, b) == IF a > b THEN a - b ELSE 0        \* saturating_sub
Least(a, b) == IF a < b THEN a ELSE b
Most(a, b) == IF a > b THEN a ELSE b

(* The scheduler keeps at most `limit` frames, and withdraws its request. *)
Shrink(limit) == ShrinkTo(Self, limit)

(* The other users of the budget ask for more only when they own nothing,   *)
(* repeat what they asked for until they have it, and at any time return    *)
(* what they own or withdraw what they asked for.                           *)
RivalAsks(p) ==
    \E size \in RivalSizes :
        /\ Held(p) \in {0, size} /\ capacity[p] = 0
        /\ request[p].waiting => request[p].minimum = size
        /\ PollGrow(p, Rival, size, size)

RivalReturns(p) == (Held(p) > 0 \/ request[p].waiting) /\ ShrinkTo(p, 0)

=============================================================================
