-------------------------- MODULE MCWriteScheduler --------------------------
(* Instances of WriteScheduler for TLC. *)
EXTENDS WriteScheduler

Window(t, m) == [target |-> t, maxActive |-> m]

OneWindow == {Window(2, 2)}
TwoWindows == {Window(1, 1), Window(2, 2)}

(* The sizes of a request that no longer waits are read by no action. *)
LiveRequests ==
    [p \in Permits |-> IF request[p].waiting THEN request[p]
                       ELSE [request[p] EXCEPT !.minimum = 0, !.desired = 0]]

LiveState == <<available, waiters, lock, alive, capacity, LiveRequests, wakes, parked,
               schedulerVars, pollVars, outsideVars>>

=============================================================================
