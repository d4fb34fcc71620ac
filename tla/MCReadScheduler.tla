-------------------------- MODULE MCReadScheduler --------------------------
(* Instances of ReadScheduler for TLC. *)
EXTENDS ReadScheduler

Frames(target, openAhead, maxActive) ==
    [target |-> target, openAhead |-> openAhead, maxActive |-> maxActive]

OneWindow == {Frames(2, 3, 2)}
TwoWindows == {Frames(1, 3, 1), Frames(3, 3, 2)}

(* The sizes of a request that no longer waits are read by no action. *)
LiveRequests ==
    [p \in Permits |-> IF request[p].waiting THEN request[p]
                       ELSE [request[p] EXCEPT !.minimum = 0, !.desired = 0]]

(* A file being read retries no more, and only drive asks what is blocked.  *)
LiveFiles ==
    [i \in DOMAIN files |->
        [files[i] EXCEPT !.blocked = @ /\ pc = "drive",
                         !.retries = IF files[i].state = "Opening" THEN @ ELSE 0]]

(* A task that is awake polls again, whatever its last poll was.            *)
LivePolls ==
    IF pc = "idle" /\ ~asleep THEN <<pc, "read", round, TRUE>> ELSE <<pc, call, round, runnable>>

LiveState == <<available, waiters, lock, alive, capacity, LiveRequests, wakes, parked[Self],
               LiveFiles, cells, emitted, discovered, cursor, closed, terminated, window, error,
               LivePolls, asleep, declared, output, reports>>

=============================================================================
