----------------------------- MODULE OrderedWrite -----------------------------
(***************************************************************************)
(* What a write scheduler promises its caller, without slots, attempts,    *)
(* grants or polls: the frames made of the input are handed back in whole  *)
(* files, in order and each once; a file is full unless it is the last one *)
(* of a closed stream; a closed stream is over when every frame is back.   *)
(***************************************************************************)
EXTENDS Naturals, Sequences

CONSTANT Capacities  \* how many frames a file may hold

VARIABLES taken,     \* frames started from the input
          returned,  \* frames of the files handed back
          status     \* "open", "closing", "over", "failed" or "gone"

streamVars == <<taken, returned, status>>

StreamInit == taken = 0 /\ returned = <<>> /\ status = "open"

Take == status = "open" /\ taken' = taken + 1 /\ UNCHANGED <<returned, status>>

Remaining == taken - Len(returned)

ClosedStatus(remaining) == IF remaining = 0 THEN "over" ELSE "closing"

CloseInput ==
    /\ status = "open"
    /\ status' = ClosedStatus(Remaining)
    /\ UNCHANGED <<taken, returned>>

(* The next file comes back with its frames. *)
HandBack(size) ==
    /\ status \in {"open", "closing"}
    /\ size \in 1..Remaining
    /\ size \in Capacities \/ (status = "closing" /\ size = Remaining)
    /\ returned' = returned \o [k \in 1..size |-> Len(returned) + k]
    /\ status' = IF status = "closing" THEN ClosedStatus(Remaining - size) ELSE status
    /\ UNCHANGED taken

Fail ==
    /\ status \in {"open", "closing"} /\ status' = "failed"
    /\ UNCHANGED <<taken, returned>>

Abandon ==
    /\ status # "gone" /\ status' = "gone"
    /\ UNCHANGED <<taken, returned>>

StreamNext ==
    Take \/ CloseInput \/ (\E size \in 1..Remaining : HandBack(size)) \/ Fail \/ Abandon

StreamSpec == StreamInit /\ [][StreamNext]_streamVars

=============================================================================
