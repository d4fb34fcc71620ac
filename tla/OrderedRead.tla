----------------------------- MODULE OrderedRead -----------------------------
(***************************************************************************)
(* What a read scheduler promises its caller, without files, windows,      *)
(* grants or polls: the frames of the declared files come out in order,    *)
(* each once; the stream ends after the last one, when no file will follow *)
(* it, or breaks on the way and reports one error.                         *)
(***************************************************************************)
EXTENDS Naturals, Sequences

VARIABLES declared,  \* frames of the files admitted so far
          closed,    \* no file will follow
          output,    \* frames handed to the caller
          status     \* "open", "broken", "over" or "gone"

streamVars == <<declared, closed, output, status>>

StreamInit == declared = 0 /\ closed = FALSE /\ output = <<>> /\ status = "open"

Admit ==
    /\ status = "open" /\ ~closed
    /\ declared' \in Nat /\ declared' > declared
    /\ UNCHANGED <<closed, output, status>>

CloseAdmission ==
    /\ status # "gone" /\ ~closed
    /\ closed' = TRUE
    /\ UNCHANGED <<declared, output, status>>

(* The next frame, numbered from 1 over all the files, leaves. *)
Deliver ==
    /\ status = "open" /\ Len(output) < declared
    /\ output' = Append(output, Len(output) + 1)
    /\ UNCHANGED <<declared, closed, status>>

EndOfStream ==
    /\ status = "open" /\ closed /\ Len(output) = declared
    /\ status' = "over"
    /\ UNCHANGED <<declared, closed, output>>

(* Only a file with frames to come can break the stream. *)
Break ==
    /\ status = "open" /\ Len(output) < declared
    /\ status' = "broken"
    /\ UNCHANGED <<declared, closed, output>>

Report ==
    /\ status = "broken" /\ status' = "over"
    /\ UNCHANGED <<declared, closed, output>>

Abandon ==
    /\ status # "gone" /\ status' = "gone"
    /\ UNCHANGED <<declared, closed, output>>

StreamNext == Admit \/ CloseAdmission \/ Deliver \/ EndOfStream \/ Break \/ Report \/ Abandon

StreamSpec == StreamInit /\ [][StreamNext]_streamVars

=============================================================================
