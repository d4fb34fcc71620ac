----------------------------- MODULE MCPipeline -----------------------------
(***************************************************************************)
(* Pipeline for TLC, with either kind of writer on a budget of five frames: *)
(* a streaming one, which needs one more frame to go on, beside a reader    *)
(* with a window of four; and a replaying one, which needs a whole file,    *)
(* beside a reader with a window of three.  Both budgets are just enough    *)
(* (EnoughForBoth), and the windows together are larger.                    *)
(***************************************************************************)
EXTENDS Pipeline

VARIABLE kind      \* "streaming" or "replaying"

Sources == <<2, 1, 2>>
FourToRead == [target: {4}, openAhead: {2}, maxActive: {2}]
ThreeToRead == [target: {3}, openAhead: {2}, maxActive: {2}]
ThreeToWrite == {[target |-> 3, maxActive |-> 2]}

Replaying == INSTANCE Pipeline WITH WriterRetries <- 1, ReaderWindows <- ThreeToRead

EitherInit ==
    \/ kind = "streaming" /\ Init
    \/ kind = "replaying" /\ Replaying!Init

EitherRun ==
    \/ kind = "streaming" /\ Run
    \/ kind = "replaying" /\ Replaying!Run

EitherNext == (EitherRun \/ BackendEvents) /\ UNCHANGED kind

(* Fairness: the task runs when it was woken, and events that are due       *)
(* happen on either side.                                                   *)
FairSpec ==
    /\ EitherInit /\ [][EitherNext]_<<vars, kind>>
    /\ WF_vars(EitherRun)
    /\ WF_vars((\E i \in DOMAIN readFiles : R!BackendEvent(i))
                   /\ UNCHANGED <<writerVars, clientVars>>)
    /\ WF_vars((\E i \in DOMAIN writeFiles : W!BackendEvent(i))
                   /\ UNCHANGED <<readerVars, clientVars>>)

=============================================================================
