---------------------------- MODULE MCWriteLive ----------------------------
(***************************************************************************)
(* The liveness of the write scheduler, in both of its kinds: the streaming *)
(* scheduler, which reserves frame by frame, and the replaying one, which   *)
(* reserves whole files.  The caller chooses the kind once and for all.     *)
(*                                                                          *)
(* Beside the rival, either writer may have to wait while it owns frames,   *)
(* and so release some while its request is queued; the window of the       *)
(* replaying one is a file and a half, so that it may be granted a frame    *)
(* that it cannot use and must give back before it waits.                   *)
(***************************************************************************)
EXTENDS Sequences, Integers

CONSTANTS PermitCount, Total, Self, Tasks, NoTask, Writer, Rival,
          RivalSizes, FileCapacities, MaxPollOps, MaxFrames, Faults

VARIABLES available, waiters, lock, alive, capacity, request, wakes, parked,
          files, partial, used, fillIndex, pollCursor, phase, window, waker,
          pc, round, runnable, inputArmed, begun, delivered,
          kind         \* "streaming" or "replaying"

Streaming == INSTANCE WriteScheduler WITH
                 MaxRetries <- 0, Windows <- {[target |-> 2, maxActive |-> 2]}

Replaying == INSTANCE WriteScheduler WITH
                 MaxRetries <- 1, Windows <- {[target |-> 3, maxActive |-> 2]}

writerVars == Streaming!vars

LiveInit ==
    \/ kind = "streaming" /\ Streaming!Init
    \/ kind = "replaying" /\ Replaying!Init

LiveNext ==
    /\ \/ kind = "streaming" /\ Streaming!Next
       \/ kind = "replaying" /\ Replaying!Next
    /\ UNCHANGED kind

(***************************************************************************)
(* What the scheduler of this behaviour, and those around it, may do.       *)
(***************************************************************************)
InPoll ==
    \/ kind = "streaming" /\ Streaming!InPoll
    \/ kind = "replaying" /\ Replaying!InPoll
BudgetThread(p) ==
    \/ kind = "streaming" /\ Streaming!BudgetThread(p)
    \/ kind = "replaying" /\ Replaying!BudgetThread(p)
BudgetWake(p) ==
    \/ kind = "streaming" /\ Streaming!BudgetWake(p)
    \/ kind = "replaying" /\ Replaying!BudgetWake(p)
RivalReturns(p) ==
    \/ kind = "streaming" /\ Streaming!RivalReturns(p) /\ Streaming!BudgetOnly
    \/ kind = "replaying" /\ Replaying!RivalReturns(p) /\ Replaying!BudgetOnly
BackendEvent(i) ==
    \/ kind = "streaming" /\ Streaming!BackendEvent(i)
    \/ kind = "replaying" /\ Replaying!BackendEvent(i)
Poll ==
    \/ kind = "streaming" /\ (Streaming!PollWrite \/ Streaming!PollClose)
    \/ kind = "replaying" /\ (Replaying!PollWrite \/ Replaying!PollClose)
PopFile ==
    \/ kind = "streaming" /\ Streaming!PopFile
    \/ kind = "replaying" /\ Replaying!PopFile
PopSwap ==
    \/ kind = "streaming" /\ \E c \in FileCapacities : Streaming!PopSwap(c)
    \/ kind = "replaying" /\ \E c \in FileCapacities : Replaying!PopSwap(c)
PushFile ==
    \/ kind = "streaming" /\ \E c \in FileCapacities : Streaming!PushFile(c)
    \/ kind = "replaying" /\ \E c \in FileCapacities : Replaying!PushFile(c)

(* Fairness: a poll in progress runs on, even if it must wait for the lock  *)
(* now and then; events that are due happen; other permits return what they *)
(* own; a task that is runnable polls, hands back completed files, replaces *)
(* them and fills free places, as the trait's documentation requires.       *)
FairSpec ==
    /\ LiveInit /\ [][LiveNext]_<<writerVars, kind>>
    /\ SF_writerVars(InPoll)
    /\ \A p \in 1..PermitCount : WF_writerVars(BudgetThread(p)) /\ WF_writerVars(BudgetWake(p))
    /\ \A p \in (1..PermitCount) \ {Self} : SF_writerVars(parked[p] = NoTask /\ RivalReturns(p))
    /\ WF_writerVars(\E i \in DOMAIN files : BackendEvent(i))
    /\ WF_writerVars(runnable /\ Poll)
    /\ SF_writerVars(PopFile)
    /\ SF_writerVars(PopSwap)
    /\ SF_writerVars(PushFile)

(* No call of the scheduler lasts forever. *)
PollsReturn == pc # "idle" ~> pc = "idle"

(* After poll_close, the files and their results are drained to the last,   *)
(* the retries of what they hold included.                                  *)
ClosingDrains == phase = "Closing" ~> files = <<>>

(* A writer that may reserve its next frame, or file, gets it: neither the  *)
(* queue of the budget nor the requests that it withdraws itself, when it   *)
(* releases frames or gives back the ones that do not suffice, starve it.   *)
MayReserve ==
    \/ kind = "streaming" /\ Streaming!MayReserve
    \/ kind = "replaying" /\ Replaying!MayReserve

FillProceeds ==
    pc = "idle" /\ phase = "Writing" /\ MayReserve
        ~> partial # "none" \/ phase # "Writing" \/ ~MayReserve

=============================================================================
