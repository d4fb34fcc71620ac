---------------------------- MODULE CapacityPool ----------------------------
(***************************************************************************)
(* What the frame budget promises, without locks, grants to collect or     *)
(* wakers: frames are owned by permits, a permit that cannot be served at  *)
(* once joins a queue, and only the head of the queue is ever served.      *)
(***************************************************************************)
EXTENDS Naturals, Sequences

CONSTANTS Permits, Total

VARIABLES free,     \* frames nobody owns
          owned,    \* frames each permit owns, collected or not
          queue,    \* the permits that wait, first come first
          claim     \* the smallest and the preferred growth of each waiter

poolVars == <<free, owned, queue, claim>>

NoClaim == [minimum |-> 0, desired |-> 0]

PoolInit ==
    /\ free = Total
    /\ owned = [p \in Permits |-> 0]
    /\ queue = <<>>
    /\ claim = [p \in Permits |-> NoClaim]

Waits(p) == \E i \in DOMAIN queue : queue[i] = p

(* Either everything that is preferred, or the smallest growth. *)
Share(minimum, desired) == IF free >= desired THEN desired ELSE minimum

(* A newcomer is served at once only while nobody waits. *)
Take(p, minimum, desired) ==
    /\ queue = <<>> /\ free >= minimum
    /\ owned' = [owned EXCEPT ![p] = @ + Share(minimum, desired)]
    /\ free' = free - Share(minimum, desired)
    /\ UNCHANGED <<queue, claim>>

Join(p, minimum, desired) ==
    /\ ~Waits(p)
    /\ queue # <<>> \/ free < minimum
    /\ queue' = Append(queue, p)
    /\ claim' = [claim EXCEPT ![p] = [minimum |-> minimum, desired |-> desired]]
    /\ UNCHANGED <<free, owned>>

(* Only the head is served, with frames that are its own from then on. *)
Serve ==
    /\ queue # <<>>
    /\ LET h == Head(queue)
           c == claim[h]
       IN  /\ free >= c.minimum
           /\ owned' = [owned EXCEPT ![h] = @ + Share(c.minimum, c.desired)]
           /\ free' = free - Share(c.minimum, c.desired)
           /\ claim' = [claim EXCEPT ![h] = NoClaim]
    /\ queue' = Tail(queue)

(* A permit gives back what it chooses to and stops waiting; the others     *)
(* keep their frames and their order.                                       *)
Leave(p, keep) ==
    /\ keep <= owned[p]
    /\ owned' = [owned EXCEPT ![p] = keep]
    /\ free' = free + owned[p] - keep
    /\ claim' = [claim EXCEPT ![p] = NoClaim]
    /\ IF Waits(p)
       THEN \E k \in DOMAIN queue :
               /\ queue[k] = p
               /\ queue' = [j \in 1..(Len(queue) - 1) |->
                              IF j < k THEN queue[j] ELSE queue[j + 1]]
       ELSE UNCHANGED queue

PoolNext ==
    \/ Serve
    \/ \E p \in Permits :
          \/ \E minimum \in 1..Total : \E desired \in minimum..Total :
                Take(p, minimum, desired) \/ Join(p, minimum, desired)
          \/ \E keep \in 0..Total : Leave(p, keep)

PoolSpec == PoolInit /\ [][PoolNext]_poolVars

=============================================================================
