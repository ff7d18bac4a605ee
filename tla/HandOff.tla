------------------------------- MODULE HandOff -------------------------------
(***************************************************************************)
(* What the ring of circbuf.c promises the code around it, with no ring:   *)
(* the life of each heap block.  A block that is offered either goes back  *)
(* to the heap (the put failed) or enters the ring (the put returned 0);   *)
(* from the ring it is delivered once, and then freed, or it is lost: it   *)
(* stays allocated and nobody sees it again.                               *)
(***************************************************************************)
CONSTANT Data

VARIABLE owner      \* who has each block

Owners == {"heap", "producer", "ring", "consumer", "lost"}

HInit == owner = [d \in Data |-> "heap"]

Move(d, from, to) ==
    /\ owner[d] = from
    /\ owner' = [owner EXCEPT ![d] = to]

Offer(d) == Move(d, "heap", "producer")
Reject(d) == Move(d, "producer", "heap")
Deliver(d) == Move(d, "ring", "consumer")
Release(d) == Move(d, "consumer", "heap")
Lose(d) == Move(d, "ring", "lost")

\* The put returned 0.  If it wrote over another block, that one is lost.
Accept(d) == Move(d, "producer", "ring")
Overwrite(d, e) ==
    /\ owner[d] = "producer"
    /\ owner[e] = "ring"
    /\ owner' = [owner EXCEPT ![d] = "ring", ![e] = "lost"]

HNext ==
    \E d \in Data :
        \/ Offer(d)
        \/ Reject(d)
        \/ Accept(d)
        \/ \E e \in Data : Overwrite(d, e)
        \/ Deliver(d)
        \/ Lose(d)
        \/ Release(d)

HSpec == HInit /\ [][HNext]_owner
=============================================================================
