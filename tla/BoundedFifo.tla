---------------------------- MODULE BoundedFifo ----------------------------
(***************************************************************************)
(* What the controller's message queue (core/controller.cpp) promises: a   *)
(* first-in first-out queue of at most Capacity messages.  The eldest      *)
(* message is delivered, once, while it is still in the queue, and leaves  *)
(* it afterwards; a message that finds the queue full is refused.          *)
(***************************************************************************)
EXTENDS Naturals, Sequences

CONSTANTS Msg, NoMsg, Capacity

VARIABLES queue,      \* the messages accepted and not yet removed
          delivered   \* the eldest one, once it has been delivered, or NoMsg

bfvars == <<queue, delivered>>

BFInit == queue = <<>> /\ delivered = NoMsg

Accept(m) ==
    /\ Len(queue) < Capacity
    /\ queue' = Append(queue, m)
    /\ UNCHANGED delivered

Deliver ==
    /\ queue # <<>> /\ delivered = NoMsg
    /\ delivered' = Head(queue)
    /\ UNCHANGED queue

Remove ==
    /\ queue # <<>> /\ delivered = Head(queue)
    /\ queue' = Tail(queue)
    /\ delivered' = NoMsg

BFNext == (\E m \in Msg : Accept(m)) \/ Deliver \/ Remove

BFSpec == BFInit /\ [][BFNext]_bfvars
=============================================================================
