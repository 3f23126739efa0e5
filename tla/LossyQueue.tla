----------------------------- MODULE LossyQueue -----------------------------
(***************************************************************************)
(* What a pipeline (core/pipeline.cpp) promises the threads on its ends:   *)
(* a first-in first-out queue of frames that never blocks a producer and   *)
(* that loses its eldest frame, and only that one, when it is nearly full. *)
(* A frame that a consumer has taken stays as it is until it is given      *)
(* back, whatever the producers do meanwhile.                              *)
(***************************************************************************)
EXTENDS Naturals, Sequences

CONSTANTS Frame,      \* the contents a buffer can carry
          NoFrame,    \* what a consumer without a frame has
          Consumer,   \* the threads that load frames
          MinLoss     \* no frame is lost from a queue shorter than this

VARIABLES queue,      \* the frames stored and not yet loaded, eldest first
          taken       \* taken[c]: the frame consumer c is working on

lqvars == <<queue, taken>>

LQTypeOK ==
    /\ queue \in Seq(Frame)
    /\ taken \in [Consumer -> Frame \cup {NoFrame}]

LQInit ==
    /\ queue = <<>>
    /\ taken = [c \in Consumer |-> NoFrame]

Put(f) ==
    /\ queue' = Append(queue, f)
    /\ UNCHANGED taken

LoseEldest ==
    /\ queue # <<>>
    /\ Len(queue) >= MinLoss
    /\ queue' = Tail(queue)
    /\ UNCHANGED taken

Take(c) ==
    /\ taken[c] = NoFrame
    /\ queue # <<>>
    /\ taken' = [taken EXCEPT ![c] = Head(queue)]
    /\ queue' = Tail(queue)

GiveBack(c) ==
    /\ taken[c] # NoFrame
    /\ taken' = [taken EXCEPT ![c] = NoFrame]
    /\ UNCHANGED queue

LQNext ==
    \/ \E f \in Frame : Put(f)
    \/ LoseEldest
    \/ \E c \in Consumer : Take(c) \/ GiveBack(c)

LQSpec == LQInit /\ [][LQNext]_lqvars
=============================================================================
