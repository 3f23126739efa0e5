---------------------------- MODULE SampleQueue ----------------------------
(***************************************************************************)
(* What an AudioBuffer (core/asource.cpp) promises its client: a bounded   *)
(* first-in first-out queue of samples, numbered as they are captured.  A  *)
(* chunk of captured samples is queued as a whole or, only when it does    *)
(* not fit or nobody listens, dropped as a whole; a read returns the       *)
(* eldest samples and removes exactly those.                               *)
(***************************************************************************)
EXTENDS Naturals, Sequences

CONSTANTS Capacity,   \* the samples the queue can hold
          MaxChunk    \* the largest chunk

VARIABLES queue,      \* the samples captured and not yet read
          result,     \* what the last read returned
          arrived,    \* the number of the last sample captured
          open        \* a client listens

sqvars == <<queue, result, arrived, open>>

SQInit ==
    /\ queue = <<>> /\ result = <<>>
    /\ arrived = 0
    /\ open = FALSE

Fits(k) == Len(queue) + k <= Capacity

QueueChunk(k) ==
    /\ open /\ Fits(k)
    /\ queue' = queue \o [i \in 1..k |-> arrived + i]
    /\ arrived' = arrived + k
    /\ UNCHANGED <<result, open>>

DropChunk(k) ==
    /\ ~open \/ ~Fits(k)
    /\ arrived' = arrived + k
    /\ UNCHANGED <<queue, result, open>>

Read(n) ==
    /\ open
    /\ result' = SubSeq(queue, 1, n)
    /\ queue' = SubSeq(queue, n + 1, Len(queue))
    /\ UNCHANGED <<arrived, open>>

Open ==
    /\ ~open
    /\ open' = TRUE
    /\ queue' = <<>> /\ result' = <<>>
    /\ UNCHANGED arrived

Close ==
    /\ open
    /\ open' = FALSE
    /\ queue' = <<>>
    /\ UNCHANGED <<result, arrived>>

SQNext ==
    \/ \E k \in 1..MaxChunk : QueueChunk(k) \/ DropChunk(k)
    \/ \E n \in 0..Len(queue) : Read(n)
    \/ Open \/ Close

SQSpec == SQInit /\ [][SQNext]_sqvars
=============================================================================
