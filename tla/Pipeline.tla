------------------------------ MODULE Pipeline ------------------------------
(***************************************************************************)
(* The buffer pool of class pipeline (core/pipeline.cpp): a free list      *)
(* (bufpool) and a list of filled buffers (datahead..datatail, here the    *)
(* sequence datapool), shared by producer threads, which allocate a        *)
(* buffer, fill it and store it, and consumer threads, which load a        *)
(* buffer, use it and release it.                                          *)
(*                                                                         *)
(* Every operation below runs under poolmutex from its first access to the *)
(* lists to its last and takes no other lock meanwhile, so each is one     *)
(* atomic step.  What a thread does with a buffer between two operations   *)
(* (capturing into it, scaling from it) runs without any lock: filling is  *)
(* a step of its own, and a consumer keeps its buffer for as long as it    *)
(* likes.                                                                  *)
(***************************************************************************)
EXTENDS Integers, Sequences, FiniteSets, Functions

CONSTANTS Buffer,     \* the struct pooldata cells of the pool
          Producer,   \* threads that allocate and store
          Consumer,   \* threads that load and release
          Frame,      \* contents a buffer can carry
          NoFrame,    \* the contents of a zeroed buffer
          NULL        \* the null struct pooldata pointer

Thread == Producer \cup Consumer

ASSUME PoolAssumption ==
    /\ IsFiniteSet(Buffer) /\ Buffer # {}
    /\ IsFiniteSet(Thread)
    /\ Producer \cap Consumer = {}
    /\ NULL \notin Buffer
    /\ NoFrame \notin Frame

VARIABLES bufpool,    \* the free list, its head first
          datapool,   \* the filled buffers, datahead first
          bufcount,   \* the counters the class keeps beside the lists
          datacount,
          hand,       \* hand[t]: the buffer thread t owns, or NULL
          contents,   \* contents[b]: the frame last written into b
          exited      \* the process has called exit(-1)

vars == <<bufpool, datapool, bufcount, datacount, hand, contents, exited>>

TypeOK ==
    /\ bufpool \in Seq(Buffer)
    /\ datapool \in Seq(Buffer)
    /\ bufcount \in Int
    /\ datacount \in Int
    /\ hand \in [Thread -> Buffer \cup {NULL}]
    /\ contents \in [Buffer -> Frame \cup {NoFrame}]
    /\ exited \in BOOLEAN

(***************************************************************************)
(* datapool_init(n, size): n zeroed cells, pushed on the free list one     *)
(* after the other; malloc decides which cell is where.                    *)
(***************************************************************************)
datapool_init ==
    /\ bufpool \in {s \in [1..Cardinality(Buffer) -> Buffer] : IsInjective(s)}
    /\ datapool = <<>>
    /\ datacount = 0
    /\ bufcount = Cardinality(Buffer)
    /\ contents = [b \in Buffer |-> NoFrame]

Init ==
    /\ datapool_init
    /\ hand = [t \in Thread |-> NULL]
    /\ exited = FALSE

(* Mutants of the operations below; no action of Next uses one.            *)
load_data_keeps_link(t) ==              \* datahead is not advanced
    /\ hand' = [hand EXCEPT ![t] = Head(datapool)]
    /\ datacount' = datacount - 1
    /\ UNCHANGED datapool

load_data_uncounted(t) ==               \* datacount-- is missing
    /\ hand' = [hand EXCEPT ![t] = Head(datapool)]
    /\ datapool' = Tail(datapool)
    /\ UNCHANGED datacount

store_data_first(p) ==                  \* linked at datahead
    /\ hand[p] # NULL
    /\ contents[hand[p]] # NoFrame
    /\ datapool' = <<hand[p]>> \o datapool
    /\ datacount' = datacount + 1
    /\ hand' = [hand EXCEPT ![p] = NULL]
    /\ UNCHANGED <<bufpool, bufcount, contents, exited>>

release_data_leaks(c) ==                \* bufpool = data is missing
    /\ hand[c] # NULL
    /\ hand' = [hand EXCEPT ![c] = NULL]
    /\ UNCHANGED <<bufpool, bufcount, datapool, datacount, contents, exited>>

(* The eldest filled buffer leaves the list of filled buffers for t.       *)
load_data_unlocked(t) ==
    /\ hand' = [hand EXCEPT ![t] = Head(datapool)]
    /\ datapool' = Tail(datapool)
    /\ datacount' = datacount - 1

(* Three outcomes: a free buffer, the eldest filled one, or exit(-1).      *)
allocate_data(p) ==
    /\ hand[p] = NULL
    /\ \/ /\ bufpool # <<>>
          /\ hand' = [hand EXCEPT ![p] = Head(bufpool)]
          /\ bufpool' = Tail(bufpool)
          /\ bufcount' = bufcount - 1
          /\ UNCHANGED <<datapool, datacount, exited>>
       \/ /\ bufpool = <<>>
          /\ datapool # <<>>
          /\ load_data_unlocked(p)
          /\ UNCHANGED <<bufpool, bufcount, exited>>
       \/ /\ bufpool = <<>>
          /\ datapool = <<>>
          /\ exited' = TRUE
          /\ UNCHANGED <<bufpool, datapool, bufcount, datacount, hand>>
    /\ UNCHANGED contents

(* The producer writes a frame into the buffer it owns.                    *)
fill_data(p, f) ==
    /\ hand[p] # NULL
    /\ contents' = [contents EXCEPT ![hand[p]] = f]
    /\ UNCHANGED <<bufpool, datapool, bufcount, datacount, hand, exited>>

(* A caller fills a buffer before it stores it; that it filled it since it *)
(* allocated it is not needed below and not required here.                 *)
store_data(p) ==
    /\ hand[p] # NULL
    /\ contents[hand[p]] # NoFrame
    /\ datapool' = Append(datapool, hand[p])
    /\ datacount' = datacount + 1
    /\ hand' = [hand EXCEPT ![p] = NULL]
    /\ UNCHANGED <<bufpool, bufcount, contents, exited>>

(* load_data on an empty list returns NULL and changes nothing.            *)
load_data(c) ==
    /\ hand[c] = NULL
    /\ datapool # <<>>
    /\ load_data_unlocked(c)
    /\ UNCHANGED <<bufpool, bufcount, contents, exited>>

release_data(c) ==
    /\ hand[c] # NULL
    /\ bufpool' = <<hand[c]>> \o bufpool
    /\ bufcount' = bufcount + 1
    /\ hand' = [hand EXCEPT ![c] = NULL]
    /\ UNCHANGED <<datapool, datacount, contents, exited>>

ProducerStep(p) ==
    \/ allocate_data(p)
    \/ \E f \in Frame : fill_data(p, f)
    \/ store_data(p)

ConsumerStep(c) == load_data(c) \/ release_data(c)

Next ==
    /\ ~exited
    /\ \/ \E p \in Producer : ProducerStep(p)
       \/ \E c \in Consumer : ConsumerStep(c)

Spec == Init /\ [][Next]_vars

-----------------------------------------------------------------------------
(***************************************************************************)
(* Every buffer is in exactly one place: once on the free list, once on    *)
(* the list of filled buffers, or owned by one thread.  A buffer in two    *)
(* places is a frame overwritten while it is read; one in no place is lost *)
(* to the pool for good (allocate_data, store_data, load_data,             *)
(* release_data of pipeline.cpp).                                          *)
(***************************************************************************)
HandsDisjoint ==
    /\ \A t, u \in Thread : hand[t] = hand[u] /\ hand[t] # NULL => t = u
    /\ \A t \in Thread : hand[t] \notin Range(bufpool) \cup Range(datapool)

ListsDisjoint ==
    /\ IsInjective(bufpool)
    /\ IsInjective(datapool)
    /\ Range(bufpool) \cap Range(datapool) = {}

NoneLost ==
    Buffer \subseteq Range(bufpool) \cup Range(datapool) \cup Range(hand)

OnePlace == HandsDisjoint /\ ListsDisjoint /\ NoneLost

(***************************************************************************)
(* The counters that the class keeps by hand beside its lists, and that    *)
(* data_count and buf_count report, are the lengths of the lists after     *)
(* every sequence of operations, the forced reuse of the eldest buffer     *)
(* included (bufcount-- is skipped there, datacount-- is not).             *)
(***************************************************************************)
CountsAgree == bufcount = Len(bufpool) /\ datacount = Len(datapool)

(***************************************************************************)
(* allocate_data gives up with "FATAL - unexpected NULL data returned" and *)
(* exit(-1) only when other threads own every buffer of the pool.          *)
(***************************************************************************)
AllOwnedByOthers(p) == hand[p] = NULL /\ Buffer \subseteq Range(hand)

FatalOnlyWhenAllOwned == exited => \E p \in Producer : AllOwnedByOthers(p)

(***************************************************************************)
(* With at least as many buffers as threads on the pipe (8 or 16 against   *)
(* two in the repository) allocate_data never reaches its exit(-1).        *)
(***************************************************************************)
EnoughBuffers == Cardinality(Buffer) >= Cardinality(Thread)

NeverFatal == EnoughBuffers => ~exited

(***************************************************************************)
(* The pool implements a lossy queue: frames come out in the order they    *)
(* went in, a frame being used is not overwritten, and a frame is lost     *)
(* only when all but at most Cardinality(Thread) - 1 buffers are queued.   *)
(***************************************************************************)
FrameIn(b) == IF b = NULL THEN NoFrame ELSE contents[b]

FewestQueued == Cardinality(Buffer) - (Cardinality(Thread) - 1)

LQ == INSTANCE LossyQueue WITH
        queue   <- [i \in 1..Len(datapool) |-> contents[datapool[i]]],
        taken   <- [c \in Consumer |-> FrameIn(hand[c])],
        MinLoss <- IF FewestQueued > 0 THEN FewestQueued ELSE 0

ImplementsLossyQueue == LQ!LQSpec
=============================================================================
