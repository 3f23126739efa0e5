------------------------- MODULE ServerStartProofs -------------------------
(***************************************************************************)
(* Proofs about the server's main program and the pool of frames it runs.  *)
(*                                                                         *)
(* First the buffer pool of core/pipeline.cpp, for every number of         *)
(* buffers, producers and consumers (Pipeline).  Then the program that     *)
(* uses it (ServerStart), for every screen, window, back end and failing   *)
(* step: the arithmetic of the picture; the rectangle, the pipes and the   *)
(* frame that the steps leave (PictureInv); what a frame shows, where the  *)
(* planes of the converted picture are; what main has done of its lists    *)
(* (MainInv, LaunchInv, BegunInv, ServerInv); where the pointer goes       *)
(* (PointInv); what the files say, however they include each other, and    *)
(* what the store makes of it (StoreInv, VsoInv, CodecInv, NameInv); and   *)
(* why the program ends (EndInv).                                          *)
(***************************************************************************)
EXTENDS ServerStart, ListLemmas, FiniteSetTheorems, TLAPS

(* The inductive invariant: exclusive ownership is needed for the shape of *)
(* the lists, and the reason for an exit for NeverFatal.                   *)
PoolInv == TypeOK /\ OnePlace /\ CountsAgree /\ FatalOnlyWhenAllOwned

-----------------------------------------------------------------------------
(* A thread without a buffer gains b; nobody loses one.                    *)
LEMMA HandGain ==
    ASSUME TypeOK, NEW t \in Thread, hand[t] = NULL, NEW b \in Buffer
    PROVE  {b} \cup (Range(hand) \ {NULL}) \subseteq Range([hand EXCEPT ![t] = b])
<1>1. hand \in [Thread -> Buffer \cup {NULL}]
  BY DEF TypeOK
<1>2. DOMAIN [hand EXCEPT ![t] = b] = Thread
  BY <1>1
<1>3. b \in Range([hand EXCEPT ![t] = b])
  BY <1>1, <1>2 DEF Range
<1>4. ASSUME NEW x \in Range(hand) \ {NULL} PROVE x \in Range([hand EXCEPT ![t] = b])
  <2>1. PICK u \in Thread : hand[u] = x
    BY <1>1 DEF Range
  <2>2. [hand EXCEPT ![t] = b][u] = x
    BY <1>1, <1>4, <2>1
  <2>3. QED
    BY <1>2, <2>2 DEF Range
<1>5. QED
  BY <1>3, <1>4

(* A thread hands over its buffer; nobody else loses one.                  *)
LEMMA HandLose ==
    ASSUME TypeOK, NEW t \in Thread
    PROVE  Range(hand) \ {hand[t]} \subseteq Range([hand EXCEPT ![t] = NULL])
<1>1. hand \in [Thread -> Buffer \cup {NULL}]
  BY DEF TypeOK
<1>2. ASSUME NEW x \in Range(hand), x # hand[t]
      PROVE  x \in Range([hand EXCEPT ![t] = NULL])
  <2>1. PICK u \in Thread : hand[u] = x
    BY <1>1 DEF Range
  <2>2. [hand EXCEPT ![t] = NULL][u] = x
    BY <1>1, <1>2, <2>1
  <2>3. DOMAIN [hand EXCEPT ![t] = NULL] = Thread
    BY <1>1
  <2>4. QED
    BY <2>2, <2>3 DEF Range
<1>3. QED
  BY <1>2

-----------------------------------------------------------------------------
(* The pool starts with every buffer once on the free list.                *)
LEMMA PoolInvInit == Init => PoolInv
<1> SUFFICES ASSUME Init PROVE PoolInv
  OBVIOUS
<1> USE PoolAssumption
<1>1. Cardinality(Buffer) \in Nat
  BY FS_CardinalityType
<1>2. bufpool \in [1..Cardinality(Buffer) -> Buffer] /\ IsInjective(bufpool)
  BY DEF Init, datapool_init
<1>3. bufpool \in Seq(Buffer) /\ Len(bufpool) = Cardinality(Buffer)
  <2>1. bufpool \in Seq(Buffer)
    BY <1>1, <1>2, SeqDef
  <2>2. Len(bufpool) \in Nat /\ 1..Len(bufpool) = 1..Cardinality(Buffer)
    BY <1>2, <2>1, LenProperties
  <2>3. QED
    BY <1>1, <2>1, <2>2
<1>4. TypeOK
  <2>1. datapool \in Seq(Buffer)
    BY DEF Init, datapool_init
  <2>2. hand \in [Thread -> Buffer \cup {NULL}]
          /\ contents \in [Buffer -> Frame \cup {NoFrame}]
    BY DEF Init, datapool_init
  <2>3. bufcount \in Int /\ datacount \in Int
    BY <1>1 DEF Init, datapool_init
  <2>4. exited \in BOOLEAN
    BY DEF Init
  <2>5. QED
    BY <1>3, <2>1, <2>2, <2>3, <2>4 DEF TypeOK
<1>5. Range(datapool) = {} /\ IsInjective(datapool) /\ Len(datapool) = 0
  BY DEF Init, datapool_init, Range, IsInjective
<1>6. HandsDisjoint
  <2>1. Range(bufpool) \subseteq Buffer
    BY <1>2 DEF Range
  <2>2. QED
    BY <1>5, <2>1 DEF HandsDisjoint, Init
<1>7. ListsDisjoint
  BY <1>2, <1>5 DEF ListsDisjoint
<1>8. NoneLost
  <2>1. Range(bufpool) = Buffer
    <3>1. bufpool \in Injection(1..Cardinality(Buffer), Buffer)
      BY <1>2 DEF Injection
    <3>2. Cardinality(1..Cardinality(Buffer)) = Cardinality(Buffer)
      BY <1>1, FS_Interval
    <3>3. Range(bufpool) \subseteq Buffer
      BY <1>2 DEF Range
    <3>4. bufpool \in Surjection(1..Cardinality(Buffer), Buffer)
      BY <3>1, <3>2, FS_Injection
    <3>5. QED
      BY <1>2, <3>3, <3>4 DEF Surjection, Range
  <2>2. QED
    BY <2>1 DEF NoneLost
<1>9. CountsAgree /\ FatalOnlyWhenAllOwned
  BY <1>3, <1>5 DEF CountsAgree, FatalOnlyWhenAllOwned, Init, datapool_init
<1>10. QED
  BY <1>4, <1>6, <1>7, <1>8, <1>9 DEF PoolInv, OnePlace

(* Taking a buffer off one of the two lists keeps every buffer in one place. *)
LEMMA TakeFromFree ==
    ASSUME PoolInv, NEW t \in Thread, hand[t] = NULL, bufpool # <<>>,
           hand' = [hand EXCEPT ![t] = Head(bufpool)], bufpool' = Tail(bufpool),
           UNCHANGED datapool
    PROVE  /\ bufpool' \in Seq(Buffer) /\ Len(bufpool') = Len(bufpool) - 1
           /\ hand' \in [Thread -> Buffer \cup {NULL}]
           /\ OnePlace'
<1> DEFINE b == Head(bufpool)
<1>1. TypeOK /\ HandsDisjoint /\ ListsDisjoint /\ NoneLost
  BY DEF PoolInv, OnePlace
<1>2. /\ b \in Buffer
      /\ Tail(bufpool) \in Seq(Buffer)
      /\ Len(Tail(bufpool)) = Len(bufpool) - 1
      /\ Range(bufpool) = {b} \cup Range(Tail(bufpool))
      /\ IsInjective(Tail(bufpool)) /\ b \notin Range(Tail(bufpool))
  BY <1>1, UnlinkHead DEF TypeOK, ListsDisjoint
<1> HIDE DEF b
<1>3. hand \in [Thread -> Buffer \cup {NULL}] /\ hand' = [hand EXCEPT ![t] = b]
  BY <1>1 DEF TypeOK, b
<1>4. hand' \in [Thread -> Buffer \cup {NULL}]
  BY <1>2, <1>3
<1>5. NoneLost'
  BY <1>1, <1>2, <1>3, HandGain, PoolAssumption DEF NoneLost
<1>6. ListsDisjoint'
  BY <1>1, <1>2 DEF ListsDisjoint
<1>7. b \notin Range(datapool) /\ \A u \in Thread : hand[u] # b
  BY <1>1, <1>2 DEF ListsDisjoint, HandsDisjoint
<1>8. HandsDisjoint'
  <2>1. \A u \in Thread : hand'[u] = IF u = t THEN b ELSE hand[u]
    BY <1>3
  <2>2. \A u, v \in Thread : hand'[u] = hand'[v] /\ hand'[u] # NULL => u = v
    BY <1>1, <1>7, <2>1 DEF HandsDisjoint
  <2>3. \A u \in Thread : hand'[u] \notin Range(bufpool') \cup Range(datapool')
    BY <1>1, <1>2, <1>7, <2>1 DEF HandsDisjoint
  <2>4. QED
    BY <2>2, <2>3 DEF HandsDisjoint
<1>9. QED
  BY <1>2, <1>4, <1>5, <1>6, <1>8 DEF OnePlace

(* Taking the head of the filled buffers leaves each buffer in one place.  *)
LEMMA TakeFromData ==
    ASSUME PoolInv, NEW t \in Thread, hand[t] = NULL, datapool # <<>>,
           hand' = [hand EXCEPT ![t] = Head(datapool)], datapool' = Tail(datapool),
           UNCHANGED bufpool
    PROVE  /\ datapool' \in Seq(Buffer) /\ Len(datapool') = Len(datapool) - 1
           /\ hand' \in [Thread -> Buffer \cup {NULL}]
           /\ OnePlace'
<1> DEFINE b == Head(datapool)
<1>1. TypeOK /\ HandsDisjoint /\ ListsDisjoint /\ NoneLost
  BY DEF PoolInv, OnePlace
<1>2. /\ b \in Buffer
      /\ Tail(datapool) \in Seq(Buffer)
      /\ Len(Tail(datapool)) = Len(datapool) - 1
      /\ Range(datapool) = {b} \cup Range(Tail(datapool))
      /\ IsInjective(Tail(datapool)) /\ b \notin Range(Tail(datapool))
  BY <1>1, UnlinkHead DEF TypeOK, ListsDisjoint
<1> HIDE DEF b
<1>3. hand \in [Thread -> Buffer \cup {NULL}] /\ hand' = [hand EXCEPT ![t] = b]
  BY <1>1 DEF TypeOK, b
<1>4. hand' \in [Thread -> Buffer \cup {NULL}]
  BY <1>2, <1>3
<1>5. NoneLost'
  BY <1>1, <1>2, <1>3, HandGain, PoolAssumption DEF NoneLost
<1>6. ListsDisjoint'
  BY <1>1, <1>2 DEF ListsDisjoint
<1>7. b \notin Range(bufpool) /\ \A u \in Thread : hand[u] # b
  BY <1>1, <1>2 DEF ListsDisjoint, HandsDisjoint
<1>8. HandsDisjoint'
  <2>1. \A u \in Thread : hand'[u] = IF u = t THEN b ELSE hand[u]
    BY <1>3
  <2>2. \A u, v \in Thread : hand'[u] = hand'[v] /\ hand'[u] # NULL => u = v
    BY <1>1, <1>7, <2>1 DEF HandsDisjoint
  <2>3. \A u \in Thread : hand'[u] \notin Range(bufpool') \cup Range(datapool')
    BY <1>1, <1>2, <1>7, <2>1 DEF HandsDisjoint
  <2>4. QED
    BY <2>2, <2>3 DEF HandsDisjoint
<1>9. QED
  BY <1>2, <1>4, <1>5, <1>6, <1>8 DEF OnePlace

(* Putting an owned buffer back on a list, whichever, does too.            *)
LEMMA HandOver ==
    ASSUME PoolInv, NEW t \in Thread, hand[t] # NULL,
           hand' = [hand EXCEPT ![t] = NULL],
           IsInjective(bufpool'), IsInjective(datapool'),
           \/ Range(bufpool') = Range(bufpool) \cup {hand[t]} /\ UNCHANGED datapool
           \/ Range(datapool') = Range(datapool) \cup {hand[t]} /\ UNCHANGED bufpool
    PROVE  hand' \in [Thread -> Buffer \cup {NULL}] /\ OnePlace'
<1>1. TypeOK /\ HandsDisjoint /\ ListsDisjoint /\ NoneLost
  BY DEF PoolInv, OnePlace
<1>2. hand \in [Thread -> Buffer \cup {NULL}] /\ hand' \in [Thread -> Buffer \cup {NULL}]
  BY <1>1 DEF TypeOK
<1>3. NoneLost'
  BY <1>1, HandLose DEF NoneLost
<1>4. ListsDisjoint'
  BY <1>1 DEF ListsDisjoint, HandsDisjoint
<1>5. \A u \in Thread : hand'[u] = IF u = t THEN NULL ELSE hand[u]
  BY <1>2
<1>6. NULL \notin Range(bufpool') \cup Range(datapool')
  <2>1. Range(bufpool) \subseteq Buffer /\ Range(datapool) \subseteq Buffer
    BY <1>1, LenProperties DEF TypeOK, Range
  <2>2. hand[t] \in Buffer
    BY <1>2
  <2>3. QED
    BY <2>1, <2>2, PoolAssumption
<1>7. HandsDisjoint'
  <2>1. \A u, v \in Thread : hand'[u] = hand'[v] /\ hand'[u] # NULL => u = v
    BY <1>1, <1>5 DEF HandsDisjoint
  <2>2. \A u \in Thread : hand'[u] \notin Range(bufpool') \cup Range(datapool')
    BY <1>1, <1>5, <1>6 DEF HandsDisjoint
  <2>3. QED
    BY <2>1, <2>2 DEF HandsDisjoint
<1>8. QED
  BY <1>2, <1>3, <1>4, <1>7 DEF OnePlace

-----------------------------------------------------------------------------
(* Every step of every thread keeps the invariant.                         *)
LEMMA PoolInvNext == PoolInv /\ [Next]_vars => PoolInv'
<1> SUFFICES ASSUME PoolInv, [Next]_vars PROVE PoolInv'
  OBVIOUS
<1>0. TypeOK /\ OnePlace /\ CountsAgree /\ FatalOnlyWhenAllOwned
  BY DEF PoolInv
<1>1. ASSUME ~exited, NEW p \in Producer, allocate_data(p) PROVE PoolInv'
  <2> p \in Thread
    BY DEF Thread
  <2>1. CASE /\ bufpool # <<>>
             /\ hand' = [hand EXCEPT ![p] = Head(bufpool)]
             /\ bufpool' = Tail(bufpool)
             /\ bufcount' = bufcount - 1
             /\ UNCHANGED <<datapool, datacount, exited>>
    <3>1. /\ bufpool' \in Seq(Buffer) /\ Len(bufpool') = Len(bufpool) - 1
          /\ hand' \in [Thread -> Buffer \cup {NULL}]
          /\ OnePlace'
      BY <1>1, <2>1, TakeFromFree DEF allocate_data
    <3>2. TypeOK' /\ CountsAgree' /\ FatalOnlyWhenAllOwned'
      BY <1>0, <1>1, <2>1, <3>1
         DEF TypeOK, CountsAgree, FatalOnlyWhenAllOwned, allocate_data
    <3>3. QED
      BY <3>1, <3>2 DEF PoolInv
  <2>2. CASE /\ bufpool = <<>>
             /\ datapool # <<>>
             /\ load_data_unlocked(p)
             /\ UNCHANGED <<bufpool, bufcount, exited>>
    <3>1. /\ datapool' \in Seq(Buffer) /\ Len(datapool') = Len(datapool) - 1
          /\ hand' \in [Thread -> Buffer \cup {NULL}]
          /\ OnePlace'
      BY <1>1, <2>2, TakeFromData DEF allocate_data, load_data_unlocked
    <3>2. TypeOK' /\ CountsAgree' /\ FatalOnlyWhenAllOwned'
      BY <1>0, <1>1, <2>2, <3>1
         DEF TypeOK, CountsAgree, FatalOnlyWhenAllOwned, allocate_data, load_data_unlocked
    <3>3. QED
      BY <3>1, <3>2 DEF PoolInv
  <2>3. CASE /\ bufpool = <<>>
             /\ datapool = <<>>
             /\ exited' = TRUE
             /\ UNCHANGED <<bufpool, datapool, bufcount, datacount, hand>>
    <3>1. UNCHANGED contents
      BY <1>1 DEF allocate_data
    <3>2. TypeOK' /\ OnePlace' /\ CountsAgree'
      BY <1>0, <2>3, <3>1 DEF TypeOK, OnePlace, HandsDisjoint, ListsDisjoint, NoneLost,
                              CountsAgree
    <3>3. Range(bufpool) = {} /\ Range(datapool) = {}
      BY <2>3 DEF Range
    <3>4. AllOwnedByOthers(p)'
      BY <1>0, <1>1, <2>3, <3>3 DEF AllOwnedByOthers, OnePlace, NoneLost, allocate_data
    <3>5. QED
      BY <3>2, <3>4 DEF PoolInv, FatalOnlyWhenAllOwned
  <2>4. QED
    BY <1>1, <2>1, <2>2, <2>3 DEF allocate_data
<1>2. ASSUME ~exited, NEW p \in Producer, NEW f \in Frame, fill_data(p, f) PROVE PoolInv'
  <2>1. OnePlace' /\ CountsAgree' /\ FatalOnlyWhenAllOwned'
    BY <1>0, <1>2 DEF fill_data, OnePlace, HandsDisjoint, ListsDisjoint, NoneLost,
                      CountsAgree, FatalOnlyWhenAllOwned, AllOwnedByOthers
  <2>2. TypeOK'
    BY <1>0, <1>2 DEF fill_data, TypeOK
  <2>3. QED
    BY <2>1, <2>2 DEF PoolInv
<1>3. ASSUME ~exited, NEW p \in Producer, store_data(p) PROVE PoolInv'
  <2> p \in Thread
    BY DEF Thread
  <2>1. hand[p] \in Buffer /\ hand[p] \notin Range(datapool) /\ IsInjective(datapool)
    BY <1>0, <1>3 DEF store_data, TypeOK, OnePlace, HandsDisjoint, ListsDisjoint
  <2>2. /\ datapool' \in Seq(Buffer)
        /\ Len(datapool') = Len(datapool) + 1
        /\ Range(datapool') = Range(datapool) \cup {hand[p]}
        /\ IsInjective(datapool')
    BY <1>0, <1>3, <2>1, LinkTail DEF store_data, TypeOK
  <2>3. hand' \in [Thread -> Buffer \cup {NULL}] /\ OnePlace'
    <3>1. hand[p] # NULL /\ hand' = [hand EXCEPT ![p] = NULL] /\ UNCHANGED bufpool
      BY <1>3 DEF store_data
    <3>2. IsInjective(bufpool')
      BY <1>0, <3>1 DEF OnePlace, ListsDisjoint
    <3>3. QED
      BY <2>2, <3>1, <3>2, HandOver
  <2>4. TypeOK' /\ CountsAgree' /\ FatalOnlyWhenAllOwned'
    BY <1>0, <1>3, <2>2, <2>3 DEF store_data, TypeOK, CountsAgree, FatalOnlyWhenAllOwned
  <2>5. QED
    BY <2>3, <2>4 DEF PoolInv
<1>4. ASSUME ~exited, NEW c \in Consumer, load_data(c) PROVE PoolInv'
  <2> c \in Thread
    BY DEF Thread
  <2>1. /\ datapool' \in Seq(Buffer) /\ Len(datapool') = Len(datapool) - 1
        /\ hand' \in [Thread -> Buffer \cup {NULL}]
        /\ OnePlace'
    BY <1>4, TakeFromData DEF load_data, load_data_unlocked
  <2>2. TypeOK' /\ CountsAgree' /\ FatalOnlyWhenAllOwned'
    BY <1>0, <1>4, <2>1
       DEF load_data, load_data_unlocked, TypeOK, CountsAgree, FatalOnlyWhenAllOwned
  <2>3. QED
    BY <2>1, <2>2 DEF PoolInv
<1>5. ASSUME ~exited, NEW c \in Consumer, release_data(c) PROVE PoolInv'
  <2> c \in Thread
    BY DEF Thread
  <2>1. hand[c] \in Buffer /\ hand[c] \notin Range(bufpool) /\ IsInjective(bufpool)
    BY <1>0, <1>5 DEF release_data, TypeOK, OnePlace, HandsDisjoint, ListsDisjoint
  <2>2. /\ bufpool' \in Seq(Buffer)
        /\ Len(bufpool') = Len(bufpool) + 1
        /\ Range(bufpool') = Range(bufpool) \cup {hand[c]}
        /\ IsInjective(bufpool')
    BY <1>0, <1>5, <2>1, LinkHead DEF release_data, TypeOK
  <2>3. hand' \in [Thread -> Buffer \cup {NULL}] /\ OnePlace'
    <3>1. hand[c] # NULL /\ hand' = [hand EXCEPT ![c] = NULL] /\ UNCHANGED datapool
      BY <1>5 DEF release_data
    <3>2. IsInjective(datapool')
      BY <1>0, <3>1 DEF OnePlace, ListsDisjoint
    <3>3. QED
      BY <2>2, <3>1, <3>2, HandOver
  <2>4. TypeOK' /\ CountsAgree' /\ FatalOnlyWhenAllOwned'
    BY <1>0, <1>5, <2>2, <2>3 DEF release_data, TypeOK, CountsAgree, FatalOnlyWhenAllOwned
  <2>5. QED
    BY <2>3, <2>4 DEF PoolInv
<1>6. CASE UNCHANGED vars
  BY <1>0, <1>6 DEF vars, PoolInv, TypeOK, OnePlace, HandsDisjoint, ListsDisjoint, NoneLost,
                    CountsAgree, FatalOnlyWhenAllOwned, AllOwnedByOthers
<1>7. QED
  BY <1>1, <1>2, <1>3, <1>4, <1>5, <1>6 DEF Next, ProducerStep, ConsumerStep

(* In every reachable state of every instance each buffer of the pool is   *)
(* in exactly one place and the counters agree with the lists.             *)
THEOREM PoolCorrect == Spec => []PoolInv
<1>1. QED
  BY PoolInvInit, PoolInvNext, PTL DEF Spec

(* No call of any thread loses a buffer, or gives it to two owners.         *)
THEOREM OnePlaceCorrect == Spec => []OnePlace
<1>1. PoolInv => OnePlace
  BY DEF PoolInv
<1>2. QED
  BY <1>1, PoolCorrect, PTL

(* allocate_data reaches exit(-1) only if the caller owns no buffer and the *)
(* threads own them all.                                                    *)
THEOREM FatalOnlyCorrect == Spec => []FatalOnlyWhenAllOwned
<1>1. PoolInv => FatalOnlyWhenAllOwned
  BY DEF PoolInv
<1>2. QED
  BY <1>1, PoolCorrect, PTL

-----------------------------------------------------------------------------
(* A list holds at most as many elements as it is long.                    *)
LEMMA ListedAtMost ==
    ASSUME NEW S, NEW s \in Seq(S)
    PROVE  IsFiniteSet(Range(s)) /\ Cardinality(Range(s)) <= Len(s)
<1>1. s \in [1..Len(s) -> S] /\ Len(s) \in Nat
  BY LenProperties
<1>2. s \in Surjection(1..Len(s), Range(s))
  BY <1>1 DEF Surjection, Range
<1>3. IsFiniteSet(1..Len(s)) /\ Cardinality(1..Len(s)) = IF 1 > Len(s) THEN 0 ELSE Len(s)-1+1
  BY <1>1, FS_Interval, SMTT(30)
<1>4. Cardinality(1..Len(s)) = Len(s)
  BY <1>1, <1>3
<1>5. QED
  BY <1>2, <1>3, <1>4, FS_Surjection

(***************************************************************************)
(* Counting.  If thread p owns nothing, the other threads own at most      *)
(* Cardinality(Thread) - 1 buffers, so that all but that many are on the   *)
(* lists.                                                                  *)
(***************************************************************************)
LEMMA ListedAtLeast ==
    ASSUME PoolInv, NEW p \in Thread, hand[p] = NULL
    PROVE  /\ Cardinality(Buffer) \in Nat /\ Cardinality(Thread) \in Nat
           /\ Cardinality(Buffer)
                <= Len(bufpool) + Len(datapool) + (Cardinality(Thread) - 1)
<1> DEFINE Others == Thread \ {p}
           Owned == {hand[t] : t \in Others}
           Free == Range(bufpool)
           Stored == Range(datapool)
<1>1. TypeOK /\ NoneLost
  BY DEF PoolInv, OnePlace
<1>2. IsFiniteSet(Others) /\ Cardinality(Others) = Cardinality(Thread) - 1
         /\ Cardinality(Thread) \in Nat
  BY FS_RemoveElement, FS_CardinalityType, PoolAssumption
<1>3. IsFiniteSet(Owned) /\ Cardinality(Owned) <= Cardinality(Thread) - 1
  <2>1. IsFiniteSet(Owned) /\ Cardinality(Owned) <= Cardinality(Others)
    <3>1. [t \in Others |-> hand[t]] \in Surjection(Others, Owned)
      BY DEF Surjection
    <3>2. QED
      BY <1>2, <3>1, FS_Surjection
  <2>2. QED
    BY <1>2, <2>1
<1>4. /\ bufpool \in [1..Len(bufpool) -> Buffer] /\ Len(bufpool) \in Nat
      /\ datapool \in [1..Len(datapool) -> Buffer] /\ Len(datapool) \in Nat
  BY <1>1, LenProperties DEF TypeOK
<1>5. IsFiniteSet(Free) /\ Cardinality(Free) <= Len(bufpool)
  BY <1>1, ListedAtMost DEF TypeOK
<1>6. IsFiniteSet(Stored) /\ Cardinality(Stored) <= Len(datapool)
  BY <1>1, ListedAtMost DEF TypeOK
<1>7. Buffer \subseteq (Free \cup Stored) \cup Owned
  <2>1. hand \in [Thread -> Buffer \cup {NULL}]
    BY <1>1 DEF TypeOK
  <2>3. Range(hand) \ {NULL} \subseteq Owned
    BY <2>1 DEF Range
  <2>4. QED
    BY <1>1, <2>3, PoolAssumption DEF NoneLost
<1> HIDE DEF Owned, Free, Stored
<1>8. /\ IsFiniteSet(Free \cup Stored)
      /\ Cardinality(Free \cup Stored) <= Len(bufpool) + Len(datapool)
  <2>1. IsFiniteSet(Free \cup Stored)
          /\ Cardinality(Free \cup Stored)
               = Cardinality(Free) + Cardinality(Stored) - Cardinality(Free \cap Stored)
    BY <1>5, <1>6, FS_Union
  <2>2. Cardinality(Free) \in Nat /\ Cardinality(Stored) \in Nat
          /\ Cardinality(Free \cap Stored) \in Nat
    BY <1>5, <1>6, FS_CardinalityType, FS_Intersection
  <2>3. QED
    BY <1>4, <1>5, <1>6, <2>1, <2>2
<1>9. /\ IsFiniteSet((Free \cup Stored) \cup Owned)
      /\ Cardinality((Free \cup Stored) \cup Owned)
           <= Len(bufpool) + Len(datapool) + (Cardinality(Thread) - 1)
  <2>1. IsFiniteSet((Free \cup Stored) \cup Owned)
          /\ Cardinality((Free \cup Stored) \cup Owned)
               = Cardinality(Free \cup Stored) + Cardinality(Owned)
                   - Cardinality((Free \cup Stored) \cap Owned)
    BY <1>3, <1>8, FS_Union
  <2>2. Cardinality(Free \cup Stored) \in Nat /\ Cardinality(Owned) \in Nat
          /\ Cardinality((Free \cup Stored) \cap Owned) \in Nat
    BY <1>3, <1>8, FS_CardinalityType, FS_Intersection
  <2>3. QED
    BY <1>2, <1>3, <1>4, <1>8, <2>1, <2>2
<1>10. Cardinality(Buffer) <= Cardinality((Free \cup Stored) \cup Owned)
  BY <1>7, <1>9, FS_Subset
<1>11. Cardinality(Buffer) \in Nat /\ Cardinality((Free \cup Stored) \cup Owned) \in Nat
  BY <1>9, FS_CardinalityType, PoolAssumption
<1>12. QED
  BY <1>2, <1>4, <1>9, <1>10, <1>11

(***************************************************************************)
(* A pool with as many buffers as there are threads on its two ends never  *)
(* runs into the exit(-1) of allocate_data.                                *)
(***************************************************************************)
THEOREM NeverFatalCorrect == Spec => []NeverFatal
<1>1. PoolInv /\ [Next]_vars /\ NeverFatal => NeverFatal'
  <2> SUFFICES ASSUME PoolInv, [Next]_vars, EnoughBuffers, ~exited, exited'
               PROVE  FALSE
    BY DEF NeverFatal, EnoughBuffers, PoolInv, TypeOK
  <2>1. PICK p \in Producer : hand[p] = NULL /\ bufpool = <<>> /\ datapool = <<>>
    BY DEF Next, ProducerStep, ConsumerStep, allocate_data, fill_data, store_data,
           load_data, release_data, vars
  <2>2. /\ Cardinality(Buffer) \in Nat /\ Cardinality(Thread) \in Nat
        /\ Cardinality(Buffer) <= Len(bufpool) + Len(datapool) + (Cardinality(Thread) - 1)
    BY <2>1, ListedAtLeast DEF Thread
  <2>3. Len(bufpool) = 0 /\ Len(datapool) = 0
    BY <2>1
  <2>4. QED
    BY <2>2, <2>3 DEF EnoughBuffers
<1>2. Init => NeverFatal
  BY DEF Init, NeverFatal
<1>3. QED
  BY <1>1, <1>2, PoolCorrect, PTL DEF Spec

-----------------------------------------------------------------------------
(***************************************************************************)
(* Refinement of LossyQueue.  One more invariant is needed: what is queued *)
(* or in a consumer's hands is a frame, not a zeroed buffer.               *)
(***************************************************************************)
OnlyFrames ==
    /\ \A b \in Range(datapool) : contents[b] # NoFrame
    /\ \A c \in Consumer : hand[c] # NULL => contents[hand[c]] # NoFrame

(* No zeroed buffer is ever queued or loaded.                              *)
LEMMA OnlyFramesNext == PoolInv /\ OnlyFrames /\ [Next]_vars => OnlyFrames'
<1> SUFFICES ASSUME PoolInv, OnlyFrames, [Next]_vars PROVE OnlyFrames'
  OBVIOUS
<1> USE PoolAssumption
<1>0. TypeOK /\ HandsDisjoint
  BY DEF PoolInv, OnePlace
<1>a. ASSUME NEW t \in Thread, load_data_unlocked(t), datapool # <<>>, UNCHANGED contents
      PROVE  OnlyFrames'
  <2>1. Range(datapool) = {Head(datapool)} \cup Range(Tail(datapool))
    BY <1>0, <1>a, UnlinkHead DEF TypeOK
  <2>2. \A c \in Thread : hand'[c] = IF c = t THEN Head(datapool) ELSE hand[c]
    BY <1>0, <1>a DEF load_data_unlocked, TypeOK
  <2>3. QED
    BY <1>a, <2>1, <2>2 DEF OnlyFrames, load_data_unlocked, Thread
<1>1. ASSUME NEW p \in Producer, allocate_data(p) PROVE OnlyFrames'
  <2>1. \A c \in Consumer : c # p
    BY <1>1
  <2>2. CASE hand' = [hand EXCEPT ![p] = Head(bufpool)] /\ UNCHANGED datapool
    BY <1>0, <1>1, <2>1, <2>2 DEF allocate_data, OnlyFrames, TypeOK, Thread
  <2>3. CASE load_data_unlocked(p) /\ datapool # <<>>
    BY <1>1, <1>a, <2>3 DEF allocate_data, Thread
  <2>4. CASE UNCHANGED <<datapool, hand>>
    BY <1>1, <2>4 DEF allocate_data, OnlyFrames
  <2>5. QED
    BY <1>1, <2>2, <2>3, <2>4 DEF allocate_data
<1>2. ASSUME NEW p \in Producer, NEW f \in Frame, fill_data(p, f) PROVE OnlyFrames'
  <2>1. \A b \in Buffer : contents[b] # NoFrame => contents'[b] # NoFrame
    BY <1>0, <1>2 DEF fill_data, TypeOK
  <2>2. Range(datapool) \subseteq Buffer
    BY <1>0, LenProperties DEF TypeOK, Range
  <2>3. \A c \in Consumer : hand[c] # NULL => hand[c] \in Buffer
    BY <1>0 DEF TypeOK, Thread
  <2>4. QED
    BY <1>2, <2>1, <2>2, <2>3 DEF fill_data, OnlyFrames
<1>3. ASSUME NEW p \in Producer, store_data(p) PROVE OnlyFrames'
  <2>1. hand[p] \in Buffer
    BY <1>0, <1>3 DEF store_data, TypeOK, Thread
  <2>2. Range(datapool') = Range(datapool) \cup {hand[p]}
    BY <1>0, <1>3, <2>1, LinkTail DEF store_data, TypeOK
  <2>3. \A c \in Consumer : hand'[c] = hand[c]
    BY <1>0, <1>3 DEF store_data, TypeOK, Thread
  <2>4. QED
    BY <1>3, <2>2, <2>3 DEF store_data, OnlyFrames
<1>4. ASSUME NEW c \in Consumer, load_data(c) PROVE OnlyFrames'
  BY <1>4, <1>a DEF load_data, Thread
<1>5. ASSUME NEW c \in Consumer, release_data(c) PROVE OnlyFrames'
  BY <1>0, <1>5 DEF release_data, OnlyFrames, TypeOK, Thread
<1>6. CASE UNCHANGED vars
  BY <1>6 DEF vars, OnlyFrames
<1>7. QED
  BY <1>1, <1>2, <1>3, <1>4, <1>5, <1>6 DEF Next, ProducerStep, ConsumerStep

(* Every step of the pool is a step of the queue or changes nothing of it. *)
LEMMA StepRefines ==
    PoolInv /\ OnlyFrames /\ [Next]_vars => [LQ!LQNext]_(LQ!lqvars)
<1> SUFFICES ASSUME PoolInv, OnlyFrames, [Next]_vars
             PROVE  [LQ!LQNext]_(LQ!lqvars)
  OBVIOUS
<1> USE PoolAssumption
<1> DEFINE q == Through(contents, datapool)
           tk == [c \in Consumer |-> FrameIn(hand[c])]
           ml == IF FewestQueued > 0 THEN FewestQueued ELSE 0
           Content == Frame \cup {NoFrame}
<1> HIDE DEF Content
<1>0. TypeOK /\ HandsDisjoint
  BY DEF PoolInv, OnePlace
<1>b. /\ datapool \in Seq(Buffer)
      /\ contents \in [Buffer -> Frame \cup {NoFrame}]
      /\ hand \in [Thread -> Buffer \cup {NULL}]
      /\ Consumer \subseteq Thread /\ Producer \subseteq Thread
  BY <1>0 DEF TypeOK, Thread
<1>e. datapool \in Seq(Buffer) /\ contents \in [Buffer -> Content]
  BY <1>b DEF Content
<1>c. Len(q) = Len(datapool)
  BY <1>e, ThroughType DEF Through
<1>d. ASSUME datapool # <<>>
      PROVE  /\ q # <<>> /\ Head(q) = contents[Head(datapool)]
             /\ Tail(q) = Through(contents, Tail(datapool))
             /\ Head(datapool) \in Buffer /\ contents[Head(datapool)] # NoFrame
  <2>1. q # <<>> /\ Head(q) = contents[Head(datapool)]
          /\ Tail(q) = Through(contents, Tail(datapool))
    BY <1>d, <1>e, ThroughTail DEF Through
  <2>2. Head(datapool) \in Buffer /\ Head(datapool) \in Range(datapool)
    BY <1>b, <1>d, UnlinkHead
  <2>3. QED
    BY <2>1, <2>2 DEF OnlyFrames
<1>1. ASSUME NEW p \in Producer, allocate_data(p), ~exited
      PROVE  LQ!LoseEldest \/ UNCHANGED <<q, tk>>
  <2>1. \A c \in Consumer : c # p
    BY <1>1
  <2>2. UNCHANGED contents /\ \A c \in Consumer : hand'[c] = hand[c]
    BY <1>1, <1>b, <2>1 DEF allocate_data, load_data_unlocked
  <2>3. UNCHANGED tk
    BY <2>2 DEF FrameIn
  <2>4. CASE UNCHANGED datapool
    BY <2>2, <2>3, <2>4 DEF Through
  <2>5. CASE bufpool = <<>> /\ datapool # <<>> /\ load_data_unlocked(p)
    <3>1. q' = Tail(q) /\ q # <<>>
      BY <1>d, <2>2, <2>5 DEF load_data_unlocked
    <3>2. Len(q) >= ml
      <4>1. /\ Cardinality(Buffer) \in Nat /\ Cardinality(Thread) \in Nat
            /\ Cardinality(Buffer)
                 <= Len(bufpool) + Len(datapool) + (Cardinality(Thread) - 1)
        BY <1>1, <1>b, ListedAtLeast DEF allocate_data
      <4>2. Len(bufpool) = 0 /\ Len(datapool) \in Nat
        BY <1>b, <2>5, LenProperties
      <4>3. QED
        BY <1>c, <4>1, <4>2 DEF FewestQueued
    <3>3. QED
      BY <2>3, <3>1, <3>2 DEF LQ!LoseEldest, Through
  <2>6. QED
    BY <1>1, <2>4, <2>5 DEF allocate_data
<1>2. ASSUME NEW p \in Producer, NEW f \in Frame, fill_data(p, f) PROVE UNCHANGED <<q, tk>>
  <2>1. \A b \in Buffer : b # hand[p] => contents'[b] = contents[b]
    BY <1>2, <1>b DEF fill_data
  <2>2. UNCHANGED <<datapool, hand>>
    BY <1>2 DEF fill_data
  <2>3. \A i \in 1..Len(datapool) : contents'[datapool[i]] = contents[datapool[i]]
    <3> TAKE i \in 1..Len(datapool)
    <3>1. datapool[i] \in Buffer /\ datapool[i] \in Range(datapool)
      BY <1>b, LenProperties DEF Range
    <3>2. QED
      BY <1>0, <1>b, <2>1, <3>1 DEF HandsDisjoint
  <2>4. UNCHANGED q
    BY <2>2, <2>3 DEF Through
  <2>5. \A c \in Consumer : FrameIn(hand[c])' = FrameIn(hand[c])
    <3> TAKE c \in Consumer
    <3>1. c # p /\ c \in Thread /\ p \in Thread
      BY <1>b
    <3>2. CASE hand[c] = NULL
      BY <2>2, <3>2 DEF FrameIn
    <3>3. CASE hand[c] # NULL
      <4>1. hand[c] # hand[p] /\ hand[c] \in Buffer
        BY <1>0, <1>b, <3>1, <3>3 DEF HandsDisjoint
      <4>2. QED
        BY <2>1, <2>2, <3>3, <4>1 DEF FrameIn
    <3>4. QED
      BY <3>2, <3>3
  <2>6. QED
    BY <2>4, <2>5
<1>3. ASSUME NEW p \in Producer, store_data(p) PROVE \E f \in Frame : LQ!Put(f)
  <2>1. hand[p] \in Buffer /\ contents[hand[p]] \in Frame
    BY <1>3, <1>b DEF store_data
  <2>2. UNCHANGED contents /\ datapool' = Append(datapool, hand[p])
    BY <1>3 DEF store_data
  <2>3. q' = Append(q, contents[hand[p]])
    <3>1. Through(contents, Append(datapool, hand[p])) = Append(q, contents[hand[p]])
      BY <1>e, <2>1, ThroughAppend DEF Through
    <3>2. QED
      BY <2>2, <3>1
  <2>4. \A c \in Consumer : hand'[c] = hand[c]
    BY <1>3, <1>b DEF store_data
  <2>5. UNCHANGED tk
    BY <2>2, <2>4 DEF FrameIn
  <2>6. QED
    BY <2>1, <2>3, <2>5 DEF LQ!Put, Through
<1>4. ASSUME NEW c \in Consumer, load_data(c) PROVE LQ!Take(c)
  <2>1. datapool # <<>> /\ hand[c] = NULL /\ UNCHANGED contents
          /\ datapool' = Tail(datapool) /\ hand' = [hand EXCEPT ![c] = Head(datapool)]
    BY <1>4 DEF load_data, load_data_unlocked
  <2>2. q' = Tail(q) /\ q # <<>> /\ Head(q) = contents[Head(datapool)]
          /\ Head(datapool) # NULL
    BY <1>d, <2>1
  <2>3. tk[c] = NoFrame
    BY <2>1 DEF FrameIn
  <2>4. tk' = [tk EXCEPT ![c] = Head(q)]
    BY <1>b, <2>1, <2>2 DEF FrameIn
  <2>5. QED
    BY <2>2, <2>3, <2>4 DEF LQ!Take, Through
<1>5. ASSUME NEW c \in Consumer, release_data(c) PROVE LQ!GiveBack(c)
  <2>1. hand[c] # NULL /\ UNCHANGED <<contents, datapool>>
          /\ hand' = [hand EXCEPT ![c] = NULL]
    BY <1>5 DEF release_data
  <2>2. tk[c] # NoFrame
    BY <2>1 DEF FrameIn, OnlyFrames
  <2>3. tk' = [tk EXCEPT ![c] = NoFrame]
    BY <1>b, <2>1 DEF FrameIn
  <2>4. UNCHANGED q
    BY <2>1
  <2>5. QED
    BY <2>2, <2>3, <2>4 DEF LQ!GiveBack, Through
<1>6. CASE UNCHANGED vars
  BY <1>6 DEF vars, LQ!lqvars, FrameIn
<1>7. QED
  BY <1>1, <1>2, <1>3, <1>4, <1>5, <1>6
     DEF Next, ProducerStep, ConsumerStep, LQ!LQNext, LQ!lqvars, Through

(***************************************************************************)
(* For any number of buffers, producers and consumers the pool implements  *)
(* the lossy queue: order, undisturbed use and loss of the eldest frame    *)
(* only when the queue is nearly as long as the pool.                      *)
(***************************************************************************)
THEOREM Refinement == Spec => ImplementsLossyQueue
<1>1. Init => LQ!LQInit /\ OnlyFrames
  <2> SUFFICES ASSUME Init PROVE LQ!LQInit /\ OnlyFrames
    OBVIOUS
  <2>1. datapool = <<>> /\ Len(datapool) = 0 /\ Range(datapool) = {}
    BY DEF Init, datapool_init, Range
  <2>2. \A c \in Consumer : hand[c] = NULL
    BY DEF Init, Thread
  <2>3. [i \in 1..Len(datapool) |-> contents[datapool[i]]] = <<>>
    BY <2>1, SMTT(30)
  <2>4. QED
    BY <2>1, <2>2, <2>3 DEF LQ!LQInit, OnlyFrames, FrameIn
<1>2. QED
  BY <1>1, PoolCorrect, OnlyFramesNext, StepRefines, PTL
     DEF Spec, ImplementsLossyQueue, LQ!LQSpec

(* What TLC chooses at the start stays: the texts of the files, the URL    *)
(* and the machine.                                                        *)
LEMMA InputsFixed == [StartNext]_allvars => UNCHANGED <<inputs, machine>>
BY SMTT(30) DEF StartNext, MainStep, load, load_main, parse_assignment, parse_include, parse_malformed,
  end_of_file, load_failed, stack_overflows, LoadStep,
  load_url, ga_url_parse, rtspconf_parse, pass_option, crop_disabled, ga_crop_window, crop_fails,
  ga_load_module, DriverStep, dfm_open, dfm_setAttachToDesktop, dfm_load_unopened, dfm_load, dfm_connect,
  vsource_init, filter_RGB2YUV_init, sdlmsg_replay_init, asource_init, run_module, encoder_register,
  vsource_begin, filter_begin, asource_begin, ctrl_server_begin, per_client_init, vencoder_begin,
  aencoder_begin, encoder_begins, ClientStep, client_libraries, client_thread_created,
  controller_disabled, client_thread_fails, ctrl_client_begin, vsource_capture, capture_fails, replay_pointing, pool_step,
  allvars, startvars, storevars, filevars, inputs, readframe, cropframe, driverframe, clientframe

(* Positions in an area that is n wide.                                    *)
LEMMA MulMonotone ==
    ASSUME NEW n \in Nat, NEW i \in Int, NEW j \in Int, i <= j
    PROVE  n * i <= n * j
OBVIOUS

(* One line more is one width more.                                        *)
LEMMA MulNext ==
    ASSUME NEW n \in Int, NEW i \in Int
    PROVE  n * (i + 1) = n * i + n /\ n * i \in Int
OBVIOUS

(* An index is a line and a column of it.                                  *)
LEMMA DivMod ==
    ASSUME NEW n \in Nat, n > 0, NEW q \in Int, NEW r \in 0..(n - 1)
    PROVE  (n * q + r) \div n = q /\ (n * q + r) % n = r
OBVIOUS

(* A position tells its row.                                               *)
LEMMA RowOf ==
    ASSUME NEW n \in Nat, n > 0, NEW i \in Int, NEW y \in Int, NEW x \in 0..(n - 1),
           NEW d \in 0..(n - 1), n * i + d = n * y + x
    PROVE  i = y
<1>1. (n * i + d) \div n = i
  BY DivMod
<1>2. (n * y + x) \div n = y
  BY DivMod
<1> QED
  BY <1>1, <1>2

(* The last position of a row is one before the next row.                  *)
LEMMA InArea ==
    ASSUME NEW n \in Nat, NEW h \in Nat, NEW i \in 0..(h - 1), NEW x \in 0..(n - 1)
    PROVE  n * i \in Nat /\ n * i + n <= n * h /\ n * i + x \in 0..(n * h - 1)
<1>1. n * (i + 1) = n * i + n /\ n * i \in Int
  BY MulNext
<1>2. n * (i + 1) <= n * h
  BY MulMonotone
<1>3. n * 0 <= n * i /\ n * 0 = 0 /\ n * h \in Int
  BY MulMonotone
<1> QED
  BY <1>1, <1>2, <1>3

-----------------------------------------------------------------------------
(* What copying line by line, or one block, writes.                        *)
LEMMA LinesFilled ==
    ASSUME NEW m, NEW r, NEW base \in Int, NEW step \in Int,
           r.width \in Nat, r.height \in Nat
    PROVE  /\ DOMAIN Filled(m, CopyLines(r, base, step)) \subseteq 0..(r.width * r.height - 1)
           /\ \A x \in 0..(r.width - 1), y \in 0..(r.height - 1) :
                  /\ r.width * y + x \in DOMAIN Filled(m, CopyLines(r, base, step))
                  /\ Filled(m, CopyLines(r, base, step))[r.width * y + x]
                     = PixelAt(m, base + step * y + x)
<1> DEFINE w == r.width
           h == r.height
           line(i) == [from |-> base + step * i, to |-> w * i, length |-> w]
           copies == CopyLines(r, base, step)
           F == Filled(m, copies)
           Dom == UNION {c.to..(c.to + c.length - 1) : c \in copies}
<1>1. copies = {line(i) : i \in 0..(h - 1)}
  BY DEF CopyLines
<1>2. DOMAIN F = Dom
  BY DEF Filled
<1>3. ASSUME NEW a \in Dom PROVE a \in 0..(w * h - 1)
  <2>1. PICK i \in 0..(h - 1) : a \in (w * i)..(w * i + w - 1)
    BY <1>1, <1>3
  <2>2. w * i \in Nat /\ w * i + w <= w * h /\ w * h \in Int
    <3>1. CASE w = 0
      BY <2>1, <3>1
    <3>2. CASE w > 0
      BY <3>2, InArea
    <3> QED
      BY <3>1, <3>2
  <2> QED
    BY <2>1, <2>2
<1>4. ASSUME NEW x \in 0..(w - 1), NEW y \in 0..(h - 1)
      PROVE  w * y + x \in Dom /\ F[w * y + x] = PixelAt(m, base + step * y + x)
  <2> DEFINE a == w * y + x
             d == CHOOSE e \in copies : a \in e.to..(e.to + e.length - 1)
  <2>1. w * y \in Int /\ step * y \in Int /\ a \in Int
    OBVIOUS
  <2>2. line(y) \in copies /\ a \in line(y).to..(line(y).to + line(y).length - 1)
    <3>1. line(y).to = w * y /\ line(y).length = w
      OBVIOUS
    <3>2. a \in (w * y)..(w * y + w - 1)
      BY <2>1
    <3> HIDE DEF a, line, copies
    <3>3. line(y) \in copies
      BY <1>1
    <3> QED
      BY <3>1, <3>2, <3>3
  <2>3. a \in Dom
    BY <2>2
  <2>4. d \in copies /\ a \in d.to..(d.to + d.length - 1)
    BY <2>2
  <2>5. PICK i \in 0..(h - 1) : d = line(i)
    BY <1>1, <2>4
  <2>6. w * i \in Int /\ a \in (w * i)..(w * i + w - 1)
    BY <2>4, <2>5
  <2>7. i = y
    <3>1. a - w * i \in 0..(w - 1) /\ w * i + (a - w * i) = w * y + x
      BY <2>1, <2>6
    <3>2. w \in Nat /\ w > 0 /\ x \in 0..(w - 1) /\ i \in Int /\ y \in Int
      OBVIOUS
    <3> HIDE DEF w
    <3> QED
      BY <3>1, <3>2, RowOf
  <2>8. F[a] = PixelAt(m, d.from + a - d.to)
    BY <2>3 DEF Filled
  <2>9. d.from + a - d.to = base + step * y + x
    <3>2. a = w * y + x
      OBVIOUS
    <3> HIDE DEF d, a
    <3>1. d.from = base + step * y /\ d.to = w * y
      BY <2>5, <2>7
    <3> QED
      BY <2>1, <3>1, <3>2
  <2> QED
    BY <2>3, <2>8, <2>9
<1> QED
  BY <1>2, <1>3, <1>4

(* A block that is copied with one memcpy fills exactly its own indices.   *)
LEMMA BlockFilled ==
    ASSUME NEW m, NEW n \in Nat
    PROVE  /\ DOMAIN Filled(m, CopyBlock(n)) = 0..(n - 1)
           /\ \A a \in 0..(n - 1) : Filled(m, CopyBlock(n))[a] = PixelAt(m, a)
<1> DEFINE c == [from |-> 0, to |-> 0, length |-> n]
           copies == CopyBlock(n)
<1>1. copies = {c}
  BY DEF CopyBlock
<1>2. UNION {d.to..(d.to + d.length - 1) : d \in copies} = 0..(n - 1)
  BY <1>1
<1>3. ASSUME NEW a \in 0..(n - 1)
      PROVE  (CHOOSE d \in copies : a \in d.to..(d.to + d.length - 1)) = c
  BY <1>1
<1>4. ASSUME NEW a \in 0..(n - 1) PROVE c.from + a - c.to = a
  OBVIOUS
<1> QED
  BY <1>2, <1>3, <1>4 DEF Filled

-----------------------------------------------------------------------------
(* The image memory holds the pixels of the screen row by row.             *)
LEMMA Distribute ==
    ASSUME NEW n \in Int, NEW i \in Int, NEW j \in Int
    PROVE  n * i + n * j = n * (i + j) /\ n * i - n * j = n * (i - j) /\ (-n) * j = -(n * j)
           /\ n * i \in Int /\ n * j \in Int
OBVIOUS

(* A machine's screen in numbers: what MachineAssumption says, one field   *)
(* at a time.                                                              *)
LEMMA MachineIs ==
    ASSUME NEW m \in Machines
    PROVE  /\ m.width \in Nat /\ m.width > 0 /\ m.width <= 65535
           /\ m.height \in Nat /\ m.height > 0 /\ m.height <= 65535
           /\ m.pitch \in Nat /\ m.pitch >= m.width
           /\ m.backend \in {"xwin", "gdi", "d3d", "dfm", "osx"}
<1>1. /\ m.backend \in {"xwin", "gdi", "d3d", "dfm", "osx"}
      /\ m.width \in Extent /\ m.height \in Extent
      /\ m.pitch \in Nat /\ m.pitch >= m.width
  BY MachineAssumption, ZenonT(30)
<1>2. \A n \in Extent : n \in Nat /\ n > 0 /\ n <= 65535
  BY SMTT(30) DEF Extent
<1> QED
  BY <1>1, <1>2

(* The length of a line in what a back end captures of a whole screen.     *)
Line(m) == IF m.backend \in {"xwin", "d3d"} THEN m.pitch ELSE m.width

(* Where the memory has row y of the screen.                               *)
Row(m, y) == IF m.backend = "gdi" THEN m.height - 1 - y ELSE y

(* Which pixel of the screen PixelAt names.                                *)
LEMMA PixelIs ==
    ASSUME NEW m \in Machines, NEW x \in 0..(m.width - 1), NEW y \in 0..(m.height - 1)
    PROVE  PixelAt(m, Line(m) * Row(m, y) + x) = <<x, y>>
<1> DEFINE line == Line(m)
           row == Row(m, y)
           a == line * row + x
<1>1. /\ m.width \in Nat /\ m.height \in Nat /\ m.pitch \in Nat /\ m.pitch >= m.width
  BY MachineIs
<1>2. line \in Nat /\ line >= m.width /\ line > 0 /\ x \in 0..(line - 1)
  BY <1>1 DEF Line
<1>3. row \in 0..(m.height - 1) /\ (m.backend = "gdi" => m.height - 1 - row = y)
      /\ (m.backend # "gdi" => row = y)
  BY <1>1 DEF Row
<1>4. a % line = x /\ a \div line = row
  <2> HIDE DEF line, row
  <2> QED
    BY <1>2, <1>3, DivMod
<1>5. a >= 0
  <2>1. line * row \in Nat
    <3> HIDE DEF line, row
    <3> QED
      BY <1>1, <1>2, <1>3
  <2> HIDE DEF line, row
  <2> QED
    BY <2>1
<1>6. PixelAt(m, a) = IF a >= 0 /\ a % line < m.width
                         /\ (IF m.backend = "gdi" THEN m.height - 1 - a \div line ELSE a \div line)
                             \in 0..(m.height - 1)
                      THEN <<a % line, IF m.backend = "gdi" THEN m.height - 1 - a \div line
                                                            ELSE a \div line>>
                      ELSE NoPixel
  BY DEF PixelAt, Line
<1> HIDE DEF a, line, row
<1>7. (IF m.backend = "gdi" THEN m.height - 1 - a \div line ELSE a \div line) = y
  BY <1>3, <1>4
<1>8. x < m.width
  BY <1>1
<1>9. PixelAt(m, a) = <<x, y>>
  BY <1>4, <1>5, <1>6, <1>7, <1>8
<1> QED
  BY <1>9 DEF a, line, row

(* F has pixel (x, y) of a frame where a line of stride pixels has it, and *)
(* the frame is the screen from (x0, y0) on.                               *)
Shows(F, stride, w, h, x0, y0) ==
    \A x \in 0..(w - 1), y \in 0..(h - 1) :
        stride * y + x \in DOMAIN F /\ F[stride * y + x] = <<x0 + x, y0 + y>>

(* Lines read upwards or downwards.                                        *)
Step(m) == IF m.backend = "gdi" THEN -Line(m) ELSE Line(m)

(* Rows that are within their lines do not overlap in the buffer.          *)
LEMMA RowsFollow ==
    ASSUME NEW m \in Machines, NEW t \in Int, NEW y \in Int
    PROVE  /\ Line(m) * Row(m, t) + Step(m) * y = Line(m) * Row(m, t + y)
           /\ Line(m) * Row(m, t) \in Int /\ Step(m) * y \in Int
<1>1. m.height \in Nat /\ Line(m) \in Nat
  BY MachineIs DEF Line
<1>2. CASE m.backend = "gdi"
  <2>1. Step(m) * y = -(Line(m) * y) /\ Row(m, t) = m.height - 1 - t
        /\ Row(m, t + y) = m.height - 1 - (t + y)
    BY <1>1, <1>2, Distribute DEF Step, Row
  <2>2. Line(m) * (m.height - 1 - t) - Line(m) * y = Line(m) * ((m.height - 1 - t) - y)
        /\ Line(m) * (m.height - 1 - t) \in Int /\ Line(m) * y \in Int
    BY <1>1, Distribute
  <2>3. (m.height - 1 - t) - y = m.height - 1 - (t + y)
    BY <1>1
  <2> QED
    BY <2>1, <2>2, <2>3
<1>3. CASE m.backend # "gdi"
  <2>1. Step(m) = Line(m) /\ Row(m, t) = t /\ Row(m, t + y) = t + y
    BY <1>3 DEF Step, Row
  <2>2. Line(m) * t + Line(m) * y = Line(m) * (t + y)
        /\ Line(m) * t \in Int /\ Line(m) * y \in Int
    BY <1>1, Distribute
  <2> QED
    BY <2>1, <2>2
<1> QED
  BY <1>2, <1>3

(* Lines copied from the corner (x0, y0) show the screen from there on.    *)
LEMMA LinesShow ==
    ASSUME NEW m \in Machines, NEW r, NEW x0 \in Nat, NEW y0 \in Nat,
           r.width \in Nat, r.height \in Nat, r.height > 0,
           x0 + r.width <= m.width, y0 + r.height <= m.height
    PROVE  LET F == Filled(m, CopyLines(r, Line(m) * Row(m, y0) + x0, Step(m)))
           IN  /\ DOMAIN F \subseteq 0..(r.width * r.height - 1)
               /\ Shows(F, r.width, r.width, r.height, x0, y0)
<1> DEFINE base == Line(m) * Row(m, y0) + x0
           F == Filled(m, CopyLines(r, base, Step(m)))
<1>1. m.height \in Nat /\ m.width \in Nat /\ Line(m) \in Nat
  BY MachineIs DEF Line
<1>2. Step(m) \in Int /\ Row(m, y0) \in Int
  BY <1>1 DEF Step, Row
<1>3. base \in Int
  BY <1>1, <1>2
<1>4. /\ DOMAIN F \subseteq 0..(r.width * r.height - 1)
      /\ \A x \in 0..(r.width - 1), y \in 0..(r.height - 1) :
             /\ r.width * y + x \in DOMAIN F
             /\ F[r.width * y + x] = PixelAt(m, base + Step(m) * y + x)
  <2> HIDE DEF base
  <2> QED
    BY <1>2, <1>3, LinesFilled
<1>5. ASSUME NEW x \in 0..(r.width - 1), NEW y \in 0..(r.height - 1)
      PROVE  PixelAt(m, base + Step(m) * y + x) = <<x0 + x, y0 + y>>
  <2>1. y0 \in 0..(m.height - 1) /\ y0 + y \in 0..(m.height - 1) /\ x0 + x \in 0..(m.width - 1)
    BY <1>1
  <2>2. base + Step(m) * y + x = Line(m) * Row(m, y0 + y) + (x0 + x)
    <3>1. x \in Int /\ y \in Int /\ x0 \in Int /\ y0 \in Int
      OBVIOUS
    <3>2. Line(m) * Row(m, y0) + Step(m) * y = Line(m) * Row(m, y0 + y)
          /\ Line(m) * Row(m, y0) \in Int /\ Step(m) * y \in Int
      BY <3>1, RowsFollow
    <3> QED
      BY <3>1, <3>2
  <2>3. PixelAt(m, Line(m) * Row(m, y0 + y) + (x0 + x)) = <<x0 + x, y0 + y>>
    BY <2>1, PixelIs
  <2> QED
    BY <2>2, <2>3
<1> HIDE DEF F, base
<1>6. Shows(F, r.width, r.width, r.height, x0, y0)
  BY <1>4, <1>5 DEF Shows
<1> QED
  BY <1>4, <1>6 DEF F, base

(* A cropped frame is the rectangle of the screen, on every back end.      *)
LEMMA CropShows ==
    ASSUME NEW m \in Machines, NEW state, m.backend = "dfm" => state = "connected",
           NEW r, r # NoRect, r.left \in Nat, r.top \in Nat,
           r.width \in Nat, r.height \in Nat, r.height > 0,
           r.left + r.width <= m.width, r.top + r.height <= m.height
    PROVE  LET F == Filled(m, capture(m, state, "succeed", r.height * r.width, r))
           IN  /\ DOMAIN F \subseteq 0..(r.height * r.width - 1)
               /\ Shows(F, r.width, r.width, r.height, r.left, r.top)
<1> DEFINE n == r.height * r.width
<1>1. n \in Nat /\ n = r.width * r.height
  OBVIOUS
<1>2. n >= r.width * r.height
  BY <1>1
<1>3. Room(m, n, r)
  <2> HIDE DEF n
  <2> QED
    BY <1>2 DEF Room
<1>4. capture(m, state, "succeed", n, r) = CopyLines(r, Line(m) * Row(m, r.top) + r.left, Step(m))
  <2> HIDE DEF n
  <2>1. m.backend \in {"xwin", "gdi", "d3d", "dfm", "osx"}
    BY MachineIs
  <2>2. CASE m.backend = "xwin"
    BY <2>2 DEF capture, ga_xwin_capture, Line, Row, Step
  <2>3. CASE m.backend = "gdi"
    BY <1>3, <2>3 DEF capture, ga_win32_GDI_capture, Line, Row, Step
  <2>4. CASE m.backend = "d3d"
    BY <1>3, <2>4 DEF capture, ga_win32_D3D_capture, Line, Row, Step
  <2>5. CASE m.backend = "dfm"
    BY <1>3, <2>5 DEF capture, ga_win32_DFM_capture, Line, Row, Step
  <2>6. CASE m.backend = "osx"
    BY <1>3, <2>6 DEF capture, ga_osx_capture, Line, Row, Step
  <2> QED
    BY <2>1, <2>2, <2>3, <2>4, <2>5, <2>6
<1> QED
  BY <1>1, <1>4, LinesShow

(* An uncropped frame is the screen, unless its lines are padded.          *)
LEMMA ScreenShows ==
    ASSUME NEW m \in Machines, NEW state, m.backend = "dfm" => state = "connected",
           ~(m.backend = "d3d" /\ m.pitch > m.width), NEW n \in Nat,
           n = image_init(m).height * image_init(m).bytes_per_line
    PROVE  LET F == Filled(m, capture(m, state, "succeed", n, NoRect))
           IN  /\ DOMAIN F \subseteq 0..(n - 1)
               /\ Shows(F, image_init(m).bytes_per_line, m.width, m.height, 0, 0)
<1> DEFINE line == Line(m)
           F == Filled(m, capture(m, state, "succeed", n, NoRect))
<1>1. /\ m.width \in Nat /\ m.width > 0 /\ m.height \in Nat /\ m.height > 0
      /\ m.pitch \in Nat /\ m.pitch >= m.width
      /\ m.backend \in {"xwin", "gdi", "d3d", "dfm", "osx"}
  BY MachineIs
<1>2. image_init(m).height = m.height /\ image_init(m).bytes_per_line = line
      /\ line \in Nat /\ line >= m.width /\ (m.backend # "xwin" => line = m.width)
  BY <1>1 DEF image_init, ga_xwin_init, ga_win32_GDI_init, ga_win32_D3D_init, ga_win32_DFM_init,
              ga_osx_init, ImageOf, Line
<1> HIDE DEF line
<1>3. n = line * m.height /\ m.width * m.height \in Nat /\ n >= m.width * m.height
  <2>1. n = m.height * line
    BY <1>2
  <2>2. m.height * m.width <= m.height * line
    BY <1>1, <1>2, MulMonotone
  <2>3. m.height * line = line * m.height /\ m.height * m.width = m.width * m.height
        /\ m.width * m.height \in Nat
    BY <1>1, <1>2
  <2> QED
    BY <2>1, <2>2, <2>3
<1>4. Room(m, n, NoRect)
  BY <1>3 DEF Room
<1>5. CASE m.backend = "gdi"
  <2> DEFINE r == WholeScreen(m)
  <2>1. capture(m, state, "succeed", n, NoRect) = CopyLines(r, Line(m) * Row(m, 0) + 0, Step(m))
    BY <1>4, <1>5 DEF capture, ga_win32_GDI_capture, Line, Row, Step, WholeScreen
  <2>2. r.width = m.width /\ r.height = m.height
    BY DEF WholeScreen
  <2>3. line = m.width
    BY <1>2, <1>5
  <2> HIDE DEF r
  <2>4. /\ DOMAIN F \subseteq 0..(r.width * r.height - 1)
        /\ Shows(F, r.width, r.width, r.height, 0, 0)
    BY <1>1, <2>1, <2>2, LinesShow
  <2> QED
    BY <1>2, <1>3, <2>2, <2>3, <2>4
<1>6. CASE m.backend # "gdi"
  <2>1. capture(m, state, "succeed", n, NoRect) = CopyBlock(n)
    <3>1. CASE m.backend = "xwin"
      BY <3>1 DEF capture, ga_xwin_capture
    <3>2. CASE m.backend = "d3d"
      <4>1. m.pitch * m.height = n
        BY <1>1, <1>2, <1>3, <3>2
      <4> QED
        BY <1>4, <3>2, <4>1 DEF capture, ga_win32_D3D_capture
    <3>3. CASE m.backend = "dfm"
      <4>1. m.width * m.height = n
        BY <1>1, <1>2, <1>3, <3>3
      <4> QED
        BY <1>4, <3>3, <4>1 DEF capture, ga_win32_DFM_capture
    <3>4. CASE m.backend = "osx"
      <4>1. m.width * m.height = n
        BY <1>1, <1>2, <1>3, <3>4
      <4> QED
        BY <1>4, <3>4, <4>1 DEF capture, ga_osx_capture
    <3> QED
      BY <1>1, <1>6, <3>1, <3>2, <3>3, <3>4
  <2>2. DOMAIN F = 0..(n - 1) /\ \A a \in 0..(n - 1) : F[a] = PixelAt(m, a)
    BY <2>1, BlockFilled
  <2>3. ASSUME NEW x \in 0..(m.width - 1), NEW y \in 0..(m.height - 1)
        PROVE  line * y + x \in DOMAIN F /\ F[line * y + x] = <<0 + x, 0 + y>>
    <3>1. x \in 0..(line - 1)
      BY <1>1, <1>2
    <3>2. line * y + x \in 0..(n - 1)
      BY <1>1, <1>2, <1>3, <3>1, InArea
    <3>3. PixelAt(m, line * y + x) = <<x, y>>
      BY <1>6, PixelIs DEF Row, line
    <3>4. 0 + x = x /\ 0 + y = y
      BY <1>1
    <3> HIDE DEF F
    <3> QED
      BY <2>2, <3>2, <3>3, <3>4
  <2> HIDE DEF F
  <2>4. Shows(F, line, m.width, m.height, 0, 0)
    BY <2>3 DEF Shows
  <2> QED
    BY <1>2, <2>2, <2>4 DEF F
<1> QED
  BY <1>5, <1>6

(* A plane with lines as long as its stride lies in one piece.             *)
LEMMA PlaneWithin ==
    ASSUME NEW at \in Nat, NEW n \in Nat, NEW h \in Nat
    PROVE  \A a \in Plane(at, n, n, h) : a \in at..(at + n * h - 1)
<1> SUFFICES ASSUME NEW a \in Plane(at, n, n, h) PROVE a \in at..(at + n * h - 1)
  OBVIOUS
<1>1. PICK i \in 0..(h - 1) : a \in (at + n * i)..(at + n * i + n - 1)
  BY DEF Plane
<1>2. n * i \in Int /\ n * h \in Int
  OBVIOUS
<1>3. a - at - n * i \in 0..(n - 1)
  BY <1>1, <1>2
<1>4. n * i \in Nat /\ n * i + n <= n * h
  BY <1>3, InArea
<1> QED
  BY <1>1, <1>2, <1>4

(* The three planes of a frame with even sides.                            *)
LEMMA EvenPlanes ==
    ASSUME NEW w \in Nat, NEW h \in Nat, w % 2 = 0, h % 2 = 0
    PROVE  /\ PlanesApart(w, h)
           /\ UNION {YPlane(w, h), UPlane(w, h), VPlane(w, h)} \subseteq 0..(2 * (h * w) - 1)
<1> DEFINE a == w \div 2
           b == h \div 2
           n == a * b
<1>1. a \in Nat /\ b \in Nat /\ w = 2 * a /\ h = 2 * b /\ Half(w) = a /\ Half(h) = b
  BY DEF Half
<1>2. n \in Nat /\ h * w = 4 * n /\ w * h = 4 * n /\ (h * w) \div 4 = n
  <2> HIDE DEF a, b
  <2>1. n \in Nat
    BY <1>1
  <2>2. h * w = 4 * n /\ w * h = 4 * n
    BY <1>1
  <2> HIDE DEF n
  <2>3. (4 * n) \div 4 = n
    BY <2>1
  <2> QED
    BY <2>1, <2>2, <2>3
<1>3. \A x \in YPlane(w, h) : x \in 0..(4 * n - 1)
  BY <1>2, PlaneWithin DEF YPlane
<1>4. \A x \in UPlane(w, h) : x \in (4 * n)..(4 * n + n - 1)
  <2>1. UPlane(w, h) = Plane(4 * n, a, a, b)
    BY <1>1, <1>2 DEF UPlane
  <2> HIDE DEF a, b
  <2>2. 4 * n \in Nat
    BY <1>2
  <2> QED
    BY <1>1, <2>1, <2>2, PlaneWithin
<1>5. \A x \in VPlane(w, h) : x \in (5 * n)..(5 * n + n - 1)
  <2>1. VPlane(w, h) = Plane(4 * n + n, a, a, b)
    BY <1>1, <1>2 DEF VPlane
  <2> HIDE DEF a, b
  <2>2. 4 * n + n \in Nat /\ 4 * n + n = 5 * n
    BY <1>2
  <2> QED
    BY <1>1, <2>1, <2>2, PlaneWithin
<1> HIDE DEF n
<1>6. PlanesApart(w, h)
  BY <1>2, <1>3, <1>4, <1>5 DEF PlanesApart
<1>7. ASSUME NEW x \in UNION {YPlane(w, h), UPlane(w, h), VPlane(w, h)}
      PROVE  x \in 0..(2 * (h * w) - 1)
  <2>1. 2 * (h * w) = 8 * n
    BY <1>2
  <2>2. CASE x \in YPlane(w, h)
    BY <1>2, <1>3, <2>1, <2>2
  <2>3. CASE x \in UPlane(w, h)
    BY <1>2, <1>4, <2>1, <2>3
  <2>4. CASE x \in VPlane(w, h)
    BY <1>2, <1>5, <2>1, <2>4, SMTT(30)
  <2> QED
    BY <1>7, <2>2, <2>3, <2>4
<1> QED
  BY <1>6, <1>7

(* Before the rectangle is known, and before modules are initialized.      *)
Uncropped == {"load", "url", "parse", "options", "crop"}

(* The stages of main before the module vsource was initialised.           *)
Before == {"load", "url", "parse", "options", "crop", "modules"}

(* A rectangle is that of the window, and all visible.                     *)
CropInv ==
    /\ machine \in Machines
    /\ stage \in Uncropped => prect = NoRect
    /\ prect # NoRect => window \in Window /\ prect = found(window) /\ visible(machine, prect)

(* Pipes are registered after the rectangle is known, the source's before  *)
(* the filter's; and what runs has its pipe.                               *)
PipeInv ==
    /\ stage \in Before => DOMAIN pipelinemap = {}
    /\ "image-0" \in DOMAIN pipelinemap =>
          source = SourceSize /\ (machine.backend = "dfm" => driver = "connected")
    /\ "filter-0" \in DOMAIN pipelinemap =>
          "image-0" \in DOMAIN pipelinemap /\ pipelinemap["filter-0"].frame = source
    /\ Running("vsource") => "image-0" \in DOMAIN pipelinemap

(* The last frame is what a capture makes of the screen now.               *)
ShotInv ==
    shot.taken =>
        /\ "image-0" \in DOMAIN pipelinemap
        /\ shot.pixels = Filled(machine,
                capture(machine, driver, shot.calls, BufferSize(source), CropRect))

(* What holds of the picture in every state: rectangle, pipes and frame    *)
(* agree.                                                                  *)
PictureInv == CropInv /\ PipeInv /\ ShotInv

(* What becomes of the variables in a step.                                *)
LEMMA StagesForward ==
    [StartNext]_allvars =>
        /\ stage \notin Before => stage' \notin Before
        /\ stage \notin Uncropped => stage' \notin Uncropped
  BY SMTT(30) DEF Before, Uncropped, Configured, Proceed, CallFails, exits,
     SettingUp, BeginsNow, Capturing, Filtering,
     StartNext, MainStep, load, load_url, rtspconf_parse, pass_option, crop_disabled,
     ga_crop_window, crop_fails, ga_load_module, DriverStep, dfm_open, dfm_setAttachToDesktop,
     dfm_load_unopened, dfm_load, dfm_connect, vsource_init, filter_RGB2YUV_init,
     sdlmsg_replay_init, asource_init, run_module, encoder_register, vsource_begin, filter_begin,
     asource_begin, ctrl_server_begin, per_client_init, vencoder_begin, aencoder_begin,
     encoder_begins, ClientStep, client_libraries, client_thread_created, controller_disabled,
     client_thread_fails, ctrl_client_begin, vsource_capture, capture_fails, replay_pointing, pool_step,
     allvars, startvars, inputvars, readframe, cropframe, driverframe, clientframe

(* Only ga_crop_window chooses a window and a rectangle.                   *)
LEMMA CropMoves ==
    [StartNext]_allvars => ga_crop_window \/ UNCHANGED <<window, prect>>
  BY SMTT(30) DEF StartNext, MainStep, load, load_url, rtspconf_parse, pass_option, crop_disabled,
     ga_crop_window, crop_fails, ga_load_module, DriverStep, dfm_open, dfm_setAttachToDesktop,
     dfm_load_unopened, dfm_load, dfm_connect, vsource_init, filter_RGB2YUV_init,
     sdlmsg_replay_init, asource_init, run_module, encoder_register, vsource_begin, filter_begin,
     asource_begin, ctrl_server_begin, per_client_init, vencoder_begin, aencoder_begin,
     encoder_begins, ClientStep, client_libraries, client_thread_created, controller_disabled,
     client_thread_fails, ctrl_client_begin, vsource_capture, capture_fails, replay_pointing, pool_step,
     allvars, startvars, inputvars, readframe, cropframe, driverframe, clientframe

(* Only the init functions of source and filter register pipes, and only   *)
(* the first says what size a picture has.                                 *)
LEMMA PipesMove ==
    [StartNext]_allvars =>
        vsource_init \/ filter_RGB2YUV_init \/ UNCHANGED <<pipelinemap, source>>
  BY SMTT(30) DEF StartNext, MainStep, load, load_url, rtspconf_parse, pass_option, crop_disabled,
     ga_crop_window, crop_fails, ga_load_module, DriverStep, dfm_open, dfm_setAttachToDesktop,
     dfm_load_unopened, dfm_load, dfm_connect, vsource_init, filter_RGB2YUV_init,
     sdlmsg_replay_init, asource_init, run_module, encoder_register, vsource_begin, filter_begin,
     asource_begin, ctrl_server_begin, per_client_init, vencoder_begin, aencoder_begin,
     encoder_begins, ClientStep, client_libraries, client_thread_created, controller_disabled,
     client_thread_fails, ctrl_client_begin, vsource_capture, capture_fails, replay_pointing, pool_step,
     allvars, startvars, inputvars, readframe, cropframe, driverframe, clientframe

(* Only the steps of the DFM driver move it.                               *)
LEMMA DriverMoves ==
    [StartNext]_allvars => DriverStep \/ driver' = driver
  BY SMTT(30) DEF StartNext, MainStep, load, load_url, rtspconf_parse, pass_option, crop_disabled,
     ga_crop_window, crop_fails, ga_load_module, DriverStep, dfm_open, dfm_setAttachToDesktop,
     dfm_load_unopened, dfm_load, dfm_connect, vsource_init, filter_RGB2YUV_init,
     sdlmsg_replay_init, asource_init, run_module, encoder_register, vsource_begin, filter_begin,
     asource_begin, ctrl_server_begin, per_client_init, vencoder_begin, aencoder_begin,
     encoder_begins, ClientStep, client_libraries, client_thread_created, controller_disabled,
     client_thread_fails, ctrl_client_begin, vsource_capture, capture_fails, replay_pointing, pool_step,
     allvars, startvars, inputvars, readframe, cropframe, driverframe, clientframe

(* Only vsource_capture takes a picture.                                   *)
LEMMA ShotMoves ==
    [StartNext]_allvars =>
        (\E p \in Producer, f \in Frame : vsource_capture(p, f)) \/ shot' = shot
  BY SMTT(30) DEF StartNext, MainStep, load, load_url, rtspconf_parse, pass_option, crop_disabled,
     ga_crop_window, crop_fails, ga_load_module, DriverStep, dfm_open, dfm_setAttachToDesktop,
     dfm_load_unopened, dfm_load, dfm_connect, vsource_init, filter_RGB2YUV_init,
     sdlmsg_replay_init, asource_init, run_module, encoder_register, vsource_begin, filter_begin,
     asource_begin, ctrl_server_begin, per_client_init, vencoder_begin, aencoder_begin,
     encoder_begins, ClientStep, client_libraries, client_thread_created, controller_disabled,
     client_thread_fails, ctrl_client_begin, vsource_capture, capture_fails, replay_pointing, pool_step,
     allvars, startvars, inputvars, readframe, cropframe, driverframe, clientframe

(* The thread of the video source runs after vsource_begin only.           *)
LEMMA SourceRuns ==
    [StartNext]_allvars => (Running("vsource")' => Running("vsource") \/ vsource_begin)
  BY DEF Running, Started, BecomesRunning, filter_quit, ga_swscale_init_fails, BeginsNow,
     StartNext, MainStep, load, load_url, rtspconf_parse, pass_option, crop_disabled,
     ga_crop_window, crop_fails, ga_load_module, DriverStep, dfm_open, dfm_setAttachToDesktop,
     dfm_load_unopened, dfm_load, dfm_connect, vsource_init, filter_RGB2YUV_init,
     sdlmsg_replay_init, asource_init, run_module, encoder_register, vsource_begin, filter_begin,
     asource_begin, ctrl_server_begin, per_client_init, vencoder_begin, aencoder_begin,
     encoder_begins, ClientStep, client_libraries, client_thread_created, controller_disabled,
     client_thread_fails, ctrl_client_begin, vsource_capture, capture_fails, replay_pointing, pool_step,
     allvars, startvars, inputvars, readframe, cropframe, driverframe, clientframe

-----------------------------------------------------------------------------
(* The smallest and the greatest of some numbers.                          *)
LEMMA MinIs ==
    ASSUME NEW S, S \subseteq Nat, S # {}
    PROVE  Min(S) \in S /\ \A y \in S : Min(S) <= y
<1> DEFINE P == {n \in Nat : (\E x \in S : x <= n) => \E x \in S : \A y \in S : x <= y}
<1>1. 0 \in P
  OBVIOUS
<1>2. ASSUME NEW n \in Nat, n \in P PROVE n + 1 \in P
  <2>1. ASSUME NEW x \in S, x <= n + 1, ~(\E y \in S : y <= n) PROVE \A y \in S : x <= y
    BY <2>1
  <2> QED
    BY <1>2, <2>1
<1>3. \A n \in Nat : n \in P
  <2> HIDE DEF P
  <2> QED
    BY <1>1, <1>2, SetInduction
<1>4. PICK x \in S : TRUE
  OBVIOUS
<1>x. x \in Nat /\ x <= x
  BY <1>4
<1>5. \E z \in S : \A y \in S : z <= y
  BY <1>3, <1>4, <1>x
<1> QED
  BY <1>5 DEF Min

(* The greatest number of a finite set of numbers is one of them.          *)
LEMMA MaxIs ==
    ASSUME NEW S, NEW n \in Nat, S \subseteq 0..n, S # {}
    PROVE  Max(S) \in S /\ \A y \in S : y <= Max(S)
<1> DEFINE T == {n - x : x \in S}
<1>1. T \subseteq Nat /\ T # {}
  <2>1. \A x \in S : n - x \in Nat /\ n - x \in T
    OBVIOUS
  <2> QED
    BY <2>1
<1>2. Min(T) \in T /\ \A y \in T : Min(T) <= y
  BY <1>1, MinIs
<1>3. PICK z \in S : Min(T) = n - z
  BY <1>2
<1>4. ASSUME NEW y \in S PROVE y <= z
  <2>1. n - y \in T /\ y \in Nat /\ z \in Nat
    OBVIOUS
  <2>2. n - z <= n - y
    BY <1>2, <1>3, <2>1
  <2> QED
    BY <2>1, <2>2
<1> QED
  BY <1>4 DEF Max

(* A window that is found is one of the desktop's.                         *)
LEMMA FoundIsWindow ==
    ASSUME NEW windows \in Desktops, NEW name, FindWindowX(windows, name) # NoRect
    PROVE  FindWindowX(windows, name) \in Window /\ FindWindowX(windows, name).name = name
<1> DEFINE named == {i \in DOMAIN windows : windows[i].name = name}
<1>1. windows \in Seq(Window)
  BY DesktopAssumption
<1>2. DOMAIN windows = 1..Len(windows)
  BY <1>1
<1>3. named # {} /\ FindWindowX(windows, name) = windows[Min(named)]
  BY DEF FindWindowX
<1>4. Min(named) \in named
  <2>1. named \subseteq Nat
    BY <1>1, <1>2
  <2> HIDE DEF named
  <2> QED
    BY <1>3, <2>1, MinIs
<1>5. windows[Min(named)] \in Window
  <2> HIDE DEF named
  <2>1. Min(named) \in 1..Len(windows)
    BY <1>2, <1>4 DEF named
  <2> QED
    BY <1>1, <2>1, ElementOfSeq
<1> QED
  BY <1>3, <1>4, <1>5

(* A window moved to the origin keeps its size.                            *)
LEMMA MovedTo ==
    ASSUME NEW w \in Window, NEW b \in Int
    PROVE  [w EXCEPT !.left = b, !.top = b] \in Window
  BY DEF Window

(* It is a window still.                                                   *)
LEMMA MovedIsWindow ==
    ASSUME NEW m, NEW w \in Window
    PROVE  SetWindowPos(m, w) \in Window /\ SetWindowPos(m, w).name = w.name
           /\ SetWindowPos(m, w).width = w.width /\ SetWindowPos(m, w).height = w.height
           /\ SetWindowPos(m, w).border = w.border
<1>1. w.left \in Int /\ w.border \in Nat /\ w.width \in Extent /\ w.height \in Extent
      /\ w.name \in Value /\ w.top \in Int
  BY DEF Window
<1> DEFINE v == [w EXCEPT !.left = w.border, !.top = w.border]
<1>2. v.name = w.name /\ v.width = w.width /\ v.height = w.height /\ v.border = w.border
      /\ v.left = w.border /\ v.top = w.border
  BY DEF Window
<1>3. v \in Window
  <2>1. w.border \in Int
    BY <1>1
  <2> QED
    BY <2>1, MovedTo
<1> QED
  BY <1>2, <1>3 DEF SetWindowPos

(* Some window found again and again has a rectangle, which is none.       *)
LEMMA CropKeeps == CropInv /\ [StartNext]_allvars => CropInv'
<1> SUFFICES ASSUME CropInv, [StartNext]_allvars PROVE CropInv'
  OBVIOUS
<1>1. machine' = machine
  BY InputsFixed
<1>2. stage \notin Uncropped => stage' \notin Uncropped
  BY StagesForward
<1>3. CASE UNCHANGED <<window, prect>>
  BY <1>1, <1>2, <1>3 DEF CropInv, found
<1>4. CASE ga_crop_window
  <2>1. PICK windows \in Desktops :
            LET named == FindWindowX(windows, readv("find-window-name"))
                w     == SetWindowPos(machine, named)
            IN  /\ named # NoRect
                /\ window' = w
                /\ IF visible(machine, found(w))
                   THEN prect' = found(w) /\ stage' = "modules"
                   ELSE stage' = "exited" /\ prect' = prect
    BY <1>4 DEF ga_crop_window, exits
  <2>2. stage = "crop"
    BY <1>4 DEF ga_crop_window
  <2>3. prect = NoRect /\ stage' \notin Uncropped
    BY <2>1, <2>2 DEF CropInv, Uncropped
  <2>4. window' \in Window
    BY <2>1, FoundIsWindow, MovedIsWindow
  <2>5. prect' # NoRect => prect' = found(window') /\ visible(machine, prect')
    BY <2>1, <2>3
  <2> QED
    BY <1>1, <2>3, <2>4, <2>5 DEF CropInv, found
<1> QED
  BY <1>3, <1>4, CropMoves

(* Both sides of a rectangle that is kept are even, and it is on the       *)
(* screen.                                                                 *)
LEMMA EvenFrom ==
    ASSUME NEW lo \in Int, NEW hi \in Int
    PROVE  /\ even_from(lo, hi) \in {lo - 1, lo}
           /\ (hi - even_from(lo, hi) + 1) % 2 = 0
           /\ even_from(lo, hi) = lo - ((hi - lo + 1) % 2)
<1>1. CASE (hi - lo + 1) % 2 = 0
  BY <1>1 DEF even_from
<1>2. CASE (hi - lo + 1) % 2 # 0
  <2>1. (hi - lo + 1) % 2 = 1 /\ hi - (lo - 1) + 1 = (hi - lo + 1) + 1
    BY <1>2
  <2>2. ((hi - lo + 1) + 1) % 2 = 0
    BY <2>1
  <2> QED
    BY <1>2, <2>1, <2>2 DEF even_from
<1> QED
  BY <1>1, <1>2

(* A window's place and size in numbers.                                   *)
LEMMA WindowIs ==
    ASSUME NEW w \in Window
    PROVE  /\ w.left \in Int /\ w.top \in Int /\ w.border \in Nat /\ w.border \in Int
           /\ w.width \in Nat /\ w.width > 0 /\ w.height \in Nat /\ w.height > 0
<1>1. w.left \in Int /\ w.top \in Int /\ w.border \in Nat
      /\ w.width \in Extent /\ w.height \in Extent
  BY SMTT(30) DEF Window
<1>2. \A n \in Extent : n \in Nat /\ n > 0
  BY SMTT(30) DEF Extent
<1> QED
  BY <1>1, <1>2

(* The corners of the window's inside, as the system tells them.           *)
Shift(m, w) == IF m.backend = "xwin" THEN w.border ELSE 0

(* The rectangle of a window that was found, cut to even lengths: the      *)
(* right and lower edge stay, the left and upper move by one at most.      *)
LEMMA FoundIs ==
    ASSUME NEW m, m = machine, NEW w \in Window
    PROVE  /\ found(w).left \in {w.left - Shift(m, w) - 1, w.left - Shift(m, w)}
           /\ found(w).top \in {w.top - Shift(m, w) - 1, w.top - Shift(m, w)}
           /\ found(w).right = w.left - Shift(m, w) + w.width - 1
           /\ found(w).bottom = w.top - Shift(m, w) + w.height - 1
           /\ found(w).left \in Int /\ found(w).right \in Int
           /\ found(w).top \in Int /\ found(w).bottom \in Int
           /\ found(w).left <= found(w).right /\ found(w).top <= found(w).bottom
           /\ (found(w).right - found(w).left + 1) % 2 = 0
           /\ (found(w).bottom - found(w).top + 1) % 2 = 0
           /\ found(w) # NoRect
           /\ found(w).left = w.left - Shift(m, w) - (w.width % 2)
           /\ found(w).top = w.top - Shift(m, w) - (w.height % 2)
<1> DEFINE x == w.left - Shift(m, w)
           y == w.top - Shift(m, w)
           r == Corners(x, y, w)
<1>1. w.left \in Int /\ w.top \in Int /\ w.border \in Int /\ w.width \in Nat /\ w.height \in Nat
      /\ w.width > 0 /\ w.height > 0
  BY WindowIs
<1>2. client_rect(machine, w) = r
  <2>1. CASE m.backend = "xwin"
    BY <2>1 DEF client_rect, GetClientRectX, Shift
  <2>2. CASE m.backend # "xwin"
    <3>1. x = w.left /\ y = w.top
      BY <1>1, <2>2 DEF Shift
    <3> QED
      BY <2>2, <3>1 DEF client_rect, GetClientRect
  <2> QED
    BY <2>1, <2>2
<1>3. x \in Int /\ y \in Int
  BY <1>1 DEF Shift
<1>4. r.left = x /\ r.right = x + w.width - 1 /\ r.top = y /\ r.bottom = y + w.height - 1
      /\ r = [left |-> x, right |-> x + w.width - 1, top |-> y, bottom |-> y + w.height - 1]
  BY DEF Corners
<1> DEFINE x1 == x + w.width - 1
           y1 == y + w.height - 1
           x0 == even_from(x, x1)
           y0 == even_from(y, y1)
<1>5. found(w) = [left |-> x0, right |-> x1, top |-> y0, bottom |-> y1]
  <2>1. found(w) = even_rect(r)
    BY <1>2 DEF found
  <2> HIDE DEF x, y, x0, y0
  <2>2. r.left = x /\ r.right = x1 /\ r.top = y /\ r.bottom = y1
        /\ r = [left |-> x, right |-> x1, top |-> y, bottom |-> y1]
    BY <1>4
  <2>3. even_rect(r) = [r EXCEPT !.left = x0, !.top = y0]
    BY <2>2 DEF even_rect, x0, y0
  <2> HIDE DEF r, x1, y1
  <2> QED
    BY <2>1, <2>2, <2>3
<1>6. x1 \in Int /\ y1 \in Int /\ x1 - x + 1 = w.width /\ y1 - y + 1 = w.height
  <2> HIDE DEF x, y
  <2> QED
    BY <1>1, <1>3
<1> HIDE DEF x, y, r, x1, y1
<1>7. (x1 - x0 + 1) % 2 = 0 /\ x0 = x - (w.width % 2)
      /\ (y1 - y0 + 1) % 2 = 0 /\ y0 = y - (w.height % 2)
  BY <1>3, <1>6, EvenFrom, ZenonT(30)
<1>8. x0 \in {x - 1, x} /\ y0 \in {y - 1, y}
  BY <1>3, <1>6, EvenFrom
<1> HIDE DEF x0, y0
<1>9. x0 \in Int /\ y0 \in Int /\ x0 <= x1 /\ y0 <= y1
  BY <1>1, <1>3, <1>6, <1>8
<1>10. found(w) # NoRect
  <2>1. found(w) \in Rectangle
    BY <1>5, <1>6, <1>9 DEF Rectangle
  <2> QED
    BY <2>1, DesktopAssumption
<1>11. x = w.left - Shift(m, w) /\ y = w.top - Shift(m, w)
       /\ x1 = w.left - Shift(m, w) + w.width - 1 /\ y1 = w.top - Shift(m, w) + w.height - 1
  BY DEF x, y, x1, y1
<1>12. found(w).left = x0 /\ found(w).right = x1 /\ found(w).top = y0 /\ found(w).bottom = y1
  BY <1>5
<1>13. x - 1 = w.left - Shift(m, w) - 1 /\ y - 1 = w.top - Shift(m, w) - 1
  BY <1>11
<1> QED
  BY <1>6, <1>7, <1>8, <1>9, <1>10, <1>11, <1>12, <1>13, Zenon

-----------------------------------------------------------------------------
(* What a step does to pipes that are there, and to the driver.            *)
LEMMA DriverStays ==
    ASSUME [StartNext]_allvars
    PROVE  /\ machine' = machine
           /\ driver = "connected" => driver' = "connected"
           /\ machine.backend # "dfm" => driver' = driver
           /\ stage \notin Uncropped => prect' = prect
<1>1. machine' = machine
  BY InputsFixed
<1>2. DriverStep => machine.backend = "dfm" /\ driver # "connected"
  BY DEF DriverStep, dfm_open, dfm_setAttachToDesktop, dfm_load_unopened, dfm_load,
         dfm_connect, SettingUp
<1>3. stage \notin Uncropped => prect' = prect
  BY CropMoves DEF ga_crop_window, Uncropped
<1> QED
  BY <1>1, <1>2, <1>3, DriverMoves

(* Every step keeps the pipes in order: registered after cropping, of the  *)
(* size that was captured.                                                 *)
LEMMA PipeKeeps == PipeInv /\ [StartNext]_allvars => PipeInv'
<1> SUFFICES ASSUME PipeInv, [StartNext]_allvars PROVE PipeInv'
  OBVIOUS
<1>1. stage \notin Before => /\ stage' \notin Before /\ prect' = prect /\ machine' = machine
                             /\ driver = "connected" => driver' = "connected"
  BY StagesForward, DriverStays DEF Before, Uncropped
<1>2. SourceSize' = SourceSize \/ stage \in Before
  BY <1>1 DEF SourceSize
<1>3. CASE UNCHANGED <<pipelinemap, source>>
  <2>1. "image-0" \in DOMAIN pipelinemap => stage \notin Before
    BY DEF PipeInv
  <2>2. stage' \in Before => DOMAIN pipelinemap' = {}
    BY <1>1, <1>3 DEF PipeInv
  <2>3. "image-0" \in DOMAIN pipelinemap' =>
            source' = SourceSize' /\ (machine'.backend = "dfm" => driver' = "connected")
    BY <1>1, <1>2, <1>3, <2>1 DEF PipeInv
  <2>4. "filter-0" \in DOMAIN pipelinemap' =>
            "image-0" \in DOMAIN pipelinemap' /\ pipelinemap'["filter-0"].frame = source'
    BY <1>3 DEF PipeInv
  <2>5. Running("vsource")' => "image-0" \in DOMAIN pipelinemap'
    <3>1. CASE Running("vsource")
      BY <1>3, <3>1 DEF PipeInv
    <3>2. CASE vsource_begin /\ "image-0" \in DOMAIN pipelinemap
      BY <1>3, <3>2
    <3>3. CASE vsource_begin /\ "image-0" \notin DOMAIN pipelinemap
      BY <1>3, <3>3 DEF vsource_begin, BeginsNow, Running
    <3> QED
      BY <3>1, <3>2, <3>3, SourceRuns
  <2> QED
    BY <2>2, <2>3, <2>4, <2>5 DEF PipeInv
<1>4. CASE vsource_init
  <2>1. stage = "init" /\ thread' = thread /\ machine' = machine /\ driver' = driver
        /\ prect' = prect /\ (machine.backend = "dfm" => driver = "connected")
    BY <1>4 DEF vsource_init
  <2>2. stage' \notin Before
    BY <1>1, <2>1 DEF Before
  <2>3. CASE UNCHANGED <<pipelinemap, source>>
    BY <1>3, <2>3
  <2>4. CASE video_source_setup_ex(SourceSize)
    <3>1. /\ source' = SourceSize
          /\ DOMAIN pipelinemap' = DOMAIN pipelinemap \cup {"image-0"}
          /\ "filter-0" \in DOMAIN pipelinemap => pipelinemap'["filter-0"] = pipelinemap["filter-0"]
      BY <2>4 DEF video_source_setup_ex, Registered
    <3>2. SourceSize' = SourceSize
      BY <2>1 DEF SourceSize
    <3>3. "filter-0" \in DOMAIN pipelinemap => source = SourceSize
      BY DEF PipeInv
    <3> QED
      BY <2>1, <2>2, <3>1, <3>2, <3>3 DEF PipeInv
  <2> QED
    BY <1>4, <2>3, <2>4 DEF vsource_init
<1>5. CASE filter_RGB2YUV_init
  <2>1. stage = "init" /\ thread' = thread /\ machine' = machine /\ driver' = driver
        /\ prect' = prect /\ source' = source
    BY <1>5 DEF filter_RGB2YUV_init
  <2>2. stage' \notin Before
    BY <1>1, <2>1 DEF Before
  <2>3. CASE pipelinemap' = pipelinemap
    BY <1>3, <2>1, <2>3
  <2>4. CASE pipelinemap' # pipelinemap
    <3>1. /\ "image-0" \in DOMAIN pipelinemap
          /\ DOMAIN pipelinemap' = DOMAIN pipelinemap \cup {"filter-0"}
          /\ pipelinemap'["filter-0"].frame = [width  |-> source.width, height |-> source.height,
                                               stride |-> source.stride]
      BY <1>5, <2>4 DEF filter_RGB2YUV_init, Registered, set_privdata, video_source_width,
         video_source_height, video_source_stride
    <3>2. SourceSize' = SourceSize /\ source = SourceSize
      BY <2>1, <3>1 DEF SourceSize, PipeInv
    <3>3. [width  |-> source.width, height |-> source.height, stride |-> source.stride] = source
      BY <3>2 DEF SourceSize
    <3> QED
      BY <2>1, <2>2, <3>1, <3>2, <3>3 DEF PipeInv, Running
  <2> QED
    BY <2>3, <2>4
<1> QED
  BY <1>3, <1>4, <1>5, PipesMove

(* Once there are pictures they stay as they are.                          *)
LEMMA PictureStays ==
    ASSUME PipeInv, [StartNext]_allvars, "image-0" \in DOMAIN pipelinemap
    PROVE  UNCHANGED <<machine, driver, source, prect>> /\ "image-0" \in DOMAIN pipelinemap'
<1>1. stage \notin Before /\ stage \notin Uncropped /\ source = SourceSize
      /\ (machine.backend = "dfm" => driver = "connected")
  BY DEF PipeInv, Before, Uncropped
<1>2. UNCHANGED <<machine, driver, prect>>
  BY <1>1, DriverStays
<1>3. source' = source /\ "image-0" \in DOMAIN pipelinemap'
  <2>1. CASE vsource_init
    BY <1>1, <2>1 DEF vsource_init, video_source_setup_ex, Registered
  <2>2. CASE filter_RGB2YUV_init
    BY <2>2 DEF filter_RGB2YUV_init, Registered
  <2> QED
    BY <2>1, <2>2, PipesMove
<1> QED
  BY <1>2, <1>3

(* Every step keeps the frame what was captured of the rectangle.          *)
LEMMA ShotKeeps == PipeInv /\ ShotInv /\ [StartNext]_allvars => ShotInv'
<1> SUFFICES ASSUME PipeInv, ShotInv, [StartNext]_allvars, shot'.taken PROVE ShotInv'
  BY DEF ShotInv
<1>1. "image-0" \in DOMAIN pipelinemap =>
          UNCHANGED <<machine, driver, source, prect>> /\ "image-0" \in DOMAIN pipelinemap'
  BY PictureStays
<1>2. CASE shot' = shot
  BY <1>1, <1>2 DEF ShotInv, CropRect, BufferSize
<1>3. ASSUME NEW p \in Producer, NEW f \in Frame, vsource_capture(p, f) PROVE ShotInv'
  <2>1. "image-0" \in DOMAIN pipelinemap
    BY <1>3 DEF vsource_capture, Capturing, PipeInv
  <2>2. shot'.pixels = Filled(machine,
            capture(machine, driver, shot'.calls, BufferSize(source), CropRect))
    BY <1>3 DEF vsource_capture
  <2> QED
    BY <1>1, <2>1, <2>2 DEF ShotInv, CropRect, BufferSize
<1> QED
  BY <1>2, <1>3, ShotMoves

(* Before main starts there is neither rectangle nor pipe nor frame.       *)
LEMMA PictureInit == StartInit => PictureInv
  BY DEF StartInit, PictureInv, CropInv, PipeInv, ShotInv, Running

(***************************************************************************)
(* In every state, on every machine and whatever fails: the rectangle is a *)
(* window's and on the screen, the pipes have the size that is captured,   *)
(* and a frame holds what was captured of the rectangle.                   *)
(***************************************************************************)
THEOREM PictureCorrect == StartSpec => []PictureInv
<1>1. PictureInv /\ [StartNext]_allvars => PictureInv'
  BY CropKeeps, PipeKeeps, ShotKeeps DEF PictureInv
<1> QED
  BY <1>1, PictureInit, PTL DEF StartSpec

-----------------------------------------------------------------------------
(* A rectangle that is in order stays what it is, and has its lengths.     *)
LEMMA FillOrdered ==
    ASSUME NEW r, r.left \in Int, r.right \in Int, r.top \in Int, r.bottom \in Int,
           r.left <= r.right, r.top <= r.bottom
    PROVE  /\ ga_fillrect(r).left = r.left /\ ga_fillrect(r).right = r.right
           /\ ga_fillrect(r).top = r.top /\ ga_fillrect(r).bottom = r.bottom
           /\ ga_fillrect(r).width = r.right - r.left + 1
           /\ ga_fillrect(r).height = r.bottom - r.top + 1
           /\ ga_fillrect(r) # NoRect
<1>1. Lower(r.left, r.right) = r.left /\ Higher(r.left, r.right) = r.right
      /\ Lower(r.top, r.bottom) = r.top /\ Higher(r.top, r.bottom) = r.bottom
  BY DEF Lower, Higher
<1>2. ga_fillrect(r) = [left |-> r.left, top |-> r.top, right |-> r.right, bottom |-> r.bottom,
                        width |-> r.right - r.left + 1, height |-> r.bottom - r.top + 1]
  BY <1>1 DEF ga_fillrect
<1>3. ga_fillrect(r) \in [left : Int, right : Int, top : Int, bottom : Int,
                          width : Int, height : Int]
  BY <1>2
<1>4. ga_fillrect(r) # NoRect
  BY <1>3, DesktopAssumption
<1> QED
  BY <1>2, <1>4

(* The size of what is captured.                                           *)
LEMMA CropIs ==
    ASSUME CropInv, prect # NoRect
    PROVE  LET r == ga_fillrect(prect) IN
           /\ r # NoRect /\ CropRect = r
           /\ r.left \in Nat /\ r.top \in Nat /\ r.left = prect.left /\ r.top = prect.top
           /\ r.width \in Nat /\ r.width > 0 /\ r.width % 2 = 0
           /\ r.height \in Nat /\ r.height > 0 /\ r.height % 2 = 0
           /\ r.left + r.width <= machine.width /\ r.top + r.height <= machine.height
           /\ r.left + r.width = window.left - Shift(machine, window) + window.width
           /\ r.top + r.height = window.top - Shift(machine, window) + window.height
<1> DEFINE r == ga_fillrect(prect)
           x == window.left - Shift(machine, window)
           y == window.top - Shift(machine, window)
<1>1. window \in Window /\ prect = found(window) /\ visible(machine, prect) /\ machine \in Machines
  BY DEF CropInv
<1>2. /\ prect.left \in Int /\ prect.right \in Int /\ prect.top \in Int /\ prect.bottom \in Int
      /\ prect.left <= prect.right /\ prect.top <= prect.bottom
      /\ (prect.right - prect.left + 1) % 2 = 0 /\ (prect.bottom - prect.top + 1) % 2 = 0
      /\ prect.right = x + window.width - 1 /\ prect.bottom = y + window.height - 1
  BY <1>1, FoundIs
<1>3. /\ r.left = prect.left /\ r.top = prect.top /\ r # NoRect
      /\ r.width = prect.right - prect.left + 1 /\ r.height = prect.bottom - prect.top + 1
  BY <1>2, FillOrdered
<1>4. /\ prect.left >= 0 /\ prect.top >= 0
      /\ prect.right < machine.width /\ prect.bottom < machine.height
  BY <1>1 DEF visible
<1>5. machine.width \in Nat /\ machine.height \in Nat
  BY <1>1, MachineIs
<1>6. x \in Int /\ y \in Int /\ window.width \in Nat /\ window.height \in Nat
  BY <1>1, WindowIs DEF Shift
<1> HIDE DEF r, x, y
<1>7. r.left + r.width = prect.right + 1 /\ r.top + r.height = prect.bottom + 1
  BY <1>2, <1>3
<1>8. r.left + r.width = x + window.width /\ r.top + r.height = y + window.height
  BY <1>2, <1>6, <1>7
<1>9. r.width % 2 = 0 /\ r.height % 2 = 0
  BY <1>2, <1>3
<1>10. r.width \in Nat /\ r.width > 0 /\ r.height \in Nat /\ r.height > 0 /\ r.left \in Nat /\ r.top \in Nat
  BY <1>2, <1>3, <1>4
<1>11. r.left + r.width <= machine.width /\ r.top + r.height <= machine.height
  BY <1>2, <1>4, <1>5, <1>7
<1>12. CropRect = r
  BY DEF CropRect, r
<1> QED
  BY <1>3, <1>8, <1>9, <1>10, <1>11, <1>12 DEF r, x, y

(* The size of the source is that of the rectangle, or of the screen.      *)
LEMMA SourceIs ==
    ASSUME CropInv, source = SourceSize
    PROVE  /\ source.width \in Nat /\ source.width > 0 /\ source.height \in Nat /\ source.height > 0
           /\ source.stride \in Nat /\ source.stride >= source.width
           /\ prect # NoRect => source.width % 2 = 0 /\ source.height % 2 = 0
           /\ prect = NoRect => source.width = machine.width /\ source.height = machine.height
           /\ prect # NoRect => source = [width |-> ga_fillrect(prect).width,
                                          height |-> ga_fillrect(prect).height,
                                          stride |-> ga_fillrect(prect).width]
           /\ prect = NoRect => /\ source.stride = image_init(machine).bytes_per_line
                                /\ source.height = image_init(machine).height
<1>1. CASE prect = NoRect
  <2>1. machine.width \in Nat /\ machine.height \in Nat /\ machine.width > 0 /\ machine.height > 0
        /\ machine.pitch \in Nat /\ machine.pitch >= machine.width
        /\ machine.backend \in {"xwin", "gdi", "d3d", "dfm", "osx"}
    BY MachineIs DEF CropInv
  <2>2. image_init(machine).width = machine.width /\ image_init(machine).height = machine.height
        /\ image_init(machine).bytes_per_line \in {machine.pitch, machine.width}
    BY <2>1 DEF image_init, ga_xwin_init, ga_win32_GDI_init, ga_win32_D3D_init,
         ga_win32_DFM_init, ga_osx_init, ImageOf
  <2>3. source = [width |-> image_init(machine).width, height |-> image_init(machine).height,
                  stride |-> image_init(machine).bytes_per_line]
    BY <1>1 DEF SourceSize
  <2> QED
    BY <1>1, <2>1, <2>2, <2>3
<1>2. CASE prect # NoRect
  <2>1. source = [width |-> ga_fillrect(prect).width, height |-> ga_fillrect(prect).height,
                  stride |-> ga_fillrect(prect).width]
    BY <1>2 DEF SourceSize
  <2> QED
    BY <1>2, <2>1, CropIs
<1> QED
  BY <1>1, <1>2

(***************************************************************************)
(* The planes of the converted picture are apart and within its buffer,    *)
(* for every screen of even size and for every window that is cropped.     *)
(***************************************************************************)
THEOREM PlanesFitCorrect == StartSpec => []PlanesFit
<1>1. PictureInv => PlanesFit
  <2> SUFFICES ASSUME PictureInv, "filter-0" \in DOMAIN pipelinemap,
                      prect # NoRect \/ (machine.width % 2 = 0 /\ machine.height % 2 = 0)
               PROVE  LET w == source.width
                          h == source.height
                      IN  /\ PlanesApart(w, h)
                          /\ UNION {YPlane(w, h), UPlane(w, h), VPlane(w, h)}
                             \subseteq 0..(RGBA_SIZE * BufferSize(pipelinemap["filter-0"].frame) - 1)
    BY DEF PlanesFit
  <2> DEFINE w == source.width
             h == source.height
  <2>1. pipelinemap["filter-0"].frame = source /\ source = SourceSize /\ CropInv
    BY DEF PictureInv, PipeInv
  <2>2. w \in Nat /\ h \in Nat /\ w % 2 = 0 /\ h % 2 = 0 /\ source.stride \in Nat /\ source.stride >= w
    BY <2>1, SourceIs
  <2>3. PlanesApart(w, h)
        /\ UNION {YPlane(w, h), UPlane(w, h), VPlane(w, h)} \subseteq 0..(2 * (h * w) - 1)
    BY <2>2, EvenPlanes
  <2>4. BufferSize(pipelinemap["filter-0"].frame) = h * source.stride
    BY <2>1 DEF BufferSize
  <2> HIDE DEF w, h
  <2>5. h * w <= h * source.stride /\ h * w \in Nat /\ h * source.stride \in Nat
    <3> DEFINE s == source.stride
    <3>1. s \in Nat /\ w <= s
      BY <2>2
    <3> HIDE DEF s
    <3>2. h * w <= h * s /\ h * w \in Nat /\ h * s \in Nat
      BY <2>2, <3>1, MulMonotone
    <3> QED
      BY <3>2 DEF s
  <2>6. \A a \in 0..(2 * (h * w) - 1) :
            a \in 0..(RGBA_SIZE * BufferSize(pipelinemap["filter-0"].frame) - 1)
    BY <2>4, <2>5 DEF RGBA_SIZE
  <2> QED
    BY <2>3, <2>6 DEF w, h
<1> QED
  BY <1>1, PictureCorrect, PTL

(* Where on the screen the picture begins.                                 *)
Corner == IF prect = NoRect THEN <<0, 0>> ELSE <<prect.left, prect.top>>

(* The picture that a capture makes when its calls succeed.                *)
Captured == Filled(machine, capture(machine, driver, "succeed", BufferSize(source), CropRect))

(* A picture whose capture succeeds shows the screen from there.           *)
LEMMA CapturedShows ==
    ASSUME PictureInv, shot.taken, ~Padded
    PROVE  /\ DOMAIN Captured \subseteq 0..(BufferSize(source) - 1)
           /\ Shows(Captured, source.stride, source.width, source.height, Corner[1], Corner[2])
<1>1. /\ CropInv /\ machine \in Machines /\ source = SourceSize
      /\ machine.backend = "dfm" => driver = "connected"
  BY DEF PictureInv, CropInv, PipeInv, ShotInv
<1>2. CASE prect = NoRect
  <2>1. BufferSize(source) = image_init(machine).height * image_init(machine).bytes_per_line
        /\ BufferSize(source) \in Nat
        /\ source.stride = image_init(machine).bytes_per_line
        /\ source.width = machine.width /\ source.height = machine.height
    BY <1>1, <1>2, SourceIs DEF BufferSize
  <2>2. CropRect = NoRect /\ ~(machine.backend = "d3d" /\ machine.pitch > machine.width)
    BY <1>2 DEF CropRect, Padded
  <2>3. DOMAIN Captured \subseteq 0..(BufferSize(source) - 1)
        /\ Shows(Captured, source.stride, source.width, source.height, 0, 0)
    BY <1>1, <2>1, <2>2, ScreenShows DEF Captured
  <2>5. Corner[1] = 0 /\ Corner[2] = 0
    BY <1>2 DEF Corner
  <2> QED
    BY <2>3, <2>5
<1>3. CASE prect # NoRect
  <2> DEFINE r == ga_fillrect(prect)
  <2>1. /\ r # NoRect /\ CropRect = r
        /\ r.left \in Nat /\ r.top \in Nat /\ r.left = prect.left /\ r.top = prect.top
        /\ r.width \in Nat /\ r.width > 0 /\ r.height \in Nat /\ r.height > 0
        /\ r.left + r.width <= machine.width /\ r.top + r.height <= machine.height
    BY <1>1, <1>3, CropIs
  <2>2. source = [width |-> r.width, height |-> r.height, stride |-> r.width]
    BY <1>1, <1>3, SourceIs
  <2>6. BufferSize(source) = r.height * r.width
    BY <2>2 DEF BufferSize
  <2>7. DOMAIN Captured \subseteq 0..(r.height * r.width - 1)
        /\ Shows(Captured, r.width, r.width, r.height, r.left, r.top)
    <3>1. Captured = Filled(machine, capture(machine, driver, "succeed", r.height * r.width, r))
      BY <1>1, <2>1, <2>6 DEF Captured
    <3> HIDE DEF r
    <3> QED
      BY <1>1, <2>1, <3>1, CropShows
  <2>9. Corner[1] = prect.left /\ Corner[2] = prect.top
    BY <1>3 DEF Corner
  <2> QED
    BY <2>1, <2>2, <2>6, <2>7, <2>9
<1> QED
  BY <1>2, <1>3

(* When a call fails a capture copies as if none had, or nothing.          *)
LEMMA CopiesOrNot ==
    ASSUME NEW m \in Machines, NEW state, NEW calls, NEW n, NEW r
    PROVE  capture(m, state, calls, n, r) \in {{}, capture(m, state, "succeed", n, r)}
<1>1. m.backend \in {"xwin", "gdi", "d3d", "dfm", "osx"}
  BY MachineIs
<1>2. CASE m.backend \in {"xwin", "gdi", "dfm"}
  BY <1>2 DEF capture
<1>3. CASE m.backend = "d3d"
  BY <1>3 DEF capture, ga_win32_D3D_capture
<1>4. CASE m.backend = "osx"
  BY <1>4 DEF capture, ga_osx_capture
<1> QED
  BY <1>1, <1>2, <1>3, <1>4

(* A picture that was taken fits its buffer, and shows the screen when the *)
(* calls of its capture succeeded.                                         *)
LEMMA ShowsCorner ==
    ASSUME PictureInv, shot.taken, ~Padded
    PROVE  /\ DOMAIN shot.pixels \subseteq 0..(BufferSize(source) - 1)
           /\ shot.calls = "succeed" => ShowsFrom(Corner[1], Corner[2])
<1> DEFINE copies == capture(machine, driver, shot.calls, BufferSize(source), CropRect)
<1>1. machine \in Machines /\ shot.pixels = Filled(machine, copies)
  BY DEF PictureInv, CropInv, ShotInv
<1>2. copies = {} \/ shot.pixels = Captured
  BY <1>1, CopiesOrNot DEF Captured
<1>3. copies = {} => DOMAIN shot.pixels = {}
  BY <1>1 DEF Filled
<1>4. shot.calls = "succeed" => shot.pixels = Captured
  BY <1>1 DEF Captured
<1> HIDE DEF copies
<1> QED
  BY <1>2, <1>3, <1>4, CapturedShows DEF Shows, ShowsFrom

(* What a frame shows, whatever its window is called.                      *)
LEMMA FrameShows ==
    ASSUME PictureInv, shot.taken, ~CutOff, ~Padded
    PROVE  /\ DOMAIN shot.pixels \subseteq 0..(BufferSize(source) - 1)
           /\ shot.calls = "succeed" /\ prect = NoRect =>
                /\ ShowsFrom(0, 0)
                /\ source.width = machine.width /\ source.height = machine.height
           /\ shot.calls = "succeed" /\ prect # NoRect =>
                \E x0 \in -1..machine.width, y0 \in -1..machine.height :
                    InFrame(x0, y0, window) /\ ShowsFrom(x0, y0)
<1>1. CropInv /\ source = SourceSize
  BY DEF PictureInv, PipeInv, ShotInv
<1>2. CASE prect = NoRect
  <2>1. Corner[1] = 0 /\ Corner[2] = 0
    BY <1>2 DEF Corner
  <2>2. source.width = machine.width /\ source.height = machine.height
    BY <1>1, <1>2, SourceIs
  <2> QED
    BY <1>2, <2>1, <2>2, ShowsCorner
<1>3. CASE prect # NoRect
  <2> DEFINE r == ga_fillrect(prect)
             x0 == prect.left
             y0 == prect.top
  <2>1. /\ r.left \in Nat /\ r.top \in Nat /\ r.left = x0 /\ r.top = y0
        /\ r.width \in Nat /\ r.width > 0 /\ r.height \in Nat /\ r.height > 0
        /\ r.left + r.width <= machine.width /\ r.top + r.height <= machine.height
        /\ r.left + r.width = window.left - Shift(machine, window) + window.width
        /\ r.top + r.height = window.top - Shift(machine, window) + window.height
    BY <1>1, <1>3, CropIs
  <2>2. source = [width |-> r.width, height |-> r.height, stride |-> r.width]
    BY <1>1, <1>3, SourceIs
  <2>3. window \in Window /\ prect = found(window)
    BY <1>1, <1>3 DEF CropInv
  <2>4. Shift(machine, window) = 0
    BY <1>3, <2>3, WindowIs DEF CutOff, Shift
  <2>5. /\ x0 \in {window.left - 1, window.left}
        /\ y0 \in {window.top - 1, window.top}
    <3>1. window.left - 0 = window.left /\ window.left - 0 - 1 = window.left - 1
          /\ window.top - 0 = window.top /\ window.top - 0 - 1 = window.top - 1
      BY <2>3, WindowIs
    <3> QED
      BY <2>3, <2>4, <3>1, FoundIs
  <2>8. x0 \in -1..machine.width /\ y0 \in -1..machine.height
    <3>1. machine.width \in Nat /\ machine.height \in Nat
      BY <1>1, MachineIs DEF CropInv
    <3> HIDE DEF r, x0, y0
    <3> QED
      BY <2>1, <3>1
  <2>9. Corner[1] = x0 /\ Corner[2] = y0
    BY <1>3 DEF Corner
  <2>10. InFrame(x0, y0, window)
    <3>1. window.left - 0 = window.left /\ window.top - 0 = window.top
      BY <2>3, WindowIs
    <3> QED
      BY <2>1, <2>2, <2>4, <2>5, <3>1 DEF InFrame
  <2>11. /\ DOMAIN shot.pixels \subseteq 0..(BufferSize(source) - 1)
         /\ shot.calls = "succeed" => ShowsFrom(x0, y0)
    BY <2>9, ShowsCorner
  <2> QED
    BY <1>3, <2>8, <2>10, <2>11
<1> QED
  BY <1>2, <1>3

-----------------------------------------------------------------------------
(* Outside the pool's own steps and the capture that stores a frame,       *)
(* nothing touches the pool.                                               *)
LEMMA PoolMoves ==
    [StartNext]_allvars =>
        \/ UNCHANGED vars
        \/ pool_step /\ ~exited
        \/ \E p \in Producer, f \in Frame : vsource_capture(p, f) /\ ~exited
BY DEF StartNext, MainStep, load, load_main, parse_assignment, parse_include, parse_malformed,
  end_of_file, load_failed, stack_overflows, LoadStep,
  load_url, ga_url_parse, rtspconf_parse, pass_option, crop_disabled, ga_crop_window, crop_fails,
  ga_load_module, DriverStep, dfm_open, dfm_setAttachToDesktop, dfm_load_unopened, dfm_load, dfm_connect,
  vsource_init, filter_RGB2YUV_init, sdlmsg_replay_init, asource_init, run_module, encoder_register,
  vsource_begin, filter_begin, asource_begin, ctrl_server_begin, per_client_init, vencoder_begin,
  aencoder_begin, encoder_begins, ClientStep, client_libraries, client_thread_created,
  controller_disabled, client_thread_fails, ctrl_client_begin, capture_fails, replay_pointing,
  allvars, readframe, cropframe, driverframe, clientframe

(* A step of the program is a step of the pool or leaves it alone.         *)
LEMMA PoolSteps == [StartNext]_allvars => [Next]_vars
<1> SUFFICES ASSUME [StartNext]_allvars PROVE [Next]_vars
  OBVIOUS
<1>1. CASE UNCHANGED vars
  BY <1>1
<1>2. CASE pool_step /\ ~exited
  BY <1>2 DEF pool_step, Next, ProducerStep
<1>3. ASSUME NEW p \in Producer, NEW f \in Frame, vsource_capture(p, f), ~exited PROVE Next
  BY <1>3 DEF vsource_capture, Next, ProducerStep
<1> QED
  BY <1>1, <1>2, <1>3, PoolMoves

(***************************************************************************)
(* The program uses the source's pool as pipeline.cpp means it to be used: *)
(* what was proved of the pool alone (buffers in one place, frames in      *)
(* order) holds of the server that sets it up, captures into it and fails  *)
(* at any step.                                                            *)
(***************************************************************************)
THEOREM PoolInUse == StartSpec => []OnePlace /\ ImplementsLossyQueue
<1>1. StartInit => Init
  BY DEF StartInit
<1>2. StartSpec => Spec
  BY <1>1, PoolSteps, PTL DEF StartSpec, Spec
<1> QED
  BY <1>2, OnePlaceCorrect, Refinement, PTL

-----------------------------------------------------------------------------
(***************************************************************************)
(* What main has done of a list, and what is left.                         *)
(***************************************************************************)
From(list, n) == SubSeq(list, n, Len(list))

(* Some of the list has been done, and the rest is left.                   *)
Progress(list, done) ==
    \E n \in 1..Len(list) : todo = From(list, n) /\ \A i \in 1..(n - 1) : list[i] \in done

(* All of the list has been done.                                          *)
Completed(list, done) == \A i \in 1..Len(list) : list[i] \in done

(* The modules whose init function has left what others need.              *)
Inited ==
    {m \in {"ctrl", "vsource", "filter", "asource"} :
        /\ m = "ctrl" => replayrect = replay_rect(prect)
        /\ m = "vsource" => "image-0" \in DOMAIN pipelinemap
        /\ m = "filter" => "filter-0" \in DOMAIN pipelinemap}

(* The modules that were started: by a thread, or registered as an         *)
(* encoder.                                                                *)
Begun == DOMAIN thread \cup encoders

(* The stages in which nothing has been started, the client's among them.  *)
Preparing == {"load", "url", "parse", "options", "crop", "modules", "init", "client"}

(* Main goes through its lists one by one.                                 *)
MainInv ==
    /\ stage = "init" => Progress(ModulesToInit, Inited)
    /\ stage \in {"run", "serving"} => Completed(ModulesToInit, Inited)
    /\ stage = "run" => Progress(ToRun, Begun)
    /\ stage = "serving" => Completed(ToRun, Begun)
    /\ stage \in Preparing => Begun = {}

(* The thread that the client starts for a controller that is enabled.     *)
Controller == IF conf.ctrlenable THEN {"ctrlclient"} ELSE {}

(* The client's main has started the threads that are not left to start.   *)
LaunchInv ==
    /\ stage = "launch" =>
          \/ todo = <<"ctrlclient", "watchdog", "rtsp">> /\ conf.ctrlenable /\ DOMAIN thread = {}
          \/ todo = <<"watchdog", "rtsp">> /\ DOMAIN thread = Controller
          \/ todo = <<"rtsp">> /\ DOMAIN thread = Controller \cup {"watchdog"}
    /\ stage = "playing" => DOMAIN thread = Controller \cup {"watchdog", "rtsp"}

(* Encoders have no thread of a module, and there is one for sound where   *)
(* there is sound.                                                         *)
BegunInv ==
    /\ DOMAIN thread \cap Encoder = {}
    /\ encoders \subseteq (IF HasAudio THEN Encoder ELSE {"vencoder"})

-----------------------------------------------------------------------------
(* What From leaves of a list: its length, its first element and the rest. *)
LEMMA FromIs ==
    ASSUME NEW S, NEW s \in Seq(S), s # <<>>
    PROVE  /\ Len(s) \in Nat /\ Len(s) > 0 /\ From(s, 1) = s
           /\ \A n \in 1..Len(s) : /\ Len(From(s, n)) = Len(s) - n + 1
                                   /\ Head(From(s, n)) = s[n]
                                   /\ n < Len(s) => Tail(From(s, n)) = From(s, n + 1)
<1>1. Len(s) \in Nat /\ Len(s) > 0 /\ From(s, 1) = s
  BY DEF From
<1>2. ASSUME NEW n \in 1..Len(s)
      PROVE  /\ Len(From(s, n)) = Len(s) - n + 1
             /\ Head(From(s, n)) = s[n]
             /\ n < Len(s) => Tail(From(s, n)) = From(s, n + 1)
  BY <1>1 DEF From
<1> QED
  BY <1>1, <1>2

(* One more of the list is done.                                           *)
LEMMA ProceedIs ==
    ASSUME NEW S, NEW s \in Seq(S), s # <<>>, NEW done, NEW done2, done \subseteq done2,
           Progress(s, done), Head(todo) \in done2, NEW next, NEW list, Proceed(next, list)
    PROVE  \/ /\ stage' = stage
              /\ \E n \in 1..Len(s) : todo' = From(s, n) /\ \A i \in 1..(n - 1) : s[i] \in done2
           \/ stage' = next /\ todo' = list /\ Completed(s, done2)
<1>1. PICK n \in 1..Len(s) : todo = From(s, n) /\ \A i \in 1..(n - 1) : s[i] \in done
  BY DEF Progress
<1>2. Len(s) \in Nat /\ Len(todo) = Len(s) - n + 1 /\ Head(todo) = s[n]
      /\ (n < Len(s) => Tail(todo) = From(s, n + 1))
  BY <1>1, FromIs
<1>3. \A i \in 1..n : s[i] \in done2
  BY <1>1, <1>2
<1>4. CASE n < Len(s)
  <2>1. stage' = stage /\ todo' = From(s, n + 1)
    BY <1>2, <1>4, SMTT(30) DEF Proceed
  <2>2. n + 1 \in 1..Len(s) /\ (n + 1) - 1 = n
    BY <1>2, <1>4
  <2> QED
    BY <1>3, <2>1, <2>2
<1>5. CASE n = Len(s)
  <2>1. stage' = next /\ todo' = list
    BY <1>2, <1>5 DEF Proceed
  <2> QED
    BY <1>3, <1>5, <2>1 DEF Completed
<1> QED
  BY <1>2, <1>4, <1>5

(* A list put together. *)
LEMMA Tuples ==
    ASSUME NEW a, NEW b, NEW c
    PROVE  <<a>> \o <<b, c>> = <<a, b, c>> /\ <<>> \o <<b, c>> = <<b, c>>
<1> DEFINE S == {a, b, c}
           p == <<a>>
           q == <<b, c>>
           r == <<a, b, c>>
<1>1. p \in Seq(S) /\ Len(p) = 1 /\ p[1] = a
  OBVIOUS
<1>2. q \in Seq(S) /\ Len(q) = 2 /\ q[1] = b /\ q[2] = c
  OBVIOUS
<1>3. r \in Seq(S) /\ Len(r) = 3 /\ r[1] = a /\ r[2] = b /\ r[3] = c
  OBVIOUS
<1> HIDE DEF S, p, q, r
<1>4. /\ p \o q \in Seq(S) /\ Len(p \o q) = Len(p) + Len(q)
      /\ \A i \in 1..(Len(p) + Len(q)) : (p \o q)[i] = IF i <= Len(p) THEN p[i] ELSE q[i - Len(p)]
  BY <1>1, <1>2, ConcatProperties, Zenon
<1>5. Len(p \o q) = 3
  BY <1>1, <1>2, <1>4
<1> DEFINE s == p \o q
<1> HIDE DEF s
<1>x. \A i \in 1..3 : s[i] = IF i <= 1 THEN p[i] ELSE q[i - 1]
  BY <1>1, <1>2, <1>4 DEF s
<1>6. s[1] = a /\ s[2] = b /\ s[3] = c
  BY <1>1, <1>2, <1>x
<1>7. p \o q = r
  <2>1. \A i \in 1..Len(p \o q) : (p \o q)[i] = r[i]
    BY <1>3, <1>5, <1>6 DEF s
  <2>2. Len(p \o q) = Len(r)
    BY <1>3, <1>5
  <2> QED
    BY <1>3, <1>4, <2>1, <2>2, SeqEqual
<1>8. <<>> \o q = q
  BY <1>2
<1> QED
  BY <1>7, <1>8 DEF p, q, r

(* What the lists of main name.                                            *)
Part == {"ctrl", "vsource", "filter", "asource", "ctrlserver", "vencoder", "aencoder"}

(* The lists of modules are sequences that are not empty.                  *)
LEMMA ListsAre ==
    /\ ModulesToInit \in Seq(Part) /\ Len(ModulesToInit) > 0 /\ ModulesToInit # <<>>
    /\ ToRun \in Seq(Part) /\ Len(ToRun) > 0 /\ ToRun # <<>>
<1>1. \A b \in Part : <<b>> \in Seq(Part) /\ Len(<<b>>) = 1
  OBVIOUS
<1>2. \A p, q \in Seq(Part) : p \o q \in Seq(Part) /\ Len(p \o q) = Len(p) + Len(q)
  OBVIOUS
<1>3. \A p \in Seq(Part) : Len(p) \in Nat
  OBVIOUS
<1>4. <<>> \in Seq(Part) /\ Len(<<>>) = 0
  OBVIOUS
<1>5. \A b, c \in Part : <<b, c>> \in Seq(Part) /\ Len(<<b, c>>) = 2
  OBVIOUS
<1>6. \A b, c, d \in Part : <<b, c, d>> \in Seq(Part) /\ Len(<<b, c, d>>) = 3
  OBVIOUS
<1>7. "ctrl" \in Part /\ "vsource" \in Part /\ "filter" \in Part /\ "asource" \in Part
      /\ "ctrlserver" \in Part /\ "vencoder" \in Part /\ "aencoder" \in Part
  BY DEF Part
<1> DEFINE c == IF conf.ctrlenable THEN <<"ctrl">> ELSE <<>>
           d == IF conf.ctrlenable THEN <<"ctrlserver">> ELSE <<>>
           a == IF HasAudio THEN <<"asource">> ELSE <<>>
           b == IF HasAudio THEN <<"asource", "aencoder">> ELSE <<>>
           e == <<"vsource", "filter">>
           f == <<"vsource", "filter", "vencoder">>
<1> HIDE DEF Part
<1>8. c \in Seq(Part) /\ d \in Seq(Part) /\ a \in Seq(Part) /\ b \in Seq(Part)
  BY <1>1, <1>4, <1>5, <1>7
<1>9. e \in Seq(Part) /\ Len(e) = 2 /\ f \in Seq(Part) /\ Len(f) = 3
  BY <1>5, <1>6, <1>7
<1>10. ModulesToInit = c \o e \o a /\ ToRun = d \o f \o b
  BY DEF ModulesToInit, ToRun
<1> HIDE DEF a, b, c, d, e, f
<1>11. c \o e \in Seq(Part) /\ Len(c \o e) > 0 /\ d \o f \in Seq(Part) /\ Len(d \o f) > 0
  <2>1. Len(c) \in Nat /\ Len(d) \in Nat
    BY <1>3, <1>8
  <2>2. c \o e \in Seq(Part) /\ Len(c \o e) = Len(c) + Len(e)
    BY <1>2, <1>8, <1>9
  <2>3. d \o f \in Seq(Part) /\ Len(d \o f) = Len(d) + Len(f)
    BY <1>2, <1>8, <1>9
  <2> QED
    BY <1>9, <2>1, <2>2, <2>3
<1>12. ModulesToInit \in Seq(Part) /\ Len(ModulesToInit) > 0
       /\ ToRun \in Seq(Part) /\ Len(ToRun) > 0
  BY <1>2, <1>3, <1>8, <1>10, <1>11, SMTT(30)
<1> QED
  BY <1>4, <1>12

(* The stages in which main goes through its lists, and after them.        *)
Lists == {"init", "run", "serving"}

(* What the other steps of the program do to main's lists: nothing.        *)
ListsAlone ==
    /\ UNCHANGED <<todo, stage>> \/ stage' \notin Lists
    /\ stage' \in Preparing => stage \in Preparing
    /\ encoders' = encoders /\ DOMAIN thread' = DOMAIN thread

(* The steps that move main's lists, one by one; the others leave them     *)
(* alone.                                                                  *)
LEMMA MainMoves ==
    [StartNext]_allvars =>
        \/ ListsAlone \/ ga_load_module \/ vsource_init \/ filter_RGB2YUV_init
        \/ sdlmsg_replay_init \/ asource_init \/ run_module \/ encoder_register
        \/ client_thread_created
  BY SMTT(30) DEF ListsAlone, Lists, Preparing, Configured, Proceed, CallFails, exits, Begun, BeginsNow,
     Running, BecomesRunning, filter_quit, ga_swscale_init_fails,
     StartNext, MainStep, load, load_url, rtspconf_parse, pass_option, crop_disabled,
     ga_crop_window, crop_fails, ga_load_module, DriverStep, dfm_open, dfm_setAttachToDesktop,
     dfm_load_unopened, dfm_load, dfm_connect, vsource_init, filter_RGB2YUV_init,
     sdlmsg_replay_init, asource_init, run_module, encoder_register, vsource_begin, filter_begin,
     asource_begin, ctrl_server_begin, per_client_init, vencoder_begin, aencoder_begin,
     encoder_begins, ClientStep, client_libraries, client_thread_created, controller_disabled,
     client_thread_fails, ctrl_client_begin, vsource_capture, capture_fails, replay_pointing, pool_step,
     allvars, startvars, confvars, encodervars, inputvars, readframe, cropframe, driverframe, clientframe

(* The settings stay while main goes through its lists.                    *)
LEMMA ConfStays ==
    [StartNext]_allvars => (stage \in Lists => conf' = conf)
  BY SMTT(30) DEF Lists,
     StartNext, MainStep, load, load_url, rtspconf_parse, pass_option, crop_disabled,
     ga_crop_window, crop_fails, ga_load_module, DriverStep, dfm_open, dfm_setAttachToDesktop,
     dfm_load_unopened, dfm_load, dfm_connect, vsource_init, filter_RGB2YUV_init,
     sdlmsg_replay_init, asource_init, run_module, encoder_register, vsource_begin, filter_begin,
     asource_begin, ctrl_server_begin, per_client_init, vencoder_begin, aencoder_begin,
     encoder_begins, ClientStep, client_libraries, client_thread_created, controller_disabled,
     client_thread_fails, ctrl_client_begin, vsource_capture, capture_fails, replay_pointing, pool_step,
     allvars, startvars, confvars, encodervars, inputvars, readframe, cropframe, driverframe, clientframe

(* The steps that move the client's list of threads; the others leave it   *)
(* alone.                                                                  *)
LEMMA LaunchMoves ==
    [StartNext]_allvars =>
        \/ stage' \notin {"launch", "playing"} \/ client_libraries \/ client_thread_created
        \/ controller_disabled
        \/ UNCHANGED <<stage, todo, conf>> /\ DOMAIN thread' = DOMAIN thread
  BY SMTT(30) DEF Configured, Proceed, CallFails, exits, BeginsNow,
     Running, BecomesRunning, filter_quit, ga_swscale_init_fails,
     StartNext, MainStep, load, load_url, rtspconf_parse, pass_option, crop_disabled,
     ga_crop_window, crop_fails, ga_load_module, DriverStep, dfm_open, dfm_setAttachToDesktop,
     dfm_load_unopened, dfm_load, dfm_connect, vsource_init, filter_RGB2YUV_init,
     sdlmsg_replay_init, asource_init, run_module, encoder_register, vsource_begin, filter_begin,
     asource_begin, ctrl_server_begin, per_client_init, vencoder_begin, aencoder_begin,
     encoder_begins, ClientStep, client_libraries, client_thread_created, controller_disabled,
     client_thread_fails, ctrl_client_begin, vsource_capture, capture_fails, replay_pointing, pool_step,
     allvars, startvars, confvars, encodervars, inputvars, readframe, cropframe, driverframe, clientframe

(* Only sdlmsg_replay_init sets the rectangle of the replay.               *)
LEMMA ReplayMoves ==
    [StartNext]_allvars => sdlmsg_replay_init \/ replayrect' = replayrect
  BY DEF StartNext, MainStep, load, load_url, rtspconf_parse, pass_option, crop_disabled,
     ga_crop_window, crop_fails, ga_load_module, DriverStep, dfm_open, dfm_setAttachToDesktop,
     dfm_load_unopened, dfm_load, dfm_connect, vsource_init, filter_RGB2YUV_init,
     sdlmsg_replay_init, asource_init, run_module, encoder_register, vsource_begin, filter_begin,
     asource_begin, ctrl_server_begin, per_client_init, vencoder_begin, aencoder_begin,
     encoder_begins, ClientStep, client_libraries, client_thread_created, controller_disabled,
     client_thread_fails, ctrl_client_begin, vsource_capture, capture_fails, replay_pointing, pool_step,
     allvars, startvars, confvars, encodervars, inputvars, readframe, cropframe, driverframe, clientframe

-----------------------------------------------------------------------------
(* What is done stays done, and the lists do not change on the way.        *)
LEMMA DoneStays ==
    ASSUME PictureInv, [StartNext]_allvars, stage \notin Uncropped
    PROVE  Inited \subseteq Inited'
<1>1. prect' = prect
  BY DriverStays
<1>2. DOMAIN pipelinemap \subseteq DOMAIN pipelinemap'
  BY PipesMove DEF vsource_init, filter_RGB2YUV_init, video_source_setup_ex, Registered
<1>3. replayrect' = replayrect \/ replayrect' = replay_rect(prect)
  BY ReplayMoves DEF sdlmsg_replay_init
<1> QED
  BY <1>1, <1>2, <1>3 DEF Inited

(* The lists stay what they are while main goes through them.              *)
LEMMA ListsStay ==
    ASSUME [StartNext]_allvars, stage \in Lists
    PROVE  ModulesToInit' = ModulesToInit /\ ToRun' = ToRun
<1>1. machine' = machine /\ conf' = conf
  BY InputsFixed, ConfStays
<1> QED
  BY <1>1 DEF ModulesToInit, ToRun, HasAudio

(* A module is initialized.                                                *)
LEMMA InitKeeps ==
    ASSUME PictureInv, MainInv, [StartNext]_allvars, stage = "init",
           UNCHANGED <<thread, encoders>>,
           \/ Proceed("run", ToRun) /\ Head(todo) \in Inited'
           \/ stage' \notin Lists \cup Preparing
    PROVE  MainInv'
<1>1. CASE stage' \notin Lists \cup Preparing
  BY <1>1 DEF MainInv, Lists
<1>2. CASE Proceed("run", ToRun) /\ Head(todo) \in Inited'
  <2>1. Inited \subseteq Inited' /\ ModulesToInit' = ModulesToInit /\ ToRun' = ToRun
    BY DoneStays, ListsStay DEF Uncropped, Lists
  <2>2. Begun' = Begun /\ Begun = {}
    BY DEF Begun, MainInv, Preparing
  <2>3. \/ /\ stage' = stage
           /\ \E n \in 1..Len(ModulesToInit) :
                  todo' = From(ModulesToInit, n) /\ \A i \in 1..(n - 1) : ModulesToInit[i] \in Inited'
        \/ stage' = "run" /\ todo' = ToRun /\ Completed(ModulesToInit, Inited')
    <3>1. Progress(ModulesToInit, Inited)
      BY DEF MainInv
    <3> QED
      BY <1>2, <2>1, <3>1, ListsAre, ProceedIs
  <2>4. CASE stage' = "init"
    <3>1. Progress(ModulesToInit, Inited)'
      BY <2>1, <2>3, <2>4 DEF Progress, From
    <3> QED
      BY <2>2, <2>4, <3>1 DEF MainInv, Preparing
  <2>5. CASE stage' = "run" /\ todo' = ToRun /\ Completed(ModulesToInit, Inited')
    <3>1. Completed(ModulesToInit, Inited)'
      BY <2>1, <2>5 DEF Completed
    <3>2. Progress(ToRun, Begun)'
      <4>1. Len(ToRun) \in Nat /\ Len(ToRun) > 0 /\ From(ToRun, 1) = ToRun
        BY ListsAre, FromIs
      <4>2. 1 \in 1..Len(ToRun) /\ \A i \in 1..(1 - 1) : ToRun[i] \in Begun'
        BY <4>1
      <4> QED
        BY <2>1, <2>5, <4>1, <4>2 DEF Progress, From
    <3> QED
      BY <2>5, <3>1, <3>2 DEF MainInv, Preparing
  <2> QED
    BY <2>3, <2>4, <2>5
<1> QED
  BY <1>1, <1>2

(* A thread is started, or an encoder registered.                          *)
LEMMA RunKeeps ==
    ASSUME PictureInv, MainInv, [StartNext]_allvars, stage = "run",
           Begun \subseteq Begun',
           \/ Proceed("serving", <<>>) /\ Head(todo) \in Begun'
           \/ stage' \notin Lists \cup Preparing
    PROVE  MainInv'
<1>1. CASE stage' \notin Lists \cup Preparing
  BY <1>1 DEF MainInv, Lists
<1>2. CASE Proceed("serving", <<>>) /\ Head(todo) \in Begun'
  <2>1. Inited \subseteq Inited' /\ ModulesToInit' = ModulesToInit /\ ToRun' = ToRun
    BY DoneStays, ListsStay DEF Uncropped, Lists
  <2>2. \/ /\ stage' = stage
           /\ \E n \in 1..Len(ToRun) :
                  todo' = From(ToRun, n) /\ \A i \in 1..(n - 1) : ToRun[i] \in Begun'
        \/ stage' = "serving" /\ Completed(ToRun, Begun')
    <3>1. Progress(ToRun, Begun)
      BY DEF MainInv
    <3> QED
      BY <1>2, <3>1, ListsAre, ProceedIs
  <2>3. Completed(ModulesToInit, Inited)'
    <3>1. Completed(ModulesToInit, Inited)
      BY DEF MainInv
    <3> QED
      BY <2>1, <3>1 DEF Completed
  <2>4. CASE stage' = "run"
    <3>1. Progress(ToRun, Begun)'
      BY <2>1, <2>2, <2>4 DEF Progress, From
    <3> QED
      BY <2>3, <2>4, <3>1 DEF MainInv, Preparing
  <2>5. CASE stage' = "serving" /\ Completed(ToRun, Begun')
    <3>1. Completed(ToRun, Begun)'
      BY <2>1, <2>5 DEF Completed
    <3> QED
      BY <2>3, <2>5, <3>1 DEF MainInv, Preparing
  <2> QED
    BY <2>2, <2>4, <2>5
<1> QED
  BY <1>1, <1>2

(* Every step of main keeps what it has done and what is left together.    *)
LEMMA MainKeeps == PictureInv /\ MainInv /\ [StartNext]_allvars => MainInv'
<1> SUFFICES ASSUME PictureInv, MainInv, [StartNext]_allvars PROVE MainInv'
  OBVIOUS
<1>1. CASE ListsAlone
  <2>1. Begun' = Begun
    BY <1>1 DEF ListsAlone, Begun
  <2>2. stage' \in Lists => stage' = stage /\ todo' = todo
    BY <1>1 DEF ListsAlone
  <2>3. stage' \in Lists =>
            Inited \subseteq Inited' /\ ModulesToInit' = ModulesToInit /\ ToRun' = ToRun
    BY <2>2, DoneStays, ListsStay DEF Uncropped, Lists
  <2>4. stage' = "init" => Progress(ModulesToInit, Inited)'
    BY <2>2, <2>3 DEF MainInv, Progress, From, Lists
  <2>5. stage' \in {"run", "serving"} => Completed(ModulesToInit, Inited)'
    BY <2>2, <2>3 DEF MainInv, Completed, Lists
  <2>6. stage' = "run" => Progress(ToRun, Begun)'
    BY <2>1, <2>2, <2>3 DEF MainInv, Progress, From, Lists
  <2>7. stage' = "serving" => Completed(ToRun, Begun)'
    BY <2>1, <2>2, <2>3 DEF MainInv, Completed, Lists
  <2>8. stage' \in Preparing => Begun' = {}
    BY <1>1, <2>1 DEF MainInv, ListsAlone
  <2> QED
    BY <2>4, <2>5, <2>6, <2>7, <2>8 DEF MainInv
<1>2. CASE ga_load_module
  <2>1. stage = "modules" /\ UNCHANGED <<thread, encoders, conf, machine, replayrect, prect, pipelinemap>>
    BY <1>2 DEF ga_load_module, confvars, encodervars, inputvars
  <2>2. stage' \in {"modules", "exited"} \/ (stage' = "init" /\ todo' = ModulesToInit)
    BY <1>2, <2>1 DEF ga_load_module, Proceed, CallFails, exits
  <2>3. Begun' = {}
    BY <2>1 DEF MainInv, Begun, Preparing
  <2>4. CASE stage' \in {"modules", "exited"}
    BY <2>3, <2>4 DEF MainInv
  <2>5. CASE stage' = "init" /\ todo' = ModulesToInit
    <3>1. ModulesToInit' = ModulesToInit
      BY <2>1 DEF ModulesToInit, HasAudio
    <3>2. Len(ModulesToInit) \in Nat /\ Len(ModulesToInit) > 0
          /\ From(ModulesToInit, 1) = ModulesToInit
      BY ListsAre, FromIs
    <3>3. 1 \in 1..Len(ModulesToInit) /\ \A i \in 1..(1 - 1) : ModulesToInit[i] \in Inited'
      BY <3>2
    <3>4. Progress(ModulesToInit, Inited)'
      BY <2>5, <3>1, <3>2, <3>3 DEF Progress, From
    <3> QED
      BY <2>3, <2>5, <3>4 DEF MainInv
  <2> QED
    BY <2>2, <2>4, <2>5
<1>3. CASE vsource_init
  <2>1. "image-0" \in DOMAIN pipelinemap' \/ stage' = "exited"
    BY <1>3 DEF vsource_init, video_source_setup_ex, Registered, CallFails, exits
  <2>2. Proceed("run", ToRun) \/ stage' = "exited"
    BY <1>3 DEF vsource_init, CallFails, exits
  <2>3. stage = "init" /\ Head(todo) = "vsource" /\ UNCHANGED <<thread, encoders>>
    BY <1>3 DEF vsource_init, encodervars
  <2>4. "image-0" \in DOMAIN pipelinemap' => "vsource" \in Inited'
    BY DEF Inited
  <2> QED
    BY <2>1, <2>2, <2>3, <2>4, InitKeeps DEF Lists, Preparing
<1>4. CASE filter_RGB2YUV_init
  <2>1. "filter-0" \in DOMAIN pipelinemap' \/ stage' = "exited"
    BY <1>4 DEF filter_RGB2YUV_init, Registered, CallFails, exits
  <2>2. Proceed("run", ToRun) \/ stage' = "exited"
    BY <1>4 DEF filter_RGB2YUV_init, CallFails, exits
  <2>3. stage = "init" /\ Head(todo) = "filter" /\ UNCHANGED <<thread, encoders>>
    BY <1>4 DEF filter_RGB2YUV_init, encodervars
  <2>4. "filter-0" \in DOMAIN pipelinemap' => "filter" \in Inited'
    BY DEF Inited
  <2> QED
    BY <2>1, <2>2, <2>3, <2>4, InitKeeps DEF Lists, Preparing
<1>5. CASE sdlmsg_replay_init
  <2>1. (replayrect' = replay_rect(prect) /\ Proceed("run", ToRun)) \/ stage' = "exited"
    BY <1>5 DEF sdlmsg_replay_init, CallFails, exits
  <2>2. stage = "init" /\ Head(todo) = "ctrl" /\ UNCHANGED <<thread, encoders, prect>>
    BY <1>5 DEF sdlmsg_replay_init, encodervars
  <2>3. replayrect' = replay_rect(prect) => "ctrl" \in Inited'
    BY <2>2 DEF Inited
  <2> QED
    BY <2>1, <2>2, <2>3, InitKeeps DEF Lists, Preparing
<1>6. CASE asource_init
  <2>1. Proceed("run", ToRun) \/ stage' = "exited"
    BY <1>6 DEF asource_init, CallFails, exits
  <2>2. stage = "init" /\ Head(todo) = "asource" /\ UNCHANGED <<thread, encoders>>
    BY <1>6 DEF asource_init, encodervars
  <2>3. "asource" \in Inited'
    BY DEF Inited
  <2> QED
    BY <2>1, <2>2, <2>3, InitKeeps DEF Lists, Preparing
<1>7. CASE run_module
  <2>1. (thread' = Started(Head(todo)) /\ Proceed("serving", <<>>)) \/ (stage' = "exited" /\ thread' = thread)
    BY <1>7 DEF run_module, CallFails, exits
  <2>2. stage = "run" /\ encoders' = encoders
    BY <1>7 DEF run_module, encodervars
  <2>3. thread' = Started(Head(todo)) => Head(todo) \in Begun' /\ Begun \subseteq Begun'
    BY <2>2 DEF Begun, Started
  <2>4. thread' = thread => Begun \subseteq Begun'
    BY <2>2 DEF Begun
  <2> QED
    BY <2>1, <2>2, <2>3, <2>4, RunKeeps DEF Lists, Preparing
<1>8. CASE encoder_register
  <2>1. stage = "run" /\ encoders' = encoders \cup {Head(todo)} /\ thread' = thread
        /\ Proceed("serving", <<>>)
    BY <1>8 DEF encoder_register
  <2>2. Head(todo) \in Begun' /\ Begun \subseteq Begun'
    BY <2>1 DEF Begun
  <2> QED
    BY <2>1, <2>2, RunKeeps
<1>9. CASE client_thread_created
  <2>1. stage' \in {"launch", "playing"}
    BY <1>9 DEF client_thread_created, Proceed
  <2> QED
    BY <2>1 DEF MainInv, Preparing
<1> QED
  BY <1>1, <1>2, <1>3, <1>4, <1>5, <1>6, <1>7, <1>8, <1>9, MainMoves

(* What the steps of other stages leave the client.                        *)
LEMMA LaunchKeeps == MainInv /\ LaunchInv /\ [StartNext]_allvars => LaunchInv'
<1> SUFFICES ASSUME MainInv, LaunchInv, [StartNext]_allvars, stage' \in {"launch", "playing"}
             PROVE  LaunchInv'
  BY DEF LaunchInv
<1>1. CASE UNCHANGED <<stage, todo, conf>> /\ DOMAIN thread' = DOMAIN thread
  BY <1>1 DEF LaunchInv, Controller
<1>2. CASE client_libraries
  <2>1. stage = "client" /\ stage' = "launch" /\ todo' = ThreadsToCreate /\ UNCHANGED <<conf, thread>>
    BY <1>2 DEF client_libraries, CallFails, exits
  <2>2. DOMAIN thread = {}
    BY <2>1 DEF MainInv, Preparing, Begun
  <2>3. CASE conf.ctrlenable
    <3>1. ThreadsToCreate = <<"ctrlclient", "watchdog", "rtsp">>
      BY <2>3, Tuples DEF ThreadsToCreate
    <3> QED
      BY <2>1, <2>2, <2>3, <3>1 DEF LaunchInv
  <2>4. CASE ~conf.ctrlenable
    <3>1. ThreadsToCreate = <<"watchdog", "rtsp">>
      BY <2>4, Tuples DEF ThreadsToCreate
    <3> QED
      BY <2>1, <2>2, <2>4, <3>1 DEF LaunchInv, Controller
  <2> QED
    BY <2>3, <2>4
<1>3. CASE client_thread_created
  <2>1. stage = "launch" /\ Proceed("playing", <<>>) /\ thread' = Started(Head(todo)) /\ conf' = conf
    BY <1>3 DEF client_thread_created
  <2>2. DOMAIN thread' = DOMAIN thread \cup {Head(todo)}
    BY <2>1 DEF Started
  <2>3. CASE todo = <<"ctrlclient", "watchdog", "rtsp">> /\ conf.ctrlenable /\ DOMAIN thread = {}
    <3>1. Head(todo) = "ctrlclient" /\ Len(todo) = 3 /\ Tail(todo) = <<"watchdog", "rtsp">>
      BY <2>3
    <3>x. Len(todo) > 1
      BY <3>1
    <3>2. todo' = <<"watchdog", "rtsp">> /\ stage' = "launch"
      BY <2>1, <3>1, <3>x, Zenon DEF Proceed
    <3> QED
      BY <2>1, <2>2, <2>3, <3>1, <3>2 DEF LaunchInv, Controller
  <2>4. CASE todo = <<"watchdog", "rtsp">> /\ DOMAIN thread = Controller
    <3>1. Head(todo) = "watchdog" /\ Len(todo) = 2 /\ Tail(todo) = <<"rtsp">>
      BY <2>4
    <3>x. Len(todo) > 1
      BY <3>1
    <3>2. todo' = <<"rtsp">> /\ stage' = "launch"
      BY <2>1, <3>1, <3>x, Zenon DEF Proceed
    <3> QED
      BY <2>1, <2>2, <2>4, <3>1, <3>2 DEF LaunchInv, Controller
  <2>5. CASE todo = <<"rtsp">> /\ DOMAIN thread = Controller \cup {"watchdog"}
    <3>1. Head(todo) = "rtsp" /\ Len(todo) = 1
      BY <2>5
    <3>2. stage' = "playing"
      BY <2>1, <3>1 DEF Proceed
    <3>3. DOMAIN thread' = Controller' \cup {"watchdog", "rtsp"}
      BY <2>1, <2>2, <2>5, <3>1 DEF Controller
    <3> QED
      BY <3>2, <3>3 DEF LaunchInv
  <2> QED
    BY <2>1, <2>3, <2>4, <2>5 DEF LaunchInv
<1>4. CASE controller_disabled
  <2>1. stage = "launch" /\ Head(todo) = "ctrlclient" /\ Proceed("playing", <<>>)
        /\ thread' = thread /\ conf' = [conf EXCEPT !.ctrlenable = FALSE]
    BY <1>4 DEF controller_disabled
  <2>2. todo = <<"ctrlclient", "watchdog", "rtsp">> /\ DOMAIN thread = {}
    BY <2>1 DEF LaunchInv
  <2>3. todo' = <<"watchdog", "rtsp">> /\ stage' = "launch"
    <3>1. Len(todo) = 3 /\ Tail(todo) = <<"watchdog", "rtsp">>
      BY <2>2
    <3>x. Len(todo) > 1
      BY <3>1
    <3> QED
      BY <2>1, <3>1, <3>x, Zenon DEF Proceed
  <2>4. Controller' = {}
    BY <2>1 DEF Controller
  <2> QED
    BY <2>1, <2>2, <2>3, <2>4 DEF LaunchInv
<1> QED
  BY <1>1, <1>2, <1>3, <1>4, LaunchMoves

(* Every step keeps the names of threads and of encoders apart.            *)
LEMMA BegunKeeps == MainInv /\ LaunchInv /\ BegunInv /\ [StartNext]_allvars => BegunInv'
<1> SUFFICES ASSUME MainInv, LaunchInv, BegunInv, [StartNext]_allvars PROVE BegunInv'
  OBVIOUS
<1>1. HasAudio' = HasAudio
  BY InputsFixed DEF HasAudio
<1>2. CASE DOMAIN thread' = DOMAIN thread /\ encoders' = encoders
  BY <1>1, <1>2 DEF BegunInv
<1>3. CASE run_module
  BY <1>1, <1>3 DEF run_module, Started, BegunInv, encodervars
<1>4. CASE encoder_register
  <2>1. Head(todo) \in Encoder /\ encoders' = encoders \cup {Head(todo)} /\ thread' = thread
        /\ stage = "run"
    BY <1>4 DEF encoder_register
  <2>2. Head(todo) = "aencoder" => HasAudio
    <3>1. PICK n \in 1..Len(ToRun) : todo = From(ToRun, n)
      BY <2>1 DEF MainInv, Progress
    <3>2. Head(todo) = ToRun[n]
      BY <3>1, ListsAre, FromIs
    <3>3. HasAudio \/ \A i \in 1..Len(ToRun) : ToRun[i] # "aencoder"
      BY DEF ToRun
    <3> QED
      BY <3>2, <3>3
  <2> QED
    BY <1>1, <2>1, <2>2 DEF BegunInv, Encoder
<1>5. CASE client_thread_created
  <2>1. encoders' = encoders /\ thread' = Started(Head(todo)) /\ stage = "launch"
    BY <1>5 DEF client_thread_created, clientframe, encodervars
  <2>2. Head(todo) \in {"ctrlclient", "watchdog", "rtsp"}
    BY <2>1 DEF LaunchInv
  <2>3. Head(todo) \notin Encoder
    BY <2>2 DEF Encoder
  <2> QED
    <3>1. DOMAIN thread' = DOMAIN thread \cup {Head(todo)}
      BY <2>1 DEF Started
    <3>2. DOMAIN thread' \cap Encoder = {}
      BY <2>3, <3>1 DEF BegunInv
    <3>3. encoders' \subseteq (IF HasAudio' THEN Encoder ELSE {"vencoder"})
      BY <1>1, <2>1 DEF BegunInv
    <3> QED
      BY <3>2, <3>3 DEF BegunInv, Encoder
<1>6. ListsAlone \/ ga_load_module \/ vsource_init \/ filter_RGB2YUV_init \/ sdlmsg_replay_init
      \/ asource_init => DOMAIN thread' = DOMAIN thread /\ encoders' = encoders
  BY DEF ListsAlone, ga_load_module, vsource_init, filter_RGB2YUV_init, sdlmsg_replay_init,
         asource_init, encodervars
<1> QED
  BY <1>2, <1>3, <1>4, <1>5, <1>6, MainMoves

(* The control server is started where the controller is enabled.          *)
ServerInv == stage \in Lists /\ "ctrlserver" \in DOMAIN thread => conf.ctrlenable

(* What the lists of main hold, with and without a controller and sound.   *)
LEMMA ListsHold ==
    /\ conf.ctrlenable => \E i \in 1..Len(ModulesToInit) : ModulesToInit[i] = "ctrl"
    /\ \E i \in 1..Len(ToRun) : ToRun[i] = "vencoder"
    /\ HasAudio => \E i \in 1..Len(ToRun) : ToRun[i] = "aencoder"
    /\ ~conf.ctrlenable => \A i \in 1..Len(ToRun) : ToRun[i] # "ctrlserver"
<1>1. conf.ctrlenable => \E i \in 1..Len(ModulesToInit) : ModulesToInit[i] = "ctrl"
  BY DEF ModulesToInit
<1>2. \E i \in 1..Len(ToRun) : ToRun[i] = "vencoder"
  BY DEF ToRun
<1>3. HasAudio => \E i \in 1..Len(ToRun) : ToRun[i] = "aencoder"
  BY DEF ToRun
<1>4. ~conf.ctrlenable => \A i \in 1..Len(ToRun) : ToRun[i] # "ctrlserver"
  BY DEF ToRun
<1> QED
  BY <1>1, <1>2, <1>3, <1>4

(* Every step keeps the control server to the settings that ask for it.    *)
LEMMA ServerKeeps == MainInv /\ ServerInv /\ [StartNext]_allvars => ServerInv'
<1> SUFFICES ASSUME MainInv, ServerInv, [StartNext]_allvars PROVE ServerInv'
  OBVIOUS
<1>1. CASE ListsAlone
  BY <1>1, ConfStays DEF ListsAlone, ServerInv
<1>2. CASE ga_load_module
  <2>1. stage = "modules" /\ UNCHANGED thread
    BY <1>2 DEF ga_load_module
  <2> QED
    BY <2>1 DEF ServerInv, MainInv, Preparing, Begun
<1>3. CASE vsource_init \/ filter_RGB2YUV_init \/ sdlmsg_replay_init \/ asource_init
  <2>1. stage \in Lists /\ thread' = thread
    BY <1>3 DEF vsource_init, filter_RGB2YUV_init, sdlmsg_replay_init, asource_init, Lists
  <2> QED
    BY <2>1, ConfStays DEF ServerInv
<1>4. CASE run_module
  <2>1. stage = "run" /\ DOMAIN thread' \subseteq DOMAIN thread \cup {Head(todo)}
    BY <1>4 DEF run_module, Started
  <2>2. Head(todo) = "ctrlserver" => conf.ctrlenable
    <3>1. PICK n \in 1..Len(ToRun) : todo = From(ToRun, n)
      BY <2>1 DEF MainInv, Progress
    <3>2. Head(todo) = ToRun[n]
      BY <3>1, ListsAre, FromIs
    <3> QED
      BY <3>2, ListsHold
  <2>3. conf' = conf
    BY <2>1, ConfStays DEF Lists
  <2> QED
    BY <2>1, <2>2, <2>3 DEF ServerInv, Lists
<1>5. CASE encoder_register
  <2>1. stage \in Lists /\ thread' = thread
    BY <1>5 DEF encoder_register, Lists
  <2> QED
    BY <2>1, ConfStays DEF ServerInv
<1>6. CASE client_thread_created
  <2>1. stage' \in {"launch", "playing"}
    BY <1>6 DEF client_thread_created, Proceed
  <2> QED
    BY <2>1 DEF ServerInv, Lists
<1> QED
  BY <1>1, <1>2, <1>3, <1>4, <1>5, <1>6, MainMoves

(* What was pointed at is in the picture, and the pointer is where it shows. *)
PointInv ==
    IF pointed = <<>> THEN native = Idle
    ELSE /\ shot.taken
         /\ pointed[1] \in 0..(source.width - 1) /\ pointed[2] \in 0..(source.height - 1)
         /\ Hits(native.pointer[1], Corner[1] + pointed[1])
         /\ Hits(native.pointer[2], Corner[2] + pointed[2])

(* A message, and an event.  *)
Scaled(p, w) == (65536 * p) \div w

(* Scaling to 65536 parts and back loses at most one pixel.                *)
LEMMA ScaledBack ==
    ASSUME NEW w \in Nat, w > 0, w <= 65535, NEW p \in Nat
    PROVE  (Scaled(p, w) * w) \div 65536 \in {p - 1, p}
<1> DEFINE q == (65536 * p) \div w
           d == (65536 * p) % w
<1>1. q \in Int /\ d \in 0..(w - 1) /\ 65536 * p = w * q + d
  BY SMT
<1> HIDE DEF q, d
<1>2. q * w = w * q /\ w * q \in Int
  BY <1>1, SMT
<1>3. q * w = 65536 * p - d
  BY <1>1, <1>2, SMT
<1>4. (q * w) \div 65536 \in {p - 1, p}
  BY <1>1, <1>3, SMT
<1> QED
  BY <1>4, SMT DEF q, Scaled

(* MoveTo changes the pointer and nothing of the record's fields.          *)
LEMMA MoveIs ==
    ASSUME NEW n, "pointer" \in DOMAIN n, NEW p
    PROVE  MoveTo(n, p).pointer = p /\ "pointer" \in DOMAIN MoveTo(n, p)
  BY DEF MoveTo

(* What each system makes of a button.                                     *)
LEMMA ButtonIs ==
    ASSUME NEW m, NEW rect, NEW n, NEW msg, msg.msgtype = "mousekey"
    PROVE  /\ native_win32(m, rect, n, msg) = button_win32(n, msg)
           /\ native_osx(m, rect, n, msg) = button_osx(n, msg)
           /\ native_x11(m, rect, n, msg) = XTestFakeButtonEvent(n, msg.mousebutton, msg.is_pressed)
  BY DEF native_win32, native_osx, native_x11

(* What each system makes of a motion.                                     *)
LEMMA MotionIs ==
    ASSUME NEW m, NEW rect, NEW n, NEW msg, msg.msgtype = "mousemotion"
    PROVE  /\ native_win32(m, rect, n, msg) = motion_win32(m, rect, n, msg)
           /\ native_osx(m, rect, n, msg) = MoveTo(n, on_screen(rect, msg))
           /\ native_x11(m, rect, n, msg) = MoveTo(n, on_screen(rect, msg))
  BY DEF native_win32, native_osx, native_x11

(* The first button leaves the pointer where it is, on every system.       *)
LEMMA ButtonKeepsPointer ==
    ASSUME NEW m, NEW rect, NEW n, "pointer" \in DOMAIN n, n.pointer # Anywhere,
           NEW msg, msg.msgtype = "mousekey", msg.mousebutton = 1
    PROVE  sdlmsg_replay(m, rect, n, msg).pointer = n.pointer
<1> DEFINE down == msg.is_pressed
           k == PostButton(n, 1, down)
<1>1. k.pointer = n.pointer /\ "pointer" \in DOMAIN k
  BY DEF PostButton
<1>2. button_win32(n, msg) = k
  BY DEF button_win32
<1>3. button_osx(n, msg) = MoveTo(k, n.pointer)
  BY DEF button_osx
<1>4. XTestFakeButtonEvent(n, msg.mousebutton, down) = Scroll(k, 0)
  BY DEF XTestFakeButtonEvent
<1> HIDE DEF k
<1>5. MoveTo(k, n.pointer).pointer = n.pointer /\ Scroll(k, 0).pointer = n.pointer
  BY <1>1, MoveIs DEF Scroll
<1>6. /\ native_win32(m, rect, n, msg).pointer = n.pointer
      /\ native_osx(m, rect, n, msg).pointer = n.pointer
      /\ native_x11(m, rect, n, msg).pointer = n.pointer
  <2>1. /\ native_win32(m, rect, n, msg) = button_win32(n, msg)
        /\ native_osx(m, rect, n, msg) = button_osx(n, msg)
        /\ native_x11(m, rect, n, msg) = XTestFakeButtonEvent(n, msg.mousebutton, down)
    BY ButtonIs
  <2> QED
    BY <1>1, <1>2, <1>3, <1>4, <1>5, <2>1
<1> QED
  BY <1>6 DEF sdlmsg_replay

(* SendInput puts the pointer where it was asked to, or one column or line *)
(* before.                                                                 *)
LEMMA SendInputHits ==
    ASSUME NEW m \in Machines, NEW n, NEW p \in Nat, NEW q \in Nat
    PROVE  \E a \in {p - 1, p}, b \in {q - 1, q} :
              SendInput(n, Scaled(p, m.width), Scaled(q, m.height), m) = MoveTo(n, <<a, b>>)
<1> DEFINE a == (Scaled(p, m.width) * m.width) \div 65536
           b == (Scaled(q, m.height) * m.height) \div 65536
<1>1. /\ m.width \in Nat /\ m.width > 0 /\ m.width <= 65535
      /\ m.height \in Nat /\ m.height > 0 /\ m.height <= 65535
  BY MachineIs, SMT
<1>2. SendInput(n, Scaled(p, m.width), Scaled(q, m.height), m) = MoveTo(n, <<a, b>>)
  BY SMT DEF SendInput
<1>3. a \in {p - 1, p} /\ b \in {q - 1, q}
  BY <1>1, ScaledBack, SMT
<1> HIDE DEF a, b
<1> QED
  BY <1>2, <1>3, SMT

(* The pointer is put at a position, on Windows at most one off it. *)
Lands(m, n, p, q) ==
    /\ "pointer" \in DOMAIN n /\ n.pointer \in Int \X Int
    /\ OnWindows(m) => p - n.pointer[1] \in {0, 1} /\ q - n.pointer[2] \in {0, 1}
    /\ ~OnWindows(m) => n.pointer[1] = p /\ n.pointer[2] = q

(* A motion to a position of the picture. *)
LEMMA MotionHits ==
    ASSUME NEW m \in Machines, NEW rect, NEW x0 \in Nat, NEW y0 \in Nat,
           rect = NoRect => x0 = 0 /\ y0 = 0,
           rect # NoRect => x0 = rect.left /\ y0 = rect.top,
           NEW n, "pointer" \in DOMAIN n, NEW x \in Nat, NEW y \in Nat,
           NEW msg, msg.msgtype = "mousemotion", msg.mousex = x, msg.mousey = y,
           msg.relativeMouseMode = FALSE,
           NEW r, r = sdlmsg_replay(m, rect, n, msg)
    PROVE  Lands(m, r, x0 + x, y0 + y)
<1>2. x0 + x \in Nat /\ y0 + y \in Nat
  OBVIOUS
<1>3. on_screen(rect, msg) = <<x0 + x, y0 + y>>
  BY DEF on_screen
<1>4. CASE OnWindows(m)
  <2> DEFINE p == on_screen(rect, msg)
  <2>1. p[1] = x0 + x /\ p[2] = y0 + y
    BY <1>3
  <2>2. r = SendInput(n, Scaled(p[1], m.width), Scaled(p[2], m.height), m)
    <3>1. r = motion_win32(m, rect, n, msg)
      BY <1>4, MotionIs, SMT DEF sdlmsg_replay
    <3> QED
      BY <3>1, SMT DEF motion_win32, Scaled
  <2> HIDE DEF p
  <2>3. PICK a \in {x0 + x - 1, x0 + x}, b \in {y0 + y - 1, y0 + y} : r = MoveTo(n, <<a, b>>)
    BY <1>2, <2>1, <2>2, SendInputHits
  <2> QED
    BY <1>2, <1>4, <2>1, <2>3, MoveIs DEF Lands
<1>5. CASE ~OnWindows(m)
  <2>1. r = MoveTo(n, <<x0 + x, y0 + y>>)
    BY <1>3, <1>5, MotionIs DEF sdlmsg_replay
  <2> QED
    BY <1>2, <1>5, <2>1, MoveIs DEF Lands
<1> QED
  BY <1>4, <1>5

(* The messages of an event, one after the other. *)
IsReplay(f, s) ==
    f = [i \in 0..Len(s) |->
            IF i = 0 THEN native
            ELSE sdlmsg_replay(machine, replayrect, f[i - 1], s[i])]

(* Replaying no message, and one more.                                     *)
LEMMA ReplayIs ==
    ASSUME NEW s, NEW f, IsReplay(f, s)
    PROVE  \E g : IsReplay(g, s) /\ sdlmsg_replay_all(s) = g[Len(s)]
<1> DEFINE g == CHOOSE h : IsReplay(h, s)
<1>1. IsReplay(g, s)
  BY Zenon
<1>2. sdlmsg_replay_all(s) = g[Len(s)]
  BY Zenon DEF sdlmsg_replay_all, IsReplay
<1> QED
  BY <1>1, <1>2, Zenon

(* Replaying one message.                                                  *)
LEMMA ReplayOne ==
    ASSUME NEW a
    PROVE  sdlmsg_replay_all(<<a>>) = sdlmsg_replay(machine, replayrect, native, a)
<1> DEFINE s == <<a>>
           f == [i \in 0..1 |->
                    IF i = 0 THEN native ELSE sdlmsg_replay(machine, replayrect, native, a)]
<1>1. Len(s) = 1 /\ s[1] = a
  OBVIOUS
<1> HIDE DEF s
<1>2. IsReplay(f, s)
  BY <1>1 DEF IsReplay
<1> HIDE DEF f
<1>3. PICK g : IsReplay(g, s) /\ sdlmsg_replay_all(s) = g[Len(s)]
  BY <1>2, ReplayIs
<1>4. g[0] = native /\ g[1] = sdlmsg_replay(machine, replayrect, g[0], s[1])
  BY <1>1, <1>3 DEF IsReplay
<1> QED
  BY <1>1, <1>3, <1>4 DEF s

(* Replaying two, one after the other.                                     *)
LEMMA ReplayTwo ==
    ASSUME NEW a, NEW b
    PROVE  sdlmsg_replay_all(<<a, b>>)
           = sdlmsg_replay(machine, replayrect, sdlmsg_replay(machine, replayrect, native, a), b)
<1> DEFINE s == <<a, b>>
           n == sdlmsg_replay(machine, replayrect, native, a)
           o == sdlmsg_replay(machine, replayrect, n, b)
           f == [i \in 0..2 |-> IF i = 0 THEN native ELSE IF i = 1 THEN n ELSE o]
<1>1. Len(s) = 2 /\ s[1] = a /\ s[2] = b
  OBVIOUS
<1> HIDE DEF s
<1>2. IsReplay(f, s)
  BY <1>1 DEF IsReplay
<1> HIDE DEF f
<1>3. PICK g : IsReplay(g, s) /\ sdlmsg_replay_all(s) = g[Len(s)]
  BY <1>2, ReplayIs
<1>4. g[0] = native /\ g[1] = sdlmsg_replay(machine, replayrect, g[0], s[1])
      /\ g[2] = sdlmsg_replay(machine, replayrect, g[1], s[2])
  BY <1>1, <1>3 DEF IsReplay
<1> QED
  BY <1>1, <1>3, <1>4 DEF s

(* Two messages, one after the other.                                      *)
LEMMA Pair == ASSUME NEW a, NEW b PROVE <<a>> \o <<b>> = <<a, b>>
<1> DEFINE S == {a, b}
           p == <<a>>
           q == <<b>>
           r == <<a, b>>
<1>1. p \in Seq(S) /\ Len(p) = 1 /\ p[1] = a
  OBVIOUS
<1>2. q \in Seq(S) /\ Len(q) = 1 /\ q[1] = b
  OBVIOUS
<1>3. r \in Seq(S) /\ Len(r) = 2 /\ r[1] = a /\ r[2] = b
  OBVIOUS
<1> HIDE DEF S, p, q, r
<1>4. /\ p \o q \in Seq(S) /\ Len(p \o q) = Len(p) + Len(q)
      /\ \A i \in 1..(Len(p) + Len(q)) : (p \o q)[i] = IF i <= Len(p) THEN p[i] ELSE q[i - Len(p)]
  BY <1>1, <1>2, ConcatProperties, Zenon
<1> DEFINE s == p \o q
<1> HIDE DEF s
<1>5. Len(s) = 2 /\ \A i \in 1..2 : s[i] = IF i <= 1 THEN p[i] ELSE q[i - 1]
  BY <1>1, <1>2, <1>4 DEF s
<1>6. s[1] = a /\ s[2] = b
  BY <1>1, <1>2, <1>5
<1>7. \A i \in 1..Len(s) : s[i] = r[i]
  BY <1>3, <1>5, <1>6
<1>8. s \in Seq(S) /\ Len(s) = Len(r)
  BY <1>3, <1>4, <1>5 DEF s
<1>9. s = r
  BY <1>3, <1>7, <1>8, SeqEqual
<1> QED
  BY <1>9 DEF p, q, r, s

(* What an event at a pixel is sent as. *)
LEMMA SentAs ==
    ASSUME source.width \in Nat, source.width > 0, source.height \in Nat, source.height > 0,
           NEW x \in {0, source.width - 1}, NEW y \in {0, source.height - 1},
           NEW e \in Pointing(x, y)
    PROVE  \/ ProcessEvent(e, client_conf) = <<sdlmsg_mousemotion(x, y, FALSE)>>
           \/ ProcessEvent(e, client_conf)
              = <<sdlmsg_mousemotion(x, y, FALSE), sdlmsg_mousekey(TRUE, 1)>>
<1> DEFINE w == source.width
           h == source.height
<1>1. CASE e = MotionEvent(x, y, 0, 0)
  <2>1. e.type = "motion" /\ e.x = x /\ e.y = y
    BY <1>1 DEF MotionEvent
  <2>2. client_conf.ctrlenable /\ client_conf.sendmousemotion /\ ~client_conf.relativeMouseMode
    BY DEF client_conf
  <2>3. MouseEvents(e, client_conf) = <<sdlmsg_mousemotion(x, y, FALSE)>>
    BY <2>1, <2>2 DEF MouseEvents
  <2>4. ProcessEvent(e, client_conf) = MouseEvents(e, client_conf)
    BY <2>1, <2>2 DEF ProcessEvent
  <2> QED
    BY <2>3, <2>4
<1> DEFINE FX == {f \in {0, 32767} : f = 32767 <=> x = w - 1}
           FY == {f \in {0, 32767} : f = 32767 <=> y = h - 1}
<1>2. e = MotionEvent(x, y, 0, 0) \/ \E fx \in FX, fy \in FY : e = FingerEvent("down", fx, fy)
  BY SMT DEF Pointing
<1>3. \A fx \in FX, fy \in FY : Mapped(w, fx) = x /\ Mapped(h, fy) = y
  <2> SUFFICES ASSUME NEW fx \in FX, NEW fy \in FY PROVE Mapped(w, fx) = x /\ Mapped(h, fy) = y
    OBVIOUS
  <2> HIDE DEF w, h
  <2>1. ((w - 1) * fx) \div 32767 = x
    BY SMT DEF w
  <2>2. ((h - 1) * fy) \div 32767 = y
    BY SMT DEF h
  <2> QED
    BY <2>1, <2>2, SMT DEF Mapped
<1> HIDE DEF FX, FY
<1>4. ASSUME NEW fx \in FX, NEW fy \in FY, e = FingerEvent("down", fx, fy)
      PROVE  ProcessEvent(e, client_conf)
             = <<sdlmsg_mousemotion(x, y, FALSE), sdlmsg_mousekey(TRUE, 1)>>
  <2>1. e.type = "finger" /\ e.phase = "down" /\ e.x = fx /\ e.y = fy
    BY <1>4 DEF FingerEvent
  <2>2. client_conf.ctrlenable /\ client_conf.windowSizeX = w /\ client_conf.windowSizeY = h
    BY DEF client_conf
  <2>3. Mapped(w, fx) = x /\ Mapped(h, fy) = y
    BY <1>3
  <2>4. w # 0
    BY SMT
  <2> HIDE DEF w, h
  <2>5. FingerEvents(e, client_conf)
        = <<sdlmsg_mousemotion(x, y, FALSE)>> \o <<sdlmsg_mousekey(TRUE, 1)>>
    BY <2>1, <2>2, <2>3, <2>4, SMT DEF FingerEvents
  <2>6. ProcessEvent(e, client_conf) = FingerEvents(e, client_conf)
    BY <2>1, <2>2, SMTT(30) DEF ProcessEvent
  <2> QED
    BY <2>5, <2>6, Pair, Zenon
<1> QED
  BY <1>1, <1>2, <1>4, Zenon

(* The pointer moves with a user who points, and with nothing else.        *)
LEMMA PointMoves ==
    [StartNext]_allvars =>
        \/ replay_pointing(0, 0) \/ replay_pointing(source.width - 1, source.height - 1)
        \/ UNCHANGED <<pointed, native>>
  BY DEF StartNext, MainStep, load, load_url, rtspconf_parse, pass_option, crop_disabled,
     ga_crop_window, crop_fails, ga_load_module, DriverStep, dfm_open, dfm_setAttachToDesktop,
     dfm_load_unopened, dfm_load, dfm_connect, vsource_init, filter_RGB2YUV_init,
     sdlmsg_replay_init, asource_init, run_module, encoder_register, vsource_begin, filter_begin,
     asource_begin, ctrl_server_begin, per_client_init, vencoder_begin, aencoder_begin,
     encoder_begins, ClientStep, client_libraries, client_thread_created, controller_disabled,
     client_thread_fails, ctrl_client_begin, vsource_capture, capture_fails, pool_step,
     allvars, startvars, confvars, encodervars, inputvars, readframe, cropframe, driverframe, clientframe

(* Once a picture was taken there is one.                                  *)
LEMMA ShotStays == [StartNext]_allvars => (shot.taken => shot'.taken)
  BY ShotMoves DEF vsource_capture

(* Where a client's user points is where the pointer goes. *)
LEMMA PointingHits ==
    ASSUME PictureInv, MainInv, ServerInv, pointed = <<>> => native = Idle,
           NEW x \in {0, source.width - 1}, NEW y \in {0, source.height - 1},
           replay_pointing(x, y)
    PROVE  /\ pointed' = <<x, y>> /\ shot' = shot /\ shot.taken
           /\ UNCHANGED <<machine, source, prect>>
           /\ x \in 0..(source.width - 1) /\ y \in 0..(source.height - 1)
           /\ Hits(native'.pointer[1], Corner[1] + x)
           /\ Hits(native'.pointer[2], Corner[2] + y)
<1>1. /\ stage = "serving" /\ shot.taken /\ pointed = <<>> /\ Running("ctrlserver")
      /\ pointed' = <<x, y>> /\ UNCHANGED <<shot, machine, source, prect, replayrect>>
      /\ \E e \in Pointing(x, y) : native' = sdlmsg_replay_all(ProcessEvent(e, client_conf))
  BY DEF replay_pointing
<1>2. source = SourceSize /\ CropInv /\ machine \in Machines
  BY <1>1 DEF PictureInv, ShotInv, PipeInv, CropInv
<1>3. /\ source.width \in Nat /\ source.width > 0 /\ source.height \in Nat /\ source.height > 0
      /\ source.width <= machine.width /\ source.height <= machine.height
  <2>1. CASE prect = NoRect
    <3>1. machine.width \in Nat /\ machine.height \in Nat
      BY <1>2, MachineIs
    <3> QED
      BY <1>2, <2>1, <3>1, SourceIs
  <2>2. CASE prect # NoRect
    <3> DEFINE r == ga_fillrect(prect)
    <3>1. r.left \in Nat /\ r.width \in Nat /\ r.left + r.width <= machine.width
          /\ r.top \in Nat /\ r.height \in Nat /\ r.top + r.height <= machine.height
      BY <1>2, <2>2, CropIs
    <3>2. source.width = r.width /\ source.height = r.height
      BY <1>2, <2>2, SourceIs
    <3>3. machine.width \in Nat /\ machine.height \in Nat
      BY <1>2, MachineIs
    <3> HIDE DEF r
    <3> DEFINE rw == r.width
               rh == r.height
               mw == machine.width
               mh == machine.height
               rl == r.left
               rt == r.top
    <3>4. /\ rl \in Nat /\ rw \in Nat /\ rl + rw <= mw /\ mw \in Nat
          /\ rt \in Nat /\ rh \in Nat /\ rt + rh <= mh /\ mh \in Nat
      BY <3>1, <3>3
    <3>5. source.width = rw /\ source.height = rh
      BY <3>2
    <3> HIDE DEF rw, rh, mw, mh, rl, rt
    <3>6. rw <= mw /\ rh <= mh
      BY <3>4
    <3>7. source.width <= machine.width /\ source.height <= machine.height
      BY <3>5, <3>6 DEF mw, mh
    <3> QED
      BY <1>2, <3>7, SourceIs
  <2> QED
    BY <2>1, <2>2
<1>4. x \in Nat /\ x < 65536 /\ y \in Nat /\ y < 65536
      /\ x \in 0..(source.width - 1) /\ y \in 0..(source.height - 1)
  <2>1. machine.width \in Nat /\ machine.width <= 65535
        /\ machine.height \in Nat /\ machine.height <= 65535
    BY <1>2, MachineIs, SMT
  <2> QED
    BY <1>3, <2>1, SMTT(30)
<1>5. replayrect = replay_rect(prect)
  <2>1. conf.ctrlenable
    BY <1>1 DEF Running, ServerInv, Lists
  <2>2. PICK i \in 1..Len(ModulesToInit) : ModulesToInit[i] = "ctrl"
    BY <2>1, ListsHold
  <2>3. "ctrl" \in Inited
    BY <1>1, <2>2 DEF MainInv, Completed
  <2> QED
    BY <2>3 DEF Inited
<1> DEFINE x0 == Corner[1]
           y0 == Corner[2]
<1>6. /\ x0 \in Nat /\ y0 \in Nat
      /\ replayrect = NoRect => x0 = 0 /\ y0 = 0
      /\ replayrect # NoRect => x0 = replayrect.left /\ y0 = replayrect.top
  <2>1. CASE prect = NoRect
    BY <1>5, <2>1 DEF Corner, replay_rect
  <2>2. CASE prect # NoRect
    <3>1. LET r == ga_fillrect(prect)
          IN  r # NoRect /\ r.left \in Nat /\ r.top \in Nat /\ r.left = prect.left /\ r.top = prect.top
      BY <1>2, <2>2, CropIs
    <3> QED
      BY <1>5, <2>2, <3>1 DEF Corner, replay_rect
  <2> QED
    BY <2>1, <2>2
<1> DEFINE msg == sdlmsg_mousemotion(x, y, FALSE)
           but == sdlmsg_mousekey(TRUE, 1)
           r == sdlmsg_replay(machine, replayrect, native, msg)
           r2 == sdlmsg_replay(machine, replayrect, r, but)
<1>7. msg.msgtype = "mousemotion" /\ msg.mousex = x /\ msg.mousey = y
      /\ msg.relativeMouseMode = FALSE
  BY <1>4, SMT DEF sdlmsg_mousemotion, U16
<1>8. but.msgtype = "mousekey" /\ but.mousebutton = 1 /\ but.is_pressed = TRUE
  BY DEF sdlmsg_mousekey
<1>9. "pointer" \in DOMAIN native
  BY <1>1 DEF Idle
<1>10. native' = r \/ native' = r2
  <2>1. PICK e \in Pointing(x, y) : native' = sdlmsg_replay_all(ProcessEvent(e, client_conf))
    BY <1>1
  <2>2. ProcessEvent(e, client_conf) = <<msg>> \/ ProcessEvent(e, client_conf) = <<msg, but>>
    BY <1>3, SentAs
  <2> QED
    BY <2>1, <2>2, ReplayOne, ReplayTwo, Zenon
<1>15. r = sdlmsg_replay(machine, replayrect, native, msg)
  OBVIOUS
<1>16. r2 = sdlmsg_replay(machine, replayrect, r, but)
  OBVIOUS
<1> HIDE DEF x0, y0, msg, but, r2, r
<1>20. machine \in Machines /\ x \in Nat /\ y \in Nat
  BY <1>2, <1>4
<1>25. msg.msgtype = "mousemotion"
  BY <1>7
<1>26. msg.mousex = x
  BY <1>7
<1>27. msg.mousey = y
  BY <1>7
<1>28. msg.relativeMouseMode = FALSE
  BY <1>7
<1>29. x0 \in Nat
  BY <1>6
<1>30. y0 \in Nat
  BY <1>6
<1>31. replayrect = NoRect => x0 = 0 /\ y0 = 0
  BY <1>6
<1>32. replayrect # NoRect => x0 = replayrect.left /\ y0 = replayrect.top
  BY <1>6
<1>33. Lands(machine, r, x0 + x, y0 + y)
  BY <1>9, <1>15, <1>20, <1>25, <1>26, <1>27, <1>28, <1>29, <1>30, <1>31, <1>32, MotionHits
<1>11. /\ "pointer" \in DOMAIN r /\ r.pointer \in Int \X Int
       /\ OnWindows(machine) => (x0 + x) - r.pointer[1] \in {0, 1} /\ (y0 + y) - r.pointer[2] \in {0, 1}
       /\ ~OnWindows(machine) => r.pointer[1] = x0 + x /\ r.pointer[2] = y0 + y
  BY <1>33 DEF Lands
<1>17. r.pointer # Anywhere
  BY <1>11, Nowhere
<1>21. "pointer" \in DOMAIN r
  BY <1>11
<1>22. but.msgtype = "mousekey"
  BY <1>8
<1>23. but.mousebutton = 1
  BY <1>8
<1>24. sdlmsg_replay(machine, replayrect, r, but).pointer = r.pointer
  BY <1>17, <1>21, <1>22, <1>23, ButtonKeepsPointer
<1>12. r2.pointer = r.pointer
  BY <1>16, <1>24
<1>13. native'.pointer = r.pointer
  BY <1>10, <1>12
<1> DEFINE p1 == r.pointer[1]
           p2 == r.pointer[2]
<1>18. p1 \in Int /\ p2 \in Int
  BY <1>11
<1> HIDE DEF p1, p2
<1>19. Hits(p1, x0 + x) /\ Hits(p2, y0 + y)
  <2>1. CASE OnWindows(machine)
    <3>1. (x0 + x) - p1 \in {0, 1} /\ (y0 + y) - p2 \in {0, 1}
      BY <1>11, <2>1 DEF p1, p2
    <3> QED
      BY <1>4, <1>6, <1>18, <2>1, <3>1, SMT DEF Hits
  <2>2. CASE ~OnWindows(machine)
    BY <1>11, <2>2 DEF Hits, p1, p2
  <2> QED
    BY <2>1, <2>2
<1>14. Hits(native'.pointer[1], x0 + x) /\ Hits(native'.pointer[2], y0 + y)
  BY <1>13, <1>19 DEF p1, p2
<1> QED
  BY <1>1, <1>4, <1>14, SMT DEF x0, y0

(* Every step keeps the pointer where the user pointed.                    *)
LEMMA PointKeeps ==
    PictureInv /\ MainInv /\ ServerInv /\ PointInv /\ [StartNext]_allvars => PointInv'
<1> SUFFICES ASSUME PictureInv, MainInv, ServerInv, PointInv, [StartNext]_allvars PROVE PointInv'
  OBVIOUS
<1>1. pointed = <<>> => native = Idle
  BY DEF PointInv
<1>2. ASSUME NEW x \in {0, source.width - 1}, NEW y \in {0, source.height - 1},
             replay_pointing(x, y)
      PROVE  PointInv'
  <2>1. /\ pointed' = <<x, y>> /\ shot' = shot /\ shot.taken
        /\ UNCHANGED <<machine, source, prect>>
        /\ x \in 0..(source.width - 1) /\ y \in 0..(source.height - 1)
        /\ Hits(native'.pointer[1], Corner[1] + x)
        /\ Hits(native'.pointer[2], Corner[2] + y)
    BY <1>1, <1>2, PointingHits
  <2>2. Corner' = Corner /\ \A a, b : Hits(a, b)' = Hits(a, b)
    BY <2>1 DEF Corner, Hits
  <2>3. pointed' # <<>> /\ pointed'[1] = x /\ pointed'[2] = y
    BY <2>1
  <2> QED
    BY <2>1, <2>2, <2>3 DEF PointInv, Hits, Corner
<1>3. CASE UNCHANGED <<pointed, native>>
  <2>1. CASE pointed = <<>>
    BY <1>3, <2>1 DEF PointInv
  <2>2. CASE pointed # <<>>
    <3>1. shot.taken /\ shot'.taken
      BY <2>2, ShotStays DEF PointInv
    <3>2. UNCHANGED <<machine, source, prect>>
      BY <3>1, PictureStays DEF PictureInv, ShotInv
    <3> QED
      BY <1>3, <2>2, <3>1, <3>2 DEF PointInv, Hits, Corner
  <2> QED
    BY <2>1, <2>2
<1> QED
  BY <1>2, <1>3, PointMoves

(* Every step keeps the picture in order.                                  *)
LEMMA PictureKeeps == PictureInv /\ [StartNext]_allvars => PictureInv'
  BY CropKeeps, PipeKeeps, ShotKeeps DEF PictureInv

(* Before main starts nothing is done and nothing has begun.               *)
LEMMA MainInit == StartInit => MainInv /\ LaunchInv /\ BegunInv /\ ServerInv
  BY DEF StartInit, MainInv, LaunchInv, BegunInv, ServerInv, Begun

(***************************************************************************)
(* Main is where its lists say: what was initialised left what the next    *)
(* module looks for, what was started runs, and a control server is        *)
(* started only with the controller enabled.  The client has started the   *)
(* threads before the one that is next.                                    *)
(***************************************************************************)
THEOREM MainCorrect == StartSpec => [](MainInv /\ LaunchInv /\ BegunInv /\ ServerInv)
<1> DEFINE Inv == PictureInv /\ MainInv /\ LaunchInv /\ BegunInv /\ ServerInv
<1>1. StartInit => Inv
  BY PictureInit, MainInit
<1>2. Inv /\ [StartNext]_allvars => Inv'
  BY PictureKeeps, MainKeeps, LaunchKeeps, BegunKeeps, ServerKeeps
<1>3. Inv => MainInv /\ LaunchInv /\ BegunInv /\ ServerInv
  OBVIOUS
<1> HIDE DEF Inv
<1> QED
  BY <1>1, <1>2, <1>3, PTL DEF StartSpec

(***************************************************************************)
(* The pointer is on the pixel of the server's screen that the user        *)
(* pointed at in the picture, one whose capture succeeded (on Windows one  *)
(* off at most), for every screen, window, back end and place of the       *)
(* pointer before: the capture of vsource_init and the replay of           *)
(* sdlmsg_replay_init both count from main's rectangle.                    *)
(***************************************************************************)
THEOREM PointerCorrect == StartSpec => []PointerHitsPixel
<1> DEFINE Inv == PictureInv /\ MainInv /\ ServerInv /\ PointInv
<1>1. StartInit => Inv
  <2>2. StartInit => PointInv
    BY DEF StartInit, PointInv
  <2> QED
    BY <2>2, PictureInit, MainInit
<1>2. Inv /\ [StartNext]_allvars => Inv'
  BY PictureKeeps, MainKeeps, ServerKeeps, PointKeeps
<1>3. Inv => PointerHitsPixel
  <2> SUFFICES ASSUME Inv, pointed # <<>>, shot.calls = "succeed", ~Padded
               PROVE  LET pixel == shot.pixels[source.stride * pointed[2] + pointed[1]]
                      IN  Hits(native.pointer[1], pixel[1]) /\ Hits(native.pointer[2], pixel[2])
    BY DEF PointerHitsPixel
  <2>1. /\ shot.taken
        /\ pointed[1] \in 0..(source.width - 1) /\ pointed[2] \in 0..(source.height - 1)
        /\ Hits(native.pointer[1], Corner[1] + pointed[1])
        /\ Hits(native.pointer[2], Corner[2] + pointed[2])
    BY DEF PointInv
  <2>2. ShowsFrom(Corner[1], Corner[2])
    BY <2>1, ShowsCorner
  <2>3. shot.pixels[source.stride * pointed[2] + pointed[1]]
            = <<Corner[1] + pointed[1], Corner[2] + pointed[2]>>
    BY <2>1, <2>2 DEF ShowsFrom
  <2> QED
    BY <2>1, <2>3
<1> HIDE DEF Inv
<1> QED
  BY <1>1, <1>2, <1>3, PTL DEF StartSpec

-----------------------------------------------------------------------------
(***************************************************************************)
(* What a file says, by the depth to which included files are put in       *)
(* place.                                                                  *)
(***************************************************************************)
(* A file as pieces: each line, or what is in place of it.                 *)
Pieces(t, h, f) ==
    [i \in 1..Len(t[f]) |->
        IF t[f][i].kind = "include" /\ t[f][i].file \in DOMAIN t
        THEN h[t[f][i].file] ELSE <<t[f][i]>>]

(* To no depth: every file is empty.                                       *)
Shallow(t) == [f \in DOMAIN t |-> <<>>]

(* One deeper than h: every file with its pieces in place.                 *)
Deeper(t, h) == [f \in DOMAIN t |-> FlattenSeq(Pieces(t, h, f))]

(* What the local function of Flat is asked to be.                         *)
IsFlat(g, t) ==
    g = [d \in 0..MaxOpen |->
            [f \in DOMAIN t |->
                IF d = 0 THEN <<>>
                ELSE FlattenSeq([i \in 1..Len(t[f]) |->
                        IF t[f][i].kind = "include" /\ t[f][i].file \in DOMAIN t
                        THEN g[d - 1][t[f][i].file]
                        ELSE <<t[f][i]>>])]]

(* The contents of each file, by depth.                                    *)
Deep(t) == CHOOSE g : IsFlat(g, t)

(* What the definition of Flat recurs over exists.                         *)
LEMMA DeepExists == ASSUME NEW t PROVE \E g : IsFlat(g, t)
<1> DEFINE Good(n, g) == /\ DOMAIN g = 0..n /\ g = [d \in 0..n |-> g[d]]
                         /\ \A d \in 0..n : g[d] = IF d = 0 THEN Shallow(t) ELSE Deeper(t, g[d - 1])
           S == {n \in Nat : \E g : Good(n, g)}
<1>1. 0 \in S
  <2> DEFINE g == [d \in 0..0 |-> Shallow(t)]
  <2>1. Good(0, g)
    OBVIOUS
  <2> QED
    BY <2>1
<1>2. ASSUME NEW n \in Nat, n \in S PROVE n + 1 \in S
  <2>1. PICK g : Good(n, g)
    BY <1>2
  <2> DEFINE h == [d \in 0..(n + 1) |-> IF d = n + 1 THEN Deeper(t, g[n]) ELSE g[d]]
  <2>2. DOMAIN h = 0..(n + 1) /\ h = [d \in 0..(n + 1) |-> h[d]]
    OBVIOUS
  <2>3. ASSUME NEW d \in 0..(n + 1)
        PROVE  h[d] = IF d = 0 THEN Shallow(t) ELSE Deeper(t, h[d - 1])
    <3>1. CASE d = n + 1
      <4>1. d - 1 = n /\ n \in 0..(n + 1) /\ n # n + 1 /\ d # 0
        BY <3>1
      <4>2. h[d] = Deeper(t, g[n]) /\ h[d - 1] = g[n]
        BY <3>1, <4>1
      <4> QED
        BY <4>1, <4>2
    <3>2. CASE d # n + 1
      <4>1. d \in 0..n /\ (d # 0 => d - 1 \in 0..n /\ d - 1 \in 0..(n + 1) /\ d - 1 # n + 1)
        BY <3>2
      <4>2. h[d] = g[d] /\ (d # 0 => h[d - 1] = g[d - 1])
        BY <3>2, <4>1
      <4>3. g[d] = IF d = 0 THEN Shallow(t) ELSE Deeper(t, g[d - 1])
        BY <2>1, <4>1
      <4> HIDE DEF h
      <4> QED
        BY <4>2, <4>3
    <3> QED
      BY <3>1, <3>2
  <2> HIDE DEF h
  <2>4. Good(n + 1, h)
    BY <2>2, <2>3
  <2>5. n + 1 \in Nat
    OBVIOUS
  <2> HIDE DEF Good
  <2> QED
    BY <2>4, <2>5
<1>3. MaxOpen \in S
  <2> HIDE DEF S
  <2> QED
    BY <1>1, <1>2, SetInduction, StoreAssumption
<1>4. PICK g : Good(MaxOpen, g)
  BY <1>3
<1>5. \A d \in 0..MaxOpen :
         g[d] = [f \in DOMAIN t |->
                    IF d = 0 THEN <<>>
                    ELSE FlattenSeq([i \in 1..Len(t[f]) |->
                            IF t[f][i].kind = "include" /\ t[f][i].file \in DOMAIN t
                            THEN g[d - 1][t[f][i].file]
                            ELSE <<t[f][i]>>])]
  BY <1>4 DEF Shallow, Deeper, Pieces
<1>6. IsFlat(g, t)
  BY <1>4, <1>5 DEF IsFlat
<1> QED
  BY <1>6

(* and Flat computes it.                                                   *)
LEMMA FlatText ==
    ASSUME NEW t
    PROVE  /\ Deep(t)[0] = Shallow(t)
           /\ \A d \in 1..MaxOpen : Deep(t)[d] = Deeper(t, Deep(t)[d - 1])
           /\ Flat(t) = Deep(t)[MaxOpen][MainFile]
<1> DEFINE g == Deep(t)
<1>1. IsFlat(g, t)
  BY DeepExists, Zenon DEF Deep
<1>2. Flat(t) = g[MaxOpen][MainFile]
  BY Zenon DEF Flat, IsFlat, Deep
<1> HIDE DEF g
<1>3. \A d \in 0..MaxOpen :
         g[d] = [f \in DOMAIN t |->
                    IF d = 0 THEN <<>>
                    ELSE FlattenSeq([i \in 1..Len(t[f]) |->
                            IF t[f][i].kind = "include" /\ t[f][i].file \in DOMAIN t
                            THEN g[d - 1][t[f][i].file]
                            ELSE <<t[f][i]>>])]
  BY <1>1, Zenon DEF IsFlat
<1>4. g[0] = Shallow(t)
  BY <1>3, StoreAssumption DEF Shallow
<1>5. ASSUME NEW d \in 1..MaxOpen PROVE g[d] = Deeper(t, g[d - 1])
  BY <1>3, StoreAssumption, SMTT(30) DEF Deeper, Pieces
<1> QED
  BY <1>2, <1>4, <1>5 DEF g

-----------------------------------------------------------------------------
(* A text that can be read.                                                *)
IsText(t) == \A f \in DOMAIN t : t[f] \in Seq(TextLine)

(* Pieces are lists of lines, and what is put in place is.                 *)
LEMMA PiecesType ==
    ASSUME NEW t, IsText(t), NEW h, \A f \in DOMAIN t : h[f] \in Seq(TextLine), NEW f \in DOMAIN t
    PROVE  /\ Pieces(t, h, f) \in Seq(Seq(TextLine)) /\ Len(Pieces(t, h, f)) = Len(t[f])
           /\ Len(t[f]) \in Nat
<1>1. t[f] \in Seq(TextLine) /\ Len(t[f]) \in Nat
  BY LenProperties DEF IsText
<1>2. ASSUME NEW i \in 1..Len(t[f]) PROVE Pieces(t, h, f)[i] \in Seq(TextLine)
  <2>1. t[f][i] \in TextLine
    BY <1>1, <1>2, ElementOfSeq
  <2>2. <<t[f][i]>> \in Seq(TextLine)
    BY <2>1
  <2> QED
    BY <1>2, <2>2 DEF Pieces
<1>3. Pieces(t, h, f) \in [1..Len(t[f]) -> Seq(TextLine)]
  <2>1. Pieces(t, h, f) = [i \in 1..Len(t[f]) |-> Pieces(t, h, f)[i]]
    BY DEF Pieces
  <2> QED
    BY <1>2, <2>1
<1> QED
  BY <1>1, <1>3, LenProperties

(* At every depth a file is a list of lines.                               *)
LEMMA DeepType ==
    ASSUME NEW t, IsText(t)
    PROVE  \A d \in 0..MaxOpen : \A f \in DOMAIN t : Deep(t)[d][f] \in Seq(TextLine)
<1> DEFINE S == {n \in Nat : n <= MaxOpen => \A f \in DOMAIN t : Deep(t)[n][f] \in Seq(TextLine)}
<1>1. 0 \in S
  <2>1. <<>> \in Seq(TextLine)
    BY EmptySeq
  <2>2. \A f \in DOMAIN t : Deep(t)[0][f] = <<>>
    BY FlatText, ZenonT(30) DEF Shallow
  <2> QED
    BY <2>1, <2>2
<1>2. ASSUME NEW n \in Nat, n \in S PROVE n + 1 \in S
  <2> SUFFICES ASSUME n + 1 <= MaxOpen, NEW f \in DOMAIN t PROVE Deep(t)[n + 1][f] \in Seq(TextLine)
    OBVIOUS
  <2>1. \A e \in DOMAIN t : Deep(t)[n][e] \in Seq(TextLine)
    BY <1>2, StoreAssumption
  <2>2. n + 1 \in 1..MaxOpen /\ n + 1 - 1 = n
    BY StoreAssumption
  <2>3. Deep(t)[n + 1] = Deeper(t, Deep(t)[n])
    BY <2>2, FlatText
  <2>4. Deep(t)[n + 1][f] = FlattenSeq(Pieces(t, Deep(t)[n], f))
    BY <2>3 DEF Deeper
  <2> QED
    BY <2>1, <2>4, PiecesType, FlattenType
<1> HIDE DEF S
<1>3. \A n \in Nat : n \in S
  BY <1>1, <1>2, SetInduction, SMTT(30)
<1> QED
  BY <1>3, StoreAssumption DEF S

(* What is left to read of a file that may include others to a depth.      *)
Left(t, d, frame) ==
    FlattenSeq(SubSeq(Pieces(t, Deep(t)[d - 1], frame.file), frame.next, Len(t[frame.file])))

(* What is left of a file: nothing at its end, all of it at its first line, *)
(* else the piece in place of the line, and then what is left after it.    *)
LEMMA LeftIs ==
    ASSUME NEW t, IsText(t), NEW d \in 1..MaxOpen, NEW frame,
           frame.file \in DOMAIN t, frame.next \in 1..(Len(t[frame.file]) + 1)
    PROVE  /\ Left(t, d, frame) \in Seq(TextLine)
           /\ frame.next = Len(t[frame.file]) + 1 => Left(t, d, frame) = <<>>
           /\ frame.next = 1 => Left(t, d, frame) = Deep(t)[d][frame.file]
           /\ frame.next <= Len(t[frame.file]) =>
                \A later : (later.file = frame.file /\ later.next = frame.next + 1) =>
                    /\ Left(t, d, frame)
                       = Pieces(t, Deep(t)[d - 1], frame.file)[frame.next] \o Left(t, d, later)
                    /\ Left(t, d, later) \in Seq(TextLine)
                    /\ Pieces(t, Deep(t)[d - 1], frame.file)[frame.next] \in Seq(TextLine)
<1> DEFINE f == frame.file
           n == frame.next
           p == Pieces(t, Deep(t)[d - 1], f)
<1>1. /\ p \in Seq(Seq(TextLine)) /\ Len(p) = Len(t[f]) /\ Len(p) \in Nat
      /\ \A i \in 1..Len(p) : p[i] \in Seq(TextLine)
  <2>1. d - 1 \in 0..MaxOpen
    BY StoreAssumption
  <2>2. p \in Seq(Seq(TextLine)) /\ Len(p) = Len(t[f]) /\ Len(p) \in Nat
    BY <2>1, DeepType, PiecesType
  <2> HIDE DEF p
  <2> QED
    BY <2>2, ElementOfSeq
<1>2. Left(t, d, frame) = FlattenSeq(SubSeq(p, n, Len(p)))
  BY <1>1 DEF Left
<1>3. Deep(t)[d][f] = FlattenSeq(p)
  <2>1. Deep(t)[d] = Deeper(t, Deep(t)[d - 1])
    BY FlatText
  <2> QED
    BY <2>1 DEF Deeper
<1>4. ASSUME NEW later, later.file = f, later.next = n + 1
      PROVE  Left(t, d, later) = FlattenSeq(SubSeq(p, n + 1, Len(p)))
  BY <1>1, <1>4 DEF Left
<1>5. n \in 1..(Len(p) + 1)
  BY <1>1
<1> HIDE DEF p, f, n
<1>6. \A k \in 1..(Len(p) + 1) : /\ SubSeq(p, k, Len(p)) \in Seq(Seq(TextLine))
                                 /\ FlattenSeq(SubSeq(p, k, Len(p))) \in Seq(TextLine)
  <2> TAKE k \in 1..(Len(p) + 1)
  <2>1. SubSeq(p, k, Len(p)) \in Seq(Seq(TextLine))
    BY <1>1
  <2> QED
    BY <2>1, FlattenType
<1>7. n = Len(p) + 1 => Left(t, d, frame) = <<>>
  <2>1. n = Len(p) + 1 => SubSeq(p, n, Len(p)) = <<>>
    BY <1>1
  <2> QED
    BY <1>2, <2>1, FlattenEmpty
<1>8. n = 1 => Left(t, d, frame) = Deep(t)[d][f]
  <2>1. SubSeq(p, 1, Len(p)) = p
    BY <1>1
  <2> QED
    BY <1>2, <1>3, <2>1
<1>9. n <= Len(p) => FlattenSeq(SubSeq(p, n, Len(p))) = p[n] \o FlattenSeq(SubSeq(p, n + 1, Len(p)))
  <2> HAVE n <= Len(p)
  <2>1. /\ SubSeq(p, n, Len(p)) \in Seq(Seq(TextLine)) /\ SubSeq(p, n, Len(p)) # <<>>
        /\ Head(SubSeq(p, n, Len(p))) = p[n]
        /\ Tail(SubSeq(p, n, Len(p))) = SubSeq(p, n + 1, Len(p))
    <3> DEFINE q == SubSeq(p, n, Len(p))
    <3>1. n \in 1..Len(p) /\ Len(q) = Len(p) - n + 1 /\ q[1] = p[n]
      BY <1>1, <1>5
    <3>2. q \in Seq(Seq(TextLine))
      BY <1>5, <1>6
    <3>4. p # <<>> => /\ Head(q) = p[n]
                      /\ n < Len(p) => Tail(q) = SubSeq(p, n + 1, Len(p))
      BY <1>1, <3>1, FromIs DEF From
    <3>5. n = Len(p) => Tail(q) = <<>> /\ SubSeq(p, n + 1, Len(p)) = <<>>
      BY <1>1, <3>1, <3>2
    <3> HIDE DEF q
    <3>6. p # <<>>
      BY <1>1, <3>1, EmptySeq
    <3>8. Len(q) # 0
      BY <1>1, <3>1
    <3>3. q # <<>> /\ Head(q) = p[n]
      BY <3>4, <3>6, <3>8, EmptySeq
    <3>7. Tail(q) = SubSeq(p, n + 1, Len(p))
      BY <3>1, <3>4, <3>5, <3>6
    <3> QED
      BY <3>2, <3>3, <3>7 DEF q
  <2> QED
    BY <2>1, FlattenHead
<1>10. n <= Len(p) => p[n] \in Seq(TextLine) /\ FlattenSeq(SubSeq(p, n + 1, Len(p))) \in Seq(TextLine)
  BY <1>1, <1>5, <1>6, SMTT(30)
<1>11. Left(t, d, frame) \in Seq(TextLine)
  BY <1>2, <1>5, <1>6
<1>12. Len(t[f]) = Len(p)
  BY <1>1
<1> QED
  BY <1>2, <1>4, <1>7, <1>8, <1>9, <1>10, <1>11, <1>12 DEF f, n, p

-----------------------------------------------------------------------------
(* What one more line changes of what a text says.                         *)
Sets(line, o) == line.kind = "set" /\ line.option = o

(* A line that enters a key of the option.                                 *)
Enters(line, o) == line.kind = "entry" /\ line.option = o

(* A member that no other exceeds is the largest.                          *)
LEMMA MaxUnique ==
    ASSUME NEW S, NEW n \in Nat, S \subseteq 0..n, NEW m \in S, \A y \in S : y <= m
    PROVE  Max(S) = m
<1>1. Max(S) \in S /\ \A y \in S : y <= Max(S)
  BY MaxIs
<1>3. \A y \in S : y \in Nat
  OBVIOUS
<1>2. m \in Nat /\ Max(S) \in Nat
  BY <1>1, <1>3
<1> QED
  BY <1>1, <1>2

(* The last assignment is one, or there is none.                           *)
LEMMA LastSetIs ==
    ASSUME NEW lines \in Seq(TextLine), NEW o
    PROVE  /\ LastSet(lines, o) \in 0..Len(lines)
           /\ LastSet(lines, o) # 0 => Sets(lines[LastSet(lines, o)], o)
           /\ \A i \in 1..Len(lines) : Sets(lines[i], o) => i <= LastSet(lines, o)
<1> DEFINE S == {0} \cup {i \in DOMAIN lines : lines[i].kind = "set" /\ lines[i].option = o}
<1>1. Len(lines) \in Nat /\ DOMAIN lines = 1..Len(lines)
  BY LenProperties
<1>2. S \subseteq 0..Len(lines) /\ S # {}
  BY <1>1
<1>3. Max(S) \in S /\ \A y \in S : y <= Max(S)
  BY <1>1, <1>2, MaxIs
<1>4. \A i \in 1..Len(lines) : Sets(lines[i], o) => i \in S
  BY <1>1 DEF Sets
<1>5. \A i \in S : i # 0 => Sets(lines[i], o)
  BY DEF Sets
<1>6. LastSet(lines, o) = Max(S)
  BY DEF LastSet
<1> HIDE DEF S
<1> QED
  BY <1>2, <1>3, <1>4, <1>5, <1>6

(* A list of lines with one more.                                          *)
LEMMA AppendIs ==
    ASSUME NEW lines \in Seq(TextLine), NEW x \in TextLine
    PROVE  /\ Append(lines, x) \in Seq(TextLine) /\ Len(lines) \in Nat
           /\ Len(Append(lines, x)) = Len(lines) + 1
           /\ \A i \in 1..Len(lines) : Append(lines, x)[i] = lines[i]
           /\ Append(lines, x)[Len(lines) + 1] = x
           /\ DOMAIN lines = 1..Len(lines)
           /\ DOMAIN Append(lines, x) = 1..(Len(lines) + 1)
  BY LenProperties

(* One more line is the last assignment if it is one of the option.        *)
LEMMA LastSetAppend ==
    ASSUME NEW lines \in Seq(TextLine), NEW x \in TextLine, NEW o
    PROVE  LastSet(Append(lines, x), o)
           = IF Sets(x, o) THEN Len(lines) + 1 ELSE LastSet(lines, o)
<1> DEFINE n == Len(lines)
           t == Append(lines, x)
           l == LastSet(lines, o)
           m == LastSet(t, o)
<1>1. /\ t \in Seq(TextLine) /\ n \in Nat /\ Len(t) = n + 1
      /\ \A i \in 1..n : t[i] = lines[i]
      /\ t[n + 1] = x
  BY AppendIs
<1>2. /\ l \in 0..n /\ (l # 0 => Sets(lines[l], o))
      /\ \A i \in 1..n : Sets(lines[i], o) => i <= l
  BY LastSetIs
<1>3. /\ m \in 0..(n + 1) /\ (m # 0 => Sets(t[m], o))
      /\ \A i \in 1..(n + 1) : Sets(t[i], o) => i <= m
  BY <1>1, LastSetIs
<1> HIDE DEF n, t, l, m
<1>4. CASE Sets(x, o)
  <2>1. n + 1 <= m
    BY <1>1, <1>3, <1>4
  <2> QED
    BY <1>1, <1>3, <1>4, <2>1 DEF m, n, t
<1>5. CASE ~Sets(x, o)
  <2>1. m # n + 1
    BY <1>1, <1>3, <1>5
  <2>2. m \in 0..n
    BY <1>1, <1>3, <2>1
  <2>3. m # 0 => Sets(lines[m], o) /\ m <= l
    BY <1>1, <1>2, <1>3, <2>2
  <2>4. l # 0 => l \in 1..(n + 1) /\ t[l] = lines[l]
    BY <1>1, <1>2
  <2>5. l # 0 => l <= m
    BY <1>2, <1>3, <2>4
  <2>6. m = l
    BY <1>1, <1>2, <2>2, <2>3, <2>5
  <2> QED
    BY <1>5, <2>6 DEF m, l, t
<1> QED
  BY <1>4, <1>5

(* The option has the value of one more line if that assigns it.           *)
LEMMA SaidAppend ==
    ASSUME NEW lines \in Seq(TextLine), NEW x \in TextLine, NEW o
    PROVE  Said(Append(lines, x), o) = IF Sets(x, o) THEN x.value ELSE Said(lines, o)
<1> DEFINE n == Len(lines)
           t == Append(lines, x)
           l == LastSet(lines, o)
<1>1. /\ n \in Nat /\ \A i \in 1..n : t[i] = lines[i]
      /\ t[n + 1] = x
  BY AppendIs
<1>2. l \in 0..n
  BY LastSetIs
<1>3. LastSet(t, o) = IF Sets(x, o) THEN n + 1 ELSE l
  BY LastSetAppend
<1>4. Said(t, o) = IF LastSet(t, o) = 0 THEN NoValue ELSE t[LastSet(t, o)].value
  BY DEF Said
<1>5. Said(lines, o) = IF l = 0 THEN NoValue ELSE lines[l].value
  BY DEF Said
<1> HIDE DEF n, t, l
<1>6. CASE Sets(x, o)
  <2>1. n + 1 # 0
    BY <1>1
  <2>2. LastSet(t, o) = n + 1
    BY <1>3, <1>6
  <2>3. Said(t, o) = x.value
    BY <1>1, <1>4, <2>1, <2>2
  <2> QED
    BY <1>6, <2>3 DEF t
<1>7. CASE ~Sets(x, o)
  <2>1. l # 0 => t[l] = lines[l]
    BY <1>1, <1>2
  <2> QED
    BY <1>3, <1>4, <1>5, <1>7, <2>1 DEF t
<1> QED
  BY <1>6, <1>7

(* One more line drops the entries, or is another one, or neither.         *)
LEMMA EntriesAppend ==
    ASSUME NEW lines \in Seq(TextLine), NEW x \in TextLine, NEW o
    PROVE  /\ Entries(lines, o) \subseteq 1..Len(lines)
           /\ Sets(x, o) => Entries(Append(lines, x), o) = {}
           /\ Enters(x, o) => Entries(Append(lines, x), o) = Entries(lines, o) \cup {Len(lines) + 1}
           /\ ~Sets(x, o) /\ ~Enters(x, o) => Entries(Append(lines, x), o) = Entries(lines, o)
<1> DEFINE n == Len(lines)
           t == Append(lines, x)
           l == LastSet(lines, o)
           E == {i \in 1..n : i > l /\ Enters(lines[i], o)}
           F == {i \in 1..(n + 1) : i > LastSet(t, o) /\ Enters(t[i], o)}
<1>1. /\ n \in Nat /\ \A i \in 1..n : t[i] = lines[i]
      /\ t[n + 1] = x /\ DOMAIN lines = 1..n /\ DOMAIN t = 1..(n + 1)
  BY AppendIs
<1>2. l \in 0..n
  BY LastSetIs
<1>3. LastSet(t, o) = IF Sets(x, o) THEN n + 1 ELSE l
  BY LastSetAppend
<1>4. Entries(lines, o) = E
  BY <1>1 DEF Entries, Enters
<1>5. Entries(t, o) = F
  BY <1>1 DEF Entries, Enters
<1> HIDE DEF n, t, l
<1>6. ASSUME Sets(x, o) PROVE F = {}
  BY <1>1, <1>3, <1>6
<1>7. ASSUME ~Sets(x, o) PROVE \A i \in 1..n : i \in F <=> i \in E
  BY <1>1, <1>3, <1>7
<1>8. ASSUME ~Sets(x, o) PROVE n + 1 \in F <=> Enters(x, o)
  <2>1. n + 1 > l
    BY <1>1, <1>2
  <2> QED
    BY <1>1, <1>3, <1>8, <2>1
<1>9. Enters(x, o) => ~Sets(x, o)
  BY DEF Enters, Sets
<1>10. E \subseteq 1..n /\ F \subseteq 1..n \cup {n + 1}
  BY <1>1
<1>11. Enters(x, o) => F = E \cup {n + 1}
  <2> HIDE DEF E, F
  <2> QED
    BY <1>7, <1>8, <1>9, <1>10
<1>12. ~Sets(x, o) /\ ~Enters(x, o) => F = E
  <2>1. ASSUME ~Sets(x, o), ~Enters(x, o) PROVE n + 1 \notin F /\ n + 1 \notin E
    BY <1>1, <1>8, <2>1
  <2> HIDE DEF E, F
  <2> QED
    BY <1>7, <1>10, <2>1
<1> QED
  BY <1>4, <1>5, <1>6, <1>10, <1>11, <1>12 DEF n, t

-----------------------------------------------------------------------------
(* Where the value of a key was entered.                                   *)
EnteredAt(lines, o, k) == {i \in Entries(lines, o) : lines[i].key = k}

(* The map of an option has the keys entered, each with its last value.    *)
LEMMA EnteredIs ==
    ASSUME NEW lines \in Seq(TextLine), NEW o
    PROVE  /\ DOMAIN SaidMap(lines, o) = {lines[i].key : i \in Entries(lines, o)}
           /\ \A k \in DOMAIN SaidMap(lines, o) :
                /\ SaidMap(lines, o)[k] = lines[Max(EnteredAt(lines, o, k))].value
                /\ EnteredAt(lines, o, k) \subseteq 1..Len(lines) /\ EnteredAt(lines, o, k) # {}
                /\ Max(EnteredAt(lines, o, k)) \in EnteredAt(lines, o, k)
           /\ SaidMap(lines, o) = [k \in DOMAIN SaidMap(lines, o) |-> SaidMap(lines, o)[k]]
<1>1. /\ DOMAIN SaidMap(lines, o) = {lines[i].key : i \in Entries(lines, o)}
      /\ \A k \in DOMAIN SaidMap(lines, o) :
             SaidMap(lines, o)[k] = lines[Max(EnteredAt(lines, o, k))].value
      /\ SaidMap(lines, o) = [k \in DOMAIN SaidMap(lines, o) |-> SaidMap(lines, o)[k]]
  BY DEF SaidMap, EnteredAt
<1>2. Len(lines) \in Nat /\ Entries(lines, o) \subseteq 1..Len(lines)
  BY LenProperties DEF Entries
<1>3. ASSUME NEW k \in DOMAIN SaidMap(lines, o)
      PROVE  /\ EnteredAt(lines, o, k) \subseteq 1..Len(lines) /\ EnteredAt(lines, o, k) # {}
             /\ Max(EnteredAt(lines, o, k)) \in EnteredAt(lines, o, k)
  <2>1. EnteredAt(lines, o, k) \subseteq 1..Len(lines) /\ EnteredAt(lines, o, k) # {}
    BY <1>1, <1>2, <1>3 DEF EnteredAt
  <2>2. EnteredAt(lines, o, k) \subseteq 0..Len(lines)
    BY <1>2, <2>1
  <2> QED
    BY <1>2, <2>1, <2>2, MaxIs
<1> QED
  BY <1>1, <1>3

(* A map that is said has keys and values that a line may have.            *)
LEMMA SaidMapType ==
    ASSUME NEW lines \in Seq(TextLine), NEW o
    PROVE  /\ IsFiniteSet(DOMAIN SaidMap(lines, o))
           /\ \A k \in DOMAIN SaidMap(lines, o) :
                k \in Nat /\ k # END /\ SaidMap(lines, o)[k] # NoValue
<1>1. Len(lines) \in Nat /\ \A i \in 1..Len(lines) : lines[i] \in TextLine
  BY LenProperties, ElementOfSeq
<1>2. Entries(lines, o) \subseteq 1..Len(lines)
  BY LenProperties DEF Entries
<1>3. IsFiniteSet(Entries(lines, o))
  <2>1. IsFiniteSet(1..Len(lines))
    BY <1>1, FS_Interval
  <2> QED
    BY <1>2, <2>1, FS_Subset
<1>4. IsFiniteSet({lines[i].key : i \in Entries(lines, o)})
  <2> DEFINE f == [i \in Entries(lines, o) |-> lines[i].key]
             S == {lines[i].key : i \in Entries(lines, o)}
  <2>1. f \in Surjection(Entries(lines, o), S)
    BY DEF Surjection
  <2> HIDE DEF f, S
  <2>2. IsFiniteSet(S)
    BY <1>3, <2>1, FS_Surjection
  <2> QED
    BY <2>2 DEF S
<1>5. ASSUME NEW i \in Entries(lines, o)
      PROVE  lines[i].key \in Nat /\ lines[i].key # END /\ lines[i].value # NoValue
  <2>1. lines[i] \in TextLine /\ lines[i].kind = "entry"
    BY <1>1, <1>2 DEF Entries
  <2>2. lines[i] \in [kind : {"entry"}, option : Option, key : Nat \ {END}, value : Value \ {NoValue}]
    BY <2>1 DEF TextLine
  <2> QED
    BY <2>2
<1>6. ASSUME NEW k \in DOMAIN SaidMap(lines, o)
      PROVE  k \in Nat /\ k # END /\ SaidMap(lines, o)[k] # NoValue
  <2>4. k \in {lines[i].key : i \in Entries(lines, o)}
    BY <1>6, EnteredIs
  <2>1. PICK i \in Entries(lines, o) : k = lines[i].key
    BY <2>4
  <2>2. Max(EnteredAt(lines, o, k)) \in Entries(lines, o)
    BY <1>6, EnteredIs DEF EnteredAt
  <2>3. SaidMap(lines, o)[k] = lines[Max(EnteredAt(lines, o, k))].value
    BY <1>6, EnteredIs, ZenonT(30)
  <2> QED
    BY <1>5, <2>1, <2>2, <2>3
<1> QED
  BY <1>4, <1>6, EnteredIs

(* A function of nothing is the empty sequence.                            *)
LEMMA NothingIs ==
    ASSUME NEW f, f = [k \in DOMAIN f |-> f[k]], DOMAIN f = {}
    PROVE  f = <<>>
<1>1. f \in [1..0 -> {}]
  <2>1. 1..0 = {}
    OBVIOUS
  <2> QED
    BY <2>1
<1>2. f \in Seq({}) /\ Len(f) = 0
  BY <1>1
<1> QED
  BY <1>2, EmptySeq

(* One more line empties the map, or enters a key in it, or neither.       *)
LEMMA SaidMapAppend ==
    ASSUME NEW lines \in Seq(TextLine), NEW x \in TextLine, NEW o
    PROVE  /\ Sets(x, o) => SaidMap(Append(lines, x), o) = <<>>
           /\ Enters(x, o) =>
                SaidMap(Append(lines, x), o)
                = [j \in DOMAIN SaidMap(lines, o) \cup {x.key} |->
                      IF j = x.key THEN x.value ELSE SaidMap(lines, o)[j]]
           /\ ~Sets(x, o) /\ ~Enters(x, o) =>
                SaidMap(Append(lines, x), o) = SaidMap(lines, o)
<1> DEFINE n == Len(lines)
           t == Append(lines, x)
           E == Entries(lines, o)
           F == Entries(t, o)
           M == SaidMap(lines, o)
           N == SaidMap(t, o)
<1>1. /\ t \in Seq(TextLine) /\ n \in Nat /\ \A i \in 1..n : t[i] = lines[i]
      /\ t[n + 1] = x /\ Len(t) = n + 1
  BY AppendIs
<1>2. /\ E \subseteq 1..n
      /\ Sets(x, o) => F = {}
      /\ Enters(x, o) => F = E \cup {n + 1}
      /\ ~Sets(x, o) /\ ~Enters(x, o) => F = E
  BY EntriesAppend
<1>3. /\ DOMAIN M = {lines[i].key : i \in E} /\ M = [k \in DOMAIN M |-> M[k]]
      /\ \A k \in DOMAIN M : /\ M[k] = lines[Max(EnteredAt(lines, o, k))].value
                             /\ EnteredAt(lines, o, k) # {}
                             /\ Max(EnteredAt(lines, o, k)) \in EnteredAt(lines, o, k)
  BY EnteredIs
<1>4. /\ DOMAIN N = {t[i].key : i \in F} /\ N = [k \in DOMAIN N |-> N[k]]
      /\ \A k \in DOMAIN N : /\ N[k] = t[Max(EnteredAt(t, o, k))].value
                             /\ EnteredAt(t, o, k) # {}
                             /\ Max(EnteredAt(t, o, k)) \in EnteredAt(t, o, k)
  BY <1>1, EnteredIs, ZenonT(30)
<1>5. EnteredAt(lines, o, x.key) \subseteq 1..n
  BY <1>2 DEF EnteredAt
<1>6. /\ \A k : EnteredAt(lines, o, k) = {i \in E : lines[i].key = k}
      /\ \A k : EnteredAt(t, o, k) = {i \in F : t[i].key = k}
  BY DEF EnteredAt
<1> HIDE DEF n, t, E, F, M, N
<1>7. ASSUME Sets(x, o) PROVE N = <<>>
  <2>1. DOMAIN N = {}
    BY <1>2, <1>4, <1>7
  <2> QED
    BY <1>4, <2>1, NothingIs
<1>8. \A i \in E : t[i] = lines[i] /\ i \in 1..n
  BY <1>1, <1>2
<1>9. ASSUME ~Sets(x, o), ~Enters(x, o) PROVE N = M
  <2>1. ASSUME NEW k PROVE EnteredAt(t, o, k) = EnteredAt(lines, o, k)
    <3>1. \A i \in E : t[i].key = k <=> lines[i].key = k
      BY <1>8
    <3>2. {i \in F : t[i].key = k} = {i \in E : lines[i].key = k}
      BY <1>2, <1>9, <3>1
    <3> QED
      BY <1>6, <3>2
  <2>2. DOMAIN N = DOMAIN M
    BY <1>2, <1>3, <1>4, <1>8, <1>9
  <2>3. ASSUME NEW k \in DOMAIN M PROVE N[k] = M[k]
    <3>1. Max(EnteredAt(lines, o, k)) \in E
      BY <1>3, <1>6
    <3>2. N[k] = t[Max(EnteredAt(lines, o, k))].value
      BY <1>4, <2>1, <2>2
    <3>3. t[Max(EnteredAt(lines, o, k))] = lines[Max(EnteredAt(lines, o, k))]
      BY <1>8, <3>1
    <3> QED
      BY <1>3, <3>2, <3>3
  <2> QED
    BY <1>3, <1>4, <2>2, <2>3
<1>10. ASSUME Enters(x, o)
       PROVE  N = [j \in DOMAIN M \cup {x.key} |-> IF j = x.key THEN x.value ELSE M[j]]
  <2>1. F = E \cup {n + 1} /\ n + 1 \notin E
    BY <1>1, <1>2, <1>10
  <2>2. DOMAIN N = DOMAIN M \cup {x.key}
    BY <1>1, <1>3, <1>4, <1>8, <2>1, SMTT(30)
  <2>3. N[x.key] = x.value
    <3>1. EnteredAt(t, o, x.key) \subseteq 0..(n + 1) /\ n + 1 \in EnteredAt(t, o, x.key)
          /\ \A y \in EnteredAt(t, o, x.key) : y <= n + 1
      BY <1>1, <1>6, <1>8, <2>1
    <3>2. n + 1 \in Nat
      BY <1>1
    <3>3. Max(EnteredAt(t, o, x.key)) = n + 1
      BY <3>1, <3>2, MaxUnique
    <3> QED
      BY <1>1, <1>4, <2>2, <3>3
  <2>4. ASSUME NEW k \in DOMAIN M, k # x.key PROVE N[k] = M[k]
    <3>3. \A i \in E : t[i].key = k <=> lines[i].key = k
      BY <1>8
    <3>4. t[n + 1].key # k
      BY <1>1, <2>4
    <3>5. {i \in F : t[i].key = k} = {i \in E : lines[i].key = k}
      BY <2>1, <3>3, <3>4
    <3>1. EnteredAt(t, o, k) = EnteredAt(lines, o, k)
      BY <1>6, <3>5
    <3>2. Max(EnteredAt(lines, o, k)) \in E
      BY <1>3, <1>6
    <3>6. k \in DOMAIN N
      BY <2>2
    <3>7. N[k] = t[Max(EnteredAt(lines, o, k))].value
      BY <1>4, <3>1, <3>6
    <3>8. t[Max(EnteredAt(lines, o, k))] = lines[Max(EnteredAt(lines, o, k))]
      BY <1>8, <3>2
    <3> QED
      BY <1>3, <3>7, <3>8
  <2> QED
    BY <1>4, <2>2, <2>3, <2>4
<1> QED
  BY <1>7, <1>9, <1>10 DEF N, M, t

-----------------------------------------------------------------------------
(***************************************************************************)
(* What the store holds of what the lines read so far say.                 *)
(***************************************************************************)
(* What a store tells of an option, known or not.                          *)
VarIn(store, o) == IF o \in DOMAIN store THEN store[o] ELSE EmptyVar

(* A gaConfVar.                                                            *)
IsVar(v) == v = [data |-> v.data, mapdata |-> v.mapdata, mi |-> v.mi]

(* The store holds what the lines say, and knows what they mention.        *)
Means(store, lines) ==
    /\ lines \in Seq(TextLine)
    /\ \A o : /\ IsVar(VarIn(store, o))
              /\ VarIn(store, o).data = Said(lines, o)
              /\ VarIn(store, o).mapdata = SaidMap(lines, o)
    /\ \A o \in DOMAIN store : Mentions(lines, o)

(* The empty variable is a variable.                                       *)
LEMMA EmptyIsVar ==
    IsVar(EmptyVar) /\ EmptyVar.data = NoValue /\ EmptyVar.mapdata = <<>> /\ EmptyVar.mi = END
  BY DEF EmptyVar, IsVar

(* Before the first line the store is empty.                               *)
LEMMA NothingMeans ==
    ASSUME NEW store, store = <<>>
    PROVE  Means(store, <<>>)
<1>0. <<>> \in Seq(TextLine) /\ Len(<<>>) = 0
  BY EmptySeq
<1> DEFINE none == <<>>
<1> HIDE DEF none
<1>1. ASSUME NEW o PROVE LastSet(none, o) = 0
  <2>1. none \in Seq(TextLine) /\ Len(none) = 0
    BY <1>0 DEF none
  <2>2. LastSet(none, o) \in 0..Len(none)
    BY <2>1, LastSetIs
  <2> QED
    BY <2>1, <2>2
<1>2. ASSUME NEW o PROVE Said(<<>>, o) = NoValue
  BY <1>1 DEF Said, none
<1>3. ASSUME NEW o PROVE SaidMap(<<>>, o) = <<>>
  <2>1. Entries(<<>>, o) = {}
    BY <1>0 DEF Entries
  <2>2. DOMAIN SaidMap(<<>>, o) = {}
    BY <2>1, Zenon DEF SaidMap
  <2>3. SaidMap(<<>>, o) = [k \in DOMAIN SaidMap(<<>>, o) |-> SaidMap(<<>>, o)[k]]
    BY <1>0, EnteredIs
  <2> QED
    BY <2>2, <2>3, NothingIs
<1>4. DOMAIN store = {}
  <2>1. store \in Seq({}) /\ Len(store) = 0
    BY EmptySeq
  <2> QED
    BY <2>1
<1>5. \A o : VarIn(store, o) = EmptyVar
  BY <1>4 DEF VarIn
<1> QED
  BY <1>0, <1>2, <1>3, <1>4, <1>5, EmptyIsVar DEF Means

(* A variable is written.                                                  *)
LEMMA WrittenIs ==
    ASSUME NEW o, NEW var, ga_vars' = Written(o, var)
    PROVE  /\ \A p : VarIn(ga_vars', p) = IF p = o THEN var ELSE VarIn(ga_vars, p)
           /\ DOMAIN ga_vars' = DOMAIN ga_vars \cup {o}
<1>1. ga_vars' = [p \in DOMAIN ga_vars \cup {o} |-> IF p = o THEN var ELSE ga_vars[p]]
  BY DEF Written
<1>2. DOMAIN ga_vars' = DOMAIN ga_vars \cup {o}
  BY <1>1
<1>3. \A p \in DOMAIN ga_vars \cup {o} : ga_vars'[p] = IF p = o THEN var ELSE ga_vars[p]
  BY <1>1
<1> QED
  BY <1>2, <1>3 DEF VarIn

(* One more line does not unsay what others mention.                       *)
LEMMA MentionsAppend ==
    ASSUME NEW lines \in Seq(TextLine), NEW x \in TextLine, NEW o
    PROVE  Mentions(Append(lines, x), o) <=> Mentions(lines, o) \/ Sets(x, o) \/ Enters(x, o)
<1> DEFINE n == Len(lines)
           t == Append(lines, x)
           About(line) == line.kind \in {"set", "entry"} /\ line.option = o
<1>1. /\ n \in Nat /\ \A i \in 1..n : t[i] = lines[i]
      /\ t[n + 1] = x /\ DOMAIN lines = 1..n /\ DOMAIN t = 1..(n + 1)
  BY AppendIs
<1>2. Mentions(t, o) <=> \E i \in 1..(n + 1) : About(t[i])
  BY <1>1 DEF Mentions
<1>3. Mentions(lines, o) <=> \E i \in 1..n : About(lines[i])
  BY <1>1 DEF Mentions
<1>4. About(x) <=> Sets(x, o) \/ Enters(x, o)
  BY DEF Sets, Enters
<1>5. 1..(n + 1) = 1..n \cup {n + 1}
  BY <1>1
<1> HIDE DEF n, t, About
<1>6. (\E i \in 1..(n + 1) : About(t[i])) <=> (\E i \in 1..n : About(lines[i])) \/ About(x)
  <2>1. \A i \in 1..n : About(t[i]) <=> About(lines[i])
    BY <1>1
  <2>2. About(t[n + 1]) <=> About(x)
    BY <1>1
  <2> QED
    BY <1>5, <2>1, <2>2
<1> QED
  BY <1>2, <1>3, <1>4, <1>6 DEF t

(* ga_conf_parse makes the store hold what one more line says.             *)
LEMMA ParsedMeans ==
    ASSUME NEW lines \in Seq(TextLine), NEW x \in TextLine, Means(ga_vars, lines),
           \/ x.kind \notin {"set", "entry"} /\ ga_vars' = ga_vars
           \/ x.kind = "set" /\ ga_vars' = assign(x.option, x.value)
           \/ x.kind = "entry" /\ ga_vars' = assign_entry(x.option, x.key, x.value)
    PROVE  Means(ga_vars', Append(lines, x))
<1> DEFINE t == Append(lines, x)
<1>1. ASSUME NEW o
      PROVE  Said(t, o) = IF Sets(x, o) THEN x.value ELSE Said(lines, o)
  BY SaidAppend
<1>2. ASSUME NEW o
      PROVE  /\ Sets(x, o) => SaidMap(t, o) = <<>>
             /\ Enters(x, o) =>
                  SaidMap(t, o)
                  = [j \in DOMAIN SaidMap(lines, o) \cup {x.key} |->
                        IF j = x.key THEN x.value ELSE SaidMap(lines, o)[j]]
             /\ ~Sets(x, o) /\ ~Enters(x, o) => SaidMap(t, o) = SaidMap(lines, o)
  BY SaidMapAppend
<1>3. \A o : Mentions(t, o) <=> Mentions(lines, o) \/ Sets(x, o) \/ Enters(x, o)
  BY MentionsAppend
<1>4. ASSUME NEW o
      PROVE  /\ IsVar(VarIn(ga_vars, o)) /\ VarIn(ga_vars, o).data = Said(lines, o)
             /\ VarIn(ga_vars, o).mapdata = SaidMap(lines, o)
  BY DEF Means
<1>5. \A o \in DOMAIN ga_vars : Mentions(lines, o)
  BY DEF Means
<1>9. t \in Seq(TextLine)
  OBVIOUS
<1> HIDE DEF t
<1>6. CASE x.kind \notin {"set", "entry"} /\ ga_vars' = ga_vars
  <2>1. \A o : ~Sets(x, o) /\ ~Enters(x, o)
    BY <1>6 DEF Sets, Enters
  <2> QED
    BY <1>1, <1>2, <1>3, <1>4, <1>5, <1>6, <1>9, <2>1 DEF Means, t
<1>7. CASE x.kind = "set" /\ ga_vars' = assign(x.option, x.value)
  <2> DEFINE var == [EmptyVar EXCEPT !.data = x.value]
  <2>1. \A o : ~Enters(x, o) /\ (Sets(x, o) <=> o = x.option)
    BY <1>7 DEF Sets, Enters
  <2>2. ga_vars' = Written(x.option, var)
    BY <1>7 DEF assign
  <2>3. IsVar(var) /\ var.data = x.value /\ var.mapdata = <<>>
    BY DEF IsVar, EmptyVar
  <2> HIDE DEF var
  <2>4. /\ \A p : VarIn(ga_vars', p) = IF p = x.option THEN var ELSE VarIn(ga_vars, p)
        /\ DOMAIN ga_vars' = DOMAIN ga_vars \cup {x.option}
    BY <2>2, WrittenIs
  <2>5. ASSUME NEW o
        PROVE  /\ IsVar(VarIn(ga_vars', o)) /\ VarIn(ga_vars', o).data = Said(t, o)
               /\ VarIn(ga_vars', o).mapdata = SaidMap(t, o)
    <3>1. CASE o = x.option
      BY <1>1, <1>2, <2>1, <2>3, <2>4, <3>1
    <3>2. CASE o # x.option
      BY <1>1, <1>2, <1>4, <2>1, <2>4, <3>2
    <3> QED
      BY <3>1, <3>2
  <2>6. \A o \in DOMAIN ga_vars' : Mentions(t, o)
    BY <1>3, <1>5, <2>1, <2>4
  <2> QED
    BY <1>9, <2>5, <2>6 DEF Means, t
<1>8. CASE x.kind = "entry" /\ ga_vars' = assign_entry(x.option, x.key, x.value)
  <2> DEFINE old == VarIn(ga_vars, x.option)
             map == [j \in DOMAIN old.mapdata \cup {x.key} |->
                        IF j = x.key THEN x.value ELSE old.mapdata[j]]
             var == [old EXCEPT !.mapdata = map]
  <2>1. \A o : ~Sets(x, o) /\ (Enters(x, o) <=> o = x.option)
    BY <1>8 DEF Sets, Enters
  <2>2. ga_vars' = Written(x.option, var)
    BY <1>8, Zenon DEF assign_entry, VarOf, VarIn
  <2>3. IsVar(var) /\ var.data = old.data /\ var.mapdata = map
    <3>1. IsVar(old)
      BY <1>4
    <3> HIDE DEF old, map
    <3> QED
      BY <3>1 DEF IsVar
  <2>4. map = SaidMap(t, x.option) /\ old.data = Said(lines, x.option)
    BY <1>2, <1>4, <2>1, ZenonT(30)
  <2> HIDE DEF var, map, old
  <2>5. /\ \A p : VarIn(ga_vars', p) = IF p = x.option THEN var ELSE VarIn(ga_vars, p)
        /\ DOMAIN ga_vars' = DOMAIN ga_vars \cup {x.option}
    BY <2>2, WrittenIs
  <2>6. ASSUME NEW o
        PROVE  /\ IsVar(VarIn(ga_vars', o)) /\ VarIn(ga_vars', o).data = Said(t, o)
               /\ VarIn(ga_vars', o).mapdata = SaidMap(t, o)
    <3>1. CASE o = x.option
      BY <1>1, <2>1, <2>3, <2>4, <2>5, <3>1
    <3>2. CASE o # x.option
      BY <1>1, <1>2, <1>4, <2>1, <2>5, <3>2
    <3> QED
      BY <3>1, <3>2
  <2>7. \A o \in DOMAIN ga_vars' : Mentions(t, o)
    BY <1>3, <1>5, <2>1, <2>5
  <2> QED
    BY <1>9, <2>6, <2>7 DEF Means, t
<1> QED
  BY <1>6, <1>7, <1>8

-----------------------------------------------------------------------------
(***************************************************************************)
(* What is left to read of the files that are open, the innermost last.    *)
(***************************************************************************)
(* A file that is open, and the line that is next.                         *)
OpenFile(t) == {fr \in [file : DOMAIN t, next : Nat \ {0}] : fr.next <= Len(t[fr.file]) + 1}

(* The lines left of each file come before those of the files around it.   *)
LeftBy(t, frames, r) ==
    /\ r \in [0..Len(frames) -> Seq(TextLine)]
    /\ r[0] = <<>>
    /\ \A i \in 1..Len(frames) : r[i] = Left(t, (MaxOpen + 1) - i, frames[i]) \o r[i - 1]

(* What is left of all the files that are open.                            *)
ToRead(t, frames, rest) == \E r : LeftBy(t, frames, r) /\ rest = r[Len(frames)]

(* Nothing is left when no file is open.                                   *)
LEMMA NoneLeft ==
    ASSUME NEW t, NEW frames, Len(frames) = 0, NEW rest
    PROVE  ToRead(t, frames, rest) <=> rest = <<>>
<1>1. ASSUME ToRead(t, frames, rest) PROVE rest = <<>>
  BY <1>1 DEF ToRead, LeftBy
<1>2. ASSUME rest = <<>> PROVE ToRead(t, frames, rest)
  <2> DEFINE r == [i \in 0..0 |-> <<>>]
  <2>1. <<>> \in Seq(TextLine)
    BY EmptySeq
  <2>2. r \in [0..Len(frames) -> Seq(TextLine)] /\ r[0] = <<>>
    BY <2>1
  <2>3. \A i \in 1..Len(frames) : FALSE
    OBVIOUS
  <2> HIDE DEF r
  <2>4. LeftBy(t, frames, r) /\ rest = r[Len(frames)]
    BY <1>2, <2>2, <2>3 DEF LeftBy
  <2> QED
    BY <2>4 DEF ToRead
<1> QED
  BY <1>1, <1>2

(* A file that is opened comes before what was left.                       *)
LEMMA PushLeft ==
    ASSUME NEW t, IsText(t), NEW frames \in Seq(OpenFile(t)), NEW rest,
           ToRead(t, frames, rest), Len(frames) < MaxOpen, NEW f \in DOMAIN t
    PROVE  LET fr == [file |-> f, next |-> 1] IN
           /\ Append(frames, fr) \in Seq(OpenFile(t))
           /\ ToRead(t, Append(frames, fr), Deep(t)[MaxOpen - Len(frames)][f] \o rest)
<1> DEFINE n == Len(frames)
           fr == [file |-> f, next |-> 1]
           u == Append(frames, fr)
<1>1. PICK r : LeftBy(t, frames, r) /\ rest = r[n]
  BY Zenon DEF ToRead
<1>0. MaxOpen \in Nat
  BY StoreAssumption
<1>2. n \in Nat /\ Len(u) = n + 1 /\ u[n + 1] = fr /\ \A i \in 1..n : u[i] = frames[i]
  BY LenProperties
<1>3. fr \in OpenFile(t) /\ fr.file = f /\ fr.next = 1
  <2>1. Len(t[f]) \in Nat
    BY LenProperties DEF IsText
  <2>2. 1 <= Len(t[f]) + 1
    BY <2>1
  <2> QED
    BY <2>2 DEF OpenFile
<1>4. u \in Seq(OpenFile(t))
  BY <1>3
<1>5. MaxOpen - n \in 1..MaxOpen /\ (MaxOpen + 1) - (n + 1) = MaxOpen - n
  BY <1>0, <1>2
<1>6. /\ Left(t, MaxOpen - n, fr) \in Seq(TextLine)
      /\ Left(t, MaxOpen - n, fr) = Deep(t)[MaxOpen - n][f]
  <2>1. fr.file \in DOMAIN t /\ fr.next \in 1..(Len(t[fr.file]) + 1)
    BY <1>3 DEF OpenFile
  <2> HIDE DEF fr, n
  <2> QED
    BY <1>3, <1>5, <2>1, LeftIs
<1> DEFINE q == [i \in 0..(n + 1) |-> IF i = n + 1 THEN Left(t, MaxOpen - n, fr) \o r[n] ELSE r[i]]
<1>7. r \in [0..n -> Seq(TextLine)] /\ r[0] = <<>>
      /\ \A i \in 1..n : r[i] = Left(t, (MaxOpen + 1) - i, frames[i]) \o r[i - 1]
  BY <1>1, Zenon DEF LeftBy
<1> HIDE DEF n, fr, u
<1>8. q \in [0..(n + 1) -> Seq(TextLine)]
  <2>1. r[n] \in Seq(TextLine)
    BY <1>2, <1>7
  <2>2. Left(t, MaxOpen - n, fr) \o r[n] \in Seq(TextLine)
    BY <1>6, <2>1, ConcatProperties
  <2>3. ASSUME NEW i \in 0..(n + 1), i # n + 1 PROVE r[i] \in Seq(TextLine)
    <3>1. i \in 0..n
      BY <1>2, <2>3
    <3> QED
      BY <1>7, <3>1
  <2> QED
    BY <2>2, <2>3
<1>9. /\ q[0] = <<>> /\ q[n + 1] = Left(t, MaxOpen - n, fr) \o r[n]
      /\ \A i \in 0..n : q[i] = r[i]
  BY <1>2, <1>7, SMTT(30)
<1> HIDE DEF q
<1>10. ASSUME NEW i \in 1..(n + 1)
       PROVE  q[i] = Left(t, (MaxOpen + 1) - i, u[i]) \o q[i - 1]
  <2>1. CASE i = n + 1
    <3>1. i - 1 = n /\ n \in 0..n
      BY <1>2, <2>1
    <3> QED
      BY <1>2, <1>5, <1>9, <2>1, <3>1
  <2>2. CASE i # n + 1
    <3>1. i \in 1..n /\ i \in 0..n /\ i - 1 \in 0..n
      BY <1>2, <2>2
    <3> QED
      BY <1>2, <1>7, <1>9, <3>1
  <2> QED
    BY <2>1, <2>2
<1>11. LeftBy(t, u, q)
  BY <1>2, <1>8, <1>9, <1>10 DEF LeftBy
<1>12. ToRead(t, u, Left(t, MaxOpen - n, fr) \o rest)
  BY <1>1, <1>2, <1>9, <1>11 DEF ToRead
<1> QED
  BY <1>4, <1>6, <1>12 DEF n, u, fr

(* The innermost file.                                                     *)
LEMMA InnermostIs ==
    ASSUME NEW t, IsText(t), NEW frames \in Seq(OpenFile(t)), frames # <<>>
    PROVE  /\ Len(frames) \in Nat /\ Len(frames) >= 1 /\ Last(frames) = frames[Len(frames)]
           /\ Last(frames) \in OpenFile(t)
           /\ Last(frames).file \in DOMAIN t /\ Last(frames).next \in Nat
           /\ Last(frames).next >= 1
           /\ Len(t[Last(frames).file]) \in Nat
           /\ Last(frames).next <= Len(t[Last(frames).file]) + 1
           /\ Last(frames) = [file |-> Last(frames).file, next |-> Last(frames).next]
<1>1. Len(frames) \in Nat /\ Len(frames) >= 1
  BY EmptySeq, LenProperties
<1>2. Last(frames) = frames[Len(frames)]
  BY DEF Last
<1>3. frames[Len(frames)] \in OpenFile(t)
  BY <1>1, ElementOfSeq
<1>4. ASSUME NEW fr \in OpenFile(t)
      PROVE  /\ fr.file \in DOMAIN t /\ fr.next \in Nat /\ fr.next >= 1
             /\ Len(t[fr.file]) \in Nat /\ fr.next <= Len(t[fr.file]) + 1
             /\ fr = [file |-> fr.file, next |-> fr.next]
  <2>1. fr \in [file : DOMAIN t, next : Nat \ {0}] /\ fr.next <= Len(t[fr.file]) + 1
    BY DEF OpenFile
  <2>2. fr.file \in DOMAIN t /\ fr.next \in Nat \ {0}
    BY <2>1
  <2>3. Len(t[fr.file]) \in Nat
    BY <2>2, LenProperties DEF IsText
  <2> QED
    BY <2>1, <2>2, <2>3
<1> QED
  BY <1>1, <1>2, <1>3, <1>4

-----------------------------------------------------------------------------
(* What is in place of the line that is next.                              *)
NextPiece(t, frames) ==
    Pieces(t, Deep(t)[MaxOpen - Len(frames)], Last(frames).file)[Last(frames).next]

(* The files u are those of frames one line further on.                    *)
OneLineOn(t, frames, u, rest) ==
    /\ u \in Seq(OpenFile(t)) /\ Len(u) = Len(frames)
    /\ NextPiece(t, frames) \in Seq(TextLine)
    /\ \E q \in Seq(TextLine) : ToRead(t, u, q) /\ rest = NextPiece(t, frames) \o q

(* The line that is next is read.                                          *)
LEMMA AdvanceLeft ==
    ASSUME NEW t, IsText(t), NEW frames \in Seq(OpenFile(t)), frames # <<>>, NEW rest,
           ToRead(t, frames, rest), Len(frames) <= MaxOpen,
           Last(frames).next <= Len(t[Last(frames).file]),
           NEW u, u = [frames EXCEPT ![Len(frames)].next = @ + 1]
    PROVE  OneLineOn(t, frames, u, rest)
<1> DEFINE n == Len(frames)
           top == Last(frames)
           d == (MaxOpen + 1) - n
           piece == Pieces(t, Deep(t)[MaxOpen - n], top.file)[top.next]
           later == [file |-> top.file, next |-> top.next + 1]
<1>0. MaxOpen \in Nat
  BY StoreAssumption
<1>1. /\ n \in Nat /\ n >= 1 /\ top = frames[n] /\ top \in OpenFile(t)
      /\ top.file \in DOMAIN t /\ top.next \in Nat /\ top.next >= 1
      /\ Len(t[top.file]) \in Nat
      /\ top.next <= Len(t[top.file]) + 1
      /\ top = [file |-> top.file, next |-> top.next]
  BY InnermostIs
<1>2. top.next <= Len(t[top.file])
  OBVIOUS
<1>3. later \in OpenFile(t) /\ later.file = top.file /\ later.next = top.next + 1
  BY <1>1, <1>2, SMTT(30) DEF OpenFile
<1>4. frames \in [1..n -> OpenFile(t)]
  BY <1>1, LenProperties
<1>5. [top EXCEPT !.next = @ + 1] = later
  <2> HIDE DEF top
  <2> QED
    BY <1>1, SMTT(30)
<1>6. u = [frames EXCEPT ![n] = later]
  <2>1. u = [frames EXCEPT ![n] = [frames[n] EXCEPT !.next = @ + 1]]
    OBVIOUS
  <2> QED
    BY <1>1, <1>5, <2>1
<1> HIDE DEF top, n, later
<1>7. /\ u \in [1..n -> OpenFile(t)] /\ u[n] = later
      /\ \A i \in 1..n : i # n => u[i] = frames[i]
  BY <1>1, <1>3, <1>4, <1>6
<1>8. u \in Seq(OpenFile(t)) /\ Len(u) = n
  BY <1>1, <1>7, LenProperties
<1>9. PICK r : LeftBy(t, frames, r) /\ rest = r[n]
  BY Zenon DEF ToRead, n
<1>10. r \in [0..n -> Seq(TextLine)] /\ r[0] = <<>>
       /\ \A i \in 1..n : r[i] = Left(t, (MaxOpen + 1) - i, frames[i]) \o r[i - 1]
  BY <1>9, Zenon DEF LeftBy, n
<1>11. d \in 1..MaxOpen /\ d - 1 = MaxOpen - n
  BY <1>0, <1>1, SMTT(30) DEF n
<1>12. /\ Left(t, d, top) = piece \o Left(t, d, later)
       /\ Left(t, d, later) \in Seq(TextLine) /\ piece \in Seq(TextLine)
  <2>1. top.next \in 1..(Len(t[top.file]) + 1)
    BY <1>1
  <2>2. \A x : (x.file = top.file /\ x.next = top.next + 1) =>
                    /\ Left(t, d, top)
                       = Pieces(t, Deep(t)[d - 1], top.file)[top.next] \o Left(t, d, x)
                    /\ Left(t, d, x) \in Seq(TextLine)
                    /\ Pieces(t, Deep(t)[d - 1], top.file)[top.next] \in Seq(TextLine)
    <3>1. top.next <= Len(t[top.file])
      BY <1>2 DEF top
    <3>2. d \in 1..MaxOpen /\ top.file \in DOMAIN t
      BY <1>1, <1>11
    <3> HIDE DEF d
    <3>3. top.next <= Len(t[top.file]) =>
                \A x : (x.file = top.file /\ x.next = top.next + 1) =>
                    /\ Left(t, d, top)
                       = Pieces(t, Deep(t)[d - 1], top.file)[top.next] \o Left(t, d, x)
                    /\ Left(t, d, x) \in Seq(TextLine)
                    /\ Pieces(t, Deep(t)[d - 1], top.file)[top.next] \in Seq(TextLine)
      BY <2>1, <3>2, LeftIs, Zenon
    <3> QED
      BY <3>1, <3>3, Zenon
  <2>3. Pieces(t, Deep(t)[d - 1], top.file)[top.next] = piece
    BY <1>11
  <2> HIDE DEF d, piece
  <2> QED
    BY <1>3, <2>2, <2>3
<1> HIDE DEF piece
<1> DEFINE rest2 == Left(t, d, later) \o r[n - 1]
           q == [i \in 0..n |-> IF i = n THEN rest2 ELSE r[i]]
<1>13. n - 1 \in 0..n /\ n \in 1..n /\ n \in 0..n /\ r[n - 1] \in Seq(TextLine)
  BY <1>1, <1>10
<1> HIDE DEF d
<1>14. rest2 \in Seq(TextLine)
  BY <1>12, <1>13, ConcatProperties
<1>15. rest = piece \o rest2
  <2>1. rest = Left(t, d, top) \o r[n - 1]
    BY <1>1, <1>9, <1>10, <1>13 DEF d
  <2>2. (piece \o Left(t, d, later)) \o r[n - 1] = piece \o (Left(t, d, later) \o r[n - 1])
    <3> DEFINE a == Left(t, d, later)
               b == r[n - 1]
    <3>1. piece \in Seq(TextLine) /\ a \in Seq(TextLine) /\ b \in Seq(TextLine)
      BY <1>12, <1>13
    <3> HIDE DEF a, b
    <3>2. (piece \o a) \o b = piece \o (a \o b)
      <4> HIDE DEF piece
      <4> QED
        BY ONLY <3>1, ConcatAssociative, SMTT(30)
    <3> QED
      BY <3>2 DEF a, b
  <2> QED
    BY <1>12, <2>1, <2>2
<1> HIDE DEF rest2
<1>16. /\ q \in [0..n -> Seq(TextLine)] /\ q[n] = rest2
       /\ \A i \in 0..n : i # n => q[i] = r[i]
  BY <1>10, <1>13, <1>14
<1> HIDE DEF q
<1>17. ASSUME NEW i \in 1..n
       PROVE  q[i] = Left(t, (MaxOpen + 1) - i, u[i]) \o q[i - 1]
  <2>1. i \in 0..n /\ i - 1 \in 0..n /\ i - 1 # n
    BY <1>1, SMTT(30)
  <2>2. q[i - 1] = r[i - 1]
    BY <1>16, <2>1
  <2>3. CASE i = n
    BY <1>7, <1>13, <1>16, <2>2, <2>3 DEF rest2, d
  <2>4. CASE i # n
    <3>1. q[i] = r[i] /\ u[i] = frames[i]
      BY <1>7, <1>16, <2>1, <2>4
    <3> QED
      BY <1>10, <2>2, <3>1
  <2> QED
    BY <2>3, <2>4
<1>18. q[0] = <<>>
  <2>1. 0 \in 0..n /\ 0 # n
    BY <1>1
  <2>2. q[0] = r[0]
    BY <1>16, <2>1
  <2> QED
    BY <1>10, <2>2
<1>19. LeftBy(t, u, q)
  BY <1>8, <1>16, <1>17, <1>18 DEF LeftBy
<1>20. ToRead(t, u, rest2)
  BY <1>8, <1>16, <1>19 DEF ToRead
<1>21. piece = NextPiece(t, frames)
  BY DEF n, piece, top, NextPiece
<1> QED
  BY <1>8, <1>12, <1>14, <1>15, <1>20, <1>21 DEF n, OneLineOn

(* At the end of a file what is left is what is left around it.            *)
LEMMA PopLeft ==
    ASSUME NEW t, IsText(t), NEW frames \in Seq(OpenFile(t)), frames # <<>>, NEW rest,
           ToRead(t, frames, rest), Len(frames) <= MaxOpen,
           Last(frames).next > Len(t[Last(frames).file])
    PROVE  /\ Front(frames) \in Seq(OpenFile(t)) /\ Len(Front(frames)) = Len(frames) - 1
           /\ ToRead(t, Front(frames), rest)
<1> DEFINE n == Len(frames)
           top == Last(frames)
           u == Front(frames)
           d == (MaxOpen + 1) - n
<1>0. MaxOpen \in Nat
  BY StoreAssumption
<1>1. /\ n \in Nat /\ n >= 1 /\ top = frames[n]
      /\ top.file \in DOMAIN t /\ top.next \in Nat /\ top.next >= 1
      /\ Len(t[top.file]) \in Nat
      /\ top.next <= Len(t[top.file]) + 1
  BY InnermostIs
<1>2. u \in Seq(OpenFile(t)) /\ Len(u) = n - 1 /\ \A i \in 1..(n - 1) : u[i] = frames[i]
  <2>1. u = SubSeq(frames, 1, n - 1)
    BY DEF Front
  <2> HIDE DEF u, n
  <2>2. n = Len(frames) /\ n \in Nat /\ n >= 1
    BY <1>1 DEF n
  <2>3. \A i \in 1..(n - 1) : frames[i] \in OpenFile(t)
    BY <2>2, ElementOfSeq
  <2>4. /\ u \in Seq(OpenFile(t))
        /\ Len(u) = IF 1 <= n - 1 THEN ((n - 1) - 1) + 1 ELSE 0
    BY <2>1, <2>2, <2>3, SubSeqProperties
  <2>5. \A i \in 1..(n - 1) : u[i] = frames[i]
    BY <2>1, <2>2
  <2> QED
    BY <2>2, <2>4, <2>5
<1>3. top.next = Len(t[top.file]) + 1
  BY <1>1
<1> HIDE DEF top, n, u
<1>4. d \in 1..MaxOpen
  BY <1>0, <1>1 DEF n
<1>5. Left(t, d, top) = <<>>
  <2>1. top.next \in 1..(Len(t[top.file]) + 1)
    BY <1>1, <1>3
  <2> HIDE DEF d
  <2> QED
    BY <1>1, <1>3, <1>4, <2>1, LeftIs
<1>6. PICK r : LeftBy(t, frames, r) /\ rest = r[n]
  BY Zenon DEF ToRead, n
<1>7. r \in [0..n -> Seq(TextLine)] /\ r[0] = <<>>
      /\ \A i \in 1..n : r[i] = Left(t, (MaxOpen + 1) - i, frames[i]) \o r[i - 1]
  BY <1>6, Zenon DEF LeftBy, n
<1>8. n - 1 \in 0..n /\ n \in 1..n /\ r[n - 1] \in Seq(TextLine)
  BY <1>1, <1>7
<1>9. rest = r[n - 1]
  <2>1. rest = Left(t, d, top) \o r[n - 1]
    BY <1>1, <1>6, <1>7, <1>8
  <2> QED
    BY <1>5, <1>8, <2>1, ConcatEmptySeq
<1> DEFINE q == [i \in 0..(n - 1) |-> r[i]]
<1>10. \A i \in 0..(n - 1) : i \in 0..n
  BY <1>1
<1>11. q \in [0..(n - 1) -> Seq(TextLine)] /\ \A i \in 0..(n - 1) : q[i] = r[i]
  BY <1>7, <1>10
<1> HIDE DEF q
<1>12. ASSUME NEW i \in 1..(n - 1)
       PROVE  q[i] = Left(t, (MaxOpen + 1) - i, u[i]) \o q[i - 1]
  <2>1. i \in 1..n /\ i \in 0..(n - 1) /\ i - 1 \in 0..(n - 1)
    BY <1>1
  <2> QED
    BY <1>2, <1>7, <1>11, <2>1
<1>13. 0 \in 0..(n - 1) /\ n - 1 \in 0..(n - 1)
  BY <1>1
<1>14. LeftBy(t, u, q)
  BY <1>2, <1>7, <1>11, <1>12, <1>13 DEF LeftBy
<1>15. ToRead(t, u, rest)
  BY <1>2, <1>9, <1>11, <1>13, <1>14 DEF ToRead
<1> QED
  BY <1>2, <1>15 DEF n, u

-----------------------------------------------------------------------------
(***************************************************************************)
(* The store from the first line to the last (load), and with what a       *)
(* client's URL says.                                                      *)
(***************************************************************************)
(* The lines read so far, and what they say, and the lines to come.        *)
Reading ==
    /\ reading \in Seq(OpenFile(text)) /\ Len(reading) <= MaxOpen
    /\ \E done, rest \in Seq(TextLine) :
          ToRead(text, reading, rest) /\ done \o rest = Lines /\ Means(ga_vars, done)

(* The store says what the text and the URL mean.                          *)
Says ==
    /\ Lines \in Seq(TextLine)
    /\ \A o : /\ IsVar(VarOf(o))
              /\ VarOf(o).data = Meant(Lines, o)
              /\ VarOf(o).mapdata = MeantMap(Lines, o)
    /\ \A o \in DOMAIN ga_vars : Mentions(Lines, o) \/ FromUrl(o)

(* From the first line to the last the store says what the lines read so   *)
(* far do, and after the URL what text and URL mean.                       *)
StoreInv ==
    /\ text \in Texts
    /\ stage = "load" =>
          /\ loaded = "no"
          /\ reading = <<>> => ga_vars = <<>>
          /\ reading # <<>> => Reading
    /\ stage = "url" => url # NoUrl /\ Means(ga_vars, Lines)
    /\ stage \notin {"load", "url", "exited"} => Says

(* A line that is read is the last of those read.                          *)
LEMMA LineRead ==
    ASSUME NEW A, NEW done \in Seq(A), NEW x \in A, NEW q \in Seq(A)
    PROVE  /\ Append(done, x) \in Seq(A)
           /\ done \o (<<x>> \o q) = Append(done, x) \o q
<1>1. <<x>> \in Seq(A)
  OBVIOUS
<1>2. (done \o <<x>>) \o q = done \o (<<x>> \o q)
  BY ONLY <1>1, ConcatAssociative, done \in Seq(A), q \in Seq(A)
<1>3. Append(done, x) = done \o <<x>> /\ Append(done, x) \in Seq(A)
  BY AppendIsConcat
<1> QED
  BY <1>2, <1>3

(* ga_conf_load opens the file.                                            *)
LEMMA MainOpened ==
    ASSUME StoreInv, load_main, stage = "load", UNCHANGED inputs
    PROVE  \/ reading' = <<>> /\ loaded' = "failed"
           \/ reading' # <<>> /\ loaded' = "no" /\ Reading'
<1>1. text' = text /\ url' = url
  BY DEF inputs
<1>2. CASE ~Openable(MainFile)
  BY <1>2 DEF load_main, load_failed
<1>3. CASE Openable(MainFile)
  <2>1. /\ reading = <<>> /\ reading' = <<[file |-> MainFile, next |-> 1]>>
        /\ ga_vars' = ga_vars /\ loaded' = "no" /\ ga_vars = <<>>
    BY <1>3, Zenon DEF load_main, StoreInv
  <2>2. MainFile \in DOMAIN text /\ 0 < MaxOpen
    BY <1>3, <2>1 DEF Openable
  <2>3. IsText(text)
    BY TextAssumption DEF StoreInv, IsText
  <2> DEFINE none == <<>>
             fr == [file |-> MainFile, next |-> 1]
  <2>4. none \in Seq(OpenFile(text)) /\ Len(none) = 0 /\ none \in Seq(TextLine)
        /\ Append(none, fr) = <<fr>>
    BY EmptySeq
  <2> HIDE DEF none, fr
  <2>5. ToRead(text, none, none)
    BY <2>4, NoneLeft DEF none
  <2>6. /\ Append(none, fr) \in Seq(OpenFile(text))
        /\ ToRead(text, Append(none, fr), Deep(text)[MaxOpen - Len(none)][MainFile] \o none)
    BY <2>2, <2>3, <2>4, <2>5, PushLeft DEF fr
  <2>7. Deep(text)[MaxOpen - Len(none)][MainFile] = Lines /\ Lines \in Seq(TextLine)
    <3>1. MaxOpen \in 0..MaxOpen /\ MaxOpen - Len(none) = MaxOpen
      BY <2>4, StoreAssumption
    <3>2. Lines = Deep(text)[MaxOpen][MainFile]
      BY FlatText DEF Lines
    <3>3. Deep(text)[MaxOpen][MainFile] \in Seq(TextLine)
      BY <2>2, <2>3, <3>1, DeepType
    <3> QED
      BY <3>1, <3>2, <3>3
  <2>8. Lines \o none = Lines /\ none \o Lines = Lines
    BY <2>7, ConcatEmptySeq DEF none
  <2>9. Means(ga_vars', none) /\ Lines' = Lines
    BY <1>1, <2>1, NothingMeans DEF none, Lines
  <2>10. ToRead(text', reading', Lines)
    BY <1>1, <2>1, <2>4, <2>6, <2>7, <2>8 DEF fr
  <2>11. reading' \in Seq(OpenFile(text)') /\ Len(reading') <= MaxOpen /\ reading' # <<>>
    <3>1. Len(reading') = 1
      BY <2>1
    <3>2. OpenFile(text)' = OpenFile(text)
      BY <1>1, SMTT(30) DEF OpenFile
    <3> QED
      BY <2>1, <2>2, <2>4, <2>6, <3>1, <3>2, EmptySeq, StoreAssumption DEF fr
  <2>12. Reading'
    BY <2>4, <2>7, <2>8, <2>9, <2>10, <2>11 DEF Reading
  <2> QED
    BY <2>1, <2>11, <2>12
<1> QED
  BY <1>2, <1>3

(* A line that assigns something, or nothing, is parsed.                   *)
LEMMA LineParsed ==
    ASSUME StoreInv, parse_assignment, stage = "load", UNCHANGED inputs
    PROVE  reading' # <<>> /\ loaded' = "no" /\ Reading'
<1>1. text' = text /\ url' = url
  BY DEF inputs
<1> DEFINE top == Last(reading)
           n == Len(reading)
           piece == Pieces(text, Deep(text)[MaxOpen - n], top.file)[top.next]
           u == Advanced
<1>2. /\ reading # <<>> /\ top.next <= Len(text[top.file]) /\ loaded = "no" /\ Reading
      /\ u = [reading EXCEPT ![Len(reading)].next = @ + 1]
  BY DEF parse_assignment, AtLine, StoreInv, Advanced
<1>3. IsText(text)
  BY TextAssumption DEF StoreInv, IsText
<1>4. reading \in Seq(OpenFile(text)) /\ Len(reading) <= MaxOpen
  BY <1>2 DEF Reading
<1>5. PICK done \in Seq(TextLine), rest \in Seq(TextLine) :
          ToRead(text, reading, rest) /\ done \o rest = Lines /\ Means(ga_vars, done)
  BY <1>2 DEF Reading
<1>6. top.file \in DOMAIN text /\ top.next \in 1..Len(text[top.file])
      /\ Len(reading) \in Nat /\ Len(reading) >= 1
  <2>1. top.file \in DOMAIN text /\ top.next \in Nat /\ top.next >= 1
        /\ Len(text[top.file]) \in Nat /\ Len(reading) \in Nat /\ Len(reading) >= 1
    BY <1>2, <1>3, <1>4, InnermostIs
  <2> QED
    BY <1>2, <2>1
<1>7. NextLine \in TextLine
  <2>1. text[top.file] \in Seq(TextLine)
    BY <1>3, <1>6 DEF IsText
  <2> QED
    BY <1>6, <2>1, ElementOfSeq DEF NextLine
<1>8. \/ NextLine.kind \notin {"set", "entry"} /\ ga_vars' = ga_vars
      \/ NextLine.kind = "set" /\ ga_vars' = assign(NextLine.option, NextLine.value)
      \/ NextLine.kind = "entry" /\ ga_vars' = assign_entry(NextLine.option, NextLine.key, NextLine.value)
  BY SMTT(30) DEF parse_assignment
<1>9. piece = <<NextLine>>
  <2>1. NextLine.kind # "include"
    BY DEF parse_assignment
  <2> QED
    BY <1>6, <2>1, SMTT(30) DEF Pieces, NextLine
<1> HIDE DEF u, piece
<1>10. /\ u \in Seq(OpenFile(text)) /\ Len(u) = Len(reading)
       /\ \E q \in Seq(TextLine) : ToRead(text, u, q) /\ rest = piece \o q
  <2>1. ToRead(text, reading, rest) /\ Len(reading) <= MaxOpen
        /\ Last(reading).next <= Len(text[Last(reading).file])
    BY <1>2, <1>4, <1>5
  <2>2. OneLineOn(text, reading, u, rest)
    BY <1>2, <1>3, <1>4, <2>1, AdvanceLeft
  <2> QED
    BY <2>2 DEF OneLineOn, NextPiece, piece
<1>11. PICK q \in Seq(TextLine) : ToRead(text, u, q) /\ rest = piece \o q
  BY <1>10
<1> DEFINE next == Append(done, NextLine)
<1>12. next \in Seq(TextLine) /\ next \o q = Lines
  <2>1. next \in Seq(TextLine) /\ done \o (<<NextLine>> \o q) = next \o q
    BY <1>7, LineRead, SMTT(30)
  <2> QED
    BY <1>5, <1>9, <1>11, <2>1
<1>13. Means(ga_vars', next)
  BY <1>5, <1>7, <1>8, ParsedMeans
<1> HIDE DEF next
<1>14. reading' = u /\ loaded' = "no" /\ Lines' = Lines /\ OpenFile(text)' = OpenFile(text)
  BY <1>1, <1>2 DEF parse_assignment, Lines, OpenFile, u
<1>15. u # <<>>
  BY <1>6, <1>10, EmptySeq
<1>16. Reading'
  BY <1>1, <1>4, <1>10, <1>11, <1>12, <1>13, <1>14 DEF Reading
<1> QED
  BY <1>14, <1>15, <1>16

(* A file that is included is opened, or the whole load fails.             *)
LEMMA FileIncluded ==
    ASSUME StoreInv, parse_include, stage = "load", UNCHANGED inputs
    PROVE  \/ reading' = <<>> /\ loaded' \in {"failed", "overflow"}
           \/ reading' # <<>> /\ loaded' = "no" /\ Reading'
<1>1. text' = text /\ url' = url
  BY DEF inputs
<1> DEFINE u == Advanced
           f == NextLine.file
           fr == [file |-> f, next |-> 1]
<1>2. /\ reading # <<>> /\ Last(reading).next <= Len(text[Last(reading).file])
      /\ loaded = "no" /\ Reading /\ NextLine.kind = "include"
      /\ u = [reading EXCEPT ![Len(reading)].next = @ + 1]
  BY DEF parse_include, AtLine, StoreInv, Advanced
<1>3. IsText(text)
  BY TextAssumption DEF StoreInv, IsText
<1>4. reading \in Seq(OpenFile(text)) /\ Len(reading) <= MaxOpen
  BY <1>2 DEF Reading
<1>5. PICK done \in Seq(TextLine), rest \in Seq(TextLine) :
          ToRead(text, reading, rest) /\ done \o rest = Lines /\ Means(ga_vars, done)
  BY <1>2 DEF Reading
<1>6. Last(reading).file \in DOMAIN text /\ Last(reading).next \in 1..Len(text[Last(reading).file])
      /\ Len(reading) \in Nat /\ Len(reading) >= 1
  <2>1. /\ Last(reading).file \in DOMAIN text /\ Last(reading).next \in Nat
        /\ Last(reading).next >= 1 /\ Len(text[Last(reading).file]) \in Nat
        /\ Len(reading) \in Nat /\ Len(reading) >= 1
    BY <1>2, <1>3, <1>4, InnermostIs
  <2> QED
    BY <1>2, <2>1
<1>7. CASE ~Openable(f)
  BY <1>7 DEF parse_include, load_failed, stack_overflows
<1>8. CASE Openable(f)
  <2>1. reading' = Append(u, fr) /\ ga_vars' = ga_vars /\ loaded' = "no"
    BY <1>2, <1>8 DEF parse_include
  <2>2. f \in DOMAIN text /\ Len(reading) < MaxOpen
    BY <1>8 DEF Openable
  <2> HIDE DEF u
  <2>3. OneLineOn(text, reading, u, rest)
    BY <1>2, <1>3, <1>4, <1>5, AdvanceLeft
  <2>4. NextPiece(text, reading) = Deep(text)[MaxOpen - Len(reading)][f]
    BY <1>2, <1>6, <2>2 DEF NextPiece, Pieces, NextLine
  <2>5. PICK q \in Seq(TextLine) : ToRead(text, u, q) /\ rest = NextPiece(text, reading) \o q
    BY <2>3 DEF OneLineOn
  <2>6. u \in Seq(OpenFile(text)) /\ Len(u) = Len(reading)
    BY <2>3 DEF OneLineOn
  <2> HIDE DEF f, fr
  <2>7. /\ Append(u, fr) \in Seq(OpenFile(text))
        /\ ToRead(text, Append(u, fr), Deep(text)[MaxOpen - Len(u)][f] \o q)
    BY <1>3, <2>2, <2>5, <2>6, PushLeft DEF fr
  <2>8. ToRead(text, Append(u, fr), rest)
    BY <2>4, <2>5, <2>6, <2>7
  <2>9. Lines' = Lines /\ OpenFile(text)' = OpenFile(text)
    BY <1>1 DEF Lines, OpenFile
  <2>10. Len(Append(u, fr)) = Len(reading) + 1
    BY <2>6, LenProperties
  <2>11. Append(u, fr) # <<>> /\ Len(Append(u, fr)) <= MaxOpen
    BY <1>6, <2>2, <2>10, EmptySeq, StoreAssumption, SMTT(30)
  <2>12. Reading'
    BY <1>1, <1>5, <2>1, <2>7, <2>8, <2>9, <2>11 DEF Reading
  <2> QED
    BY <2>1, <2>11, <2>12
<1> QED
  BY <1>7, <1>8

(* At the end of a file the one around it goes on, or all has been read.   *)
LEMMA FileEnds ==
    ASSUME StoreInv, end_of_file, stage = "load", UNCHANGED inputs
    PROVE  \/ loaded' = "yes" /\ Means(ga_vars', Lines')
           \/ reading' # <<>> /\ loaded' = "no" /\ Reading'
<1>1. text' = text /\ url' = url
  BY DEF inputs
<1>2. /\ reading # <<>> /\ ~(Last(reading).next <= Len(text[Last(reading).file]))
      /\ loaded = "no" /\ Reading
      /\ reading' = Front(reading) /\ ga_vars' = ga_vars
      /\ loaded' = IF Len(reading) = 1 THEN "yes" ELSE "no"
  BY DEF end_of_file, AtLine, StoreInv
<1>3. IsText(text)
  BY TextAssumption DEF StoreInv, IsText
<1>4. reading \in Seq(OpenFile(text)) /\ Len(reading) <= MaxOpen
  BY <1>2 DEF Reading
<1>5. PICK done \in Seq(TextLine), rest \in Seq(TextLine) :
          ToRead(text, reading, rest) /\ done \o rest = Lines /\ Means(ga_vars, done)
  BY <1>2 DEF Reading
<1>6. /\ Len(reading) \in Nat /\ Len(reading) >= 1
      /\ Last(reading).next \in Nat /\ Len(text[Last(reading).file]) \in Nat
  BY <1>2, <1>3, <1>4, InnermostIs
<1>7. Last(reading).next > Len(text[Last(reading).file])
  BY <1>2, <1>6
<1>8. /\ Front(reading) \in Seq(OpenFile(text)) /\ Len(Front(reading)) = Len(reading) - 1
      /\ ToRead(text, Front(reading), rest)
  BY <1>2, <1>3, <1>4, <1>5, <1>7, PopLeft
<1>9. Lines' = Lines /\ OpenFile(text)' = OpenFile(text)
  BY <1>1 DEF Lines, OpenFile
<1>10. CASE Len(reading) = 1
  <2>1. rest = <<>>
    BY <1>8, <1>10, NoneLeft
  <2>2. done = Lines
    BY <1>5, <2>1, ConcatEmptySeq
  <2> QED
    BY <1>2, <1>5, <1>9, <1>10, <2>2
<1>11. CASE Len(reading) # 1
  <2>1. Front(reading) # <<>> /\ Len(Front(reading)) <= MaxOpen
    BY <1>4, <1>6, <1>8, <1>11, EmptySeq, StoreAssumption
  <2>2. Reading'
    BY <1>1, <1>2, <1>5, <1>8, <1>9, <2>1 DEF Reading
  <2> QED
    BY <1>2, <1>11, <2>1, <2>2
<1> QED
  BY <1>10, <1>11

(* Without a URL the store says what the lines say.                        *)
LEMMA TextSays ==
    ASSUME url' = NoUrl, Means(ga_vars', Lines')
    PROVE  Says'
<1>1. ASSUME NEW o PROVE ~FromUrl(o)'
  BY DEF FromUrl
<1>2. ASSUME NEW o PROVE VarOf(o)' = VarIn(ga_vars', o)
  BY DEF VarOf, VarIn
<1>3. ASSUME NEW o
      PROVE  Meant(Lines, o)' = Said(Lines', o) /\ MeantMap(Lines, o)' = SaidMap(Lines', o)
  BY <1>1 DEF Meant, MeantMap
<1>4. ASSUME NEW o
      PROVE  /\ IsVar(VarOf(o)') /\ VarOf(o)'.data = Meant(Lines, o)'
             /\ VarOf(o)'.mapdata = MeantMap(Lines, o)'
  BY <1>2, <1>3 DEF Means
<1>5. ASSUME NEW o \in DOMAIN ga_vars' PROVE Mentions(Lines, o)'
  BY DEF Means
<1>6. Lines' \in Seq(TextLine)
  BY DEF Means
<1> QED
  BY <1>4, <1>5, <1>6 DEF Says

(* With one it says what the URL says of it.                               *)
LEMMA UrlSays ==
    ASSUME url # NoUrl, Means(ga_vars, Lines), ga_url_parse, text' = text, url' = url
    PROVE  Says'
<1> DEFINE W == UrlWrites
<1>1. \A o : o \in DOMAIN W <=> FromUrl(o)
  BY DEF UrlWrites, FromUrl
<1>2. \A o \in DOMAIN W :
         W[o] = IF o = "server-url" THEN url.all
                ELSE IF o = "server-name" THEN url.name ELSE url.port
  BY DEF UrlWrites
<1>3. ga_vars' = [o \in DOMAIN ga_vars \cup DOMAIN W |->
         IF o \in DOMAIN W THEN [EmptyVar EXCEPT !.data = W[o]] ELSE ga_vars[o]]
  BY DEF ga_url_parse, ga_conf_writev
<1> HIDE DEF W
<1>4. ASSUME NEW v
      PROVE  /\ IsVar([EmptyVar EXCEPT !.data = v]) /\ [EmptyVar EXCEPT !.data = v].data = v
             /\ [EmptyVar EXCEPT !.data = v].mapdata = <<>>
  BY DEF EmptyVar, IsVar
<1>5. \A o : /\ o \in DOMAIN W => VarOf(o)' = [EmptyVar EXCEPT !.data = W[o]]
             /\ o \notin DOMAIN W => VarOf(o)' = VarIn(ga_vars, o)
  BY <1>3 DEF VarOf, VarIn
<1>6. Lines' = Lines
  BY DEF Lines
<1>7. ASSUME NEW o PROVE FromUrl(o)' <=> FromUrl(o)
  BY DEF FromUrl
<1>8. ASSUME NEW o
      PROVE  /\ IsVar(VarOf(o)') /\ VarOf(o)'.data = Meant(Lines, o)'
             /\ VarOf(o)'.mapdata = MeantMap(Lines, o)'
  <2>1. CASE FromUrl(o)
    <3>1. VarOf(o)' = [EmptyVar EXCEPT !.data = W[o]] /\ o \in DOMAIN W
      BY <1>1, <1>5, <2>1
    <3>2. Meant(Lines, o)' = W[o] /\ MeantMap(Lines, o)' = <<>>
      BY <1>2, <1>7, <2>1, <3>1 DEF Meant, MeantMap
    <3> QED
      BY <1>4, <3>1, <3>2
  <2>2. CASE ~FromUrl(o)
    <3>1. VarOf(o)' = VarIn(ga_vars, o)
      BY <1>1, <1>5, <2>2
    <3>2. Meant(Lines, o)' = Said(Lines, o) /\ MeantMap(Lines, o)' = SaidMap(Lines, o)
      BY <1>6, <1>7, <2>2 DEF Meant, MeantMap
    <3> QED
      BY <3>1, <3>2 DEF Means
  <2> QED
    BY <2>1, <2>2
<1>9. ASSUME NEW o \in DOMAIN ga_vars' PROVE Mentions(Lines, o)' \/ FromUrl(o)'
  <2>1. o \in DOMAIN ga_vars \/ o \in DOMAIN W
    BY <1>3
  <2>2. o \in DOMAIN ga_vars => Mentions(Lines, o)
    BY DEF Means
  <2>3. Mentions(Lines, o) => Mentions(Lines, o)'
    BY <1>6
  <2> QED
    BY <1>1, <1>7, <2>1, <2>2, <2>3
<1>10. Lines' \in Seq(TextLine)
  BY <1>6, SMTT(30) DEF Means
<1> QED
  BY <1>8, <1>9, <1>10 DEF Says

(* The steps that change the store; the others at most leave its stages    *)
(* behind.                                                                 *)
LEMMA StoreMoves ==
    [StartNext]_allvars =>
        \/ load \/ load_url \/ rtspconf_parse \/ pass_option
        \/ /\ UNCHANGED storevars
           /\ \/ stage' \in {stage, "exited"}
              \/ stage \notin {"load", "url", "exited"} /\ stage' \notin {"load", "url"}
  BY DEF storevars, filevars, inputs, Configured, Proceed, CallFails, exits, BeginsNow,
     StartNext, MainStep, load, load_url, rtspconf_parse, pass_option, crop_disabled,
     ga_crop_window, crop_fails, ga_load_module, DriverStep, dfm_open, dfm_setAttachToDesktop,
     dfm_load_unopened, dfm_load, dfm_connect, vsource_init, filter_RGB2YUV_init,
     sdlmsg_replay_init, asource_init, run_module, encoder_register, vsource_begin, filter_begin,
     asource_begin, ctrl_server_begin, per_client_init, vencoder_begin, aencoder_begin,
     encoder_begins, ClientStep, client_libraries, client_thread_created, controller_disabled,
     client_thread_fails, ctrl_client_begin, vsource_capture, capture_fails, replay_pointing, pool_step,
     allvars, startvars, confvars, encodervars, inputvars, readframe, cropframe, driverframe, clientframe

(* The iterator of a map moves; what the store says does not.              *)
LEMMA IteratorMoves ==
    ASSUME Says, UNCHANGED inputs, NEW o \in DOMAIN ga_vars, NEW m,
           ga_vars' = [ga_vars EXCEPT ![o].mi = m]
    PROVE  /\ Says'
           /\ VarOf(o)'.mi = m /\ VarOf(o)'.mapdata = VarOf(o).mapdata
<1>1. text' = text /\ url' = url
  BY DEF inputs
<1>2. ga_vars' = [ga_vars EXCEPT ![o] = [ga_vars[o] EXCEPT !.mi = m]]
  OBVIOUS
<1> DEFINE v == [ga_vars[o] EXCEPT !.mi = m]
<1>3. IsVar(VarOf(o)) /\ VarOf(o) = ga_vars[o]
  BY DEF Says, VarOf
<1>4. IsVar(v) /\ v.data = ga_vars[o].data /\ v.mapdata = ga_vars[o].mapdata /\ v.mi = m
  BY <1>3 DEF IsVar
<1> HIDE DEF v
<1>5. DOMAIN ga_vars' = DOMAIN ga_vars /\ ga_vars' = [ga_vars EXCEPT ![o] = v]
  BY <1>2 DEF v
<1>6. ASSUME NEW p PROVE VarOf(p)' = IF p = o THEN v ELSE VarOf(p)
  BY <1>5 DEF VarOf
<1>7. ASSUME NEW p
      PROVE  /\ IsVar(VarOf(p)') /\ VarOf(p)'.data = VarOf(p).data
             /\ VarOf(p)'.mapdata = VarOf(p).mapdata
  BY <1>3, <1>4, <1>6 DEF Says
<1>8. ASSUME NEW p
      PROVE  /\ Meant(Lines, p)' = Meant(Lines, p) /\ MeantMap(Lines, p)' = MeantMap(Lines, p)
             /\ (Mentions(Lines, p) \/ FromUrl(p) <=> Mentions(Lines, p)' \/ FromUrl(p)')
  BY <1>1 DEF Meant, MeantMap, FromUrl, Lines
<1>10. Lines' \in Seq(TextLine)
  BY <1>1 DEF Says, Lines
<1>9. Says'
  BY <1>5, <1>7, <1>8, <1>10 DEF Says
<1> QED
  BY <1>4, <1>6, <1>7, <1>9

(* What the store says stays when it does.                                 *)
LEMMA SaysStays ==
    ASSUME Says, UNCHANGED inputs, ga_vars' = ga_vars
    PROVE  Says'
  BY DEF Says, inputs, Meant, MeantMap, FromUrl, Lines, VarOf

(* Every step keeps the store in order.                                    *)
LEMMA StoreKeeps == StoreInv /\ [StartNext]_allvars => StoreInv'
<1> SUFFICES ASSUME StoreInv, [StartNext]_allvars PROVE StoreInv'
  OBVIOUS
<1>1. UNCHANGED inputs /\ text' \in Texts
  BY InputsFixed DEF StoreInv, inputs
<1>2. CASE load
  <2>1. /\ LoadStep /\ stage = "load" /\ loaded = "no"
        /\ stage' = CASE loaded' = "yes" -> IF url = NoUrl THEN "parse" ELSE "url"
                      [] loaded' \in {"failed", "overflow"} -> "exited"
                      [] OTHER -> stage
    BY <1>2 DEF load, StoreInv
  <2>2. \/ loaded' \in {"failed", "overflow"}
        \/ loaded' = "yes" /\ Means(ga_vars', Lines')
        \/ reading' # <<>> /\ loaded' = "no" /\ Reading'
    <3>1. CASE load_main
      BY <1>1, <2>1, <3>1, MainOpened
    <3>2. CASE parse_assignment
      BY <1>1, <2>1, <3>2, LineParsed
    <3>3. CASE parse_include
      BY <1>1, <2>1, <3>3, FileIncluded
    <3>4. CASE parse_malformed
      BY <3>4 DEF parse_malformed, load_failed
    <3>5. CASE end_of_file
      BY <1>1, <2>1, <3>5, FileEnds
    <3> QED
      BY <2>1, <3>1, <3>2, <3>3, <3>4, <3>5 DEF LoadStep
  <2>3. CASE loaded' \in {"failed", "overflow"}
    BY <1>1, <2>1, <2>3 DEF StoreInv
  <2>4. CASE loaded' = "yes" /\ Means(ga_vars', Lines')
    <3>1. url' = url
      BY <1>1 DEF inputs
    <3>2. CASE url = NoUrl
      <4>1. Says' /\ stage' = "parse"
        BY <2>1, <2>4, <3>1, <3>2, TextSays
      <4> QED
        BY <1>1, <4>1 DEF StoreInv
    <3>3. CASE url # NoUrl
      BY <1>1, <2>1, <2>4, <3>1, <3>3 DEF StoreInv
    <3> QED
      BY <3>2, <3>3
  <2>5. CASE reading' # <<>> /\ loaded' = "no" /\ Reading'
    BY <1>1, <2>1, <2>5 DEF StoreInv
  <2> QED
    BY <2>2, <2>3, <2>4, <2>5
<1>3. CASE load_url
  <2>1. stage = "url" /\ url # NoUrl /\ Means(ga_vars, Lines)
    BY <1>3 DEF load_url, StoreInv
  <2>2. CASE ga_url_parse /\ stage' = "parse"
    <3>1. Says'
      BY <1>1, <2>1, <2>2, UrlSays DEF inputs
    <3> QED
      BY <1>1, <2>2, <3>1 DEF StoreInv
  <2>3. CASE stage' = "exited"
    BY <1>1, <2>3 DEF StoreInv
  <2> QED
    BY <1>3, <2>2, <2>3 DEF load_url, exits
<1>4. CASE rtspconf_parse
  <2>1. stage = "parse" /\ Says
    BY <1>4 DEF rtspconf_parse, StoreInv
  <2>2. CASE stage' = "exited"
    BY <1>1, <2>2 DEF StoreInv
  <2>3. CASE stage' # "exited"
    <3>1. /\ stage' \notin {"load", "url"}
          /\ ga_vars' = ga_vars \/ ga_vars' = mapreset("video-specific")
      BY <1>4, <2>3 DEF rtspconf_parse, exits, Configured
    <3>2. Says'
      <4>1. CASE ga_vars' = ga_vars
        BY <1>1, <2>1, <4>1, SaysStays
      <4>2. CASE /\ "video-specific" \in DOMAIN ga_vars
                 /\ ga_vars' = [ga_vars EXCEPT !["video-specific"].mi =
                                    begin(ga_vars["video-specific"].mapdata)]
        BY <1>1, <2>1, <4>2, IteratorMoves
      <4> QED
        BY <3>1, <4>1, <4>2 DEF mapreset
    <3> QED
      BY <1>1, <3>1, <3>2 DEF StoreInv
  <2> QED
    BY <2>2, <2>3
<1>5. CASE pass_option
  <2>1. stage = "options" /\ Says
    BY <1>5 DEF pass_option, StoreInv
  <2>2. /\ stage' \notin {"load", "url"}
        /\ ga_vars' = ga_vars \/ ga_vars' = mapnextkey("video-specific")
    BY <1>5, <2>1 DEF pass_option, Configured
  <2>3. Says'
    <3>1. CASE ga_vars' = ga_vars
      BY <1>1, <2>1, <3>1, SaysStays
    <3>2. CASE ga_vars' = mapnextkey("video-specific") /\ "video-specific" \in DOMAIN ga_vars
      <4>1. ga_vars' = [ga_vars EXCEPT !["video-specific"].mi =
                 after(ga_vars["video-specific"].mapdata, ga_vars["video-specific"].mi)]
        BY <3>2 DEF mapnextkey
      <4> QED
        BY <1>1, <2>1, <3>2, <4>1, IteratorMoves
    <3>3. CASE ga_vars' = mapnextkey("video-specific") /\ "video-specific" \notin DOMAIN ga_vars
      <4>1. ga_vars' = [o \in DOMAIN ga_vars |-> ga_vars[o]]
        BY <3>3 DEF mapnextkey
      <4>2. ASSUME NEW o PROVE VarOf(o)' = VarOf(o)
        BY <4>1 DEF VarOf
      <4>3. DOMAIN ga_vars' = DOMAIN ga_vars
        BY <4>1
      <4> QED
        BY <1>1, <2>1, <4>2, <4>3 DEF Says, inputs, Meant, MeantMap, FromUrl, Lines
    <3> QED
      BY <2>2, <3>1, <3>2, <3>3
  <2> QED
    BY <1>1, <2>2, <2>3 DEF StoreInv
<1>6. CASE /\ UNCHANGED storevars
           /\ \/ stage' \in {stage, "exited"}
              \/ stage \notin {"load", "url", "exited"} /\ stage' \notin {"load", "url"}
  <2>1. UNCHANGED <<text, url, reading, loaded, ga_vars>>
    BY <1>6 DEF storevars, filevars, inputs
  <2>2. Says => Says'
    BY <1>1, <2>1, SaysStays
  <2>3. Reading => Reading'
    BY <2>1 DEF Reading, Lines, OpenFile
  <2>4. Lines' = Lines
    BY <2>1 DEF Lines
  <2> QED
    BY <1>1, <1>6, <2>1, <2>2, <2>3, <2>4 DEF StoreInv
<1> QED
  BY <1>2, <1>3, <1>4, <1>5, <1>6, StoreMoves

-----------------------------------------------------------------------------
(***************************************************************************)
(* The options handed to the encoder (rtspconf_parse, its last loop).      *)
(***************************************************************************)
Parsing == {"load", "url", "parse"}

(* What the text says of video-specific.                                   *)
Specific == SaidMap(Lines, "video-specific")

(* The entries of a map.                                                   *)
Pairs(map) == {<<k, map[k]>> : k \in DOMAIN map}

(* The options with a key before m are in the list: all, at the end.       *)
Collected(map, list, m) ==
    /\ m \in DOMAIN map \cup {END}
    /\ list \in Seq(Pairs(map))
    /\ \A k \in DOMAIN map : (m = END \/ k < m) => \E i \in DOMAIN list : list[i] = <<k, map[k]>>

(* The encoder's options are those that the iterator has passed.           *)
VsoInv ==
    /\ stage \in Parsing => vso = <<>>
    /\ stage = "options" => Collected(Specific, vso, VarOf("video-specific").mi)
    /\ stage \notin Parsing \cup {"options", "exited"} => Collected(Specific, vso, END)

(* A map that a line may fill.                                             *)
IsMap(map) ==
    /\ IsFiniteSet(DOMAIN map)
    /\ \A k \in DOMAIN map : k \in Nat /\ k # END /\ map[k] # NoValue

(* The map that the text says is one.                                      *)
LEMMA SpecificIs ==
    ASSUME Lines \in Seq(TextLine)
    PROVE  IsMap(Specific) /\ Specific = [k \in DOMAIN Specific |-> Specific[k]]
<1>1. IsMap(Specific)
  BY SaidMapType DEF IsMap, Specific
<1>2. Specific = [k \in DOMAIN Specific |-> Specific[k]]
  BY EnteredIs DEF Specific
<1> QED
  BY <1>1, <1>2

(* The first key of a map, and the one after a key.                        *)
LEMMA BeginIs ==
    ASSUME NEW map, IsMap(map)
    PROVE  /\ begin(map) \in DOMAIN map \cup {END}
           /\ begin(map) = END => DOMAIN map = {}
           /\ begin(map) # END => \A k \in DOMAIN map : begin(map) <= k
<1>1. CASE DOMAIN map = {}
  BY <1>1 DEF begin
<1>2. CASE DOMAIN map # {}
  <2>1. DOMAIN map \subseteq Nat /\ END \notin DOMAIN map
    BY DEF IsMap
  <2>2. Min(DOMAIN map) \in DOMAIN map /\ \A y \in DOMAIN map : Min(DOMAIN map) <= y
    BY <1>2, <2>1, MinIs
  <2> QED
    BY <1>2, <2>1, <2>2 DEF begin
<1> QED
  BY <1>1, <1>2

(* The key after a key is larger, and no key is in between.                *)
LEMMA AfterIs ==
    ASSUME NEW map, IsMap(map), NEW m \in DOMAIN map
    PROVE  /\ after(map, m) \in DOMAIN map \cup {END}
           /\ after(map, m) # END => after(map, m) > m
           /\ \A k \in DOMAIN map : (after(map, m) = END \/ k < after(map, m)) => k <= m
<1> DEFINE rest == {j \in DOMAIN map : j > m}
<1>1. DOMAIN map \subseteq Nat /\ END \notin DOMAIN map /\ m \in Nat
  BY DEF IsMap
<1>2. after(map, m) = IF rest = {} THEN END ELSE Min(rest)
  BY DEF after
<1>3. CASE rest = {}
  <2>1. \A k \in DOMAIN map : k <= m
    BY <1>1, <1>3
  <2> QED
    BY <1>2, <1>3, <2>1
<1>4. CASE rest # {}
  <2>1. rest \subseteq Nat
    BY <1>1
  <2>2. Min(rest) \in rest /\ \A y \in rest : Min(rest) <= y
    <3> HIDE DEF rest
    <3> QED
      BY <1>4, <2>1, MinIs
  <2>3. Min(rest) \in DOMAIN map /\ Min(rest) > m /\ Min(rest) # END
    BY <1>1, <2>2
  <2>4. ASSUME NEW k \in DOMAIN map, k < Min(rest) PROVE k <= m
    <3>1. k \in Nat /\ Min(rest) \in Nat
      BY <1>1, <2>3
    <3>2. k \notin rest
      BY <2>2, <2>4, <3>1
    <3> QED
      BY <1>1, <3>1, <3>2
  <2> QED
    BY <1>2, <1>4, <2>3, <2>4
<1> QED
  BY <1>3, <1>4

(* The entry under the iterator is collected.                              *)
LEMMA CollectedMore ==
    ASSUME NEW map, IsMap(map), NEW list, NEW m \in DOMAIN map, Collected(map, list, m)
    PROVE  Collected(map, Append(list, <<m, map[m]>>), after(map, m))
<1> DEFINE x == <<m, map[m]>>
           u == Append(list, x)
<1>1. /\ list \in Seq(Pairs(map)) /\ m # END /\ m \in Nat /\ DOMAIN map \subseteq Nat
      /\ \A k \in DOMAIN map : k < m => \E i \in DOMAIN list : list[i] = <<k, map[k]>>
  BY DEF Collected, IsMap
<1>2. x \in Pairs(map)
  BY DEF Pairs
<1> HIDE DEF x
<1>3. /\ u \in Seq(Pairs(map)) /\ Len(list) \in Nat /\ DOMAIN list = 1..Len(list)
      /\ DOMAIN u = 1..(Len(list) + 1) /\ u[Len(list) + 1] = x
      /\ \A i \in 1..Len(list) : u[i] = list[i]
  BY <1>1, <1>2, LenProperties
<1> HIDE DEF u
<1>4. ASSUME NEW k \in DOMAIN map, after(map, m) = END \/ k < after(map, m)
      PROVE  \E i \in DOMAIN u : u[i] = <<k, map[k]>>
  <2>1. k <= m /\ k \in Nat
    BY <1>1, <1>4, AfterIs
  <2>2. CASE k = m
    <3>1. Len(list) + 1 \in DOMAIN u
      BY <1>3
    <3> QED
      BY <1>3, <2>2, <3>1 DEF x
  <2>3. CASE k < m
    <3>1. PICK i \in DOMAIN list : list[i] = <<k, map[k]>>
      BY <1>1, <2>3
    <3>2. i \in DOMAIN u /\ u[i] = list[i]
      BY <1>3
    <3> QED
      BY <3>1, <3>2
  <2> QED
    BY <1>1, <2>1, <2>2, <2>3
<1> QED
  BY <1>3, <1>4, AfterIs DEF Collected, u, x

(* A list of options as a dictionary.                                      *)
Dictionary(list) ==
    [k \in {list[i][1] : i \in DOMAIN list} |->
        list[Max({i \in DOMAIN list : list[i][1] = k})][2]]

(* What the encoder makes of all that was collected is the map.            *)
LEMMA OptionsAre ==
    ASSUME NEW map, IsMap(map), map = [k \in DOMAIN map |-> map[k]], NEW list,
           Collected(map, list, END)
    PROVE  Dictionary(list) = map
<1>1. /\ list \in Seq(Pairs(map)) /\ Len(list) \in Nat /\ DOMAIN list = 1..Len(list)
      /\ \A i \in DOMAIN list : list[i] \in Pairs(map)
      /\ \A k \in DOMAIN map : \E i \in DOMAIN list : list[i] = <<k, map[k]>>
  BY LenProperties, ElementOfSeq DEF Collected
<1>2. \A i \in DOMAIN list : list[i][1] \in DOMAIN map /\ list[i][2] = map[list[i][1]]
  BY <1>1 DEF Pairs
<1>3. {list[i][1] : i \in DOMAIN list} = DOMAIN map
  <2>1. \A k \in DOMAIN map : \E i \in DOMAIN list : list[i][1] = k
    <3> TAKE k \in DOMAIN map
    <3>1. PICK i \in DOMAIN list : list[i] = <<k, map[k]>>
      BY <1>1
    <3>2. list[i][1] = k
      BY <3>1
    <3> QED
      BY <3>2
  <2> QED
    BY <1>2, <2>1, ZenonT(30)
<1>4. ASSUME NEW k \in DOMAIN map
      PROVE  list[Max({i \in DOMAIN list : list[i][1] = k})][2] = map[k]
  <2> DEFINE S == {i \in DOMAIN list : list[i][1] = k}
  <2>1. S # {} /\ S \subseteq 0..Len(list)
    BY <1>1, <1>3
  <2>2. Max(S) \in S
    <3> HIDE DEF S
    <3> QED
      BY <1>1, <2>1, MaxIs
  <2> QED
    BY <1>2, <2>2
<1> QED
  BY <1>3, <1>4 DEF Dictionary

(* The steps that collect options, and those that leave them alone.        *)
LEMMA OptionsMove ==
    [StartNext]_allvars =>
        \/ rtspconf_parse \/ pass_option
        \/ /\ vso' = vso
           /\ \/ stage' = "exited"
              \/ stage' = stage /\ ga_vars' = ga_vars
              \/ stage \in Parsing /\ stage' \in Parsing
              \/ stage \notin Parsing \cup {"options", "exited"} /\ stage' \notin Parsing \cup {"options"}
  BY DEF Parsing, storevars, filevars, inputs, Configured, Proceed, CallFails, exits, BeginsNow,
     StartNext, MainStep, load, load_url, rtspconf_parse, pass_option, crop_disabled,
     ga_crop_window, crop_fails, ga_load_module, DriverStep, dfm_open, dfm_setAttachToDesktop,
     dfm_load_unopened, dfm_load, dfm_connect, vsource_init, filter_RGB2YUV_init,
     sdlmsg_replay_init, asource_init, run_module, encoder_register, vsource_begin, filter_begin,
     asource_begin, ctrl_server_begin, per_client_init, vencoder_begin, aencoder_begin,
     encoder_begins, ClientStep, client_libraries, client_thread_created, controller_disabled,
     client_thread_fails, ctrl_client_begin, vsource_capture, capture_fails, replay_pointing, pool_step,
     allvars, startvars, confvars, encodervars, inputvars, readframe, cropframe, driverframe, clientframe

(* The last loop of rtspconf_parse begins, or there is nothing for it.     *)
LEMMA ParseCollects ==
    ASSUME StoreInv, VsoInv, rtspconf_parse, Lines' = Lines, Says'
    PROVE  VsoInv'
<1> DEFINE map == Specific
           o == "video-specific"
<1>1. stage = "parse" /\ vso' = vso /\ vso = <<>> /\ Says
  BY DEF rtspconf_parse, VsoInv, StoreInv, Parsing, readframe
<1>2. IsMap(map) /\ Specific' = map
  BY <1>1, SpecificIs DEF Says, Specific
<1>3. VarOf(o).mapdata = map
  BY <1>1 DEF Says, MeantMap, FromUrl, Specific
<1> HIDE DEF map
<1>4. <<>> \in Seq(Pairs(map)) /\ DOMAIN <<>> = {}
  BY EmptySeq
<1>5. CASE stage' = "exited"
  BY <1>5 DEF VsoInv, Parsing
<1>6. CASE mapsize(o) > 0 /\ stage' = "options" /\ ga_vars' = mapreset(o)
  <2>1. DOMAIN map # {}
    <3>1. Cardinality(DOMAIN map) > 0
      BY <1>3, <1>6 DEF mapsize
    <3> QED
      BY <3>1, FS_EmptySet
  <2>2. o \in DOMAIN ga_vars
    <3>1. o \notin DOMAIN ga_vars => VarOf(o).mapdata = <<>>
      BY DEF VarOf, EmptyVar
    <3> QED
      BY <1>3, <1>4, <2>1, <3>1
  <2>3. VarOf(o)'.mi = begin(map)
    <3>1. ga_vars' = [ga_vars EXCEPT ![o].mi = begin(ga_vars[o].mapdata)]
      BY <1>6, <2>2 DEF mapreset
    <3>2. VarOf(o)'.mi = begin(ga_vars[o].mapdata)
      <4>1. UNCHANGED inputs
        BY DEF rtspconf_parse, readframe, filevars
      <4> QED
        BY <1>1, <2>2, <3>1, <4>1, IteratorMoves
    <3>3. ga_vars[o].mapdata = map
      BY <1>3, <2>2 DEF VarOf
    <3> QED
      BY <3>2, <3>3
  <2>4. begin(map) \in DOMAIN map /\ \A k \in DOMAIN map : k \in Nat /\ begin(map) <= k
    BY <1>2, <2>1, BeginIs DEF IsMap
  <2>5. Collected(map, <<>>, begin(map))
    <3>1. begin(map) # END
      BY <1>2, <2>4 DEF IsMap
    <3>2. \A k \in DOMAIN map : ~(k < begin(map))
      BY <2>4
    <3> QED
      BY <1>4, <2>4, <3>1, <3>2 DEF Collected
  <2> QED
    BY <1>1, <1>2, <1>6, <2>3, <2>5 DEF VsoInv, Parsing
<1>7. CASE ~(mapsize(o) > 0) /\ stage' = Configured
  <2>1. DOMAIN map = {}
    <3>1. IsFiniteSet(DOMAIN map) /\ ~(Cardinality(DOMAIN map) > 0)
      BY <1>2, <1>3, <1>7 DEF mapsize, IsMap
    <3>2. Cardinality(DOMAIN map) \in Nat
      BY <3>1, FS_CardinalityType
    <3>3. Cardinality(DOMAIN map) = 0
      BY <3>1, <3>2
    <3> QED
      BY <3>1, <3>3, FS_EmptySet
  <2>2. Collected(map, <<>>, END)
    BY <1>4, <2>1 DEF Collected
  <2> QED
    BY <1>1, <1>2, <1>7, <2>2 DEF VsoInv, Parsing, Configured
<1> QED
  BY <1>5, <1>6, <1>7 DEF rtspconf_parse, exits

(* One option is collected, or the loop ends.                              *)
LEMMA OptionCollected ==
    ASSUME StoreInv, VsoInv, pass_option, Lines' = Lines
    PROVE  VsoInv'
<1> DEFINE map == Specific
           o == "video-specific"
           m == VarOf(o).mi
<1>1. stage = "options" /\ Says /\ Collected(map, vso, m) /\ mapkey(o) = m
  BY DEF pass_option, VsoInv, StoreInv, mapkey, mkey
<1>2. IsMap(map) /\ Specific' = map
  BY <1>1, SpecificIs DEF Says, Specific
<1>3. VarOf(o).mapdata = map
  BY <1>1 DEF Says, MeantMap, FromUrl, Specific
<1> HIDE DEF map
<1>4. CASE m = END
  <2>1. stage' = Configured /\ vso' = vso
    BY <1>1, <1>4 DEF pass_option
  <2> QED
    BY <1>1, <1>2, <1>4, <2>1 DEF VsoInv, Parsing, Configured
<1>5. CASE m # END
  <2>1. m \in DOMAIN map /\ map[m] # NoValue
    BY <1>1, <1>2, <1>5 DEF Collected, IsMap
  <2>2. o \in DOMAIN ga_vars
    <3>1. o \notin DOMAIN ga_vars => VarOf(o).mi = END
      BY DEF VarOf, EmptyVar
    <3> QED
      BY <1>5, <3>1
  <2>3. mapvalue(o) = map[m]
    BY <1>3, <1>5 DEF mapvalue, mvalue, mkey
  <2>4. vso' = Append(vso, <<m, map[m]>>) /\ ga_vars' = mapnextkey(o) /\ stage' = stage
    BY <1>1, <1>5, <2>1, <2>3 DEF pass_option
  <2>5. VarOf(o)'.mi = after(map, m)
    <3>1. ga_vars[o].mapdata = map /\ ga_vars[o].mi = m
      BY <1>3, <2>2 DEF VarOf
    <3>2. ga_vars' = [ga_vars EXCEPT ![o].mi = after(ga_vars[o].mapdata, ga_vars[o].mi)]
      BY <2>4 DEF mapnextkey
    <3>3. UNCHANGED inputs
      BY DEF pass_option, readframe, filevars
    <3>4. VarOf(o)'.mi = after(ga_vars[o].mapdata, ga_vars[o].mi)
      BY <1>1, <2>2, <3>2, <3>3, IteratorMoves
    <3> QED
      BY <3>1, <3>4
  <2>6. Collected(map, Append(vso, <<m, map[m]>>), after(map, m))
    <3> HIDE DEF m
    <3> QED
      BY <1>1, <1>2, <2>1, CollectedMore
  <2> HIDE DEF m
  <2> QED
    BY <1>1, <1>2, <2>4, <2>5, <2>6 DEF VsoInv, Parsing
<1> QED
  BY <1>4, <1>5

(* Every step keeps the options in order.                                  *)
LEMMA VsoKeeps == StoreInv /\ VsoInv /\ [StartNext]_allvars => VsoInv'
<1> SUFFICES ASSUME StoreInv, VsoInv, [StartNext]_allvars PROVE VsoInv'
  OBVIOUS
<1>1. Lines' = Lines /\ StoreInv'
  BY InputsFixed, StoreKeeps DEF inputs, Lines
<1>2. CASE rtspconf_parse
  <2>1. CASE stage' = "exited"
    BY <2>1 DEF VsoInv, Parsing
  <2>2. CASE stage' # "exited"
    <3>1. stage' \notin {"load", "url", "exited"}
      BY <1>2, <2>2 DEF rtspconf_parse, exits, Configured
    <3>2. Says'
      BY <1>1, <3>1 DEF StoreInv
    <3> QED
      BY <1>1, <1>2, <3>2, ParseCollects
  <2> QED
    BY <2>1, <2>2
<1>3. CASE pass_option
  BY <1>1, <1>3, OptionCollected
<1>4. CASE /\ vso' = vso
           /\ \/ stage' = "exited"
              \/ stage' = stage /\ ga_vars' = ga_vars
              \/ stage \in Parsing /\ stage' \in Parsing
              \/ stage \notin Parsing \cup {"options", "exited"} /\ stage' \notin Parsing \cup {"options"}
  <2>1. Specific' = Specific
    BY <1>1 DEF Specific
  <2>2. ga_vars' = ga_vars => VarOf("video-specific")' = VarOf("video-specific")
    BY SMTT(30) DEF VarOf
  <2> QED
    BY <1>4, <2>1, <2>2 DEF VsoInv, Parsing
<1> QED
  BY <1>2, <1>3, <1>4, OptionsMove

-----------------------------------------------------------------------------
(***************************************************************************)
(* The settings that main makes of the options, and the encoders that the  *)
(* first client starts with them.                                          *)
(***************************************************************************)
(* A codec that an option names is the first of them that is there; only   *)
(* an option without a value names none.                                   *)
ConfSays ==
    /\ Lines \in Seq(TextLine)
    /\ {"codec", "servername", "ctrlenable"} \subseteq DOMAIN conf
    /\ conf.servername = Meant(Lines, "server-name")
    /\ \A o \in CodecOption :
          \/ conf.codec[o] = NoCodec /\ Said(Lines, o) = NoValue
          \/ /\ conf.codec[o] = ga_avcodec_find(codecs[Said(Lines, o)], There(o))
             /\ conf.codec[o] # NoCodec

(* The settings say what the text does; an encoder that is to begin, or has *)
(* begun, has a codec, and an open one the options of the text.            *)
CodecInv ==
    /\ stage \notin Parsing \cup {"exited"} => ConfSays
    /\ DOMAIN encoder = Encoder
    /\ \A e \in Encoder :
          encoder[e].state \in {"wanted", "open"} =>
              stage \notin Parsing /\ ConfSays /\ CodecOf(e) # NoCodec
    /\ encoder["vencoder"].state = "open" => encoder["vencoder"].options = Specific

(* The steps that change the settings; the client's main may yet do        *)
(* without a controller.                                                   *)
LEMMA ConfMoves ==
    [StartNext]_allvars =>
        \/ rtspconf_parse
        \/ /\ conf' \in {conf, [conf EXCEPT !.ctrlenable = FALSE]}
           /\ \/ stage' \in {stage, "exited"}
              \/ stage \in Parsing /\ stage' \in Parsing
              \/ stage \notin Parsing \cup {"exited"} /\ stage' \notin Parsing
  BY SMTT(30) DEF Parsing, storevars, filevars, inputs, Configured, Proceed, CallFails, exits, BeginsNow,
     StartNext, MainStep, load, load_url, rtspconf_parse, pass_option, crop_disabled,
     ga_crop_window, crop_fails, ga_load_module, DriverStep, dfm_open, dfm_setAttachToDesktop,
     dfm_load_unopened, dfm_load, dfm_connect, vsource_init, filter_RGB2YUV_init,
     sdlmsg_replay_init, asource_init, run_module, encoder_register, vsource_begin, filter_begin,
     asource_begin, ctrl_server_begin, per_client_init, vencoder_begin, aencoder_begin,
     encoder_begins, ClientStep, client_libraries, client_thread_created, controller_disabled,
     client_thread_fails, ctrl_client_begin, vsource_capture, capture_fails, replay_pointing, pool_step,
     allvars, startvars, confvars, encodervars, inputvars, readframe, cropframe, driverframe, clientframe

(* The steps that change the encoders.                                     *)
LEMMA EncodersMove ==
    [StartNext]_allvars =>
        per_client_init \/ vencoder_begin \/ aencoder_begin \/ encoder' = encoder
  BY DEF
     StartNext, MainStep, load, load_url, rtspconf_parse, pass_option, crop_disabled,
     ga_crop_window, crop_fails, ga_load_module, DriverStep, dfm_open, dfm_setAttachToDesktop,
     dfm_load_unopened, dfm_load, dfm_connect, vsource_init, filter_RGB2YUV_init,
     sdlmsg_replay_init, asource_init, run_module, encoder_register, vsource_begin, filter_begin,
     asource_begin, ctrl_server_begin, per_client_init, vencoder_begin, aencoder_begin,
     encoder_begins, ClientStep, client_libraries, client_thread_created, controller_disabled,
     client_thread_fails, ctrl_client_begin, vsource_capture, capture_fails, replay_pointing, pool_step,
     allvars, startvars, confvars, encodervars, inputvars, readframe, cropframe, driverframe, clientframe

(* What a line says of an option is a value.                               *)
LEMMA SaidIsValue ==
    ASSUME NEW lines \in Seq(TextLine), NEW o
    PROVE  Said(lines, o) \in Value
<1> DEFINE l == LastSet(lines, o)
<1>1. l \in 0..Len(lines) /\ (l # 0 => Sets(lines[l], o))
  BY LastSetIs
<1>2. Len(lines) \in Nat
  BY LenProperties
<1>3. CASE l = 0
  BY <1>3, TextAssumption DEF Said
<1>4. CASE l # 0
  <2>1. lines[l] \in TextLine
    <3> HIDE DEF l
    <3>1. l \in 1..Len(lines)
      BY <1>1, <1>2, <1>4
    <3> QED
      BY <3>1, ElementOfSeq
  <2>2. lines[l].kind = "set"
    BY <1>1, <1>4 DEF Sets
  <2>3. lines[l] \in [kind : {"set"}, option : Option, value : Value \ {NoValue}]
    BY <2>1, <2>2 DEF TextLine
  <2> QED
    BY <1>4, <2>3 DEF Said
<1> QED
  BY <1>3, <1>4

(* The first codec of a list that is there, if one is.                     *)
LEMMA FirstCodec ==
    ASSUME NEW names \in Seq(STRING), NEW there
    PROVE  \/ /\ ga_avcodec_find(names, there) = NoCodec
              /\ {names[i] : i \in DOMAIN names} \cap there = {}
           \/ /\ IsFirstCodec(ga_avcodec_find(names, there), names, there)
              /\ ga_avcodec_find(names, there) \in there
<1> DEFINE S == {i \in DOMAIN names : names[i] \in there}
<1>1. Len(names) \in Nat /\ DOMAIN names = 1..Len(names)
  BY LenProperties
<1>2. ga_avcodec_find(names, there) = IF S = {} THEN NoCodec ELSE names[Min(S)]
  BY DEF ga_avcodec_find
<1>3. CASE S = {}
  BY <1>2, <1>3
<1>4. CASE S # {}
  <2>1. S \subseteq Nat
    BY <1>1
  <2>2. Min(S) \in S /\ \A y \in S : Min(S) <= y
    <3> HIDE DEF S
    <3> QED
      BY <1>4, <2>1, MinIs
  <2>3. ASSUME NEW j \in 1..(Min(S) - 1) PROVE names[j] \notin there
    <3>1. j \in DOMAIN names /\ j < Min(S)
      BY <1>1, <2>2
    <3>2. j \notin S
      <4> HIDE DEF S
      <4>1. j \in Int /\ Min(S) \in Int
        BY <1>1, <2>2 DEF S
      <4> QED
        BY <2>2, <3>1, <4>1
    <3> QED
      BY <3>1, <3>2
  <2>4. IsFirstCodec(names[Min(S)], names, there)
    BY <2>2, <2>3 DEF IsFirstCodec
  <2> QED
    BY <1>2, <1>4, <2>2, <2>4
<1> QED
  BY <1>3, <1>4

(* rtspconf_parse refuses an option whose codec is not there.              *)
LEMMA RefusedFor ==
    ASSUME NEW said, ~Refused(said)
    PROVE  /\ said.serverport \in PortNumber /\ said.ctrlport \in PortNumber
           /\ \A o \in Required : readv(o) \notin {NoValue, Invalid}
           /\ \A o \in CodecOption \cap DOMAIN ga_vars : said.codec[o] # NoCodec
  BY DEF Refused

(* What the options say of codecs and of the server's name is what the     *)
(* settings do.                                                            *)
LEMMA ParseSays ==
    ASSUME StoreInv, rtspconf_parse, stage' # "exited", UNCHANGED inputs
    PROVE  ConfSays'
<1>1. stage = "parse" /\ Says
  BY DEF rtspconf_parse, StoreInv
<1>2. conf' = ReadConf /\ ~Refused(ReadConf)
  BY DEF rtspconf_parse, exits
<1>3. Lines' = Lines /\ Meant(Lines, "server-name")' = Meant(Lines, "server-name")
  BY DEF inputs, Lines, Meant, FromUrl
<1>4. /\ DOMAIN conf' = {"servername", "serverport", "ctrlenable", "ctrlport", "ctrltcp",
                         "sendmousemotion", "codec"}
      /\ conf'.servername = readv("server-name")
      /\ conf'.codec = [o \in CodecOption |-> rtspconf_load_codec(o)]
  BY <1>2 DEF ReadConf
<1>5. readv("server-name") = Meant(Lines, "server-name")
  BY <1>1 DEF Says, readv
<1>6. ASSUME NEW o \in CodecOption
      PROVE  \/ conf'.codec[o] = NoCodec /\ Said(Lines, o) = NoValue
             \/ /\ conf'.codec[o] = ga_avcodec_find(codecs[Said(Lines, o)], There(o))
                /\ conf'.codec[o] # NoCodec
  <2>1. conf'.codec[o] = rtspconf_load_codec(o)
    BY <1>4
  <2>2. readv(o) = Said(Lines, o)
    <3>1. ~FromUrl(o)
      BY DEF FromUrl, CodecOption
    <3> QED
      BY <1>1, <3>1 DEF Says, readv, Meant
  <2>3. CASE o \in DOMAIN ga_vars
    <3>1. ReadConf.codec[o] # NoCodec
      <4>1. \A p \in CodecOption \cap DOMAIN ga_vars : ReadConf.codec[p] # NoCodec
        BY <1>2, RefusedFor
      <4>2. o \in CodecOption \cap DOMAIN ga_vars
        BY <2>3
      <4> QED
        BY <4>1, <4>2, Zenon
    <3> QED
      BY <1>2, <2>1, <2>2, <2>3, <3>1 DEF rtspconf_load_codec
  <2>4. CASE o \notin DOMAIN ga_vars
    <3>1. readv(o) = NoValue
      BY <2>4 DEF readv, VarOf, EmptyVar
    <3> QED
      BY <2>1, <2>2, <2>4, <3>1 DEF rtspconf_load_codec
  <2> QED
    BY <2>3, <2>4
<1> QED
  BY <1>1, <1>3, <1>4, <1>5, <1>6 DEF ConfSays, Says

(* The settings stay what the options say without a controller, too.       *)
LEMMA ConfSaysStays ==
    ASSUME ConfSays, conf' \in {conf, [conf EXCEPT !.ctrlenable = FALSE]}, UNCHANGED inputs
    PROVE  ConfSays' /\ conf'.codec = conf.codec
<1>1. Lines' = Lines /\ Meant(Lines, "server-name")' = Meant(Lines, "server-name")
  BY DEF inputs, Lines, Meant, FromUrl
<1>2. /\ DOMAIN conf' = DOMAIN conf /\ conf'.codec = conf.codec
      /\ conf'.servername = conf.servername
  BY DEF ConfSays
<1> QED
  BY <1>1, <1>2 DEF ConfSays

(* An encoder that begins has a codec, and the options that were said.     *)
LEMMA VideoBegins ==
    ASSUME CodecInv, StoreInv, VsoInv, vencoder_begin, NEW width, NEW height
    PROVE  /\ ga_avcodec_vencoder_init(CodecOf("vencoder"), width, height, vso).state = "open"
           /\ ga_avcodec_vencoder_init(CodecOf("vencoder"), width, height, vso).options = Specific
<1>1. stage = "serving" /\ encoder["vencoder"].state = "wanted"
  BY DEF vencoder_begin, encoder_begins
<1>2. CodecOf("vencoder") # NoCodec
  BY <1>1 DEF CodecInv, Encoder
<1>3. Collected(Specific, vso, END) /\ Says
  BY <1>1 DEF VsoInv, StoreInv, Parsing
<1>4. IsMap(Specific) /\ Specific = [k \in DOMAIN Specific |-> Specific[k]]
  BY <1>3, SpecificIs DEF Says
<1>5. Dictionary(vso) = Specific
  BY <1>3, <1>4, OptionsAre
<1> QED
  BY <1>2, <1>5 DEF ga_avcodec_vencoder_init, Dictionary

(* The context of an encoder that begins.                                  *)
LEMMA EncoderBegins ==
    ASSUME DOMAIN encoder = Encoder, NEW e \in Encoder, NEW context, encoder_begins(e, context),
           context.state = "open"
    PROVE  /\ DOMAIN encoder' = Encoder
           /\ \A d \in Encoder : encoder'[d] \in {encoder[d], context, Context("failed")}
           /\ \A d \in Encoder : d # e => encoder'[d] = encoder[d]
           /\ encoder'[e].state = "open" => encoder'[e] = context
           /\ encoder[e].state = "wanted" /\ stage' = stage /\ stage = "serving"
           /\ failed' = failed \/ failed'
           /\ encoder'[e].state = "failed" => failed'
<1>1. Context("failed").state = "failed"
  BY DEF Context
<1> QED
  BY <1>1 DEF encoder_begins

(* Every step keeps the settings and the encoders in order.                *)
LEMMA CodecKeeps == StoreInv /\ VsoInv /\ CodecInv /\ [StartNext]_allvars => CodecInv'
<1> SUFFICES ASSUME StoreInv, VsoInv, CodecInv, [StartNext]_allvars PROVE CodecInv'
  OBVIOUS
<1>1. UNCHANGED inputs /\ Lines' = Lines /\ Specific' = Specific
  BY InputsFixed DEF inputs, Lines, Specific
<1>2. CASE rtspconf_parse
  <2>1. stage = "parse" /\ encoder' = encoder
        /\ \A e \in Encoder : encoder[e].state \notin {"wanted", "open"}
    BY <1>2 DEF rtspconf_parse, readframe, encodervars, CodecInv, Parsing
  <2>2. "vencoder" \in Encoder
    BY DEF Encoder
  <2>3. CASE stage' = "exited"
    BY <2>1, <2>2, <2>3 DEF CodecInv
  <2>4. CASE stage' # "exited"
    <3>1. ConfSays'
      BY <1>1, <1>2, <2>4, ParseSays
    <3> QED
      BY <2>1, <2>2, <3>1 DEF CodecInv
  <2> QED
    BY <2>3, <2>4
<1>3. CASE ~rtspconf_parse
  <2>1. /\ conf' \in {conf, [conf EXCEPT !.ctrlenable = FALSE]}
        /\ \/ stage' \in {stage, "exited"}
           \/ stage \in Parsing /\ stage' \in Parsing
           \/ stage \notin Parsing \cup {"exited"} /\ stage' \notin Parsing
    BY <1>3, ConfMoves
  <2>2. ConfSays => ConfSays' /\ \A e \in Encoder : CodecOf(e)' = CodecOf(e)
    <3>1. ConfSays => ConfSays' /\ conf'.codec = conf.codec
      BY <1>1, <2>1, ConfSaysStays
    <3> QED
      BY <3>1 DEF CodecOf
  <2>3. stage' \notin Parsing \cup {"exited"} => ConfSays'
    BY <2>1, <2>2 DEF CodecInv, Parsing
  <2>4. CASE encoder' = encoder
    BY <1>1, <2>1, <2>2, <2>3, <2>4 DEF CodecInv, Parsing
  <2>5. CASE per_client_init
    <3>1. stage = "serving" /\ ConfSays
      BY <2>5 DEF per_client_init, CodecInv, Parsing
    <3>2. CASE stage' = stage
      <4>1. /\ \A e \in encoders : CodecOf(e) # NoCodec
            /\ encoder' = [e \in Encoder |-> Context(IF e \in encoders THEN "wanted" ELSE "idle")]
        BY <2>5, <3>1, <3>2 DEF per_client_init, ga_avformat_new_stream
      <4>2. \A x : Context(x).state = x
        BY DEF Context
      <4>3. \A e \in Encoder : encoder'[e].state = IF e \in encoders THEN "wanted" ELSE "idle"
        BY <4>1, <4>2
      <4>4. DOMAIN encoder' = Encoder /\ "vencoder" \in Encoder
        BY <4>1 DEF Encoder
      <4> QED
        BY <2>2, <3>1, <3>2, <4>1, <4>3, <4>4 DEF CodecInv, Parsing
    <3>3. CASE stage' # stage
      BY <2>4, <2>5, <3>3 DEF per_client_init
    <3> QED
      BY <3>2, <3>3
  <2>6. CASE vencoder_begin
    <3> DEFINE frame == get_privdata("filter-0")
               context == ga_avcodec_vencoder_init(CodecOf("vencoder"), frame.width, frame.height, vso)
    <3>1. encoder_begins("vencoder", context)
      BY <2>6 DEF vencoder_begin
    <3>2. context.state = "open" /\ context.options = Specific
      BY <2>6, VideoBegins
    <3> HIDE DEF context
    <3>3. /\ DOMAIN encoder' = Encoder /\ "vencoder" \in Encoder
          /\ \A d \in Encoder : d # "vencoder" => encoder'[d] = encoder[d]
          /\ encoder'["vencoder"].state = "open" => encoder'["vencoder"] = context
          /\ encoder["vencoder"].state = "wanted" /\ stage' = stage /\ stage = "serving"
      BY <3>1, <3>2, EncoderBegins DEF CodecInv, Encoder
    <3>4. ConfSays /\ CodecOf("vencoder") # NoCodec
      BY <3>3 DEF CodecInv
    <3> QED
      BY <1>1, <2>2, <3>2, <3>3, <3>4 DEF CodecInv, Parsing
  <2>7. CASE aencoder_begin
    <3> DEFINE context == ga_avcodec_aencoder_init(CodecOf("aencoder"))
    <3>1. encoder_begins("aencoder", context) /\ "aencoder" \in Encoder /\ "vencoder" \in Encoder
      BY <2>7 DEF aencoder_begin, Encoder
    <3>2. context.state = "open"
      <4>1. encoder["aencoder"].state = "wanted"
        BY <3>1 DEF encoder_begins
      <4>2. CodecOf("aencoder") # NoCodec
        BY <3>1, <4>1 DEF CodecInv
      <4> QED
        BY <4>2 DEF ga_avcodec_aencoder_init, Context
    <3> HIDE DEF context
    <3>3. /\ DOMAIN encoder' = Encoder
          /\ \A d \in Encoder : d # "aencoder" => encoder'[d] = encoder[d]
          /\ encoder["aencoder"].state = "wanted" /\ stage' = stage /\ stage = "serving"
      BY <3>1, <3>2, EncoderBegins DEF CodecInv
    <3>4. ConfSays /\ CodecOf("aencoder") # NoCodec
      BY <3>1, <3>3 DEF CodecInv
    <3> QED
      BY <1>1, <2>2, <3>1, <3>3, <3>4 DEF CodecInv, Parsing
  <2> QED
    BY <2>4, <2>5, <2>6, <2>7, EncodersMove
<1> QED
  BY <1>2, <1>3

(* Before main reads its file nothing is said.                             *)
LEMMA ConfigInit == StartInit => StoreInv /\ VsoInv /\ CodecInv
<1> SUFFICES ASSUME StartInit PROVE StoreInv /\ VsoInv /\ CodecInv
  OBVIOUS
<1>1. /\ text \in Texts /\ ga_vars = <<>> /\ reading = <<>> /\ loaded = "no" /\ stage = "load"
      /\ vso = <<>> /\ encoder = [e \in Encoder |-> Context("idle")]
  BY DEF StartInit, StoreInit
<1>2. StoreInv /\ VsoInv
  BY <1>1 DEF StoreInv, VsoInv, Parsing
<1>3. DOMAIN encoder = Encoder /\ \A e \in Encoder : encoder[e].state = "idle"
  BY <1>1 DEF Context
<1>4. "vencoder" \in Encoder
  BY DEF Encoder
<1>5. CodecInv
  BY <1>1, <1>3, <1>4 DEF CodecInv, Parsing
<1> QED
  BY <1>2, <1>5

(* What the invariant of the configuration is.                             *)
ConfigInv == StoreInv /\ VsoInv /\ CodecInv

(* Every step keeps the three parts.                                       *)
LEMMA ConfigKeeps == ConfigInv /\ [StartNext]_allvars => ConfigInv'
  BY StoreKeeps, VsoKeeps, CodecKeeps DEF ConfigInv

(***************************************************************************)
(* When the configuration has been read, every option has the value that   *)
(* the text or the URL gives it last, for every text, however its files    *)
(* include each other; and an encoder that is open has what the text says  *)
(* of video-specific, and the first codec of its list that is there.       *)
(***************************************************************************)
THEOREM ConfigMeansTextCorrect == StartSpec => []ConfigMeansText
<1>1. StartInit => ConfigInv
  BY ConfigInit DEF ConfigInv
<1>2. ConfigInv => ConfigMeansText
  <2> SUFFICES ASSUME ConfigInv PROVE ConfigMeansText
    OBVIOUS
  <2>1. ASSUME stage \in {"parse", "options"} \/ Parsed, NEW o \in Option
        PROVE  readv(o) = Meant(Lines, o) /\ VarOf(o).mapdata = MeantMap(Lines, o)
    <3>1. Says
      BY <2>1 DEF ConfigInv, StoreInv, Parsed
    <3> QED
      BY <3>1 DEF Says, readv
  <2>2. ASSUME encoder["vencoder"].state = "open"
        PROVE  /\ encoder["vencoder"].options = SaidMap(Lines, "video-specific")
               /\ IsFirstCodec(conf.codec["video-encoder"],
                               codecs[Said(Lines, "video-encoder")], Encoders)
    <3> DEFINE o == "video-encoder"
    <3>1. /\ encoder["vencoder"].options = Specific
          /\ ConfSays /\ CodecOf("vencoder") # NoCodec
      BY <2>2 DEF ConfigInv, CodecInv, Encoder
    <3>2. o \in CodecOption /\ There(o) = Encoders /\ conf.codec[o] # NoCodec
      BY <3>1 DEF CodecOption, There, CodecOf
    <3>3. conf.codec[o] = ga_avcodec_find(codecs[Said(Lines, o)], Encoders)
      BY <3>1, <3>2 DEF ConfSays
    <3>4. codecs[Said(Lines, o)] \in Seq(STRING)
      <4>1. Lines \in Seq(TextLine)
        BY <3>1 DEF ConfSays
      <4>2. Said(Lines, o) \in Value
        BY <4>1, SaidIsValue
      <4> QED
        BY <4>2, StartAssumption
    <3>5. IsFirstCodec(conf.codec[o], codecs[Said(Lines, o)], Encoders)
      BY <3>2, <3>3, <3>4, FirstCodec
    <3> QED
      BY <3>1, <3>5 DEF Specific
  <2> QED
    BY <2>1, <2>2 DEF ConfigMeansText
<1> QED
  BY <1>1, <1>2, ConfigKeeps, PTL DEF StartSpec

-----------------------------------------------------------------------------
(* The window that is cropped is the one that the text names.              *)
NameInv == prect # NoRect => window.name = Said(Lines, "find-window-name")

(* Every step keeps the name.                                              *)
LEMMA NameKeeps == PictureInv /\ StoreInv /\ NameInv /\ [StartNext]_allvars => NameInv'
<1> SUFFICES ASSUME PictureInv, StoreInv, NameInv, [StartNext]_allvars PROVE NameInv'
  OBVIOUS
<1>1. Lines' = Lines
  BY InputsFixed DEF inputs, Lines
<1>2. CASE UNCHANGED <<window, prect>>
  BY <1>1, <1>2 DEF NameInv
<1>3. CASE ga_crop_window
  <2>1. stage = "crop" /\ Says /\ prect = NoRect
    BY <1>3 DEF ga_crop_window, StoreInv, PictureInv, CropInv, Uncropped
  <2> DEFINE name == readv("find-window-name")
  <2>2. name = Said(Lines, "find-window-name")
    BY <2>1 DEF Says, readv, Meant, FromUrl
  <2> HIDE DEF name
  <2>3. PICK windows \in Desktops :
           /\ FindWindowX(windows, name) # NoRect
           /\ window' = SetWindowPos(machine, FindWindowX(windows, name))
    BY <1>3 DEF ga_crop_window, name
  <2>4. FindWindowX(windows, name) \in Window /\ FindWindowX(windows, name).name = name
    BY <2>3, FoundIsWindow
  <2>5. window'.name = name
    <3> DEFINE w == FindWindowX(windows, name)
    <3>1. w \in Window /\ w.name = name /\ window' = SetWindowPos(machine, w)
      BY <2>3, <2>4
    <3> HIDE DEF w
    <3> QED
      BY <3>1, MovedIsWindow
  <2> QED
    BY <1>1, <2>2, <2>5 DEF NameInv
<1> QED
  BY <1>2, <1>3, CropMoves

(***************************************************************************)
(* Every frame that is captured fits its buffer, whatever fails, and shows *)
(* the window of the name the text says, or all of the screen, when the    *)
(* calls of the capture succeed, on every back end, for every screen and   *)
(* window, but for the two cases FrameShowsWindow leaves out.              *)
(***************************************************************************)
THEOREM FrameShowsWindowCorrect == StartSpec => []FrameShowsWindow
<1> DEFINE Inv == PictureInv /\ StoreInv /\ NameInv
<1>1. StartInit => Inv
  <2>1. StartInit => NameInv
    BY DEF StartInit, NameInv
  <2> QED
    BY <2>1, PictureInit, ConfigInit
<1>2. Inv /\ [StartNext]_allvars => Inv'
  BY PictureKeeps, StoreKeeps, NameKeeps
<1>3. Inv => FrameShowsWindow
  <2> SUFFICES ASSUME Inv, shot.taken, ~CutOff, ~Padded
               PROVE  /\ DOMAIN shot.pixels \subseteq 0..(BufferSize(source) - 1)
                      /\ shot.calls = "succeed" =>
                           IF prect = NoRect
                           THEN /\ ShowsFrom(0, 0)
                                /\ source.width = machine.width /\ source.height = machine.height
                           ELSE /\ window.name = Said(Lines, "find-window-name")
                                /\ \E x0 \in -1..machine.width, y0 \in -1..machine.height :
                                       InFrame(x0, y0, window) /\ ShowsFrom(x0, y0)
    BY SMTT(30) DEF FrameShowsWindow
  <2> QED
    BY FrameShows DEF NameInv
<1> HIDE DEF Inv
<1> QED
  BY <1>1, <1>2, <1>3, PTL DEF StartSpec

-----------------------------------------------------------------------------
(***************************************************************************)
(* Why the program ends, or one of its threads does.                       *)
(***************************************************************************)
(* What excuses an end of the program.                                     *)
Excused == Unreadable \/ Lacking \/ Hidden \/ Unsuited \/ Nameless \/ failed

(* Names are missing of a codec that the first client is to get.           *)
Unnamed ==
    \/ Said(Lines, "video-encoder") = NoValue
    \/ HasAudio /\ Said(Lines, "audio-encoder") = NoValue

(* The stages that main and the client's main go through.                  *)
Stage ==
    Preparing \cup Lists \cup {"launch", "playing", "exited", "crashed"}

(* Whatever has ended has an excuse.                                       *)
EndInv ==
    /\ stage \in Stage
    /\ driver = "missing" => failed
    /\ stage = "exited" => Excused
    /\ \A t \in DOMAIN thread : thread[t] = "ended" => Nameless \/ failed
    /\ stage = "crashed" => Unnamed
    /\ \A e \in Encoder : encoder[e].state = "failed" => failed

(* Nothing follows the end of the program.                                 *)
LEMMA EndIsEnd ==
    ASSUME [StartNext]_allvars, stage \in {"exited", "crashed"}
    PROVE  UNCHANGED startvars
  BY SMTT(30) DEF SettingUp, BeginsNow, Capturing, Filtering, LoadStep, encoder_begins,
     StartNext, MainStep, load, load_url, rtspconf_parse, pass_option, crop_disabled,
     ga_crop_window, crop_fails, ga_load_module, DriverStep, dfm_open, dfm_setAttachToDesktop,
     dfm_load_unopened, dfm_load, dfm_connect, vsource_init, filter_RGB2YUV_init,
     sdlmsg_replay_init, asource_init, run_module, encoder_register, vsource_begin, filter_begin,
     asource_begin, ctrl_server_begin, per_client_init, vencoder_begin, aencoder_begin,
     ClientStep, client_libraries, client_thread_created, controller_disabled,
     client_thread_fails, ctrl_client_begin, vsource_capture, capture_fails, replay_pointing, pool_step,
     allvars

(* What has failed stays so.                                               *)
LEMMA FailedStays ==
    [StartNext]_allvars => (failed => failed')
  BY ZenonT(30) DEF CallFails, ga_swscale_init_fails, encoder_begins,
     StartNext, MainStep, load, load_url, rtspconf_parse, pass_option, crop_disabled,
     ga_crop_window, crop_fails, ga_load_module, DriverStep, dfm_open, dfm_setAttachToDesktop,
     dfm_load_unopened, dfm_load, dfm_connect, vsource_init, filter_RGB2YUV_init,
     sdlmsg_replay_init, asource_init, run_module, encoder_register, vsource_begin, filter_begin,
     asource_begin, ctrl_server_begin, per_client_init, vencoder_begin, aencoder_begin,
     ClientStep, client_libraries, client_thread_created, controller_disabled,
     client_thread_fails, ctrl_client_begin, vsource_capture, capture_fails, replay_pointing, pool_step,
     allvars, startvars, confvars, encodervars, inputvars, readframe, cropframe, driverframe, clientframe

(* Main goes from stage to stage.                                          *)
LEMMA StagesAre ==
    [StartNext]_allvars => (stage \in Stage => stage' \in Stage)
  BY SMTT(30) DEF Stage, Preparing, Lists, Configured, Proceed, CallFails, exits, encoder_begins,
     StartNext, MainStep, load, load_url, rtspconf_parse, pass_option, crop_disabled,
     ga_crop_window, crop_fails, ga_load_module, DriverStep, dfm_open, dfm_setAttachToDesktop,
     dfm_load_unopened, dfm_load, dfm_connect, vsource_init, filter_RGB2YUV_init,
     sdlmsg_replay_init, asource_init, run_module, encoder_register, vsource_begin, filter_begin,
     asource_begin, ctrl_server_begin, per_client_init, vencoder_begin, aencoder_begin,
     ClientStep, client_libraries, client_thread_created, controller_disabled,
     client_thread_fails, ctrl_client_begin, vsource_capture, capture_fails, replay_pointing, pool_step,
     allvars, startvars, confvars, encodervars, inputvars, readframe, cropframe, driverframe, clientframe

(* The steps that end the program.                                         *)
LEMMA ExitMoves ==
    ASSUME [StartNext]_allvars, stage' = "exited", stage # "exited"
    PROVE  \/ failed' \/ load \/ load_url \/ rtspconf_parse \/ ga_crop_window
           \/ dfm_load_unopened \/ filter_RGB2YUV_init \/ asource_init \/ vsource_begin
           \/ ctrl_server_begin
  BY SMTT(30) DEF Configured, Proceed, CallFails, encoder_begins,
     StartNext, MainStep, pass_option, crop_disabled,
     crop_fails, ga_load_module, DriverStep, dfm_open, dfm_setAttachToDesktop,
     dfm_load, dfm_connect, vsource_init,
     sdlmsg_replay_init, run_module, encoder_register, filter_begin,
     asource_begin, per_client_init, vencoder_begin, aencoder_begin,
     ClientStep, client_libraries, client_thread_created, controller_disabled,
     client_thread_fails, ctrl_client_begin, vsource_capture, capture_fails, replay_pointing, pool_step,
     allvars, startvars, confvars, encodervars, inputvars, readframe, cropframe, driverframe, clientframe

(* Only the first client's session crashes it.                             *)
LEMMA CrashMoves ==
    ASSUME [StartNext]_allvars, stage' = "crashed", stage # "crashed"
    PROVE  per_client_init
  BY SMTT(30) DEF Configured, Proceed, CallFails, exits, encoder_begins,
     StartNext, MainStep, load, load_url, rtspconf_parse, pass_option, crop_disabled,
     ga_crop_window, crop_fails, ga_load_module, DriverStep, dfm_open, dfm_setAttachToDesktop,
     dfm_load_unopened, dfm_load, dfm_connect, vsource_init, filter_RGB2YUV_init,
     sdlmsg_replay_init, asource_init, run_module, encoder_register, vsource_begin, filter_begin,
     asource_begin, ctrl_server_begin, vencoder_begin, aencoder_begin,
     ClientStep, client_libraries, client_thread_created, controller_disabled,
     client_thread_fails, ctrl_client_begin, vsource_capture, capture_fails, replay_pointing, pool_step,
     allvars, startvars, confvars, encodervars, inputvars, readframe, cropframe, driverframe, clientframe

(* The threads that may end while the program goes on.                     *)
LEMMA EndedMoves ==
    [StartNext]_allvars =>
        \/ filter_begin \/ ctrl_client_begin
        \/ \A t \in DOMAIN thread' :
              thread'[t] = "ended" => t \in DOMAIN thread /\ thread[t] = "ended"
  BY DEF Started, BecomesRunning, encoder_begins,
     StartNext, MainStep, load, load_url, rtspconf_parse, pass_option, crop_disabled,
     ga_crop_window, crop_fails, ga_load_module, DriverStep, dfm_open, dfm_setAttachToDesktop,
     dfm_load_unopened, dfm_load, dfm_connect, vsource_init, filter_RGB2YUV_init,
     sdlmsg_replay_init, asource_init, run_module, encoder_register, vsource_begin,
     asource_begin, ctrl_server_begin, per_client_init, vencoder_begin, aencoder_begin,
     ClientStep, client_libraries, client_thread_created, controller_disabled,
     client_thread_fails, vsource_capture, capture_fails, replay_pointing, pool_step,
     allvars, startvars, confvars, encodervars, inputvars, readframe, cropframe, driverframe, clientframe

(* An excuse that does not depend on files that are still to be read, or   *)
(* on a window still to be found, is one for good.                         *)
LEMMA ExcusesStay ==
    ASSUME [StartNext]_allvars
    PROVE  /\ Lacking => Lacking'
           /\ Unsuited => Unsuited'
           /\ Nameless => Nameless'
           /\ failed => failed'
           /\ Unnamed => Unnamed'
           /\ Lines' = Lines
<1>1. text' = text /\ url' = url /\ machine' = machine
  BY InputsFixed DEF inputs
<1>2. Lines' = Lines /\ HasAudio' = HasAudio
  BY <1>1 DEF Lines, HasAudio
<1>3. \A o : Meant(Lines, o)' = Meant(Lines, o)
  BY <1>1, <1>2 DEF Meant, FromUrl
<1> QED
  BY <1>1, <1>2, <1>3, FailedStays
     DEF Lacking, Unsuited, Nameless, Unnamed, BadPort, NoneOf, Mentions

(* No number is no port.                                                   *)
LEMMA ZeroIsNoPort == 0 \notin PortNumber
  BY DEF PortNumber

(* A port that is not one is not one in the text or the URL.               *)
LEMMA PortRefused ==
    ASSUME Says, NEW o \in Option, readint(o) \notin PortNumber
    PROVE  BadPort(o)
<1>1. readv(o) = Meant(Lines, o)
  BY DEF Says, readv
<1>2. CASE o \in DOMAIN ga_vars
  BY <1>1, <1>2 DEF readint, BadPort
<1>3. CASE o \notin DOMAIN ga_vars
  <2>1. strtol[readv(o)] = 0
    BY <1>3, TextAssumption DEF readv, VarOf, EmptyVar
  <2>2. 0 \notin PortNumber
    BY ZeroIsNoPort
  <2> QED
    BY <1>1, <2>1, <2>2 DEF BadPort
<1> QED
  BY <1>2, <1>3

(* A codec that is not there is named, and is none of those that are.      *)
LEMMA CodecRefused ==
    ASSUME Says, NEW o \in CodecOption, o \in DOMAIN ga_vars, rtspconf_load_codec(o) = NoCodec
    PROVE  Mentions(Lines, o) /\ NoneOf(o)
<1>1. ~FromUrl(o)
  BY DEF FromUrl, CodecOption
<1>2. readv(o) = Said(Lines, o) /\ Mentions(Lines, o)
  BY <1>1 DEF Says, readv, Meant
<1>3. codecs[Said(Lines, o)] \in Seq(STRING)
  <2>1. Said(Lines, o) \in Value
    BY SaidIsValue DEF Says
  <2> QED
    BY <2>1, StartAssumption
<1> DEFINE names == codecs[Said(Lines, o)]
<1>4. ga_avcodec_find(names, There(o)) = NoCodec
  BY <1>2 DEF rtspconf_load_codec
<1>5. NoCodec \notin There(o)
  BY CodecAssumption DEF There
<1>6. {names[i] : i \in DOMAIN names} \cap There(o) = {}
  <2> HIDE DEF names
  <2>1. names \in Seq(STRING)
    BY <1>3 DEF names
  <2> QED
    BY <1>4, <1>5, <2>1, FirstCodec
<1> QED
  BY <1>2, <1>6 DEF NoneOf

(* What rtspconf_parse refuses is lacking in the text, or in the URL.      *)
LEMMA RefusedLacks ==
    ASSUME Says, Refused(ReadConf)
    PROVE  Lacking
<1> DEFINE said == ReadConf
<1>1. /\ said.serverport = readint("server-port")
      /\ said.ctrlport = IF readbool("control-enabled", FALSE) THEN readint("control-port") ELSE 555
      /\ said.codec = [o \in CodecOption |-> rtspconf_load_codec(o)]
  BY DEF ReadConf
<1>2. \/ said.serverport \notin PortNumber \/ said.ctrlport \notin PortNumber
      \/ \E o \in Required : readv(o) \in {NoValue, Invalid}
      \/ \E o \in CodecOption \cap DOMAIN ga_vars : said.codec[o] = NoCodec
  BY Zenon DEF Refused
<1> HIDE DEF said
<1>3. "server-port" \in Option /\ "control-port" \in Option
  BY StoreAssumption, StartAssumption
<1>4. CASE said.serverport \notin PortNumber
  BY <1>1, <1>3, <1>4, PortRefused DEF Lacking
<1>5. CASE said.ctrlport \notin PortNumber
  <2>1. 555 \in PortNumber
    BY DEF PortNumber
  <2>2. readbool("control-enabled", FALSE) /\ readint("control-port") \notin PortNumber
    BY <1>1, <1>5, <2>1, ZenonT(30)
  <2>3. Said(Lines, "control-enabled") \in TrueWords
    BY <2>2 DEF readbool, readv, Says, Meant, FromUrl
  <2> QED
    BY <1>3, <2>2, <2>3, PortRefused DEF Lacking
<1>6. CASE \E o \in Required : readv(o) \in {NoValue, Invalid}
  BY <1>6 DEF Says, readv, Lacking
<1>7. CASE \E o \in CodecOption \cap DOMAIN ga_vars : said.codec[o] = NoCodec
  <2>1. PICK o \in CodecOption : o \in DOMAIN ga_vars /\ rtspconf_load_codec(o) = NoCodec
    BY <1>1, <1>7
  <2> QED
    BY <2>1, CodecRefused DEF Lacking
<1> QED
  BY <1>2, <1>4, <1>5, <1>6, <1>7

(* A window that is not all visible is hidden on one side.                 *)
LEMMA NotVisible ==
    ASSUME NEW w \in Window, window' = w, machine' = machine, machine \in Machines,
           ~visible(machine, found(w))
    PROVE  Hidden'
<1>1. /\ w.left \in Int /\ w.top \in Int /\ w.border \in Int /\ w.width \in Nat /\ w.height \in Nat
      /\ w # NoRect
  BY WindowIs, DesktopAssumption
<1>2. machine.width \in Int /\ machine.height \in Int
  <2>1. machine.width \in Extent /\ machine.height \in Extent
    BY MachineAssumption, SMTT(30)
  <2>2. \A x \in Extent : x \in Int
    BY SMTT(30) DEF Extent
  <2> QED
    BY <2>1, <2>2
<1> DEFINE s == IF machine.backend = "xwin" THEN w.border ELSE 0
<1>3. /\ found(w).left = w.left - s - (w.width % 2)
      /\ found(w).top = w.top - s - (w.height % 2)
      /\ found(w).right = w.left - s + w.width - 1
      /\ found(w).bottom = w.top - s + w.height - 1
  BY FoundIs DEF Shift
<1>4. s \in Int /\ w.width % 2 \in Int /\ w.height % 2 \in Int
  BY <1>1
<1>5. \/ found(w).left < 0 \/ found(w).top < 0
      \/ found(w).right >= machine.width \/ found(w).bottom >= machine.height
  <2>1. /\ found(w).left \in Int /\ found(w).top \in Int
        /\ found(w).right \in Int /\ found(w).bottom \in Int
    BY FoundIs
  <2> QED
    BY <1>2, <2>1 DEF visible
<1>6. Hidden' <=> \/ w.left - s < w.width % 2 \/ w.top - s < w.height % 2
                  \/ w.left - s + w.width > machine.width
                  \/ w.top - s + w.height > machine.height
  BY <1>1 DEF Hidden
<1> HIDE DEF s
<1> QED
  BY <1>1, <1>2, <1>3, <1>4, <1>5, <1>6

(* An encoder has no codec only where none is named.                       *)
LEMMA NoCodecUnnamed ==
    ASSUME CodecInv, BegunInv, stage = "serving", NEW e \in encoders, CodecOf(e) = NoCodec
    PROVE  Unnamed
<1>1. ConfSays
  BY DEF CodecInv, Parsing
<1>2. e \in Encoder /\ (e = "aencoder" => HasAudio)
  BY DEF BegunInv, Encoder
<1>3. "video-encoder" \in CodecOption /\ "audio-encoder" \in CodecOption
  BY DEF CodecOption
<1> QED
  BY <1>1, <1>2, <1>3 DEF ConfSays, CodecOf, Unnamed, Encoder

(* The address of the server cannot be resolved where a name is given that *)
(* no host has.                                                            *)
LEMMA UnresolvedName ==
    ASSUME ConfSays, ~name_resolve(conf.servername)
    PROVE  Nameless
  BY DEF ConfSays, name_resolve, Nameless

(* What runs has been started, by a main that is past its init functions.  *)
LEMMA StartedWhen ==
    ASSUME MainInv, LaunchInv, stage \in Stage, NEW t, BeginsNow(t)
    PROVE  /\ stage \in {"run", "serving", "launch", "playing"}
           /\ t \in {"vsource", "filter", "asource", "ctrlserver"} => stage \in {"run", "serving"}
<1>1. t \in DOMAIN thread /\ stage \notin {"exited", "crashed"} \cup Preparing
  BY DEF BeginsNow, MainInv, Begun
<1>2. stage \in {"run", "serving", "launch", "playing"}
  BY <1>1 DEF Stage, Lists, Preparing
<1>3. stage \in {"launch", "playing"} =>
          DOMAIN thread \subseteq {"ctrlclient", "watchdog", "rtsp"}
  BY DEF LaunchInv, Controller
<1> QED
  BY <1>1, <1>2, <1>3

(* Source and filter are initialized in this order, so neither lacks the   *)
(* other's pipe when it is used.                                           *)
LEMMA SourceBeforeFilter ==
    /\ \E i \in 1..Len(ModulesToInit) : ModulesToInit[i] = "vsource"
    /\ \E i \in 1..Len(ModulesToInit) : ModulesToInit[i] = "filter"
    /\ \A n \in 1..Len(ModulesToInit) :
          ModulesToInit[n] = "filter" => \E i \in 1..(n - 1) : ModulesToInit[i] = "vsource"
    /\ ~HasAudio => \A i \in 1..Len(ModulesToInit) : ModulesToInit[i] # "asource"
  BY DEF ModulesToInit

(* The pipes are there once main is past its init functions.               *)
LEMMA PipesThere ==
    ASSUME MainInv, stage \in {"run", "serving"}
    PROVE  {"image-0", "filter-0"} \subseteq DOMAIN pipelinemap
<1>1. "vsource" \in Inited /\ "filter" \in Inited
  BY SourceBeforeFilter DEF MainInv, Completed
<1> QED
  BY <1>1 DEF Inited

(* The source's pipe is there when the filter's init function runs, and    *)
(* asource_init runs where there is sound.                                 *)
LEMMA InitInOrder ==
    ASSUME MainInv, stage = "init"
    PROVE  /\ Head(todo) = "filter" => "image-0" \in DOMAIN pipelinemap
           /\ Head(todo) = "asource" => HasAudio
<1>1. PICK n \in 1..Len(ModulesToInit) :
          todo = From(ModulesToInit, n) /\ \A i \in 1..(n - 1) : ModulesToInit[i] \in Inited
  BY DEF MainInv, Progress
<1>2. Head(todo) = ModulesToInit[n]
  BY <1>1, ListsAre, FromIs
<1>3. Head(todo) = "filter" => "vsource" \in Inited
  BY <1>1, <1>2, SourceBeforeFilter
<1> QED
  BY <1>2, <1>3, SourceBeforeFilter DEF Inited

-----------------------------------------------------------------------------
(* What the reasons why the program ends rest on.                          *)
StartInv ==
    PictureInv /\ StoreInv /\ VsoInv /\ CodecInv /\ MainInv /\ LaunchInv /\ BegunInv

(* Whenever the program ends there is an excuse.                           *)
LEMMA EndsExcused ==
    ASSUME StartInv, EndInv, [StartNext]_allvars, stage' = "exited"
    PROVE  Excused'
<1>1. CASE stage = "exited"
  <2>1. UNCHANGED startvars
    BY <1>1, EndIsEnd
  <2>2. UNCHANGED <<text, url, loaded, machine, window, failed>>
    BY <2>1 DEF startvars, storevars, filevars, inputs
  <2>3. Unreadable' = Unreadable /\ Hidden' = Hidden
    BY <2>2 DEF Unreadable, Hidden
  <2> QED
    BY <1>1, <2>2, <2>3, ExcusesStay DEF EndInv, Excused
<1>2. CASE stage # "exited"
  <2>1. UNCHANGED <<text, url, machine>>
    BY InputsFixed DEF inputs
  <2>2. CASE failed'
    BY <2>2 DEF Excused
  <2>3. CASE load
    <3>1. loaded' \in {"failed", "overflow"}
      BY <1>2, <2>3 DEF load
    <3> QED
      BY <3>1 DEF Excused, Unreadable
  <2>4. CASE load_url
    <3>1. stage = "url" /\ url.scheme # "rtsp"
      BY <2>4 DEF load_url
    <3>2. url # NoUrl
      BY <3>1 DEF StartInv, StoreInv
    <3> QED
      BY <2>1, <3>1, <3>2 DEF Excused, Unreadable
  <2>5. CASE rtspconf_parse
    <3>1. stage = "parse" /\ Refused(ReadConf)
      BY <2>5 DEF rtspconf_parse, Configured
    <3>2. Says
      BY <3>1 DEF StartInv, StoreInv
    <3>3. Lacking
      BY <3>1, <3>2, RefusedLacks
    <3> QED
      BY <3>3, ExcusesStay DEF Excused
  <2>6. CASE ga_crop_window
    <3>1. PICK windows \in Desktops :
              LET named == FindWindowX(windows, readv("find-window-name"))
                  w     == SetWindowPos(machine, named)
              IN  named # NoRect /\ window' = w /\ ~visible(machine, found(w))
      BY <2>6 DEF ga_crop_window
    <3> DEFINE named == FindWindowX(windows, readv("find-window-name"))
               w == SetWindowPos(machine, named)
    <3>2. window' = w /\ ~visible(machine, found(w)) /\ named # NoRect
      BY <3>1
    <3>3. named \in Window
      BY <3>2, FoundIsWindow
    <3>4. w \in Window
      <4> HIDE DEF named
      <4> QED
        BY <3>3, MovedIsWindow
    <3>5. machine \in Machines
      BY DEF StartInv, PictureInv, CropInv
    <3> HIDE DEF w
    <3>6. Hidden'
      BY <2>1, <3>2, <3>4, <3>5, NotVisible
    <3> QED
      BY <3>6 DEF Excused
  <2>7. CASE dfm_load_unopened
    <3>1. failed
      BY <2>7 DEF dfm_load_unopened, SettingUp, EndInv
    <3> QED
      BY <3>1, ExcusesStay DEF Excused
  <2>8. CASE filter_RGB2YUV_init
    <3>1. stage = "init" /\ Head(todo) = "filter"
      BY <2>8 DEF filter_RGB2YUV_init
    <3>2. "image-0" \in DOMAIN pipelinemap
      BY <3>1, InitInOrder DEF StartInv
    <3>3. failed' \/ stage' # "exited"
      BY <2>8, <3>2 DEF filter_RGB2YUV_init, Proceed, CallFails
    <3> QED
      BY <3>3 DEF Excused
  <2>9. CASE asource_init
    <3>1. stage = "init" /\ Head(todo) = "asource"
      BY <2>9 DEF asource_init
    <3>2. failed' \/ ~set_up(machine.dev, machine.audio)
      BY <2>9, <3>1 DEF asource_init, Proceed, CallFails
    <3>3. HasAudio
      BY <3>1, InitInOrder DEF StartInv
    <3>4. Unsuited => Unsuited'
      BY ExcusesStay
    <3> QED
      BY <3>2, <3>3, <3>4 DEF Excused, Unsuited
  <2>10. CASE vsource_begin
    <3>1. BeginsNow("vsource")
      BY <2>10 DEF vsource_begin
    <3>2. stage \in {"run", "serving"}
      BY <3>1, StartedWhen DEF StartInv, EndInv
    <3>3. "image-0" \in DOMAIN pipelinemap
      BY <3>2, PipesThere DEF StartInv
    <3> QED
      BY <1>2, <2>10, <3>3 DEF vsource_begin
  <2>11. CASE ctrl_server_begin
    <3>1. BeginsNow("ctrlserver")
      BY <2>11 DEF ctrl_server_begin
    <3>2. stage \in {"run", "serving"}
      BY <3>1, StartedWhen DEF StartInv, EndInv
    <3>3. ConfSays
      BY <3>2 DEF StartInv, CodecInv, Parsing
    <3>4. failed' \/ ~name_resolve(conf.servername)
      BY <1>2, <2>11 DEF ctrl_server_begin, CallFails
    <3>5. failed' \/ Nameless
      BY <3>3, <3>4, UnresolvedName
    <3> QED
      BY <3>5, ExcusesStay DEF Excused
  <2> QED
    BY <1>2, <2>2, <2>3, <2>4, <2>5, <2>6, <2>7, <2>8, <2>9, <2>10, <2>11, ExitMoves
<1> QED
  BY <1>1, <1>2

(* Whenever a thread ends there is an excuse, too.                         *)
LEMMA ThreadsExcused ==
    ASSUME StartInv, EndInv, [StartNext]_allvars
    PROVE  \A t \in DOMAIN thread' : thread'[t] = "ended" => Nameless' \/ failed'
<1>1. (Nameless => Nameless') /\ (failed => failed')
  BY ExcusesStay
<1>2. CASE \A t \in DOMAIN thread' :
              thread'[t] = "ended" => t \in DOMAIN thread /\ thread[t] = "ended"
  BY <1>1, <1>2 DEF EndInv
<1>3. CASE filter_begin
  <2>1. BeginsNow("filter")
    BY <1>3 DEF filter_begin
  <2>2. stage \in {"run", "serving"}
    BY <2>1, StartedWhen DEF StartInv, EndInv
  <2>3. {"image-0", "filter-0"} \subseteq DOMAIN pipelinemap
    BY <2>2, PipesThere DEF StartInv
  <2>4. failed' \/ BecomesRunning("filter")
    BY <1>3, <2>3 DEF filter_begin, ga_swscale_init_fails
  <2> QED
    BY <1>1, <2>4 DEF BecomesRunning, EndInv
<1>4. CASE ctrl_client_begin
  <2>1. BeginsNow("ctrlclient")
    BY <1>4 DEF ctrl_client_begin
  <2>2. stage \in {"run", "serving", "launch", "playing"}
    BY <2>1, StartedWhen DEF StartInv, EndInv
  <2>3. ConfSays
    BY <2>2 DEF StartInv, CodecInv, Parsing
  <2>4. \/ BecomesRunning("ctrlclient")
        \/ failed' \/ ~name_resolve(conf.servername)
    BY <1>4 DEF ctrl_client_begin
  <2>5. CASE BecomesRunning("ctrlclient")
    BY <1>1, <2>5 DEF BecomesRunning, EndInv
  <2>6. CASE failed' \/ ~name_resolve(conf.servername)
    BY <1>1, <2>3, <2>6, UnresolvedName
  <2> QED
    BY <2>4, <2>5, <2>6
<1> QED
  BY <1>2, <1>3, <1>4, EndedMoves

(* An encoder that begins gets no context only when a call fails.          *)
LEMMA EncodersExcused ==
    ASSUME StartInv, EndInv, [StartNext]_allvars
    PROVE  \A e \in Encoder : encoder'[e].state = "failed" => failed'
<1>1. failed => failed'
  BY ExcusesStay
<1>2. \A e \in Encoder : encoder[e].state = "failed" => failed'
  BY <1>1 DEF EndInv
<1>3. DOMAIN encoder = Encoder /\ "vencoder" \in Encoder /\ "aencoder" \in Encoder
  BY DEF StartInv, CodecInv, Encoder
<1>4. CASE encoder' = encoder
  BY <1>2, <1>4
<1>5. CASE per_client_init
  <2>1. \A x : Context(x).state = x
    BY DEF Context
  <2>2. \/ encoder' = encoder
        \/ encoder' = [e \in Encoder |-> Context(IF e \in encoders THEN "wanted" ELSE "idle")]
    BY <1>5 DEF per_client_init
  <2>3. encoder' # encoder => \A e \in Encoder : encoder'[e].state \in {"wanted", "idle"}
    BY <2>1, <2>2
  <2> QED
    BY <1>2, <2>3
<1>6. CASE vencoder_begin
  <2> DEFINE frame == get_privdata("filter-0")
             context == ga_avcodec_vencoder_init(CodecOf("vencoder"), frame.width, frame.height, vso)
  <2>1. encoder_begins("vencoder", context)
    BY <1>6 DEF vencoder_begin
  <2>2. context.state = "open"
    BY <1>6, VideoBegins DEF StartInv
  <2> HIDE DEF context
  <2>3. /\ \A d \in Encoder : d # "vencoder" => encoder'[d] = encoder[d]
        /\ encoder'["vencoder"].state = "failed" => failed'
    BY <1>3, <2>1, <2>2, EncoderBegins
  <2> QED
    BY <1>2, <2>3
<1>7. CASE aencoder_begin
  <2> DEFINE context == ga_avcodec_aencoder_init(CodecOf("aencoder"))
  <2>1. encoder_begins("aencoder", context)
    BY <1>7 DEF aencoder_begin
  <2>2. context.state = "open"
    <3>1. encoder["aencoder"].state = "wanted"
      BY <2>1 DEF encoder_begins
    <3>2. CodecOf("aencoder") # NoCodec
      BY <1>3, <3>1 DEF StartInv, CodecInv
    <3> QED
      BY <3>2 DEF ga_avcodec_aencoder_init, Context
  <2> HIDE DEF context
  <2>3. /\ \A d \in Encoder : d # "aencoder" => encoder'[d] = encoder[d]
        /\ encoder'["aencoder"].state = "failed" => failed'
    BY <1>3, <2>1, <2>2, EncoderBegins
  <2> QED
    BY <1>2, <2>3
<1> QED
  BY <1>4, <1>5, <1>6, <1>7, EncodersMove

(* The first client's session crashes only where no name of a codec is     *)
(* given.                                                                  *)
LEMMA CrashExcused ==
    ASSUME StartInv, EndInv, [StartNext]_allvars, stage' = "crashed"
    PROVE  Unnamed'
<1>1. CASE stage = "crashed"
  BY <1>1, ExcusesStay DEF EndInv
<1>2. CASE stage # "crashed"
  <2>1. per_client_init
    BY <1>2, CrashMoves
  <2>2. PICK e \in encoders : stage = "serving" /\ CodecOf(e) = NoCodec
    BY <2>1 DEF per_client_init, ga_avformat_new_stream
  <2>3. Unnamed
    BY <2>2, NoCodecUnnamed DEF StartInv
  <2> QED
    BY <2>3, ExcusesStay
<1> QED
  BY <1>1, <1>2

(* Every step keeps to the excuses.                                        *)
LEMMA EndKeeps == StartInv /\ EndInv /\ [StartNext]_allvars => EndInv'
<1> SUFFICES ASSUME StartInv, EndInv, [StartNext]_allvars PROVE EndInv'
  OBVIOUS
<1>1. stage' \in Stage
  BY StagesAre DEF EndInv
<1>2. driver' = "missing" => failed'
  <2>1. failed => failed'
    BY ExcusesStay
  <2>2. CASE driver' = driver
    BY <2>1, <2>2 DEF EndInv
  <2>3. CASE DriverStep
    BY <2>1, <2>3 DEF EndInv, DriverStep, dfm_open, dfm_setAttachToDesktop, dfm_load_unopened,
       dfm_load, dfm_connect, SettingUp
  <2> QED
    BY <2>2, <2>3, DriverMoves
<1>3. stage' = "exited" => Excused'
  BY EndsExcused
<1>4. \A t \in DOMAIN thread' : thread'[t] = "ended" => Nameless' \/ failed'
  BY ThreadsExcused
<1>5. stage' = "crashed" => Unnamed'
  BY CrashExcused
<1>6. \A e \in Encoder : encoder'[e].state = "failed" => failed'
  BY EncodersExcused
<1> QED
  BY <1>1, <1>2, <1>3, <1>4, <1>5, <1>6 DEF EndInv

(* A main that serves has registered its encoders.                         *)
LEMMA EncodersServed ==
    ASSUME MainInv, BegunInv, stage = "serving"
    PROVE  encoders = (IF HasAudio THEN Encoder ELSE {"vencoder"})
<1>1. Completed(ToRun, Begun)
  BY DEF MainInv
<1>2. "vencoder" \in Begun /\ (HasAudio => "aencoder" \in Begun)
  BY <1>1, ListsHold DEF Completed
<1> QED
  BY <1>2 DEF Begun, BegunInv, Encoder

(***************************************************************************)
(* The program, and each of its threads, goes on to serve or to play       *)
(* unless the text, the URL, the window, the sound device or a call is to  *)
(* blame, for every configuration and machine; and when it serves, or      *)
(* plays, all its threads and encoders are there.                          *)
(***************************************************************************)
THEOREM StartsWellCorrect == StartSpec => []StartsWell
<1> DEFINE Inv == StartInv /\ ServerInv /\ EndInv
<1>1. StartInit => Inv
  <2> SUFFICES ASSUME StartInit PROVE Inv
    OBVIOUS
  <2>1. stage = "load" /\ driver = "unopened" /\ DOMAIN thread = {}
        /\ encoder = [e \in Encoder |-> Context("idle")]
    BY DEF StartInit
  <2>2. \A e \in Encoder : encoder[e].state = "idle"
    BY <2>1 DEF Context
  <2>3. EndInv
    BY <2>1, <2>2 DEF EndInv, Stage, Preparing
  <2> QED
    BY <2>3, PictureInit, ConfigInit, MainInit DEF StartInv
<1>2. Inv /\ [StartNext]_allvars => Inv'
  <2>1. StartInv /\ ServerInv /\ [StartNext]_allvars => StartInv' /\ ServerInv'
    BY PictureKeeps, StoreKeeps, VsoKeeps, CodecKeeps, MainKeeps, LaunchKeeps, BegunKeeps,
       ServerKeeps DEF StartInv
  <2> QED
    BY <2>1, EndKeeps
<1>3. Inv => StartsWell
  <2> SUFFICES ASSUME Inv PROVE StartsWell
    OBVIOUS
  <2>1. stage = "playing" =>
            /\ {"watchdog", "rtsp"} \subseteq DOMAIN thread
            /\ conf.ctrlenable <=> "ctrlclient" \in DOMAIN thread
    BY DEF StartInv, LaunchInv, Controller
  <2>2. stage = "serving" => encoders = (IF HasAudio THEN Encoder ELSE {"vencoder"})
    BY EncodersServed, SMTT(30) DEF StartInv
  <2>3. stage = "exited" => Unreadable \/ Lacking \/ Hidden \/ Unsuited \/ Nameless \/ failed
    BY DEF EndInv, Excused
  <2>4. (\E t \in DOMAIN thread : thread[t] = "ended") => Nameless \/ failed
    BY DEF EndInv
  <2>5. stage = "crashed" => \/ Said(Lines, "video-encoder") = NoValue
                             \/ HasAudio /\ Said(Lines, "audio-encoder") = NoValue
    BY DEF EndInv, Unnamed
  <2>6. (\E e \in Encoder : encoder[e].state = "failed") => failed
    BY DEF EndInv
  <2> QED
    BY <2>1, <2>2, <2>3, <2>4, <2>5, <2>6 DEF StartsWell
<1> HIDE DEF Inv
<1> QED
  BY <1>1, <1>2, <1>3, PTL DEF StartSpec
=============================================================================
