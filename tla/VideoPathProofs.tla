--------------------------- MODULE VideoPathProofs ---------------------------
(***************************************************************************)
(* Theorems about VideoPath, for pools of any size and any number of       *)
(* frames: both pipelines are lossy queues, and frames stay in order on    *)
(* the way through them, from the capture to the connection; and about     *)
(* UnitAssembly, the other end: whole units reach the decoder.             *)
(***************************************************************************)
EXTENDS VideoPath, UnitAssembly, ListLemmas

(* What the threads own goes with where they are.                          *)
HandInv ==
    /\ fhand # NoFrame <=> fpc \in {"allocate", "release"}
    /\ fout # NoFrame <=> fpc \in {"release", "store"}
    /\ fpc = "release" => fout = fhand
    /\ ehand # NoFrame <=> epc = "have"
    /\ eout # NoFrame <=> epc = "send"

(* A frame that is further on its way is an earlier one than those behind  *)
(* it, and none is later than the last one captured.                       *)
Elems(q)  == {q[i] : i \in DOMAIN q}
Sorted(q) == \A i, j \in DOMAIN q : i < j => Earlier(q[i], q[j])
LT(S, T)  == \A x \in S, y \in T : Earlier(x, y)
LE(S, n)  == \A x \in S : x <= n

Has(x, y) == {x, y} \ {NoFrame}

OnTheWay ==
    Elems(srcq) \cup Has(fhand, fout) \cup Elems(dstq) \cup Has(ehand, eout) \cup {encoded}

OrderInv ==
    /\ Sorted(srcq) /\ Sorted(dstq)
    /\ LE(OnTheWay, captured)
    /\ LT(Has(fhand, fout), Elems(srcq))
    /\ LT(Elems(dstq), Has(fhand, fout) \cup Elems(srcq))
    /\ LT(Has(ehand, eout), Elems(dstq) \cup Has(fhand, fout) \cup Elems(srcq))
    /\ LT({encoded}, Has(ehand, eout) \cup Elems(dstq) \cup Has(fhand, fout) \cup Elems(srcq))

(* There is a number for the frame that is being captured.                 *)
NumberLeft == spc = "capture" => captured < MaxFrames \/ Recycle

VideoInv == TypeOK /\ HandInv /\ OrderInv /\ NumberLeft /\ CondMapLive

-----------------------------------------------------------------------------
(* Taking the first frame of a queue.                                      *)
LEMMA TakeFirst ==
    ASSUME NEW q \in Seq(Frame), q # <<>>, Sorted(q)
    PROVE  /\ Tail(q) \in Seq(Frame) /\ Sorted(Tail(q))
           /\ Elems(Tail(q)) \subseteq Elems(q)
           /\ Head(q) \in Elems(q) /\ Head(q) \in Frame
           /\ LT({Head(q)}, Elems(Tail(q)))
<1>1. Len(q) \in Nat \ {0} /\ DOMAIN q = 1..Len(q)
  OBVIOUS
<1>2. /\ Tail(q) \in Seq(Frame) /\ DOMAIN Tail(q) = 1..Len(q) - 1
      /\ \A i \in 1..Len(q) - 1 : Tail(q)[i] = q[i + 1]
  BY <1>1
<1>3. Head(q) = q[1]
  OBVIOUS
<1>4. \A i \in 1..Len(q) : q[i] \in Frame
  OBVIOUS
<1>5. Sorted(Tail(q))
  BY <1>1, <1>2 DEF Sorted
<1>6. Elems(Tail(q)) \subseteq Elems(q)
  BY <1>1, <1>2 DEF Elems
<1>7. Head(q) \in Elems(q) /\ Head(q) \in Frame
  BY <1>1, <1>3, <1>4 DEF Elems
<1>8. LT({Head(q)}, Elems(Tail(q)))
  BY <1>1, <1>2, <1>3 DEF LT, Elems, Sorted
<1> QED
  BY <1>2, <1>5, <1>6, <1>7, <1>8

(* Adding a frame that is later than those in the queue.                   *)
LEMMA AddLast ==
    ASSUME NEW q \in Seq(Frame), NEW f \in Frame, Sorted(q), LT(Elems(q), {f})
    PROVE  /\ Append(q, f) \in Seq(Frame) /\ Sorted(Append(q, f))
           /\ Elems(Append(q, f)) = Elems(q) \cup {f}
<1> DEFINE a == Append(q, f)
<1>1. Len(q) \in Nat /\ DOMAIN q = 1..Len(q)
  OBVIOUS
<1>2. /\ a \in Seq(Frame) /\ DOMAIN a = 1..Len(q) + 1
      /\ \A i \in 1..Len(q) : a[i] = q[i]
      /\ a[Len(q) + 1] = f
  BY <1>1
<1> HIDE DEF a
<1>3. \A i \in 1..Len(q) : Earlier(q[i], f)
  BY <1>1 DEF LT, Elems
<1>4. Sorted(a)
  <2> SUFFICES ASSUME NEW i \in 1..Len(q) + 1, NEW j \in 1..Len(q) + 1, i < j
               PROVE  Earlier(a[i], a[j])
    BY <1>2 DEF Sorted
  <2>1. i \in 1..Len(q)
    BY <1>1
  <2>2. CASE j = Len(q) + 1
    BY <2>1, <2>2, <1>2, <1>3
  <2>3. CASE j \in 1..Len(q)
    BY <2>1, <2>3, <1>1, <1>2 DEF Sorted
  <2> QED
    BY <2>2, <2>3, <1>1
<1>5. Elems(a) = Elems(q) \cup {f}
  BY <1>1, <1>2 DEF Elems
<1> QED
  BY <1>2, <1>4, <1>5 DEF a

(* Frames are numbers, and so are those in a queue.                        *)
LEMMA FramesAreNumbers == Frame \subseteq Nat
BY VideoAssumption DEF Frame

(* And so are those that a queue holds.                                    *)
LEMMA ElemsAreFrames ==
    ASSUME NEW q \in Seq(Frame)
    PROVE  Elems(q) \subseteq Frame
BY DEF Elems

(* What allocate_data leaves of a queue is the queue or its tail.          *)
LEMMA AllocateLoses ==
    ASSUME NEW q \in Seq(Frame), NEW n \in 0..1, Allocatable(q, n)
    PROVE  \/ AfterAllocate(q, n) = q
           \/ q # <<>> /\ Len(q) >= PoolSize - 1 /\ AfterAllocate(q, n) = Tail(q)
BY VideoAssumption DEF Allocatable, AfterAllocate

(* So the frames left are some of those there, in their order.             *)
LEMMA AllocateKeeps ==
    ASSUME NEW q \in Seq(Frame), NEW n \in 0..1, Allocatable(q, n), Sorted(q)
    PROVE  /\ AfterAllocate(q, n) \in Seq(Frame) /\ Sorted(AfterAllocate(q, n))
           /\ Elems(AfterAllocate(q, n)) \subseteq Elems(q)
BY AllocateLoses, TakeFirst

-----------------------------------------------------------------------------
(* The threads begin with empty pipelines.                                 *)
LEMMA InitHolds == Init => VideoInv
<1> SUFFICES ASSUME Init PROVE VideoInv
  OBVIOUS
<1>0. 0 \in 0..MaxFrames
  BY VideoAssumption
<1>1. TypeOK
  <2>1. {fhand, fout, ehand, eout} \subseteq Frame \cup {NoFrame}
    BY DEF Init
  <2>2. srcq \in Seq(Frame) /\ dstq \in Seq(Frame)
    BY DEF Init
  <2> QED
    BY <1>0, <2>1, <2>2 DEF Init, TypeOK
<1>2. HandInv /\ CondMapLive
  BY DEF Init, HandInv, CondMapLive
<1>3. Elems(srcq) = {} /\ Elems(dstq) = {} /\ Has(fhand, fout) = {} /\ Has(ehand, eout) = {}
  BY DEF Init, Elems, Has
<1>4. Sorted(srcq) /\ Sorted(dstq)
  BY DEF Init, Sorted
<1>5. OrderInv /\ NumberLeft
  BY <1>3, <1>4 DEF Init, OrderInv, OnTheWay, NumberLeft, LE, LT
<1> QED
  BY <1>1, <1>2, <1>5 DEF VideoInv

(* What a thread owns changes with its place; the encoder thread is        *)
(* registered after it has started and not any more when it is done.       *)
LEMMA HandsKeep ==
    ASSUME TypeOK, HandInv, CondMapLive, [Next]_vars
    PROVE  HandInv' /\ CondMapLive'
<1> USE VideoAssumption DEF TypeOK, HandInv, CondMapLive, sourceVars, filterVars, encoderVars
<1>1. CASE Source
  BY <1>1 DEF Source, source_allocate, source_store, source_notify
<1>2. CASE Filter
  <2>1. CASE filter_load \/ filter_reload
    <3>1. srcq # <<>> => Head(srcq) \in Frame
      OBVIOUS
    <3> QED
      BY <2>1, <3>1 DEF filter_load, filter_reload, filter_take
  <2>2. CASE filter_register \/ filter_wait \/ filter_allocate
    BY <2>2 DEF filter_register, client_register, filter_wait, filter_allocate
  <2>3. CASE filter_release \/ filter_store \/ filter_notify
    BY <2>3 DEF filter_release, filter_store, filter_notify
  <2> QED
    BY <1>2, <2>1, <2>2, <2>3 DEF Filter
<1>3. CASE Encoder
  <2>1. CASE encoder_loop \/ encoder_reload
    <3>1. dstq # <<>> => Head(dstq) \in Frame
      OBVIOUS
    <3> QED
      BY <2>1, <3>1 DEF encoder_loop, encoder_reload, encoder_take
  <2>2. CASE encoder_register \/ encoder_timedwait \/ encoder_timeout
    BY <2>2 DEF encoder_register, client_register, encoder_timedwait, encoder_timeout
  <2>3. CASE encoder_release \/ encoder_send \/ encoder_quit
    BY <2>3 DEF encoder_release, encoder_send, encoder_quit, client_unregister
  <2> QED
    BY <1>3, <2>1, <2>2, <2>3 DEF Encoder
<1>4. CASE spurious_wakeup \/ Hub
  BY <1>4 DEF spurious_wakeup, Hub, launch, stop, join
<1>5. CASE UNCHANGED vars
  BY <1>5 DEF vars
<1> QED
  BY <1>1, <1>2, <1>3, <1>4, <1>5 DEF Next

-----------------------------------------------------------------------------
(* Every step keeps the types: what is queued are frames.                  *)
LEMMA TypesKeep ==
    ASSUME VideoInv, [Next]_vars
    PROVE  TypeOK'
<1> USE VideoAssumption DEF VideoInv, TypeOK, sourceVars, filterVars, encoderVars
<1>1. CASE Source
  <2>1. CASE source_allocate
    <3>1. AfterAllocate(srcq, Held(fhand)) \in Seq(Frame) \/ srcq' = srcq
      BY <2>1, AllocateKeeps DEF source_allocate, Held, OrderInv
    <3> QED
      BY <2>1, <3>1 DEF source_allocate
  <2>2. CASE source_store
    <3>1. captured' \in Frame
      BY <2>2 DEF source_store, Frame
    <3>2. srcq' \in Seq(Frame)
      BY <2>2, <3>1 DEF source_store
    <3>3. captured' \in 0..MaxFrames
      BY <3>1 DEF Frame
    <3> QED
      BY <2>2, <3>2, <3>3 DEF source_store
  <2>3. CASE source_notify
    BY <2>3 DEF source_notify
  <2> QED
    BY <1>1, <2>1, <2>2, <2>3 DEF Source
<1>2. CASE Filter
  <2>1. CASE filter_load \/ filter_reload
    <3>1. srcq # <<>> => Head(srcq) \in Frame /\ Tail(srcq) \in Seq(Frame)
      OBVIOUS
    <3> QED
      BY ZenonT(40), <2>1, <3>1 DEF filter_load, filter_reload, filter_take
  <2>2. CASE filter_allocate
    <3>1. AfterAllocate(dstq, Held(ehand)) \in Seq(Frame) \/ dstq' = dstq
      BY <2>2, AllocateKeeps DEF filter_allocate, Held, OrderInv
    <3> QED
      BY <2>2, <3>1 DEF filter_allocate
  <2>3. CASE filter_store
    <3>1. fout \in Frame
      BY <2>3 DEF filter_store, HandInv
    <3> QED
      BY <2>3, <3>1 DEF filter_store
  <2>4. CASE filter_register \/ filter_wait \/ filter_release \/ filter_notify
    BY ZenonT(40), <2>4 DEF filter_register, client_register, filter_wait, filter_release, filter_notify
  <2> QED
    BY <1>2, <2>1, <2>2, <2>3, <2>4 DEF Filter
<1>3. CASE Encoder
  <2>1. CASE encoder_loop \/ encoder_reload
    <3>1. dstq # <<>> => Head(dstq) \in Frame /\ Tail(dstq) \in Seq(Frame)
      OBVIOUS
    <3> QED
      BY ZenonT(40), <2>1, <3>1 DEF encoder_loop, encoder_reload, encoder_take
  <2>2. CASE encoder_register \/ encoder_timedwait \/ encoder_timeout
    BY ZenonT(40), <2>2 DEF encoder_register, client_register, encoder_timedwait, encoder_timeout
  <2>3. CASE encoder_release \/ encoder_quit
    BY <2>3, ZenonT(30) DEF encoder_release, encoder_quit, client_unregister
  <2>4. CASE encoder_send
    <3>1. eout \in 0..MaxFrames
      BY <2>4 DEF encoder_send, HandInv, Frame
    <3> QED
      BY <2>4, <3>1 DEF encoder_send
  <2> QED
    BY <1>3, <2>1, <2>2, <2>3, <2>4 DEF Encoder
<1>4. CASE spurious_wakeup \/ Hub
  BY ZenonT(40), <1>4 DEF spurious_wakeup, Hub, launch, stop, join
<1>5. CASE UNCHANGED vars
  BY <1>5 DEF vars
<1> QED
  BY <1>1, <1>2, <1>3, <1>4, <1>5 DEF Next

(* A frame is stored by a source that found a number left for it.          *)
LEMMA NumbersKeep ==
    ASSUME NumberLeft, [Next]_vars
    PROVE  NumberLeft'
<1> USE DEF NumberLeft
<1>1. CASE Source
  BY <1>1 DEF Source, source_allocate, source_store, source_notify
<1>2. CASE UNCHANGED sourceVars
  BY <1>2 DEF sourceVars
<1>3. CASE Filter \/ Encoder
  BY <1>2, <1>3
  DEF Filter, filter_register, filter_load, filter_wait, filter_reload, filter_allocate,
      filter_release, filter_store, filter_notify, Encoder, encoder_register, encoder_loop,
      encoder_timedwait, encoder_timeout, encoder_reload, encoder_release, encoder_send,
      encoder_quit
<1>4. CASE spurious_wakeup \/ Hub \/ UNCHANGED vars
  BY <1>2, <1>4 DEF spurious_wakeup, Hub, launch, stop, join, vars
<1> QED
  BY <1>1, <1>3, <1>4 DEF Next

(* What is on the way are numbers.                                         *)
LEMMA OnTheWayNumbers == TypeOK => OnTheWay \subseteq Nat
<1> SUFFICES ASSUME TypeOK PROVE OnTheWay \subseteq Nat
  OBVIOUS
<1>1. Elems(srcq) \subseteq Nat /\ Elems(dstq) \subseteq Nat
  BY ElemsAreFrames, FramesAreNumbers DEF TypeOK
<1>2. Has(fhand, fout) \subseteq Nat /\ Has(ehand, eout) \subseteq Nat
  BY FramesAreNumbers DEF Has, TypeOK
<1>3. encoded \in Nat
  BY DEF TypeOK
<1> QED
  BY <1>1, <1>2, <1>3 DEF OnTheWay

(***************************************************************************)
(* Order: a frame is taken from the front and added at the back, and never *)
(* overtakes one on the way nor stays behind where it was taken.           *)
(***************************************************************************)
LEMMA OrderKeeps ==
    ASSUME VideoInv, [Next]_vars
    PROVE  OrderInv'
<1> USE DEF VideoInv
<1>1. CASE source_allocate
  <2>1. Sorted(srcq') /\ Elems(srcq') \subseteq Elems(srcq)
    BY <1>1, AllocateKeeps DEF source_allocate, Held, OrderInv, TypeOK
  <2>2. UNCHANGED <<captured, dstq, fhand, fout, ehand, eout, encoded>>
    BY <1>1 DEF source_allocate, filterVars, encoderVars
  <2> QED
    BY <2>1, <2>2 DEF OrderInv, OnTheWay, LT, LE
<1>2. CASE source_store
  <2>1. captured' \in Frame /\ captured' \in Nat /\ captured \in Nat /\ captured <= captured'
    BY <1>2, VideoAssumption DEF source_store, TypeOK, Frame
  <2>2. \A x \in Nat : x <= captured => Earlier(x, captured') /\ x <= captured'
    BY <1>2, <2>1, VideoAssumption DEF source_store, NumberLeft, Earlier, TypeOK
  <2>3. \A x \in OnTheWay : Earlier(x, captured') /\ x <= captured'
    BY <2>2, OnTheWayNumbers DEF OrderInv, LE
  <2>4. Sorted(srcq') /\ Elems(srcq') = Elems(srcq) \cup {captured'}
    BY <1>2, <2>1, <2>3, AddLast DEF source_store, OrderInv, OnTheWay, LT, TypeOK
  <2>5. UNCHANGED <<dstq, fhand, fout, ehand, eout, encoded>>
    BY <1>2 DEF source_store, filterVars, encoderVars
  <2>6. OnTheWay' = OnTheWay \cup {captured'}
    BY <2>4, <2>5 DEF OnTheWay
  <2>7. LE(OnTheWay', captured')
    BY <2>1, <2>3, <2>6 DEF LE
  <2> QED
    BY <2>3, <2>4, <2>5, <2>7 DEF OrderInv, OnTheWay, LT
<1>3. CASE filter_load \/ filter_reload
  <2>1. UNCHANGED <<captured, dstq, fout, ehand, eout, encoded>> /\ fhand = NoFrame /\ fout = NoFrame
    BY <1>3 DEF filter_load, filter_reload, HandInv, sourceVars, encoderVars
  <2>2. CASE srcq' = srcq /\ fhand' = fhand
    BY <2>1, <2>2 DEF OrderInv, OnTheWay
  <2>3. CASE filter_take
    <3>1. /\ Sorted(srcq') /\ Elems(srcq') \subseteq Elems(srcq)
          /\ fhand' \in Elems(srcq) /\ LT({fhand'}, Elems(srcq'))
      BY <2>3, TakeFirst DEF filter_take, OrderInv, TypeOK
    <3>2. Has(fhand', fout') \subseteq {fhand'} /\ Has(fhand, fout) = {}
      BY <2>1 DEF Has
    <3> QED
      BY <2>1, <3>1, <3>2 DEF OrderInv, OnTheWay, LT, LE
  <2> QED
    BY <1>3, <2>2, <2>3 DEF filter_load, filter_reload
<1>4. CASE filter_allocate
  <2>1. Sorted(dstq') /\ Elems(dstq') \subseteq Elems(dstq)
    BY <1>4, AllocateKeeps DEF filter_allocate, Held, OrderInv, TypeOK
  <2>2. UNCHANGED <<captured, srcq, ehand, eout, encoded>>
    BY <1>4 DEF filter_allocate, sourceVars, encoderVars
  <2>3. Has(fhand', fout') \subseteq Has(fhand, fout)
    BY <1>4 DEF filter_allocate, Has
  <2> QED
    BY <2>1, <2>2, <2>3 DEF OrderInv, OnTheWay, LT, LE
<1>5. CASE filter_release
  <2>1. Has(fhand', fout') \subseteq Has(fhand, fout)
    BY <1>5 DEF filter_release, Has
  <2>2. UNCHANGED <<captured, srcq, dstq, ehand, eout, encoded>>
    BY <1>5 DEF filter_release, sourceVars, encoderVars
  <2> QED
    BY <2>1, <2>2 DEF OrderInv, OnTheWay, LT, LE
<1>6. CASE filter_store
  <2>1. fout \in Frame /\ fout \in Has(fhand, fout)
    BY <1>6 DEF filter_store, HandInv, TypeOK, Has
  <2>2. LT(Elems(dstq), {fout})
    BY <2>1 DEF OrderInv, LT
  <2>3. Sorted(dstq') /\ Elems(dstq') = Elems(dstq) \cup {fout}
    BY <1>6, <2>1, <2>2, AddLast DEF filter_store, OrderInv, TypeOK
  <2>4. Has(fhand', fout') = {} /\ UNCHANGED <<captured, srcq, ehand, eout, encoded>>
    BY <1>6 DEF filter_store, HandInv, Has, sourceVars, encoderVars
  <2>5. OnTheWay' \subseteq OnTheWay
    BY <2>1, <2>3, <2>4 DEF OnTheWay
  <2>6. LE(OnTheWay', captured')
    BY <2>4, <2>5 DEF OrderInv, LE
  <2> QED
    BY <2>1, <2>3, <2>4, <2>6 DEF OrderInv, LT
<1>7. CASE encoder_loop \/ encoder_reload
  <2>1. UNCHANGED <<captured, srcq, fhand, fout, eout, encoded>> /\ ehand = NoFrame /\ eout = NoFrame
    BY <1>7 DEF encoder_loop, encoder_reload, HandInv, sourceVars, filterVars
  <2>2. CASE dstq' = dstq /\ ehand' = ehand
    BY <2>1, <2>2 DEF OrderInv, OnTheWay
  <2>3. CASE encoder_take
    <3>1. /\ Sorted(dstq') /\ Elems(dstq') \subseteq Elems(dstq)
          /\ ehand' \in Elems(dstq) /\ LT({ehand'}, Elems(dstq'))
      BY <2>3, TakeFirst DEF encoder_take, OrderInv, TypeOK
    <3>2. Has(ehand', eout') \subseteq {ehand'} /\ Has(ehand, eout) = {}
      BY <2>1 DEF Has
    <3> QED
      BY <2>1, <3>1, <3>2 DEF OrderInv, OnTheWay, LT, LE
  <2> QED
    BY <1>7, <2>2, <2>3 DEF encoder_loop, encoder_reload
<1>8. CASE encoder_release
  <2>1. Has(ehand', eout') \subseteq Has(ehand, eout)
    BY <1>8 DEF encoder_release, Has
  <2>2. UNCHANGED <<captured, srcq, dstq, fhand, fout, encoded>>
    BY <1>8 DEF encoder_release, sourceVars, filterVars
  <2> QED
    BY <2>1, <2>2 DEF OrderInv, OnTheWay, LT, LE
<1>9. CASE encoder_send
  <2>1. eout \in Has(ehand, eout) /\ encoded' \in {encoded, eout} /\ Has(ehand', eout') = {}
    BY <1>9 DEF encoder_send, HandInv, Has
  <2>2. UNCHANGED <<captured, srcq, dstq, fhand, fout>>
    BY <1>9 DEF encoder_send, sourceVars, filterVars
  <2> QED
    BY <2>1, <2>2 DEF OrderInv, OnTheWay, LT, LE
<1>10. CASE UNCHANGED <<captured, srcq, dstq, fhand, fout, ehand, eout, encoded>>
  BY <1>10 DEF OrderInv, OnTheWay
<1>11. CASE Source
  BY <1>1, <1>2, <1>10, <1>11 DEF Source, source_notify, encoderVars
<1>12. CASE Filter
  BY <1>3, <1>4, <1>5, <1>6, <1>10, <1>12
  DEF Filter, filter_register, filter_wait, filter_notify, sourceVars, encoderVars
<1>13. CASE Encoder
  BY <1>7, <1>8, <1>9, <1>10, <1>13
  DEF Encoder, encoder_register, encoder_timedwait, encoder_timeout, encoder_quit,
      sourceVars, filterVars
<1>14. CASE spurious_wakeup \/ Hub \/ UNCHANGED vars
  BY <1>10, <1>14
  DEF spurious_wakeup, Hub, launch, stop, join, vars, sourceVars, filterVars, encoderVars
<1> QED
  BY <1>11, <1>12, <1>13, <1>14 DEF Next

(* Every step of the threads keeps the invariant.                          *)
LEMMA StepKeeps ==
    ASSUME VideoInv, [Next]_vars
    PROVE  VideoInv'
BY HandsKeep, TypesKeep, OrderKeeps, NumbersKeep DEF VideoInv

(***************************************************************************)
(* The inductive invariant: the types, who owns what where, the order of   *)
(* the frames on their way, and the condition variables that are known.    *)
(***************************************************************************)
THEOREM VideoCorrect == Spec => []VideoInv
<1>1. Init => VideoInv
  BY InitHolds
<1>2. VideoInv /\ [Next]_vars => VideoInv'
  BY StepKeeps
<1> QED
  BY <1>1, <1>2, PTL DEF Spec

(***************************************************************************)
(* However sessions, failures and wake-ups fall, the condmap holds no      *)
(* condition variable of an encoder thread that is gone.                   *)
(***************************************************************************)
THEOREM CondMapLiveCorrect == Spec => []CondMapLive
<1>1. VideoInv => CondMapLive
  BY DEF VideoInv
<1> QED
  BY <1>1, VideoCorrect, PTL

(***************************************************************************)
(* For pools of any size, each frame that is sent was captured after the   *)
(* one sent before it: none is sent out of order and none a second time.   *)
(***************************************************************************)
THEOREM EncodedInOrderCorrect == Spec => EncodedInOrder
<1> DEFINE Later == epc = "send" /\ epc' = "loop" => Earlier(encoded, encoded')
<1>1. ASSUME VideoInv, [Next]_vars PROVE Later
  <2> SUFFICES ASSUME epc = "send", epc' = "loop" PROVE Earlier(encoded, encoded')
    OBVIOUS
  <2>1. encoder_send
    BY <1>1
    DEF Next, Source, Filter, Encoder, Hub, spurious_wakeup, launch, stop, join,
        source_allocate, source_store, source_notify, filter_register, filter_load,
        filter_wait, filter_reload, filter_allocate, filter_release, filter_store,
        filter_notify, encoder_register, encoder_loop, encoder_timedwait,
        encoder_timeout, encoder_reload, encoder_release, encoder_quit, vars, encoderVars
  <2>2. encoded' = eout
    BY <2>1 DEF encoder_send
  <2>3. eout \in Has(ehand, eout)
    BY <1>1 DEF VideoInv, HandInv, Has
  <2> QED
    BY <1>1, <2>2, <2>3 DEF VideoInv, OrderInv, LT
<1>2. VideoInv /\ [Next]_vars => [Later]_vars
  BY <1>1
<1> QED
  BY <1>2, VideoCorrect, PTL DEF Spec, EncodedInOrder

(***************************************************************************)
(* Two buffers are enough for each pool: no thread that allocates finds    *)
(* them all taken.                                                         *)
(***************************************************************************)
THEOREM PoolNeverExhaustedCorrect == Spec => []PoolNeverExhausted
<1>1. Init => PoolNeverExhausted
  BY DEF Init, PoolNeverExhausted
<1>2. ASSUME PoolNeverExhausted, [Next]_vars PROVE PoolNeverExhausted'
  <2> SUFFICES ASSUME PoolSize >= 2 PROVE exited' # "pool"
    BY DEF PoolNeverExhausted
  <2>1. \A q, x : Allocatable(q, Held(x))
    BY VideoAssumption DEF Allocatable, Held
  <2>2. CASE Next
    BY <1>2, <2>1, <2>2
    DEF PoolNeverExhausted, Next, Source, Filter, Encoder, Hub, spurious_wakeup, launch,
        stop, join, source_allocate, source_store, source_notify, filter_register,
        filter_load, filter_take, filter_wait, filter_reload, filter_allocate,
        filter_release, filter_store, filter_notify, encoder_register, encoder_loop,
        encoder_timedwait, encoder_timeout, encoder_reload, encoder_release,
        encoder_send, encoder_quit
  <2>3. CASE UNCHANGED vars
    BY <1>2, <2>3 DEF PoolNeverExhausted, vars
  <2> QED
    BY <1>2, <2>2, <2>3
<1> QED
  BY <1>1, <1>2, PTL DEF Spec

-----------------------------------------------------------------------------
(* A step that touches the first pipeline is a step of its queue.          *)
LEMMA SrcStep ==
    ASSUME VideoInv, [Next]_vars
    PROVE  [Src!LQNext]_(Src!lqvars)
<1> USE DEF VideoInv
<1>1. CASE UNCHANGED <<srcq, fhand>>
  BY <1>1 DEF Src!lqvars
<1>2. CASE source_allocate
  <2>1. Held(fhand) \in 0..1 /\ fhand' = fhand
    BY <1>2 DEF Held, source_allocate, filterVars
  <2>2. \/ srcq' = srcq
        \/ srcq # <<>> /\ Len(srcq) >= PoolSize - 1 /\ srcq' = Tail(srcq)
    BY <1>2, <2>1, AllocateLoses DEF source_allocate, TypeOK
  <2> QED
    BY <2>1, <2>2 DEF Src!LQNext, Src!LoseEldest, Src!lqvars
<1>3. CASE source_store
  <2>1. captured' \in Frame
    BY <1>3, VideoAssumption DEF source_store, TypeOK, Frame
  <2>2. srcq' = Append(srcq, captured') /\ fhand' = fhand
    BY <1>3 DEF source_store, filterVars
  <2> QED
    BY <2>1, <2>2 DEF Src!LQNext, Src!Put
<1>4. CASE filter_take /\ fhand = NoFrame
  BY <1>4 DEF filter_take, Src!LQNext, Src!Take
<1>5. CASE filter_release
  BY <1>5 DEF filter_release, HandInv, Src!LQNext, Src!GiveBack
<1>6. CASE Source
  BY <1>1, <1>2, <1>3, <1>6 DEF Source, source_notify
<1>7. CASE Filter
  BY <1>1, <1>4, <1>5, <1>7
  DEF Filter, HandInv, filter_register, filter_load, filter_wait, filter_reload,
      filter_allocate, filter_store, filter_notify
<1>8. CASE Encoder \/ spurious_wakeup \/ Hub \/ UNCHANGED vars
  BY <1>1, <1>8
  DEF Encoder, encoder_register, encoder_loop, encoder_timedwait, encoder_timeout,
      encoder_reload, encoder_release, encoder_send, encoder_quit, spurious_wakeup, Hub,
      launch, stop, join, vars, filterVars
<1> QED
  BY <1>6, <1>7, <1>8 DEF Next

(* The same for the second pipeline.                                       *)
LEMMA DstStep ==
    ASSUME VideoInv, [Next]_vars
    PROVE  [Dst!LQNext]_(Dst!lqvars)
<1> USE DEF VideoInv
<1>1. CASE UNCHANGED <<dstq, ehand>>
  BY <1>1 DEF Dst!lqvars
<1>2. CASE filter_allocate
  <2>1. Held(ehand) \in 0..1 /\ ehand' = ehand
    BY <1>2 DEF Held, filter_allocate, encoderVars
  <2>2. \/ dstq' = dstq
        \/ dstq # <<>> /\ Len(dstq) >= PoolSize - 1 /\ dstq' = Tail(dstq)
    BY <1>2, <2>1, AllocateLoses DEF filter_allocate, TypeOK
  <2> QED
    BY <2>1, <2>2 DEF Dst!LQNext, Dst!LoseEldest, Dst!lqvars
<1>3. CASE filter_store
  <2>1. fout \in Frame
    BY <1>3 DEF filter_store, TypeOK, HandInv
  <2>2. dstq' = Append(dstq, fout) /\ ehand' = ehand
    BY <1>3 DEF filter_store, encoderVars
  <2> QED
    BY <2>1, <2>2 DEF Dst!LQNext, Dst!Put
<1>4. CASE encoder_take /\ ehand = NoFrame
  BY <1>4 DEF encoder_take, Dst!LQNext, Dst!Take
<1>5. CASE encoder_release
  BY <1>5 DEF encoder_release, HandInv, Dst!LQNext, Dst!GiveBack
<1>6. CASE Source
  BY <1>1, <1>6 DEF Source, source_allocate, source_store, source_notify, encoderVars
<1>7. CASE Filter
  BY <1>1, <1>2, <1>3, <1>7
  DEF Filter, filter_register, filter_load, filter_wait, filter_reload,
      filter_release, filter_notify, encoderVars
<1>8. CASE Encoder
  BY <1>1, <1>4, <1>5, <1>8
  DEF Encoder, HandInv, encoder_register, encoder_loop, encoder_timedwait, encoder_timeout,
      encoder_reload, encoder_send, encoder_quit
<1>9. CASE spurious_wakeup \/ Hub \/ UNCHANGED vars
  BY <1>1, <1>9 DEF spurious_wakeup, Hub, launch, stop, join, vars, encoderVars
<1> QED
  BY <1>6, <1>7, <1>8, <1>9 DEF Next

(***************************************************************************)
(* Each pipeline, with the threads that share it, implements the queue     *)
(* that Pipeline provides (ServerStartProofs).                             *)
(***************************************************************************)
THEOREM PipesCorrect == Spec => PipesAreLossyQueues
<1>1. Init => Src!LQInit /\ Dst!LQInit
  BY DEF Init, Src!LQInit, Dst!LQInit
<1>2. VideoInv /\ [Next]_vars => [Src!LQNext]_(Src!lqvars)
  BY SrcStep
<1>3. VideoInv /\ [Next]_vars => [Dst!LQNext]_(Dst!lqvars)
  BY DstStep
<1> QED
  BY <1>1, <1>2, <1>3, VideoCorrect, PTL
  DEF Spec, PipesAreLossyQueues, Src!LQSpec, Dst!LQSpec

-----------------------------------------------------------------------------
(***************************************************************************)
(* The client hands whole units to the decoder, whatever their sizes.      *)
(***************************************************************************)
(* A piece, on its way or in the buffer.                                   *)
Piece == [unit : Nat, part : Nat, size : Nat, last : BOOLEAN]

UnitTypeOK ==
    /\ coming \in Seq(Piece) /\ privbuf \in Seq(Piece) /\ received \in Seq(Piece)
    /\ decoded \in Seq(Seq(Piece))
    /\ unit \in Nat /\ epoch \in Nat
    /\ lastpts \in Nat \X Nat
    /\ video_framing \in {0, StartCode}
    /\ marred \subseteq 1..unit

(* What is on its way is the end of the last unit.                         *)
EndOfUnit ==
    \A i \in 1..Len(coming) :
        /\ unit > 0 /\ coming[i].unit = unit
        /\ coming[i].part = coming[1].part + i - 1 /\ coming[1].part > 0
        /\ coming[i].last = (i = Len(coming))

(* The buffer holds pieces of the unit of its stamp.                       *)
OneUnitEach ==
    /\ \A i \in 1..Len(privbuf) : privbuf[i].unit = lastpts[2]
    /\ lastpts[2] <= unit
    /\ coming # <<>> /\ coming[1].part = 1 => lastpts[2] < unit
    /\ \A k \in 1..Len(decoded) : decoded[k] # <<>> /\ OfOneUnit(decoded[k])

HandedOver == FlattenSeq(decoded) \o privbuf = received

(* A unit that is whole so far has its first pieces in the buffer, with    *)
(* room for the rest.                                                      *)
FramedSizes(pieces) == [i \in 1..Len(pieces) |-> pieces[i].size + video_framing]

WholeSoFar ==
    coming # <<>> /\ unit \notin marred =>
        IF coming[1].part = 1
        THEN Total(FramedSizes(coming)) <= PrivateSize
        ELSE /\ Len(privbuf) = coming[1].part - 1
             /\ lastpts = <<epoch, unit>>
             /\ Size(privbuf) + Total(FramedSizes(coming)) <= PrivateSize

HandedWhole(u, handed) ==
    \E k \in 1..Len(handed) :
        /\ Head(handed[k]).unit = u
        /\ Last(handed[k]).last /\ Last(handed[k]).part = Len(handed[k])

AllWhole == \A u \in (1..unit) \ marred : u < unit \/ coming = <<>> => HandedWhole(u, decoded)

UnitInv ==
    UnitTypeOK /\ EndOfUnit /\ OneUnitEach /\ HandedOver /\ WholeSoFar /\ AllWhole

-----------------------------------------------------------------------------
(* Sizes are numbers, and a unit has a piece.                              *)
LEMMA UnitSizesFit ==
    /\ ReceiveSize \in Nat /\ StartCode \in Nat /\ PrivateSize \in Nat
    /\ video_framing \in {0, StartCode} => video_framing \in Nat
    /\ \A sizes \in UnitSizes : sizes \in Seq(Nat) /\ sizes # <<>>
  BY UnitAssumption

(* A function on the positions of a sequence is a sequence.                *)
LEMMA Mapped ==
    ASSUME NEW S, NEW n \in Nat, NEW f \in [1..n -> S]
    PROVE  f \in Seq(S) /\ Len(f) = n
  BY IsASeq

(* The size of pieces is a number, the sum of a sequence of theirs.        *)
LEMMA SizeType ==
    ASSUME NEW s \in Seq(Piece)
    PROVE  /\ Size(s) \in Nat
           /\ [i \in 1..Len(s) |-> s[i].size] \in Seq(Nat)
           /\ Len([i \in 1..Len(s) |-> s[i].size]) = Len(s)
<1> DEFINE f == [i \in 1..Len(s) |-> s[i].size]
<1>1. \A i \in 1..Len(s) : s[i].size \in Nat
  <2>1. \A i \in 1..Len(s) : s[i] \in Piece
    BY ElementOfSeq
  <2>2. \A p \in Piece : p.size \in Nat
    BY DEF Piece
  <2>3. QED
    BY <2>1, <2>2
<1>2. Len(s) \in Nat /\ f \in [1..Len(s) -> Nat]
  BY <1>1, LenProperties
<1>3. f \in Seq(Nat) /\ Len(f) = Len(s)
  BY <1>2, Mapped
<1>4. QED
  BY <1>3, TotalType DEF Size

(* One more piece adds its size.                                           *)
LEMMA SizeAppend ==
    ASSUME NEW s \in Seq(Piece), NEW p \in Piece
    PROVE  Size(Append(s, p)) = Size(s) + p.size
<1> DEFINE a == Append(s, p)
           f == [i \in 1..Len(s) |-> s[i].size]
           g == [i \in 1..Len(a) |-> a[i].size]
<1>1. /\ a \in Seq(Piece) /\ Len(a) = Len(s) + 1 /\ Len(s) \in Nat
      /\ \A i \in 1..Len(s) : a[i] = s[i]
      /\ a[Len(s) + 1] = p
  BY AppendProperties, LenProperties
<1>2. f \in Seq(Nat) /\ Len(f) = Len(s) /\ g \in Seq(Nat) /\ Len(g) = Len(a)
  BY <1>1, SizeType
<1>3. p.size \in Nat
  BY DEF Piece
<1>4. /\ Append(f, p.size) \in Seq(Nat) /\ Len(Append(f, p.size)) = Len(s) + 1
      /\ \A i \in 1..Len(s) : Append(f, p.size)[i] = f[i]
      /\ Append(f, p.size)[Len(s) + 1] = p.size
  BY <1>2, <1>3, AppendProperties
<1>5. \A i \in 1..Len(s) + 1 : g[i] = Append(f, p.size)[i]
  <2> TAKE i \in 1..Len(s) + 1
  <2>1. g[i] = a[i].size
    BY <1>1
  <2>2. CASE i \in 1..Len(s)
    BY <1>1, <1>4, <2>1, <2>2
  <2>3. CASE i = Len(s) + 1
    BY <1>1, <1>4, <2>1, <2>3
  <2>4. QED
    BY <1>1, <2>2, <2>3
<1>6. g = Append(f, p.size)
  <2> HIDE DEF f, g, a
  <2>1. QED
    BY <1>1, <1>2, <1>4, <1>5, SeqEqual
<1>7. Total(Append(f, p.size)) = Total(f) + p.size
  BY <1>2, <1>3, TotalAppend
<1>8. QED
  BY <1>6, <1>7 DEF Size

(* What pieces take with their framing is a sequence of numbers.           *)
LEMMA FramedType ==
    ASSUME NEW s \in Seq(Piece), video_framing \in Nat
    PROVE  /\ FramedSizes(s) \in Seq(Nat) /\ Len(FramedSizes(s)) = Len(s)
           /\ \A i \in 1..Len(s) : FramedSizes(s)[i] = s[i].size + video_framing
           /\ Total(FramedSizes(s)) \in Nat
<1>1. \A i \in 1..Len(s) : s[i].size \in Nat
  <2>1. \A i \in 1..Len(s) : s[i] \in Piece
    BY ElementOfSeq
  <2>2. \A p \in Piece : p.size \in Nat
    BY DEF Piece
  <2>3. QED
    BY <2>1, <2>2
<1>2. Len(s) \in Nat /\ FramedSizes(s) \in [1..Len(s) -> Nat]
  BY <1>1, LenProperties DEF FramedSizes
<1>3. FramedSizes(s) \in Seq(Nat) /\ Len(FramedSizes(s)) = Len(s)
  BY <1>2, Mapped
<1>4. QED
  BY <1>3, TotalType DEF FramedSizes

(* What the next piece takes and what the others take.                     *)
LEMMA FramedHead ==
    ASSUME NEW s \in Seq(Piece), s # <<>>, video_framing \in Nat
    PROVE  Total(FramedSizes(s)) = (s[1].size + video_framing) + Total(FramedSizes(Tail(s)))
<1>1. /\ Tail(s) \in Seq(Piece) /\ Len(Tail(s)) = Len(s) - 1 /\ Len(s) \in Nat \ {0}
      /\ \A i \in 1..Len(Tail(s)) : Tail(s)[i] = s[i+1]
  BY HeadTailProperties, LenProperties, EmptySeq
<1>2. /\ FramedSizes(s) \in Seq(Nat) /\ Len(FramedSizes(s)) = Len(s)
      /\ \A i \in 1..Len(s) : FramedSizes(s)[i] = s[i].size + video_framing
  BY FramedType, SMTT(30)
<1>3. /\ FramedSizes(Tail(s)) \in Seq(Nat) /\ Len(FramedSizes(Tail(s))) = Len(s) - 1
      /\ \A i \in 1..Len(s) - 1 : FramedSizes(Tail(s))[i] = Tail(s)[i].size + video_framing
  BY <1>1, FramedType
<1>4. FramedSizes(s) # <<>> /\ Head(FramedSizes(s)) = s[1].size + video_framing
  BY <1>1, <1>2, EmptySeq
<1>5. /\ Tail(FramedSizes(s)) \in Seq(Nat) /\ Len(Tail(FramedSizes(s))) = Len(s) - 1
      /\ \A i \in 1..Len(s) - 1 : Tail(FramedSizes(s))[i] = FramedSizes(s)[i+1]
  BY <1>2, <1>4, HeadTailProperties
<1>6. \A i \in 1..Len(s) - 1 : Tail(FramedSizes(s))[i] = FramedSizes(Tail(s))[i]
  BY <1>1, <1>2, <1>3, <1>5
<1>7. Tail(FramedSizes(s)) = FramedSizes(Tail(s))
  BY <1>3, <1>5, <1>6, SeqEqual
<1>8. QED
  BY <1>2, <1>4, <1>7, TotalHead

(* The pieces of a unit, and what they take with their framing.            *)
LEMMA PiecesOfUnit ==
    ASSUME NEW u \in Nat, NEW sizes \in UnitSizes, video_framing \in Nat
    PROVE  /\ PiecesOf(u, sizes) \in Seq(Piece)
           /\ Len(PiecesOf(u, sizes)) = Len(sizes) /\ Len(sizes) \in Nat \ {0}
           /\ \A i \in 1..Len(sizes) :
                /\ PiecesOf(u, sizes)[i].unit = u
                /\ PiecesOf(u, sizes)[i].part = i
                /\ PiecesOf(u, sizes)[i].last = (i = Len(sizes))
           /\ Size(PiecesOf(u, Framed(sizes))) = Total(FramedSizes(PiecesOf(u, sizes)))
<1>1. sizes \in Seq(Nat) /\ Len(sizes) \in Nat \ {0} /\ \A i \in 1..Len(sizes) : sizes[i] \in Nat
  BY UnitSizesFit, EmptySeq, ElementOfSeq
<1>2. PiecesOf(u, sizes) \in [1..Len(sizes) -> Piece]
  BY <1>1 DEF PiecesOf, Piece
<1>3. PiecesOf(u, sizes) \in Seq(Piece) /\ Len(PiecesOf(u, sizes)) = Len(sizes)
  BY <1>1, <1>2, Mapped
<1>4. Framed(sizes) \in [1..Len(sizes) -> Nat]
  BY <1>1 DEF Framed
<1>5. Framed(sizes) \in Seq(Nat) /\ Len(Framed(sizes)) = Len(sizes)
  BY <1>1, <1>4, Mapped
<1>6. PiecesOf(u, Framed(sizes)) \in [1..Len(sizes) -> Piece]
  BY <1>1, <1>4, <1>5 DEF PiecesOf, Piece
<1>7. Len(PiecesOf(u, Framed(sizes))) = Len(sizes)
  BY <1>1, <1>6, Mapped
<1>8. [i \in 1..Len(PiecesOf(u, Framed(sizes))) |-> PiecesOf(u, Framed(sizes))[i].size]
      = FramedSizes(PiecesOf(u, sizes))
  BY <1>3, <1>5, <1>7 DEF FramedSizes, Framed, PiecesOf
<1>9. Size(PiecesOf(u, Framed(sizes))) = Total(FramedSizes(PiecesOf(u, sizes)))
  BY <1>8 DEF Size
<1>10. \A i \in 1..Len(sizes) : /\ PiecesOf(u, sizes)[i].unit = u
                                /\ PiecesOf(u, sizes)[i].part = i
                                /\ PiecesOf(u, sizes)[i].last = (i = Len(sizes))
  BY DEF PiecesOf
<1>11. QED
  BY <1>1, <1>3, <1>9, <1>10

-----------------------------------------------------------------------------
(* Nothing is on its way at first.                                         *)
LEMMA UnitInvInit == UnitInit => UnitInv
<1> SUFFICES ASSUME UnitInit PROVE UnitInv
  OBVIOUS
<1> USE DEF UnitInit
<1>1. UnitTypeOK /\ Len(<<>>) = 0
  BY EmptySeq DEF UnitTypeOK
<1>2. EndOfUnit /\ OneUnitEach
  BY <1>1 DEF EndOfUnit, OneUnitEach
<1>3. HandedOver
  BY FlattenEmpty, ConcatEmptySeq, EmptySeq DEF HandedOver
<1>4. WholeSoFar /\ AllWhole
  BY DEF WholeSoFar, AllWhole
<1>5. QED
  BY <1>1, <1>2, <1>3, <1>4 DEF UnitInv

(* A new unit comes behind whole ones.                                     *)
LEMMA SendKeeps == ASSUME UnitInv, send_unit PROVE UnitInv'
<1> USE DEF UnitInv
<1>1. PICK sizes \in UnitSizes :
        /\ coming' = PiecesOf(unit + 1, sizes)
        /\ marred' = marred \cup
             (IF Size(PiecesOf(unit + 1, Framed(sizes))) > PrivateSize THEN {unit + 1} ELSE {})
  BY DEF send_unit
<1>2. /\ coming = <<>> /\ unit' = unit + 1 /\ unit \in Nat /\ unit + 1 \in Nat
      /\ epoch' = epoch /\ video_framing' = video_framing /\ privbuf' = privbuf
      /\ lastpts' = lastpts /\ received' = received /\ decoded' = decoded
      /\ video_framing \in Nat
  BY UnitSizesFit DEF send_unit, UnitTypeOK
<1>3. /\ coming' \in Seq(Piece) /\ Len(coming') = Len(sizes) /\ Len(sizes) \in Nat \ {0}
      /\ \A i \in 1..Len(sizes) : /\ coming'[i].unit = unit + 1
                                  /\ coming'[i].part = i
                                  /\ coming'[i].last = (i = Len(sizes))
      /\ Size(PiecesOf(unit + 1, Framed(sizes))) = Total(FramedSizes(coming'))
  BY <1>1, <1>2, PiecesOfUnit
<1>4. coming' # <<>> /\ coming'[1].part = 1
  BY <1>3, EmptySeq
<1>5. UnitTypeOK'
  BY <1>1, <1>2, <1>3 DEF UnitTypeOK
<1>6. EndOfUnit'
  BY <1>2, <1>3 DEF EndOfUnit
<1>7. OneUnitEach'
  <2>1. lastpts[2] \in Nat /\ lastpts[2] <= unit
    BY DEF UnitTypeOK, OneUnitEach
  <2>2. lastpts[2] < unit + 1 /\ lastpts[2] <= unit + 1
    BY <1>2, <2>1
  <2>3. QED
    BY <1>2, <2>2 DEF OneUnitEach, OfOneUnit
<1>8. HandedOver'
  BY <1>2 DEF HandedOver
<1>9. WholeSoFar'
  <2>1. FramedSizes(coming)' = FramedSizes(coming')
    BY <1>2 DEF FramedSizes
  <2>2. Total(FramedSizes(coming')) \in Nat
    BY <1>2, <1>3, FramedType
  <2>3. unit + 1 \notin marred' => Total(FramedSizes(coming')) <= PrivateSize
    BY <1>1, <1>3, <2>2, UnitSizesFit
  <2>4. QED
    BY <1>2, <1>4, <2>1, <2>3 DEF WholeSoFar
<1>10. AllWhole'
  <2> SUFFICES ASSUME NEW u \in (1..unit + 1) \ marred', u < unit + 1
               PROVE  HandedWhole(u, decoded)
    BY <1>2, <1>4 DEF AllWhole, HandedWhole
  <2>1. u \in (1..unit) \ marred
    BY <1>1, <1>2
  <2>2. QED
    BY <1>2, <2>1 DEF AllWhole
<1>11. QED
  BY <1>5, <1>6, <1>7, <1>8, <1>9, <1>10

(* What is left when a piece has come or was lost.                         *)
LEMMA RestOfUnit ==
    ASSUME UnitTypeOK, EndOfUnit, coming # <<>>, coming' = Tail(coming), unit' = unit
    PROVE  /\ coming' \in Seq(Piece) /\ EndOfUnit'
           /\ coming' # <<>> => coming'[1].part = coming[1].part + 1
           /\ coming[1] \in Piece /\ Head(coming) = coming[1] /\ coming[1].part \in Nat \ {0}
           /\ unit > 0 /\ coming[1].unit = unit
           /\ coming[1].last = (coming' = <<>>)
<1>1. /\ coming' \in Seq(Piece) /\ Len(coming') = Len(coming) - 1 /\ Len(coming) \in Nat \ {0}
      /\ \A i \in 1..Len(coming') : coming'[i] = coming[i+1]
  BY HeadTailProperties, LenProperties, EmptySeq DEF UnitTypeOK
<1>2. coming[1] \in Piece /\ Head(coming) = coming[1] /\ coming[1].part \in Nat
  <2>1. coming[1] \in Piece
    BY <1>1, ElementOfSeq DEF UnitTypeOK
  <2>2. QED
    BY <2>1 DEF Piece
<1>3. coming' = <<>> <=> Len(coming') = 0
  BY <1>1, EmptySeq
<1>4. /\ coming[1].part > 0 /\ unit > 0 /\ coming[1].unit = unit
      /\ coming[1].last = (1 = Len(coming))
  <2>1. 1 \in 1..Len(coming)
    BY <1>1
  <2>2. QED
    BY <2>1, Zenon DEF EndOfUnit
<1>5. \A i \in 1..Len(coming') :
        /\ coming'[i].unit = unit
        /\ coming'[i].part = (coming[1].part + 1) + i - 1
        /\ coming'[i].last = (i = Len(coming'))
  <2> TAKE i \in 1..Len(coming')
  <2>1. i + 1 \in 1..Len(coming) /\ coming'[i] = coming[i+1]
    BY <1>1
  <2>2. /\ coming[i+1].unit = unit /\ coming[i+1].part = coming[1].part + (i+1) - 1
        /\ coming[i+1].last = (i + 1 = Len(coming))
    BY <2>1, Zenon DEF EndOfUnit
  <2>3. /\ (coming[1].part + 1) + i - 1 = coming[1].part + (i+1) - 1
        /\ i + 1 = Len(coming) <=> i = Len(coming')
    BY <1>1, <1>2
  <2>4. QED
    BY <2>1, <2>2, <2>3, Zenon
<1>6. coming' # <<>> => coming'[1].part = coming[1].part + 1
  <2> SUFFICES ASSUME coming' # <<>> PROVE coming'[1].part = coming[1].part + 1
    OBVIOUS
  <2>1. 1 \in 1..Len(coming')
    BY <1>1, <1>3
  <2>2. coming'[1].part = (coming[1].part + 1) + 1 - 1
    BY <1>5, <2>1
  <2>3. QED
    BY <1>2, <2>2
<1>7. EndOfUnit'
  <2> SUFFICES ASSUME NEW i \in 1..Len(coming')
               PROVE  /\ unit > 0 /\ coming'[i].unit = unit
                      /\ coming'[i].part = coming'[1].part + i - 1 /\ coming'[1].part > 0
                      /\ coming'[i].last = (i = Len(coming'))
    BY DEF EndOfUnit
  <2>1. coming'[1].part = coming[1].part + 1
    BY <1>1, <1>3, <1>6
  <2>2. QED
    BY <1>2, <1>4, <1>5, <2>1, SMTT(30)
<1>8. QED
  BY <1>1, <1>2, <1>3, <1>4, <1>6, <1>7, SMTT(30)

(* A lost piece mars its unit.                                             *)
LEMMA LossKeeps == ASSUME UnitInv, piece_lost PROVE UnitInv'
<1> USE DEF UnitInv
<1>1. /\ coming # <<>> /\ coming' = Tail(coming) /\ marred' = marred \cup {unit}
      /\ unit' = unit /\ epoch' = epoch /\ video_framing' = video_framing
      /\ privbuf' = privbuf /\ lastpts' = lastpts /\ received' = received /\ decoded' = decoded
  BY DEF piece_lost
<1>2. /\ coming' \in Seq(Piece) /\ EndOfUnit'
      /\ coming' # <<>> => coming'[1].part = coming[1].part + 1
      /\ coming[1].part \in Nat \ {0} /\ unit > 0
  BY <1>1, RestOfUnit
<1>3. UnitTypeOK'
  <2>1. marred' \subseteq 1..unit
    <3>1. unit \in 1..unit
      BY <1>2, SMTT(30) DEF UnitTypeOK
    <3>2. QED
      BY <1>1, <3>1 DEF UnitTypeOK
  <2>2. QED
    BY <1>1, <1>2, <2>1 DEF UnitTypeOK
<1>4. OneUnitEach'
  BY <1>1, <1>2, SMTT(30) DEF OneUnitEach, OfOneUnit
<1>5. HandedOver'
  BY <1>1 DEF HandedOver
<1>6. WholeSoFar'
  BY <1>1 DEF WholeSoFar
<1>7. AllWhole'
  <2> SUFFICES ASSUME NEW u \in (1..unit) \ marred' PROVE HandedWhole(u, decoded)
    BY <1>1 DEF AllWhole, HandedWhole
  <2>1. u \in (1..unit) \ marred /\ u < unit
    BY <1>1 DEF UnitTypeOK
  <2>2. QED
    BY <2>1 DEF AllWhole
<1>8. QED
  BY <1>2, <1>3, <1>4, <1>5, <1>6, <1>7

(* A report of the sender mars the unit that is on its way.                *)
LEMMA ReportKeeps == ASSUME UnitInv, sender_report PROVE UnitInv'
<1> USE DEF UnitInv
<1>1. /\ epoch' = epoch + 1 /\ unit' = unit /\ coming' = coming
      /\ marred' = marred \cup (IF coming # <<>> /\ Head(coming).part > 1 THEN {unit} ELSE {})
      /\ video_framing' = video_framing
      /\ privbuf' = privbuf /\ lastpts' = lastpts /\ received' = received /\ decoded' = decoded
  BY DEF sender_report
<1>2. coming # <<>> => /\ unit > 0 /\ Head(coming) = coming[1]
                       /\ coming[1].part \in Nat \ {0}
  <2> SUFFICES ASSUME coming # <<>>
               PROVE  unit > 0 /\ Head(coming) = coming[1] /\ coming[1].part \in Nat \ {0}
    OBVIOUS
  <2>1. Len(coming) \in Nat \ {0} /\ coming[1] \in Piece
    BY EmptySeq, ElementOfSeq DEF UnitTypeOK
  <2>2. unit > 0 /\ coming[1].part > 0
    BY <2>1 DEF EndOfUnit
  <2>3. QED
    BY <2>1, <2>2, SMTT(30) DEF Piece, UnitTypeOK
<1>3. UnitTypeOK'
  BY <1>1, <1>2 DEF UnitTypeOK
<1>4. EndOfUnit' /\ OneUnitEach' /\ HandedOver'
  BY <1>1 DEF EndOfUnit, OneUnitEach, OfOneUnit, HandedOver
<1>5. WholeSoFar'
  <2> SUFFICES ASSUME coming # <<>>, unit \notin marred'
               PROVE  coming[1].part = 1 /\ Total(FramedSizes(coming)) <= PrivateSize
    BY <1>1 DEF WholeSoFar, FramedSizes
  <2>1. coming[1].part = 1 /\ unit \notin marred
    BY <1>1, <1>2
  <2>2. QED
    BY <2>1 DEF WholeSoFar
<1>6. AllWhole'
  BY <1>1, <1>2 DEF AllWhole, HandedWhole, UnitTypeOK
<1>7. QED
  BY <1>3, <1>4, <1>5, <1>6

-----------------------------------------------------------------------------
(* An empty buffer takes nothing.                                          *)
LEMMA SizeEmpty == Size(<<>>) = 0
<1>1. <<>> \in Seq(Piece) /\ Len(<<>>) = 0
  BY EmptySeq
<1>2. [i \in 1..Len(<<>>) |-> <<>>[i].size] \in Seq(Nat)
      /\ Len([i \in 1..Len(<<>>) |-> <<>>[i].size]) = 0
  BY <1>1, SizeType
<1>3. [i \in 1..Len(<<>>) |-> <<>>[i].size] = <<>>
  BY <1>2, EmptySeq
<1>4. QED
  BY <1>3, TotalEmpty DEF Size

(* What was handed over whole stays so.                                    *)
LEMMA HandedStays ==
    ASSUME NEW d \in Seq(Seq(Piece)), NEW s \in Seq(Piece), NEW u, HandedWhole(u, d)
    PROVE  HandedWhole(u, Append(d, s))
<1>1. PICK k \in 1..Len(d) : /\ Head(d[k]).unit = u
                             /\ Last(d[k]).last /\ Last(d[k]).part = Len(d[k])
  BY DEF HandedWhole
<1>2. k \in 1..Len(Append(d, s)) /\ Append(d, s)[k] = d[k]
  BY AppendProperties, LenProperties
<1>3. QED
  BY <1>1, <1>2 DEF HandedWhole

(* Each unit of a longer list was in the list or is the last.              *)
LEMMA OneMoreUnit ==
    ASSUME NEW d \in Seq(Seq(Piece)), NEW s \in Seq(Piece), s # <<>>, OfOneUnit(s),
           \A k \in 1..Len(d) : d[k] # <<>> /\ OfOneUnit(d[k])
    PROVE  /\ Append(d, s) \in Seq(Seq(Piece))
           /\ \A k \in 1..Len(Append(d, s)) : Append(d, s)[k] # <<>> /\ OfOneUnit(Append(d, s)[k])
<1>1. /\ Append(d, s) \in Seq(Seq(Piece)) /\ Len(Append(d, s)) = Len(d) + 1 /\ Len(d) \in Nat
      /\ \A i \in 1..Len(d) : Append(d, s)[i] = d[i]
      /\ Append(d, s)[Len(d) + 1] = s
  BY AppendProperties, LenProperties
<1>2. QED
  BY <1>1

(* What there is once what is of another unit was handed over.             *)
HandingOver(buf, handed) ==
    /\ buf \in Seq(Piece) /\ handed \in Seq(Seq(Piece))
    /\ \A i \in 1..Len(buf) : buf[i].unit = unit
    /\ \A k \in 1..Len(handed) : handed[k] # <<>> /\ OfOneUnit(handed[k])
    /\ FlattenSeq(handed) \o buf = received
    /\ \A u : HandedWhole(u, decoded) => HandedWhole(u, handed)

(* What is in the buffer for a piece with the stamp of the last unit, and  *)
(* what is handed over before it.                                          *)
LEMMA Flushed ==
    ASSUME UnitInv
    PROVE  HandingOver(FlushedBuf(<<epoch, unit>>), FlushedTo(<<epoch, unit>>))
<1> USE DEF UnitInv
<1> DEFINE pts == <<epoch, unit>>
<1>1. privbuf \in Seq(Piece) /\ decoded \in Seq(Seq(Piece)) /\ <<>> \in Seq(Piece) /\ Len(<<>>) = 0
  BY EmptySeq DEF UnitTypeOK
<1>2. OfOneUnit(privbuf)
  BY DEF OneUnitEach, OfOneUnit
<1>3. \A k \in 1..Len(decoded) : decoded[k] # <<>> /\ OfOneUnit(decoded[k])
  BY DEF OneUnitEach
<1>4. CASE pts = lastpts
  <2>1. FlushedBuf(pts) = privbuf /\ FlushedTo(pts) = decoded
    BY <1>4 DEF FlushedBuf, FlushedTo, SameStamp
  <2>2. \A i \in 1..Len(privbuf) : privbuf[i].unit = unit
    BY <1>4 DEF OneUnitEach
  <2>3. QED
    BY <1>1, <1>3, <2>1, <2>2 DEF HandedOver, HandingOver
<1>5. CASE pts # lastpts /\ privbuf = <<>>
  <2>1. FlushedBuf(pts) = privbuf /\ FlushedTo(pts) = decoded
    BY <1>5 DEF FlushedBuf, FlushedTo, SameStamp
  <2>2. \A i \in 1..Len(privbuf) : privbuf[i].unit = unit
    BY <1>1, <1>5
  <2>3. QED
    BY <1>1, <1>3, <2>1, <2>2 DEF HandedOver, HandingOver
<1>6. CASE pts # lastpts /\ privbuf # <<>>
  <2>1. FlushedBuf(pts) = <<>> /\ FlushedTo(pts) = Append(decoded, privbuf)
    BY <1>6 DEF FlushedBuf, FlushedTo, SameStamp, play_video_priv
  <2>2. /\ Append(decoded, privbuf) \in Seq(Seq(Piece))
        /\ \A k \in 1..Len(Append(decoded, privbuf)) :
             Append(decoded, privbuf)[k] # <<>> /\ OfOneUnit(Append(decoded, privbuf)[k])
    BY <1>1, <1>2, <1>3, <1>6, OneMoreUnit
  <2>3. FlattenSeq(Append(decoded, privbuf)) \o <<>> = received
    <3>1. FlattenSeq(Append(decoded, privbuf)) = received
      BY <1>1, FlattenAppend DEF HandedOver
    <3>2. received \in Seq(Piece)
      BY DEF UnitTypeOK
    <3>3. QED
      BY <3>1, <3>2, ConcatEmptySeq
  <2>4. \A u : HandedWhole(u, decoded) => HandedWhole(u, Append(decoded, privbuf))
    BY <1>1, HandedStays
  <2>5. QED
    <3>1. \A i \in 1..Len(<<>>) : <<>>[i].unit = unit
      BY <1>1
    <3>2. HandingOver(<<>>, Append(decoded, privbuf))
      BY <1>1, <2>2, <2>3, <2>4, <3>1, Zenon DEF HandingOver
    <3>3. QED
      BY <2>1, <3>2
<1>7. QED
  BY <1>4, <1>5, <1>6

(* The room there is for a piece of a unit that is whole so far.           *)
LEMMA RoomForPiece ==
    ASSUME UnitInv, coming # <<>>, unit \notin marred
    PROVE  /\ Len(FlushedBuf(<<epoch, unit>>)) = coming[1].part - 1
           /\ Size(FlushedBuf(<<epoch, unit>>)) + Total(FramedSizes(coming)) <= PrivateSize
<1> USE DEF UnitInv
<1>1. CASE coming[1].part = 1
  <2>1. lastpts[2] < unit /\ lastpts[2] \in Nat /\ unit \in Nat
    BY <1>1 DEF OneUnitEach, UnitTypeOK
  <2>2. <<epoch, unit>> # lastpts
    BY <2>1
  <2>3. FlushedBuf(<<epoch, unit>>) = <<>>
    BY <2>2 DEF FlushedBuf, SameStamp
  <2>4. Total(FramedSizes(coming)) <= PrivateSize
    BY <1>1 DEF WholeSoFar
  <2>5. Total(FramedSizes(coming)) \in Nat
    BY FramedType, UnitSizesFit DEF UnitTypeOK
  <2>6. QED
    BY <1>1, <2>3, <2>4, <2>5, SizeEmpty, EmptySeq
<1>2. CASE coming[1].part # 1
  BY <1>2 DEF WholeSoFar, FlushedBuf, SameStamp
<1>3. QED
  BY <1>1, <1>2

(* A piece that fits is put behind the others of its unit, which is handed *)
(* over with its last piece; what is there of another unit was before.     *)
LEMMA ArrivalKeeps == ASSUME UnitInv, afterGettingFrame PROVE UnitInv'
<1> USE DEF UnitInv
<1> DEFINE p     == coming[1]
           size  == IF p.size <= ReceiveSize THEN p.size ELSE ReceiveSize
           piece == [p EXCEPT !.size = video_framing + size]
           pts   == <<epoch, unit>>
           buf   == Append(FlushedBuf(pts), piece)
<1>1. /\ coming # <<>> /\ coming' = Tail(coming)
      /\ unit' = unit /\ epoch' = epoch /\ video_framing' = video_framing
  BY DEF afterGettingFrame
<1>2. /\ coming' \in Seq(Piece) /\ EndOfUnit'
      /\ coming' # <<>> => coming'[1].part = p.part + 1
      /\ p \in Piece /\ Head(coming) = p /\ p.part \in Nat \ {0}
      /\ unit > 0 /\ p.unit = unit
      /\ p.last = (coming' = <<>>)
  BY <1>1, RestOfUnit
<1>3. /\ play_video(piece, pts)
      /\ marred' = marred \cup (IF size < p.size \/ piece.size = 0 THEN {unit} ELSE {})
  BY <1>2 DEF afterGettingFrame
<1>4. /\ video_framing \in Nat /\ size \in Nat /\ size <= ReceiveSize
      /\ video_framing + size <= PrivateSize
      /\ piece \in Piece /\ piece.size = video_framing + size
      /\ piece.unit = unit /\ piece.part = p.part /\ piece.last = p.last
  <2>1. video_framing \in Nat /\ video_framing <= StartCode
    BY UnitSizesFit DEF UnitTypeOK
  <2>2. p.size \in Nat
    BY <1>2 DEF Piece
  <2>3. size \in Nat /\ size <= ReceiveSize
    BY <2>2, UnitSizesFit
  <2>4. video_framing + size <= PrivateSize
    BY <2>1, <2>3, UnitSizesFit, UnitAssumption
  <2>5. /\ piece \in Piece /\ piece.size = video_framing + size
        /\ piece.unit = unit /\ piece.part = p.part /\ piece.last = p.last
    <3> HIDE DEF size
    <3>1. QED
      BY <1>2, <2>1, <2>3, SMTT(30) DEF Piece
  <2>6. QED
    BY <2>1, <2>3, <2>4, <2>5
<1> HIDE DEF p, size, piece
<1>5. marred' \subseteq 1..unit /\ marred \subseteq marred' /\ marred' \subseteq marred \cup {unit}
      /\ unit \in Nat /\ epoch \in Nat
  BY <1>2, <1>3, SMTT(30) DEF UnitTypeOK
<1>6. HandingOver(FlushedBuf(pts), FlushedTo(pts))
  BY Flushed
<1>7. coming' # <<>> => coming'[1].part # 1
  BY <1>2
<1>8. lastpts[2] <= unit /\ unit \in Nat
  BY DEF OneUnitEach, UnitTypeOK
<1>9. ASSUME NEW handed, decoded' = handed,
             \A u : HandedWhole(u, decoded) => HandedWhole(u, handed),
             unit \in marred' \/ coming' # <<>> \/ HandedWhole(unit, handed)
      PROVE  AllWhole'
  <2> SUFFICES ASSUME NEW u \in (1..unit) \ marred', u < unit \/ coming' = <<>>
               PROVE  HandedWhole(u, handed)
    BY <1>1, <1>9 DEF AllWhole, HandedWhole
  <2>1. CASE u < unit
    BY <1>5, <1>9, <2>1 DEF AllWhole
  <2>2. CASE u = unit
    BY <1>9, <2>2
  <2>3. QED
    BY <1>5, <2>1, <2>2
<1>10. CASE empty_piece(piece)
  <2>1. /\ privbuf' = privbuf /\ lastpts' = lastpts /\ received' = received /\ decoded' = decoded
        /\ unit \in marred'
    BY <1>3, <1>10 DEF empty_piece
  <2>2. UnitTypeOK'
    BY <1>1, <1>2, <1>5, <2>1 DEF UnitTypeOK
  <2>3. OneUnitEach'
    BY <1>1, <1>7, <2>1 DEF OneUnitEach, OfOneUnit
  <2>4. HandedOver' /\ WholeSoFar'
    BY <1>1, <2>1 DEF HandedOver, WholeSoFar
  <2>5. AllWhole'
    BY <1>9, <2>1
  <2>6. QED
    BY <1>2, <2>2, <2>3, <2>4, <2>5
<1>11. CASE piece.size > 0 /\ append_piece(piece, pts)
  <2>1. /\ Size(buf) <= PrivateSize /\ lastpts' = pts /\ received' = Append(received, piece)
        /\ IF piece.last THEN decoded' = Append(FlushedTo(pts), buf) /\ privbuf' = <<>>
                         ELSE decoded' = FlushedTo(pts) /\ privbuf' = buf
    BY <1>11, Zenon DEF append_piece
  <2>2. /\ FlushedBuf(pts) \in Seq(Piece) /\ FlushedTo(pts) \in Seq(Seq(Piece))
        /\ \A i \in 1..Len(FlushedBuf(pts)) : FlushedBuf(pts)[i].unit = unit
        /\ \A k \in 1..Len(FlushedTo(pts)) :
             FlushedTo(pts)[k] # <<>> /\ OfOneUnit(FlushedTo(pts)[k])
        /\ FlattenSeq(FlushedTo(pts)) \o FlushedBuf(pts) = received
        /\ \A u : HandedWhole(u, decoded) => HandedWhole(u, FlushedTo(pts))
    BY <1>6, Zenon DEF HandingOver
  <2>3. /\ buf \in Seq(Piece) /\ Len(buf) = Len(FlushedBuf(pts)) + 1
        /\ Len(FlushedBuf(pts)) \in Nat
        /\ \A i \in 1..Len(FlushedBuf(pts)) : buf[i] = FlushedBuf(pts)[i]
        /\ buf[Len(FlushedBuf(pts)) + 1] = piece
    BY <1>4, <2>2, AppendProperties, LenProperties
  <2>4. (\A i \in 1..Len(buf) : buf[i].unit = unit) /\ buf # <<>> /\ OfOneUnit(buf)
    <3>1. \A i \in 1..Len(buf) : buf[i].unit = unit
      <4> TAKE i \in 1..Len(buf)
      <4>1. CASE i = Len(FlushedBuf(pts)) + 1
        BY <1>4, <2>3, <4>1
      <4>2. CASE i # Len(FlushedBuf(pts)) + 1
        <5>1. i \in 1..Len(FlushedBuf(pts)) /\ buf[i] = FlushedBuf(pts)[i]
          BY <2>3, <4>2
        <5>2. QED
          BY <2>2, <5>1
      <4>3. QED
        BY <4>1, <4>2
    <3>2. buf # <<>>
      BY <2>3, EmptySeq
    <3>3. QED
      BY <3>1, <3>2 DEF OfOneUnit
  <2>5. FlattenSeq(FlushedTo(pts)) \o buf = Append(received, piece)
        /\ Append(received, piece) \in Seq(Piece)
    <3>1. received \in Seq(Piece) /\ FlattenSeq(FlushedTo(pts)) \in Seq(Piece)
      BY <2>2, FlattenType DEF UnitTypeOK
    <3>2. Append(received, piece) = received \o <<piece>> /\ buf = FlushedBuf(pts) \o <<piece>>
          /\ Append(received, piece) \in Seq(Piece)
      BY <1>4, <2>2, <3>1, AppendIsConcat, AppendProperties, SMTT(30)
    <3>3. <<piece>> \in Seq(Piece)
      BY <1>4
    <3>4. (FlattenSeq(FlushedTo(pts)) \o FlushedBuf(pts)) \o <<piece>>
          = FlattenSeq(FlushedTo(pts)) \o (FlushedBuf(pts) \o <<piece>>)
      <4>1. Joined(FlattenSeq(FlushedTo(pts)), FlushedBuf(pts), <<piece>>)
        BY <2>2, <3>1, <3>3, AllJoined, Zenon
      <4>2. QED
        BY <4>1 DEF Joined
    <3>5. QED
      BY <2>2, <3>2, <3>4, Zenon
  <2>6. unit \notin marred' =>
          /\ Len(buf) = p.part
          /\ Size(buf) + Total(FramedSizes(Tail(coming))) <= PrivateSize
    <3> SUFFICES ASSUME unit \notin marred'
                 PROVE  /\ Len(buf) = p.part
                        /\ Size(buf) + Total(FramedSizes(Tail(coming))) <= PrivateSize
      OBVIOUS
    <3>1. unit \notin marred
      BY <1>5
    <3>2. /\ Len(FlushedBuf(pts)) = p.part - 1
          /\ Size(FlushedBuf(pts)) + Total(FramedSizes(coming)) <= PrivateSize
      BY <1>1, <3>1, RoomForPiece DEF p
    <3>3. Size(buf) = Size(FlushedBuf(pts)) + piece.size /\ Size(FlushedBuf(pts)) \in Nat
      BY <1>4, <2>2, SizeAppend, SizeType
    <3>4. size = p.size
      <4>1. ~(size < p.size)
        BY <1>3
      <4>2. size <= p.size
        BY <1>2, UnitSizesFit DEF size, Piece
      <4>3. p.size \in Nat
        BY <1>2 DEF Piece
      <4>4. QED
        BY <1>4, <4>1, <4>2, <4>3
    <3>5. Total(FramedSizes(coming)) = (p.size + video_framing) + Total(FramedSizes(Tail(coming)))
      BY <1>1, <1>4, FramedHead DEF UnitTypeOK, p
    <3>6. Total(FramedSizes(Tail(coming))) \in Nat
      BY <1>1, <1>2, <1>4, FramedType
    <3>7. p.size \in Nat /\ PrivateSize \in Nat
      BY <1>2, UnitSizesFit DEF Piece
    <3>8. Len(buf) = p.part
      BY <1>2, <2>3, <3>2
    <3>9. Size(buf) = Size(FlushedBuf(pts)) + (p.size + video_framing)
      BY <1>4, <3>3, <3>4, <3>7
    <3>10. QED
      <4> HIDE DEF buf
      <4>1. QED
        BY <1>4, <3>2, <3>3, <3>5, <3>6, <3>7, <3>8, <3>9, SMTT(30)
  <2>7. lastpts' \in Nat \X Nat /\ lastpts'[2] = unit
    BY <1>5, <2>1
  <2>8. CASE piece.last
    <3>1. decoded' = Append(FlushedTo(pts), buf) /\ privbuf' = <<>> /\ coming' = <<>>
      BY <1>2, <1>4, <2>1, <2>8
    <3>2. /\ decoded' \in Seq(Seq(Piece))
          /\ \A k \in 1..Len(decoded') : decoded'[k] # <<>> /\ OfOneUnit(decoded'[k])
      BY <2>2, <2>3, <2>4, <3>1, OneMoreUnit
    <3>3. UnitTypeOK'
      BY <1>1, <1>2, <1>5, <2>1, <2>5, <2>7, <3>1, <3>2, EmptySeq DEF UnitTypeOK
    <3>4. OneUnitEach'
      <4>1. Len(privbuf') = 0 /\ lastpts'[2] <= unit'
        BY <1>1, <1>5, <2>7, <3>1, EmptySeq
      <4>2. \A i \in 1..Len(privbuf') : privbuf'[i].unit = lastpts'[2]
        BY <4>1
      <4>3. QED
        BY <1>7, <3>2, <4>1, <4>2 DEF OneUnitEach, OfOneUnit
    <3>5. HandedOver'
      <4>1. FlattenSeq(decoded') = received'
        BY <2>1, <2>2, <2>3, <2>5, <3>1, FlattenAppend
      <4>2. QED
        BY <2>1, <2>5, <3>1, <4>1, ConcatEmptySeq DEF HandedOver
    <3>6. WholeSoFar'
      BY <3>1 DEF WholeSoFar
    <3>7. AllWhole'
      <4>1. unit \in marred' \/ HandedWhole(unit, decoded')
        <5> SUFFICES ASSUME unit \notin marred' PROVE HandedWhole(unit, decoded')
          OBVIOUS
        <5>1. Len(decoded') \in 1..Len(decoded') /\ decoded'[Len(decoded')] = buf
          BY <2>2, <2>3, <3>1, AppendProperties, LenProperties
        <5>2. Head(buf).unit = unit /\ Last(buf) = piece
          BY <2>3, <2>4, SMTT(30) DEF Last
        <5>3. QED
          BY <1>4, <2>6, <2>8, <5>1, <5>2 DEF HandedWhole
      <4>2. \A u : HandedWhole(u, decoded) => HandedWhole(u, decoded')
        BY <2>2, <2>3, <3>1, HandedStays
      <4>3. QED
        BY <1>9, <4>1, <4>2
    <3>8. QED
      BY <1>2, <3>3, <3>4, <3>5, <3>6, <3>7
  <2>9. CASE ~piece.last
    <3>1. decoded' = FlushedTo(pts) /\ privbuf' = buf /\ coming' # <<>>
      BY <1>2, <1>4, <2>1, <2>9
    <3>2. UnitTypeOK'
      BY <1>1, <1>2, <1>5, <2>1, <2>2, <2>3, <2>5, <2>7, <3>1 DEF UnitTypeOK
    <3>3. OneUnitEach'
      <4>1. lastpts'[2] <= unit'
        BY <1>1, <1>5, <2>7
      <4>2. \A i \in 1..Len(privbuf') : privbuf'[i].unit = lastpts'[2]
        BY <2>4, <2>7, <3>1
      <4>3. QED
        BY <1>7, <2>2, <3>1, <4>1, <4>2, ZenonT(30) DEF OneUnitEach, OfOneUnit
    <3>4. HandedOver'
      BY <2>1, <2>5, <3>1 DEF HandedOver
    <3>5. WholeSoFar'
      <4>1. coming'[1].part = p.part + 1 /\ p.part + 1 # 1 /\ (p.part + 1) - 1 = p.part
        BY <1>2, <3>1
      <4>2. FramedSizes(coming)' = FramedSizes(Tail(coming))
        BY <1>1 DEF FramedSizes
      <4>3. Size(privbuf)' = Size(buf)
        BY <3>1 DEF Size
      <4>4. QED
        BY <1>1, <2>1, <2>6, <3>1, <4>1, <4>2, <4>3 DEF WholeSoFar
    <3>6. AllWhole'
      BY <1>9, <2>2, <3>1
    <3>7. QED
      BY <1>2, <3>2, <3>3, <3>4, <3>5, <3>6
  <2>10. QED
    BY <2>8, <2>9
<1>12. CASE piece.size > 0 /\ buffer_overflow(piece, pts)
  <2>1. /\ Size(FlushedBuf(pts)) + piece.size > PrivateSize
        /\ decoded' = Append(decoded, privbuf) /\ privbuf' = <<>>
        /\ lastpts' = lastpts /\ received' = received
    BY <1>12 DEF buffer_overflow, play_video_priv
  <2>2. FlushedBuf(pts) \in Seq(Piece) /\ Size(FlushedBuf(pts)) \in Nat
    BY <1>6, SizeType DEF HandingOver
  <2>3. privbuf # <<>>
    <3> SUFFICES ASSUME privbuf = <<>> PROVE FALSE
      OBVIOUS
    <3>1. FlushedBuf(pts) = <<>>
      BY DEF FlushedBuf
    <3>2. QED
      BY <1>4, <2>1, <3>1, SizeEmpty, UnitSizesFit
  <2>4. unit \in marred'
    <3> SUFFICES ASSUME unit \notin marred' PROVE FALSE
      OBVIOUS
    <3>1. unit \notin marred
      BY <1>5
    <3>2. Size(FlushedBuf(pts)) + Total(FramedSizes(coming)) <= PrivateSize
      BY <1>1, <3>1, RoomForPiece
    <3>3. size = p.size
      <4>1. ~(size < p.size)
        BY <1>3
      <4>2. size <= p.size
        BY <1>2, UnitSizesFit DEF size, Piece
      <4>3. p.size \in Nat
        BY <1>2 DEF Piece
      <4>4. QED
        BY <1>4, <4>1, <4>2, <4>3
    <3>4. Total(FramedSizes(coming)) = (p.size + video_framing) + Total(FramedSizes(Tail(coming)))
      BY <1>1, <1>4, FramedHead DEF UnitTypeOK, p
    <3>5. Total(FramedSizes(Tail(coming))) \in Nat
      BY <1>1, <1>2, <1>4, FramedType
    <3>6. piece.size = p.size + video_framing /\ p.size \in Nat
      BY <1>4, <3>3
    <3>7. QED
      BY <1>4, <2>1, <2>2, <3>2, <3>4, <3>5, <3>6, UnitSizesFit, SMTT(30)
  <2>5. privbuf \in Seq(Piece) /\ decoded \in Seq(Seq(Piece)) /\ received \in Seq(Piece)
    BY DEF UnitTypeOK
  <2>6. OfOneUnit(privbuf)
    BY DEF OneUnitEach, OfOneUnit
  <2>7. \A k \in 1..Len(decoded) : decoded[k] # <<>> /\ OfOneUnit(decoded[k])
    BY DEF OneUnitEach
  <2>8. /\ decoded' \in Seq(Seq(Piece))
        /\ \A k \in 1..Len(decoded') : decoded'[k] # <<>> /\ OfOneUnit(decoded'[k])
    BY <2>1, <2>3, <2>5, <2>6, <2>7, OneMoreUnit
  <2>9. UnitTypeOK'
    BY <1>1, <1>2, <1>5, <2>1, <2>8, EmptySeq DEF UnitTypeOK
  <2>10. OneUnitEach'
    <3>1. Len(privbuf') = 0 /\ lastpts'[2] <= unit'
      BY <1>1, <1>8, <2>1, EmptySeq
    <3>2. \A i \in 1..Len(privbuf') : privbuf'[i].unit = lastpts'[2]
      BY <3>1
    <3>3. QED
      BY <1>7, <2>8, <3>1, <3>2 DEF OneUnitEach, OfOneUnit
  <2>11. HandedOver'
    <3>1. FlattenSeq(decoded') = received
      BY <2>1, <2>5, FlattenAppend DEF HandedOver
    <3>2. QED
      BY <2>1, <2>5, <3>1, ConcatEmptySeq DEF HandedOver
  <2>12. WholeSoFar'
    BY <1>1, <2>4 DEF WholeSoFar
  <2>13. AllWhole'
    <3>1. \A u : HandedWhole(u, decoded) => HandedWhole(u, decoded')
      BY <2>1, <2>5, HandedStays
    <3>2. QED
      BY <1>9, <2>4, <3>1
  <2>14. QED
    BY <1>2, <2>9, <2>10, <2>11, <2>12, <2>13
<1>13. \/ empty_piece(piece)
       \/ piece.size > 0 /\ append_piece(piece, pts)
       \/ piece.size > 0 /\ buffer_overflow(piece, pts)
  BY <1>3, Zenon DEF play_video
<1>14. QED
  <2> HIDE DEF UnitInv
  <2>1. QED
    BY <1>10, <1>11, <1>12, <1>13

(* Every step keeps the invariant.                                         *)
LEMMA UnitInvNext == UnitInv /\ [UnitNext]_unitvars => UnitInv'
<1> SUFFICES ASSUME UnitInv, [UnitNext]_unitvars PROVE UnitInv'
  OBVIOUS
<1>1. CASE UNCHANGED unitvars
  <2> USE <1>1 DEF unitvars, UnitInv
  <2>1. UnitTypeOK' /\ EndOfUnit' /\ HandedOver'
    BY DEF UnitTypeOK, EndOfUnit, HandedOver
  <2>2. OneUnitEach'
    BY DEF OneUnitEach, OfOneUnit
  <2>3. WholeSoFar'
    BY DEF WholeSoFar, FramedSizes, Size
  <2>4. AllWhole'
    BY DEF AllWhole, HandedWhole
  <2>5. QED
    BY <2>1, <2>2, <2>3, <2>4
<1>2. QED
  BY <1>1, SendKeeps, LossKeeps, ReportKeeps, ArrivalKeeps DEF UnitNext

(* Whatever units and buffers there are, the decoder gets pieces of one    *)
(* unit at a time, each piece received once and in order, and every unit   *)
(* whole that arrives as it was sent.                                      *)
THEOREM UnitsWholeCorrect == UnitSpec => []UnitsWhole
<1>1. UnitInv => UnitsWhole
  <2> SUFFICES ASSUME UnitInv PROVE UnitsWhole
    OBVIOUS
  <2>1. FlattenSeq(Append(decoded, privbuf)) = received
    BY FlattenAppend DEF UnitInv, UnitTypeOK, HandedOver
  <2>2. QED
    BY <2>1 DEF UnitInv, OneUnitEach, AllWhole, HandedWhole, UnitsWhole
<1>2. QED
  BY <1>1, UnitInvInit, UnitInvNext, PTL DEF UnitSpec

=============================================================================
